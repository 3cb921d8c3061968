---------------------------- MODULE ProcessProofs ----------------------------
(***************************************************************************)
(* Proofs about processes, for any plan, paths, descriptors, limits,       *)
(* handles and number of calls: what holds a program that cosmic.spawn     *)
(* starts (module Spawn) and a process that restricts itself (module       *)
(* Restrict), and whose exit a handle answers (module Children).           *)
(***************************************************************************)
EXTENDS Spawn, Restrict, Children, FiniteSetTheorems, SequenceLemmas, TLAPS

(***************************************************************************)
(* Spawn.  Where each process of a start may be, and what each place says  *)
(* of what holds the program so far.                                       *)
(***************************************************************************)

ChildPlaces == {"none", "zombie", "gone", "exec", "pin", "idmap", "helper", "unshare", "told", "maps", "net",
                "pipes", "vfork_init", "ready", "vfork_program", "run"}
HelperPlaces == {"none", "zombie", "gone", "told"}
InitPlaces == {"none", "zombie", "gone", "caps", "setup", "asleep", "watch", "stuck"}
ProgramPlaces == {"none", "zombie", "gone", "root", "run", "exec"}
Quiet == {"none", "zombie", "gone", "exec"}

SpawnTypeOK ==
    /\ plan \subseteq Options
    /\ pc \in {"idle", "prepare", "rules", "start", "stopped", "reap", "read", "failed", "answered", "dead"}
    /\ place \in [Roles -> Live \cup Over]
    /\ place["child"] \in ChildPlaces /\ place["helper"] \in HelperPlaces
    /\ place["init"] \in InitPlaces /\ place["program"] \in ProgramPlaces
    /\ status \in Seq(Stages) /\ ready \in Seq(Stages \cup {"none"})
    /\ mem.init_error \in Stages \cup {"none"} /\ mem.map_error \in Stages \cup {"none"}
    /\ answer \in Stages \cup {"none", "pid"}

\* What the record of the shared memory consists of.
MemShape ==
    mem = [init |-> mem.init, program |-> mem.program, init_error |-> mem.init_error,
           map_error |-> mem.map_error, mapped |-> mem.mapped, lost |-> mem.lost]

\* Before the child is started there is nothing of it.
Unbegun ==
    /\ pc = "idle" => parent = {}
    /\ pc \in {"idle", "prepare", "rules", "start"} =>
         /\ answer = "none" /\ status = <<>> /\ pair = "none" /\ mem = NoMem
         /\ place = [r \in Roles |-> "none"]
    /\ pc \in {"idle", "prepare", "rules"} => holds = {}
    /\ pc \notin {"idle", "answered", "dead"} \/ place["child"] # "none" => Admitted(plan)
    /\ place["child"] = "none" => \A r \in Roles : place[r] = "none"

\* Who is there beside whom: the program comes after the init, and both
\* while the child is stopped for them, unless it was killed there.
Beside ==
    /\ place["child"] \in {"pin", "idmap", "helper", "unshare", "told", "maps", "net", "pipes", "run", "exec"} =>
         place["init"] = "none"
    /\ place["child"] \in {"run", "exec"} => ~Unveiling
    /\ place["init"] # "none" => Unveiling /\ (mem.init \/ place["child"] = "vfork_init" \/ mem.lost)
    /\ place["program"] # "none" => /\ place["init"] # "none" /\ mem.init
                                    /\ mem.program \/ place["child"] = "vfork_program" \/ mem.lost
    /\ place["child"] \in {"vfork_init", "ready"} => place["program"] = "none"
    /\ place["child"] = "vfork_program" => place["program"] # "none"
    /\ mem.program => place["child"] \in Over /\ place["program"] \in Quiet \ {"none"}
    /\ mem.init => place["child"] \in Over \cup {"ready", "vfork_program"}
    /\ place["child"] \in {"ready", "vfork_program"} => mem.init
    /\ place["child"] \in {"idmap", "helper", "unshare", "told"} => Unveiling

\* What a failure written says of who may still write.
Wrote ==
    /\ Len(status) <= 1
    /\ status # <<>> => /\ place["child"] \in {"zombie", "gone", "vfork_program"}
                        /\ place["program"] \in Over

\* What holds the program, at each place on the way to its exec.
Held ==
    /\ place["child"] = "told" /\ ready # <<>> => ready[1] # "none"
    /\ place["child"] = "told" /\ ready = <<>> => "namespaces" \in holds
    /\ place["child"] \in {"maps", "pipes", "vfork_init", "ready", "vfork_program"} => Unveiling /\ "namespaces" \in holds
    /\ place["child"] = "net" => (Unveiling => "namespaces" \in holds) /\ Has("offline")
    /\ place["child"] \in {"pipes", "vfork_init", "ready", "vfork_program"} /\ Has("offline") => "offline" \in holds
    /\ place["program"] # "none" => Unveiling /\ "namespaces" \in holds /\ (Has("offline") => "offline" \in holds)
    /\ place["program"] \in {"run", "exec"} => {"root", "no_capabilities"} \cup (plan \cap {"user"}) \subseteq holds
    /\ place["child"] \in {"run", "exec"} /\ Has("offline") => {"offline", "namespaces", "no_capabilities"} \subseteq holds
    /\ "exec" \in {place["child"], place["program"]} => RunHolds \subseteq holds

\* A root that shows a socket is one the guard did not ask to look at.
Guarded ==
    /\ "held_unix" \in holds /\ ~(Abi9 /\ Has("grants")) => "unix_guard" \in holds
    /\ "socket" \in holds => "unix_guard" \notin holds
    /\ "litter" \in holds => ~mem.mapped /\ place["program"] # "none"

\* What the parent has done once its child ran.
AfterChild ==
    /\ pc \in {"reap", "read", "failed", "answered"} => place["child"] \in Quiet
    /\ pc = "reap" => Unveiling
    /\ pc \in {"read", "failed"} /\ Unveiling => place["child"] = "gone"
    /\ pc \in {"read", "failed", "answered"} => place["program"] \in Quiet
    /\ pc \in {"read", "failed", "answered"} /\ ~mem.program => place["program"] # "exec"
    /\ pc \in {"read", "failed", "answered"} /\ ~mem.lost /\ place["init"] \notin {"none", "gone"} => pair # "none"
    /\ pc \in {"failed", "answered"} => parent \subseteq {"root"} /\ ("root" \in parent => ~mem.mapped)
    /\ pc \notin {"answered", "dead"} => answer = "none"
    /\ pc = "answered" => answer # "none"
    /\ answer = "pid" => status = <<>> /\ place["child"] \in Quiet /\ place["program"] \in Quiet
    /\ answer \in Stages => place["child"] \in Over /\ place["program"] \in Over
    /\ pc = "answered" /\ answer # "pid" /\ ~mem.lost =>
         place["child"] \in {"none", "gone"} /\ place["program"] \in {"none", "gone"}

SpawnInv == SpawnTypeOK /\ MemShape /\ Unbegun /\ Beside /\ Wrote /\ Held /\ Guarded /\ AfterChild

\* The places, stages and options are spelt out in what follows.
USE DEF Roles, Live, Over, Stages, Quiet, ChildPlaces, HelperPlaces, InitPlaces, ProgramPlaces, Has, Unveiling, RunHolds, NoMem, Admitted, Options, Rest

LEMMA SpawnPinDescriptors ==
  ASSUME SpawnInv, PinDescriptors
  PROVE  SpawnInv'
<1>1. SpawnTypeOK'
  BY DEF SpawnInv, SpawnTypeOK, MemShape, Unbegun, Beside, Wrote, Held, Guarded, AfterChild,
    PinDescriptors, ChildAt, ChildFails, Report, ChildGoes
<1>2. MemShape'
  BY DEF SpawnInv, SpawnTypeOK, MemShape, Unbegun, Beside, Wrote, Held, Guarded, AfterChild,
    PinDescriptors, ChildAt, ChildFails, Report, ChildGoes
<1>3. Unbegun'
  BY DEF SpawnInv, SpawnTypeOK, MemShape, Unbegun, Beside, Wrote, Held, Guarded, AfterChild,
    PinDescriptors, ChildAt, ChildFails, Report, ChildGoes
<1>4. Beside'
  BY DEF SpawnInv, SpawnTypeOK, MemShape, Unbegun, Beside, Wrote, Held, Guarded, AfterChild,
    PinDescriptors, ChildAt, ChildFails, Report, ChildGoes
<1>5. Wrote'
  BY DEF SpawnInv, SpawnTypeOK, MemShape, Unbegun, Beside, Wrote, Held, Guarded, AfterChild,
    PinDescriptors, ChildAt, ChildFails, Report, ChildGoes
<1>6. Held'
  BY DEF SpawnInv, SpawnTypeOK, MemShape, Unbegun, Beside, Wrote, Held, Guarded, AfterChild,
    PinDescriptors, ChildAt, ChildFails, Report, ChildGoes
<1>7. Guarded'
  BY DEF SpawnInv, SpawnTypeOK, MemShape, Unbegun, Beside, Wrote, Held, Guarded, AfterChild,
    PinDescriptors, ChildAt, ChildFails, Report, ChildGoes
<1>8. AfterChild'
  BY DEF SpawnInv, SpawnTypeOK, MemShape, Unbegun, Beside, Wrote, Held, Guarded, AfterChild,
    PinDescriptors, ChildAt, ChildFails, Report, ChildGoes
<1> QED BY <1>1, <1>2, <1>3, <1>4, <1>5, <1>6, <1>7, <1>8 DEF SpawnInv

LEMMA SpawnIdmapTrees ==
  ASSUME SpawnInv, IdmapTrees
  PROVE  SpawnInv'
<1>1. SpawnTypeOK'
  BY DEF SpawnInv, SpawnTypeOK, MemShape, Unbegun, Beside, Wrote, Held, Guarded, AfterChild,
    IdmapTrees, ChildAt, ChildFails, Report, ChildGoes, Staged
<1>2. MemShape'
  BY DEF SpawnInv, SpawnTypeOK, MemShape, Unbegun, Beside, Wrote, Held, Guarded, AfterChild,
    IdmapTrees, ChildAt, ChildFails, Report, ChildGoes, Staged
<1>3. Unbegun'
  BY DEF SpawnInv, SpawnTypeOK, MemShape, Unbegun, Beside, Wrote, Held, Guarded, AfterChild,
    IdmapTrees, ChildAt, ChildFails, Report, ChildGoes, Staged
<1>4. Beside'
  BY DEF SpawnInv, SpawnTypeOK, MemShape, Unbegun, Beside, Wrote, Held, Guarded, AfterChild,
    IdmapTrees, ChildAt, ChildFails, Report, ChildGoes, Staged
<1>5. Wrote'
  BY DEF SpawnInv, SpawnTypeOK, MemShape, Unbegun, Beside, Wrote, Held, Guarded, AfterChild,
    IdmapTrees, ChildAt, ChildFails, Report, ChildGoes, Staged
<1>6. Held'
  BY DEF SpawnInv, SpawnTypeOK, MemShape, Unbegun, Beside, Wrote, Held, Guarded, AfterChild,
    IdmapTrees, ChildAt, ChildFails, Report, ChildGoes, Staged
<1>7. Guarded'
  BY DEF SpawnInv, SpawnTypeOK, MemShape, Unbegun, Beside, Wrote, Held, Guarded, AfterChild,
    IdmapTrees, ChildAt, ChildFails, Report, ChildGoes, Staged
<1>8. AfterChild'
  BY DEF SpawnInv, SpawnTypeOK, MemShape, Unbegun, Beside, Wrote, Held, Guarded, AfterChild,
    IdmapTrees, ChildAt, ChildFails, Report, ChildGoes, Staged
<1> QED BY <1>1, <1>2, <1>3, <1>4, <1>5, <1>6, <1>7, <1>8 DEF SpawnInv

LEMMA SpawnStartHelper ==
  ASSUME SpawnInv, StartHelper
  PROVE  SpawnInv'
<1>1. SpawnTypeOK'
  BY DEF SpawnInv, SpawnTypeOK, MemShape, Unbegun, Beside, Wrote, Held, Guarded, AfterChild,
    StartHelper, ChildAt, ChildFails, Report
<1>2. MemShape'
  BY DEF SpawnInv, SpawnTypeOK, MemShape, Unbegun, Beside, Wrote, Held, Guarded, AfterChild,
    StartHelper, ChildAt, ChildFails, Report
<1>3. Unbegun'
  BY DEF SpawnInv, SpawnTypeOK, MemShape, Unbegun, Beside, Wrote, Held, Guarded, AfterChild,
    StartHelper, ChildAt, ChildFails, Report
<1>4. Beside'
  BY DEF SpawnInv, SpawnTypeOK, MemShape, Unbegun, Beside, Wrote, Held, Guarded, AfterChild,
    StartHelper, ChildAt, ChildFails, Report
<1>5. Wrote'
  BY DEF SpawnInv, SpawnTypeOK, MemShape, Unbegun, Beside, Wrote, Held, Guarded, AfterChild,
    StartHelper, ChildAt, ChildFails, Report
<1>6. Held'
  BY DEF SpawnInv, SpawnTypeOK, MemShape, Unbegun, Beside, Wrote, Held, Guarded, AfterChild,
    StartHelper, ChildAt, ChildFails, Report
<1>7. Guarded'
  BY DEF SpawnInv, SpawnTypeOK, MemShape, Unbegun, Beside, Wrote, Held, Guarded, AfterChild,
    StartHelper, ChildAt, ChildFails, Report
<1>8. AfterChild'
  BY DEF SpawnInv, SpawnTypeOK, MemShape, Unbegun, Beside, Wrote, Held, Guarded, AfterChild,
    StartHelper, ChildAt, ChildFails, Report
<1> QED BY <1>1, <1>2, <1>3, <1>4, <1>5, <1>6, <1>7, <1>8 DEF SpawnInv

LEMMA SpawnUnshare ==
  ASSUME SpawnInv, Unshare
  PROVE  SpawnInv'
<1>a. Staged("namespace") \in Stages
  BY DEF Staged
<1>b. <<>> \in Seq(Stages \cup {"none"}) /\ <<Staged("namespace")>> \in Seq(Stages \cup {"none"})
  BY <1>a
<1>c. ready' \in Seq(Stages \cup {"none"})
  BY <1>b DEF Unshare
<1>1. SpawnTypeOK'
  BY <1>c DEF SpawnInv, SpawnTypeOK, Unshare, ChildAt, ChildGoes
<1>2. MemShape'
  BY DEF SpawnInv, SpawnTypeOK, MemShape, Unbegun, Beside, Wrote, Held, Guarded, AfterChild,
    Unshare, ChildAt, ChildGoes, Staged
<1>3. Unbegun'
  BY DEF SpawnInv, SpawnTypeOK, MemShape, Unbegun, Beside, Wrote, Held, Guarded, AfterChild,
    Unshare, ChildAt, ChildGoes, Staged
<1>4. Beside'
  BY DEF SpawnInv, SpawnTypeOK, MemShape, Unbegun, Beside, Wrote, Held, Guarded, AfterChild,
    Unshare, ChildAt, ChildGoes, Staged
<1>5. Wrote'
  BY DEF SpawnInv, SpawnTypeOK, MemShape, Unbegun, Beside, Wrote, Held, Guarded, AfterChild,
    Unshare, ChildAt, ChildGoes, Staged
<1>6. Held'
  BY DEF SpawnInv, SpawnTypeOK, MemShape, Unbegun, Beside, Wrote, Held, Guarded, AfterChild,
    Unshare, ChildAt, ChildGoes, Staged
<1>7. Guarded'
  BY DEF SpawnInv, SpawnTypeOK, MemShape, Unbegun, Beside, Wrote, Held, Guarded, AfterChild,
    Unshare, ChildAt, ChildGoes, Staged
<1>8. AfterChild'
  BY DEF SpawnInv, SpawnTypeOK, MemShape, Unbegun, Beside, Wrote, Held, Guarded, AfterChild,
    Unshare, ChildAt, ChildGoes, Staged
<1> QED BY <1>1, <1>2, <1>3, <1>4, <1>5, <1>6, <1>7, <1>8 DEF SpawnInv

LEMMA SpawnMapFromOutside ==
  ASSUME SpawnInv, MapFromOutside
  PROVE  SpawnInv'
<1>1. SpawnTypeOK'
  BY DEF SpawnInv, SpawnTypeOK, MemShape, Unbegun, Beside, Wrote, Held, Guarded, AfterChild,
    MapFromOutside, ChildAt
<1>2. MemShape'
  BY DEF SpawnInv, SpawnTypeOK, MemShape, Unbegun, Beside, Wrote, Held, Guarded, AfterChild,
    MapFromOutside, ChildAt
<1>3. Unbegun'
  BY DEF SpawnInv, SpawnTypeOK, MemShape, Unbegun, Beside, Wrote, Held, Guarded, AfterChild,
    MapFromOutside, ChildAt
<1>4. Beside'
  BY DEF SpawnInv, SpawnTypeOK, MemShape, Unbegun, Beside, Wrote, Held, Guarded, AfterChild,
    MapFromOutside, ChildAt
<1>5. Wrote'
  BY DEF SpawnInv, SpawnTypeOK, MemShape, Unbegun, Beside, Wrote, Held, Guarded, AfterChild,
    MapFromOutside, ChildAt
<1>6. Held'
  BY DEF SpawnInv, SpawnTypeOK, MemShape, Unbegun, Beside, Wrote, Held, Guarded, AfterChild,
    MapFromOutside, ChildAt
<1>7. Guarded'
  BY DEF SpawnInv, SpawnTypeOK, MemShape, Unbegun, Beside, Wrote, Held, Guarded, AfterChild,
    MapFromOutside, ChildAt
<1>8. AfterChild'
  BY DEF SpawnInv, SpawnTypeOK, MemShape, Unbegun, Beside, Wrote, Held, Guarded, AfterChild,
    MapFromOutside, ChildAt
<1> QED BY <1>1, <1>2, <1>3, <1>4, <1>5, <1>6, <1>7, <1>8 DEF SpawnInv

LEMMA SpawnReapHelper ==
  ASSUME SpawnInv, ReapHelper
  PROVE  SpawnInv'
<1>1. SpawnTypeOK'
  BY DEF SpawnInv, SpawnTypeOK, MemShape, Unbegun, Beside, Wrote, Held, Guarded, AfterChild,
    ReapHelper, ChildAt
<1>2. MemShape'
  BY DEF SpawnInv, SpawnTypeOK, MemShape, Unbegun, Beside, Wrote, Held, Guarded, AfterChild,
    ReapHelper, ChildAt
<1>3. Unbegun'
  BY DEF SpawnInv, SpawnTypeOK, MemShape, Unbegun, Beside, Wrote, Held, Guarded, AfterChild,
    ReapHelper, ChildAt
<1>4. Beside'
  BY DEF SpawnInv, SpawnTypeOK, MemShape, Unbegun, Beside, Wrote, Held, Guarded, AfterChild,
    ReapHelper, ChildAt
<1>5. Wrote'
  BY DEF SpawnInv, SpawnTypeOK, MemShape, Unbegun, Beside, Wrote, Held, Guarded, AfterChild,
    ReapHelper, ChildAt
<1>6. Held'
  BY DEF SpawnInv, SpawnTypeOK, MemShape, Unbegun, Beside, Wrote, Held, Guarded, AfterChild,
    ReapHelper, ChildAt
<1>7. Guarded'
  BY DEF SpawnInv, SpawnTypeOK, MemShape, Unbegun, Beside, Wrote, Held, Guarded, AfterChild,
    ReapHelper, ChildAt
<1>8. AfterChild'
  BY DEF SpawnInv, SpawnTypeOK, MemShape, Unbegun, Beside, Wrote, Held, Guarded, AfterChild,
    ReapHelper, ChildAt
<1> QED BY <1>1, <1>2, <1>3, <1>4, <1>5, <1>6, <1>7, <1>8 DEF SpawnInv

LEMMA SpawnMapIds ==
  ASSUME SpawnInv, MapIds
  PROVE  SpawnInv'
<1>a. PICK m : mem' = mem \/ mem' = [mem EXCEPT !.mapped = m]
  BY Zenon DEF MapIds
<1>b. /\ place["child"] = "maps" /\ UNCHANGED <<ready, holds, Rest>>
      /\ \/ place' = [place EXCEPT !["child"] = "zombie"] /\ status' = Append(status, Staged("namespace"))
         \/ place' = [place EXCEPT !["child"] = IF Has("offline") THEN "net" ELSE "pipes"] /\ UNCHANGED status
  BY DEF MapIds, ChildAt, ChildFails, Report, ChildGoes
<1>1. SpawnTypeOK'
  BY <1>a, <1>b DEF SpawnInv, SpawnTypeOK, MemShape, Unbegun, Beside, Wrote, Held, Guarded,
    AfterChild, Staged
<1>2. MemShape'
  BY <1>a, <1>b DEF SpawnInv, SpawnTypeOK, MemShape, Unbegun, Beside, Wrote, Held, Guarded,
    AfterChild, Staged
<1>3. Unbegun'
  BY <1>a, <1>b DEF SpawnInv, SpawnTypeOK, MemShape, Unbegun, Beside, Wrote, Held, Guarded,
    AfterChild, Staged
<1>4. Beside'
  BY <1>a, <1>b DEF SpawnInv, SpawnTypeOK, MemShape, Unbegun, Beside, Wrote, Held, Guarded,
    AfterChild, Staged
<1>5. Wrote'
  BY <1>a, <1>b DEF SpawnInv, SpawnTypeOK, MemShape, Unbegun, Beside, Wrote, Held, Guarded,
    AfterChild, Staged
<1>6. Held'
  BY <1>a, <1>b DEF SpawnInv, SpawnTypeOK, MemShape, Unbegun, Beside, Wrote, Held, Guarded,
    AfterChild, Staged
<1>7. Guarded'
  BY <1>a, <1>b DEF SpawnInv, SpawnTypeOK, MemShape, Unbegun, Beside, Wrote, Held, Guarded,
    AfterChild, Staged
<1>8. AfterChild'
  BY <1>a, <1>b DEF SpawnInv, SpawnTypeOK, MemShape, Unbegun, Beside, Wrote, Held, Guarded,
    AfterChild, Staged
<1> QED BY <1>1, <1>2, <1>3, <1>4, <1>5, <1>6, <1>7, <1>8 DEF SpawnInv

LEMMA SpawnGoOffline ==
  ASSUME SpawnInv, GoOffline
  PROVE  SpawnInv'
<1>1. SpawnTypeOK'
  BY DEF SpawnInv, SpawnTypeOK, MemShape, Unbegun, Beside, Wrote, Held, Guarded, AfterChild,
    GoOffline, ChildAt, ChildFails, Report, ChildGoes, Staged, NetworkStages
<1>2. MemShape'
  BY DEF SpawnInv, SpawnTypeOK, MemShape, Unbegun, Beside, Wrote, Held, Guarded, AfterChild,
    GoOffline, ChildAt, ChildFails, Report, ChildGoes, Staged, NetworkStages
<1>3. Unbegun'
  BY DEF SpawnInv, SpawnTypeOK, MemShape, Unbegun, Beside, Wrote, Held, Guarded, AfterChild,
    GoOffline, ChildAt, ChildFails, Report, ChildGoes, Staged, NetworkStages
<1>4. Beside'
  BY DEF SpawnInv, SpawnTypeOK, MemShape, Unbegun, Beside, Wrote, Held, Guarded, AfterChild,
    GoOffline, ChildAt, ChildFails, Report, ChildGoes, Staged, NetworkStages
<1>5. Wrote'
  BY DEF SpawnInv, SpawnTypeOK, MemShape, Unbegun, Beside, Wrote, Held, Guarded, AfterChild,
    GoOffline, ChildAt, ChildFails, Report, ChildGoes, Staged, NetworkStages
<1>6. Held'
  BY DEF SpawnInv, SpawnTypeOK, MemShape, Unbegun, Beside, Wrote, Held, Guarded, AfterChild,
    GoOffline, ChildAt, ChildFails, Report, ChildGoes, Staged, NetworkStages
<1>7. Guarded'
  BY DEF SpawnInv, SpawnTypeOK, MemShape, Unbegun, Beside, Wrote, Held, Guarded, AfterChild,
    GoOffline, ChildAt, ChildFails, Report, ChildGoes, Staged, NetworkStages
<1>8. AfterChild'
  BY DEF SpawnInv, SpawnTypeOK, MemShape, Unbegun, Beside, Wrote, Held, Guarded, AfterChild,
    GoOffline, ChildAt, ChildFails, Report, ChildGoes, Staged, NetworkStages
<1> QED BY <1>1, <1>2, <1>3, <1>4, <1>5, <1>6, <1>7, <1>8 DEF SpawnInv

LEMMA SpawnCloneInit ==
  ASSUME SpawnInv, CloneInit
  PROVE  SpawnInv'
<1>1. SpawnTypeOK'
  BY DEF SpawnInv, SpawnTypeOK, MemShape, Unbegun, Beside, Wrote, Held, Guarded, AfterChild,
    CloneInit, ChildAt, ChildFails, Report
<1>2. MemShape'
  BY DEF SpawnInv, SpawnTypeOK, MemShape, Unbegun, Beside, Wrote, Held, Guarded, AfterChild,
    CloneInit, ChildAt, ChildFails, Report
<1>3. Unbegun'
  BY DEF SpawnInv, SpawnTypeOK, MemShape, Unbegun, Beside, Wrote, Held, Guarded, AfterChild,
    CloneInit, ChildAt, ChildFails, Report
<1>4. Beside'
  BY DEF SpawnInv, SpawnTypeOK, MemShape, Unbegun, Beside, Wrote, Held, Guarded, AfterChild,
    CloneInit, ChildAt, ChildFails, Report
<1>5. Wrote'
  BY DEF SpawnInv, SpawnTypeOK, MemShape, Unbegun, Beside, Wrote, Held, Guarded, AfterChild,
    CloneInit, ChildAt, ChildFails, Report
<1>6. Held'
  BY DEF SpawnInv, SpawnTypeOK, MemShape, Unbegun, Beside, Wrote, Held, Guarded, AfterChild,
    CloneInit, ChildAt, ChildFails, Report
<1>7. Guarded'
  BY DEF SpawnInv, SpawnTypeOK, MemShape, Unbegun, Beside, Wrote, Held, Guarded, AfterChild,
    CloneInit, ChildAt, ChildFails, Report
<1>8. AfterChild'
  BY DEF SpawnInv, SpawnTypeOK, MemShape, Unbegun, Beside, Wrote, Held, Guarded, AfterChild,
    CloneInit, ChildAt, ChildFails, Report
<1> QED BY <1>1, <1>2, <1>3, <1>4, <1>5, <1>6, <1>7, <1>8 DEF SpawnInv

LEMMA SpawnStartInit ==
  ASSUME SpawnInv, StartInit
  PROVE  SpawnInv'
<1>1. SpawnTypeOK'
  BY DEF SpawnInv, SpawnTypeOK, MemShape, Unbegun, Beside, Wrote, Held, Guarded, AfterChild,
    StartInit
<1>2. MemShape'
  BY DEF SpawnInv, SpawnTypeOK, MemShape, Unbegun, Beside, Wrote, Held, Guarded, AfterChild,
    StartInit
<1>3. Unbegun'
  BY DEF SpawnInv, SpawnTypeOK, MemShape, Unbegun, Beside, Wrote, Held, Guarded, AfterChild,
    StartInit
<1>4. Beside'
  BY DEF SpawnInv, SpawnTypeOK, MemShape, Unbegun, Beside, Wrote, Held, Guarded, AfterChild,
    StartInit
<1>5. Wrote'
  BY DEF SpawnInv, SpawnTypeOK, MemShape, Unbegun, Beside, Wrote, Held, Guarded, AfterChild,
    StartInit
<1>6. Held'
  BY DEF SpawnInv, SpawnTypeOK, MemShape, Unbegun, Beside, Wrote, Held, Guarded, AfterChild,
    StartInit
<1>7. Guarded'
  BY DEF SpawnInv, SpawnTypeOK, MemShape, Unbegun, Beside, Wrote, Held, Guarded, AfterChild,
    StartInit
<1>8. AfterChild'
  BY DEF SpawnInv, SpawnTypeOK, MemShape, Unbegun, Beside, Wrote, Held, Guarded, AfterChild,
    StartInit
<1> QED BY <1>1, <1>2, <1>3, <1>4, <1>5, <1>6, <1>7, <1>8 DEF SpawnInv

LEMMA SpawnInitStarted ==
  ASSUME SpawnInv, InitStarted
  PROVE  SpawnInv'
<1>1. SpawnTypeOK'
  BY DEF SpawnInv, SpawnTypeOK, MemShape, Unbegun, Beside, Wrote, Held, Guarded, AfterChild,
    InitStarted, ChildAt, ChildFails, Report, ChildGoes
<1>2. MemShape'
  BY DEF SpawnInv, SpawnTypeOK, MemShape, Unbegun, Beside, Wrote, Held, Guarded, AfterChild,
    InitStarted, ChildAt, ChildFails, Report, ChildGoes
<1>3. Unbegun'
  BY DEF SpawnInv, SpawnTypeOK, MemShape, Unbegun, Beside, Wrote, Held, Guarded, AfterChild,
    InitStarted, ChildAt, ChildFails, Report, ChildGoes
<1>4. Beside'
  BY DEF SpawnInv, SpawnTypeOK, MemShape, Unbegun, Beside, Wrote, Held, Guarded, AfterChild,
    InitStarted, ChildAt, ChildFails, Report, ChildGoes
<1>5. Wrote'
  BY DEF SpawnInv, SpawnTypeOK, MemShape, Unbegun, Beside, Wrote, Held, Guarded, AfterChild,
    InitStarted, ChildAt, ChildFails, Report, ChildGoes
<1>6. Held'
  BY DEF SpawnInv, SpawnTypeOK, MemShape, Unbegun, Beside, Wrote, Held, Guarded, AfterChild,
    InitStarted, ChildAt, ChildFails, Report, ChildGoes
<1>7. Guarded'
  BY DEF SpawnInv, SpawnTypeOK, MemShape, Unbegun, Beside, Wrote, Held, Guarded, AfterChild,
    InitStarted, ChildAt, ChildFails, Report, ChildGoes
<1>8. AfterChild'
  BY DEF SpawnInv, SpawnTypeOK, MemShape, Unbegun, Beside, Wrote, Held, Guarded, AfterChild,
    InitStarted, ChildAt, ChildFails, Report, ChildGoes
<1> QED BY <1>1, <1>2, <1>3, <1>4, <1>5, <1>6, <1>7, <1>8 DEF SpawnInv

LEMMA SpawnInitReady ==
  ASSUME SpawnInv, InitReady
  PROVE  SpawnInv'
<1>0. ready \in Seq(Stages \cup {"none"})
  BY DEF SpawnInv, SpawnTypeOK
<1>a. ready' \in Seq(Stages \cup {"none"})
  BY <1>0 DEF InitReady
<1>1. SpawnTypeOK'
  BY <1>a DEF SpawnInv, SpawnTypeOK, InitReady
<1>2. MemShape'
  BY DEF SpawnInv, SpawnTypeOK, MemShape, Unbegun, Beside, Wrote, Held, Guarded, AfterChild,
    InitReady
<1>3. Unbegun'
  BY DEF SpawnInv, SpawnTypeOK, MemShape, Unbegun, Beside, Wrote, Held, Guarded, AfterChild,
    InitReady
<1>4. Beside'
  BY DEF SpawnInv, SpawnTypeOK, MemShape, Unbegun, Beside, Wrote, Held, Guarded, AfterChild,
    InitReady
<1>5. Wrote'
  BY DEF SpawnInv, SpawnTypeOK, MemShape, Unbegun, Beside, Wrote, Held, Guarded, AfterChild,
    InitReady
<1>6. Held'
  BY DEF SpawnInv, SpawnTypeOK, MemShape, Unbegun, Beside, Wrote, Held, Guarded, AfterChild,
    InitReady
<1>7. Guarded'
  BY DEF SpawnInv, SpawnTypeOK, MemShape, Unbegun, Beside, Wrote, Held, Guarded, AfterChild,
    InitReady
<1>8. AfterChild'
  BY DEF SpawnInv, SpawnTypeOK, MemShape, Unbegun, Beside, Wrote, Held, Guarded, AfterChild,
    InitReady
<1> QED BY <1>1, <1>2, <1>3, <1>4, <1>5, <1>6, <1>7, <1>8 DEF SpawnInv

LEMMA SpawnCloneProgram ==
  ASSUME SpawnInv, CloneProgram
  PROVE  SpawnInv'
<1>1. SpawnTypeOK'
  BY DEF SpawnInv, SpawnTypeOK, MemShape, Unbegun, Beside, Wrote, Held, Guarded, AfterChild,
    CloneProgram, ChildAt, ChildFails, Report
<1>2. MemShape'
  BY DEF SpawnInv, SpawnTypeOK, MemShape, Unbegun, Beside, Wrote, Held, Guarded, AfterChild,
    CloneProgram, ChildAt, ChildFails, Report
<1>3. Unbegun'
  BY DEF SpawnInv, SpawnTypeOK, MemShape, Unbegun, Beside, Wrote, Held, Guarded, AfterChild,
    CloneProgram, ChildAt, ChildFails, Report
<1>4. Beside'
  BY DEF SpawnInv, SpawnTypeOK, MemShape, Unbegun, Beside, Wrote, Held, Guarded, AfterChild,
    CloneProgram, ChildAt, ChildFails, Report
<1>5. Wrote'
  BY DEF SpawnInv, SpawnTypeOK, MemShape, Unbegun, Beside, Wrote, Held, Guarded, AfterChild,
    CloneProgram, ChildAt, ChildFails, Report
<1>6. Held'
  BY DEF SpawnInv, SpawnTypeOK, MemShape, Unbegun, Beside, Wrote, Held, Guarded, AfterChild,
    CloneProgram, ChildAt, ChildFails, Report
<1>7. Guarded'
  BY DEF SpawnInv, SpawnTypeOK, MemShape, Unbegun, Beside, Wrote, Held, Guarded, AfterChild,
    CloneProgram, ChildAt, ChildFails, Report
<1>8. AfterChild'
  BY DEF SpawnInv, SpawnTypeOK, MemShape, Unbegun, Beside, Wrote, Held, Guarded, AfterChild,
    CloneProgram, ChildAt, ChildFails, Report
<1> QED BY <1>1, <1>2, <1>3, <1>4, <1>5, <1>6, <1>7, <1>8 DEF SpawnInv

LEMMA SpawnProgramStarted ==
  ASSUME SpawnInv, ProgramStarted
  PROVE  SpawnInv'
<1>1. SpawnTypeOK'
  BY DEF SpawnInv, SpawnTypeOK, MemShape, Unbegun, Beside, Wrote, Held, Guarded, AfterChild,
    ProgramStarted, ChildAt
<1>2. MemShape'
  BY DEF SpawnInv, SpawnTypeOK, MemShape, Unbegun, Beside, Wrote, Held, Guarded, AfterChild,
    ProgramStarted, ChildAt
<1>3. Unbegun'
  BY DEF SpawnInv, SpawnTypeOK, MemShape, Unbegun, Beside, Wrote, Held, Guarded, AfterChild,
    ProgramStarted, ChildAt
<1>4. Beside'
  BY DEF SpawnInv, SpawnTypeOK, MemShape, Unbegun, Beside, Wrote, Held, Guarded, AfterChild,
    ProgramStarted, ChildAt
<1>5. Wrote'
  BY DEF SpawnInv, SpawnTypeOK, MemShape, Unbegun, Beside, Wrote, Held, Guarded, AfterChild,
    ProgramStarted, ChildAt
<1>6. Held'
  BY DEF SpawnInv, SpawnTypeOK, MemShape, Unbegun, Beside, Wrote, Held, Guarded, AfterChild,
    ProgramStarted, ChildAt
<1>7. Guarded'
  BY DEF SpawnInv, SpawnTypeOK, MemShape, Unbegun, Beside, Wrote, Held, Guarded, AfterChild,
    ProgramStarted, ChildAt
<1>8. AfterChild'
  BY DEF SpawnInv, SpawnTypeOK, MemShape, Unbegun, Beside, Wrote, Held, Guarded, AfterChild,
    ProgramStarted, ChildAt
<1> QED BY <1>1, <1>2, <1>3, <1>4, <1>5, <1>6, <1>7, <1>8 DEF SpawnInv

LEMMA SpawnStartProgram ==
  ASSUME SpawnInv, StartProgram
  PROVE  SpawnInv'
<1>1. SpawnTypeOK'
  BY DEF SpawnInv, SpawnTypeOK, MemShape, Unbegun, Beside, Wrote, Held, Guarded, AfterChild,
    StartProgram, Report, BuildRoot, RootHolds, Litters, Rooted, ProcStages, Staged
<1>2. MemShape'
  BY DEF SpawnInv, SpawnTypeOK, MemShape, Unbegun, Beside, Wrote, Held, Guarded, AfterChild,
    StartProgram, Report, BuildRoot, RootHolds, Litters, Rooted, ProcStages, Staged
<1>3. Unbegun'
  BY DEF SpawnInv, SpawnTypeOK, MemShape, Unbegun, Beside, Wrote, Held, Guarded, AfterChild,
    StartProgram, Report, BuildRoot, RootHolds, Litters, Rooted, ProcStages, Staged
<1>4. Beside'
  BY DEF SpawnInv, SpawnTypeOK, MemShape, Unbegun, Beside, Wrote, Held, Guarded, AfterChild,
    StartProgram, Report, BuildRoot, RootHolds, Litters, Rooted, ProcStages, Staged
<1>5. Wrote'
  BY DEF SpawnInv, SpawnTypeOK, MemShape, Unbegun, Beside, Wrote, Held, Guarded, AfterChild,
    StartProgram, Report, BuildRoot, RootHolds, Litters, Rooted, ProcStages, Staged
<1>6. Held'
  BY DEF SpawnInv, SpawnTypeOK, MemShape, Unbegun, Beside, Wrote, Held, Guarded, AfterChild,
    StartProgram, Report, BuildRoot, RootHolds, Litters, Rooted, ProcStages, Staged
<1>7. Guarded'
  BY ZenonT(30) DEF SpawnInv, SpawnTypeOK, MemShape, Unbegun, Beside, Wrote, Held, Guarded, AfterChild,
    StartProgram, Report, BuildRoot, RootHolds, Litters, Rooted, ProcStages, Staged
<1>8. AfterChild'
  BY DEF SpawnInv, SpawnTypeOK, MemShape, Unbegun, Beside, Wrote, Held, Guarded, AfterChild,
    StartProgram, Report, BuildRoot, RootHolds, Litters, Rooted, ProcStages, Staged
<1> QED BY <1>1, <1>2, <1>3, <1>4, <1>5, <1>6, <1>7, <1>8 DEF SpawnInv

LEMMA SpawnInitWatches ==
  ASSUME SpawnInv, InitWatches
  PROVE  SpawnInv'
<1>1. SpawnTypeOK'
  BY DEF SpawnInv, SpawnTypeOK, MemShape, Unbegun, Beside, Wrote, Held, Guarded, AfterChild,
    InitWatches, StartedOpen
<1>2. MemShape'
  BY DEF SpawnInv, SpawnTypeOK, MemShape, Unbegun, Beside, Wrote, Held, Guarded, AfterChild,
    InitWatches, StartedOpen
<1>3. Unbegun'
  BY DEF SpawnInv, SpawnTypeOK, MemShape, Unbegun, Beside, Wrote, Held, Guarded, AfterChild,
    InitWatches, StartedOpen
<1>4. Beside'
  BY DEF SpawnInv, SpawnTypeOK, MemShape, Unbegun, Beside, Wrote, Held, Guarded, AfterChild,
    InitWatches, StartedOpen
<1>5. Wrote'
  BY DEF SpawnInv, SpawnTypeOK, MemShape, Unbegun, Beside, Wrote, Held, Guarded, AfterChild,
    InitWatches, StartedOpen
<1>6. Held'
  BY DEF SpawnInv, SpawnTypeOK, MemShape, Unbegun, Beside, Wrote, Held, Guarded, AfterChild,
    InitWatches, StartedOpen
<1>7. Guarded'
  BY DEF SpawnInv, SpawnTypeOK, MemShape, Unbegun, Beside, Wrote, Held, Guarded, AfterChild,
    InitWatches, StartedOpen
<1>8. AfterChild'
  BY DEF SpawnInv, SpawnTypeOK, MemShape, Unbegun, Beside, Wrote, Held, Guarded, AfterChild,
    InitWatches, StartedOpen
<1> QED BY <1>1, <1>2, <1>3, <1>4, <1>5, <1>6, <1>7, <1>8 DEF SpawnInv

LEMMA SpawnResolve ==
  ASSUME SpawnInv, Resolve
  PROVE  SpawnInv'
<1>1. SpawnTypeOK'
  BY DEF SpawnInv, SpawnTypeOK, MemShape, Unbegun, Beside, Wrote, Held, Guarded, AfterChild,
    Resolve, AnswerSpawn, Rooted
<1>2. MemShape'
  BY DEF SpawnInv, SpawnTypeOK, MemShape, Unbegun, Beside, Wrote, Held, Guarded, AfterChild,
    Resolve, AnswerSpawn, Rooted
<1>3. Unbegun'
  BY DEF SpawnInv, SpawnTypeOK, MemShape, Unbegun, Beside, Wrote, Held, Guarded, AfterChild,
    Resolve, AnswerSpawn, Rooted
<1>4. Beside'
  BY DEF SpawnInv, SpawnTypeOK, MemShape, Unbegun, Beside, Wrote, Held, Guarded, AfterChild,
    Resolve, AnswerSpawn, Rooted
<1>5. Wrote'
  BY DEF SpawnInv, SpawnTypeOK, MemShape, Unbegun, Beside, Wrote, Held, Guarded, AfterChild,
    Resolve, AnswerSpawn, Rooted
<1>6. Held'
  BY DEF SpawnInv, SpawnTypeOK, MemShape, Unbegun, Beside, Wrote, Held, Guarded, AfterChild,
    Resolve, AnswerSpawn, Rooted
<1>7. Guarded'
  BY DEF SpawnInv, SpawnTypeOK, MemShape, Unbegun, Beside, Wrote, Held, Guarded, AfterChild,
    Resolve, AnswerSpawn, Rooted
<1>8. AfterChild'
  BY DEF SpawnInv, SpawnTypeOK, MemShape, Unbegun, Beside, Wrote, Held, Guarded, AfterChild,
    Resolve, AnswerSpawn, Rooted
<1> QED BY <1>1, <1>2, <1>3, <1>4, <1>5, <1>6, <1>7, <1>8 DEF SpawnInv

LEMMA SpawnRules ==
  ASSUME SpawnInv, Rules
  PROVE  SpawnInv'
<1>1. SpawnTypeOK'
  BY DEF SpawnInv, SpawnTypeOK, MemShape, Unbegun, Beside, Wrote, Held, Guarded, AfterChild, Rules,
    AnswerSpawn, held_unix, unix_guard, unix_tmp, unix_bound
<1>2. MemShape'
  BY DEF SpawnInv, SpawnTypeOK, MemShape, Unbegun, Beside, Wrote, Held, Guarded, AfterChild, Rules,
    AnswerSpawn, held_unix, unix_guard, unix_tmp, unix_bound
<1>3. Unbegun'
  BY DEF SpawnInv, SpawnTypeOK, MemShape, Unbegun, Beside, Wrote, Held, Guarded, AfterChild, Rules,
    AnswerSpawn, held_unix, unix_guard, unix_tmp, unix_bound
<1>4. Beside'
  BY DEF SpawnInv, SpawnTypeOK, MemShape, Unbegun, Beside, Wrote, Held, Guarded, AfterChild, Rules,
    AnswerSpawn, held_unix, unix_guard, unix_tmp, unix_bound
<1>5. Wrote'
  BY DEF SpawnInv, SpawnTypeOK, MemShape, Unbegun, Beside, Wrote, Held, Guarded, AfterChild, Rules,
    AnswerSpawn, held_unix, unix_guard, unix_tmp, unix_bound
<1>6. Held'
  BY DEF SpawnInv, SpawnTypeOK, MemShape, Unbegun, Beside, Wrote, Held, Guarded, AfterChild, Rules,
    AnswerSpawn, held_unix, unix_guard, unix_tmp, unix_bound
<1>7. Guarded'
  BY DEF SpawnInv, SpawnTypeOK, MemShape, Unbegun, Beside, Wrote, Held, Guarded, AfterChild, Rules,
    AnswerSpawn, held_unix, unix_guard, unix_tmp, unix_bound
<1>8. AfterChild'
  BY DEF SpawnInv, SpawnTypeOK, MemShape, Unbegun, Beside, Wrote, Held, Guarded, AfterChild, Rules,
    AnswerSpawn, held_unix, unix_guard, unix_tmp, unix_bound
<1> QED BY <1>1, <1>2, <1>3, <1>4, <1>5, <1>6, <1>7, <1>8 DEF SpawnInv

LEMMA SpawnStartChild ==
  ASSUME SpawnInv, StartChild
  PROVE  SpawnInv'
<1>1. SpawnTypeOK'
  BY DEF SpawnInv, SpawnTypeOK, MemShape, Unbegun, Beside, Wrote, Held, Guarded, AfterChild,
    StartChild, AnswerSpawn
<1>2. MemShape'
  BY DEF SpawnInv, SpawnTypeOK, MemShape, Unbegun, Beside, Wrote, Held, Guarded, AfterChild,
    StartChild, AnswerSpawn
<1>3. Unbegun'
  BY DEF SpawnInv, SpawnTypeOK, MemShape, Unbegun, Beside, Wrote, Held, Guarded, AfterChild,
    StartChild, AnswerSpawn
<1>4. Beside'
  BY DEF SpawnInv, SpawnTypeOK, MemShape, Unbegun, Beside, Wrote, Held, Guarded, AfterChild,
    StartChild, AnswerSpawn
<1>5. Wrote'
  BY DEF SpawnInv, SpawnTypeOK, MemShape, Unbegun, Beside, Wrote, Held, Guarded, AfterChild,
    StartChild, AnswerSpawn
<1>6. Held'
  BY DEF SpawnInv, SpawnTypeOK, MemShape, Unbegun, Beside, Wrote, Held, Guarded, AfterChild,
    StartChild, AnswerSpawn
<1>7. Guarded'
  BY DEF SpawnInv, SpawnTypeOK, MemShape, Unbegun, Beside, Wrote, Held, Guarded, AfterChild,
    StartChild, AnswerSpawn
<1>8. AfterChild'
  BY DEF SpawnInv, SpawnTypeOK, MemShape, Unbegun, Beside, Wrote, Held, Guarded, AfterChild,
    StartChild, AnswerSpawn
<1> QED BY <1>1, <1>2, <1>3, <1>4, <1>5, <1>6, <1>7, <1>8 DEF SpawnInv

LEMMA SpawnResumeProgram ==
  ASSUME SpawnInv, ResumeProgram
  PROVE  SpawnInv'
<1>1. SpawnTypeOK'
  BY DEF SpawnInv, SpawnTypeOK, MemShape, Unbegun, Beside, Wrote, Held, Guarded, AfterChild,
    ResumeProgram, AnswerSpawn, Child
<1>2. MemShape'
  BY DEF SpawnInv, SpawnTypeOK, MemShape, Unbegun, Beside, Wrote, Held, Guarded, AfterChild,
    ResumeProgram, AnswerSpawn, Child
<1>3. Unbegun'
  BY DEF SpawnInv, SpawnTypeOK, MemShape, Unbegun, Beside, Wrote, Held, Guarded, AfterChild,
    ResumeProgram, AnswerSpawn, Child
<1>4. Beside'
  BY DEF SpawnInv, SpawnTypeOK, MemShape, Unbegun, Beside, Wrote, Held, Guarded, AfterChild,
    ResumeProgram, AnswerSpawn, Child
<1>5. Wrote'
  BY DEF SpawnInv, SpawnTypeOK, MemShape, Unbegun, Beside, Wrote, Held, Guarded, AfterChild,
    ResumeProgram, AnswerSpawn, Child
<1>6. Held'
  BY DEF SpawnInv, SpawnTypeOK, MemShape, Unbegun, Beside, Wrote, Held, Guarded, AfterChild,
    ResumeProgram, AnswerSpawn, Child
<1>7. Guarded'
  BY DEF SpawnInv, SpawnTypeOK, MemShape, Unbegun, Beside, Wrote, Held, Guarded, AfterChild,
    ResumeProgram, AnswerSpawn, Child
<1>8. AfterChild'
  BY DEF SpawnInv, SpawnTypeOK, MemShape, Unbegun, Beside, Wrote, Held, Guarded, AfterChild,
    ResumeProgram, AnswerSpawn, Child
<1> QED BY <1>1, <1>2, <1>3, <1>4, <1>5, <1>6, <1>7, <1>8 DEF SpawnInv

LEMMA SpawnRecordPair ==
  ASSUME SpawnInv, RecordPair
  PROVE  SpawnInv'
<1>1. SpawnTypeOK'
  BY DEF SpawnInv, SpawnTypeOK, MemShape, Unbegun, Beside, Wrote, Held, Guarded, AfterChild,
    RecordPair, EndSandboxInit, InitEnds, Child
<1>2. MemShape'
  BY DEF SpawnInv, SpawnTypeOK, MemShape, Unbegun, Beside, Wrote, Held, Guarded, AfterChild,
    RecordPair, EndSandboxInit, InitEnds, Child
<1>3. Unbegun'
  BY DEF SpawnInv, SpawnTypeOK, MemShape, Unbegun, Beside, Wrote, Held, Guarded, AfterChild,
    RecordPair, EndSandboxInit, InitEnds, Child
<1>4. Beside'
  BY DEF SpawnInv, SpawnTypeOK, MemShape, Unbegun, Beside, Wrote, Held, Guarded, AfterChild,
    RecordPair, EndSandboxInit, InitEnds, Child
<1>5. Wrote'
  BY DEF SpawnInv, SpawnTypeOK, MemShape, Unbegun, Beside, Wrote, Held, Guarded, AfterChild,
    RecordPair, EndSandboxInit, InitEnds, Child
<1>6. Held'
  BY DEF SpawnInv, SpawnTypeOK, MemShape, Unbegun, Beside, Wrote, Held, Guarded, AfterChild,
    RecordPair, EndSandboxInit, InitEnds, Child
<1>7. Guarded'
  BY DEF SpawnInv, SpawnTypeOK, MemShape, Unbegun, Beside, Wrote, Held, Guarded, AfterChild,
    RecordPair, EndSandboxInit, InitEnds, Child
<1>8. AfterChild'
  BY DEF SpawnInv, SpawnTypeOK, MemShape, Unbegun, Beside, Wrote, Held, Guarded, AfterChild,
    RecordPair, EndSandboxInit, InitEnds, Child
<1> QED BY <1>1, <1>2, <1>3, <1>4, <1>5, <1>6, <1>7, <1>8 DEF SpawnInv

LEMMA SpawnNoRoom ==
  ASSUME SpawnInv, NoRoom
  PROVE  SpawnInv'
<1>1. SpawnTypeOK'
  BY DEF SpawnInv, SpawnTypeOK, MemShape, Unbegun, Beside, Wrote, Held, Guarded, AfterChild,
    NoRoom, InitEnds
<1>2. MemShape'
  BY DEF SpawnInv, SpawnTypeOK, MemShape, Unbegun, Beside, Wrote, Held, Guarded, AfterChild,
    NoRoom, InitEnds
<1>3. Unbegun'
  BY DEF SpawnInv, SpawnTypeOK, MemShape, Unbegun, Beside, Wrote, Held, Guarded, AfterChild,
    NoRoom, InitEnds
<1>4. Beside'
  BY DEF SpawnInv, SpawnTypeOK, MemShape, Unbegun, Beside, Wrote, Held, Guarded, AfterChild,
    NoRoom, InitEnds
<1>5. Wrote'
  BY DEF SpawnInv, SpawnTypeOK, MemShape, Unbegun, Beside, Wrote, Held, Guarded, AfterChild,
    NoRoom, InitEnds
<1>6. Held'
  BY DEF SpawnInv, SpawnTypeOK, MemShape, Unbegun, Beside, Wrote, Held, Guarded, AfterChild,
    NoRoom, InitEnds
<1>7. Guarded'
  BY DEF SpawnInv, SpawnTypeOK, MemShape, Unbegun, Beside, Wrote, Held, Guarded, AfterChild,
    NoRoom, InitEnds
<1>8. AfterChild'
  BY DEF SpawnInv, SpawnTypeOK, MemShape, Unbegun, Beside, Wrote, Held, Guarded, AfterChild,
    NoRoom, InitEnds
<1> QED BY <1>1, <1>2, <1>3, <1>4, <1>5, <1>6, <1>7, <1>8 DEF SpawnInv

LEMMA SpawnReadStatus ==
  ASSUME SpawnInv, ReadStatus
  PROVE  SpawnInv'
<1>1. SpawnTypeOK'
  BY DEF SpawnInv, SpawnTypeOK, ReadStatus, AnswerSpawn, Child
<1>2. MemShape'
  BY DEF SpawnInv, SpawnTypeOK, MemShape, Unbegun, Beside, Wrote, Held, Guarded, AfterChild,
    ReadStatus, AnswerSpawn, Child, Pid, StatusWriters
<1>3. Unbegun'
  BY ZenonT(30) DEF SpawnInv, SpawnTypeOK, MemShape, Unbegun, Beside, Wrote, Held, Guarded, AfterChild,
    ReadStatus, AnswerSpawn, Child, Pid, StatusWriters
<1>4. Beside'
  BY DEF SpawnInv, SpawnTypeOK, MemShape, Unbegun, Beside, Wrote, Held, Guarded, AfterChild,
    ReadStatus, AnswerSpawn, Child, Pid, StatusWriters
<1>5. Wrote'
  BY DEF SpawnInv, SpawnTypeOK, MemShape, Unbegun, Beside, Wrote, Held, Guarded, AfterChild,
    ReadStatus, AnswerSpawn, Child, Pid, StatusWriters
<1>6. Held'
  BY DEF SpawnInv, SpawnTypeOK, MemShape, Unbegun, Beside, Wrote, Held, Guarded, AfterChild,
    ReadStatus, AnswerSpawn, Child, Pid, StatusWriters
<1>7. Guarded'
  BY DEF SpawnInv, SpawnTypeOK, MemShape, Unbegun, Beside, Wrote, Held, Guarded, AfterChild,
    ReadStatus, AnswerSpawn, Child, Pid, StatusWriters
<1>8. AfterChild'
  BY SMTT(30) DEF SpawnInv, SpawnTypeOK, MemShape, Unbegun, Beside, Wrote, Held, Guarded, AfterChild,
    ReadStatus, AnswerSpawn, Child, Pid, StatusWriters
<1> QED BY <1>1, <1>2, <1>3, <1>4, <1>5, <1>6, <1>7, <1>8 DEF SpawnInv

LEMMA SpawnFail ==
  ASSUME SpawnInv, Fail
  PROVE  SpawnInv'
<1>a. answer' \in Stages /\ pc' = "answered" /\ pc = "failed"
  <2>1. status # <<>> => status[1] \in Stages
    BY DEF SpawnInv, SpawnTypeOK
  <2> QED BY <2>1 DEF Fail, AnswerSpawn
<1>b. UNCHANGED <<plan, parent, status, mem, ready, holds, shown, faults>>
  BY DEF Fail, Child
<1>c. Unveiling => place["child"] = "gone"
  BY <1>a DEF SpawnInv, AfterChild
<1>d. CASE ~Unveiling
  <2>1. /\ place["program"] = "none" /\ place["init"] = "none"
        /\ place["child"] = "zombie" /\ place' = [place EXCEPT !["child"] = "gone"]
    BY <1>d DEF SpawnInv, SpawnTypeOK, Beside, Fail, Pid, Reap, EndSandboxInit, InitEnds
  <2> QED BY <1>a, <1>b, <1>d, <2>1
         DEF SpawnInv, SpawnTypeOK, MemShape, Unbegun, Beside, Wrote, Held, Guarded, AfterChild
<1>e. CASE Unveiling /\ ~mem.program
  <2>1. place' = place /\ pair' = pair
    BY <1>e DEF Fail, Pid
  <2> QED BY <1>a, <1>b, <1>c, <1>e, <2>1
         DEF SpawnInv, SpawnTypeOK, MemShape, Unbegun, Beside, Wrote, Held, Guarded, AfterChild
<1>f. CASE Unveiling /\ mem.program
  <2>1. /\ place["program"] = "zombie"
        /\ \/ place' = [place EXCEPT !["program"] = "gone"] /\ pair' = pair
           \/ place' = [place EXCEPT !["program"] = "gone", !["init"] = "gone"]
           \/ place' = [place EXCEPT !["program"] = "gone", !["init"] = "stuck"] /\ pair' = "ending"
    BY <1>f DEF SpawnInv, SpawnTypeOK, Fail, Pid, Reap, EndSandboxInit, InitEnds
  <2>2. place' \in [Roles -> Live \cup Over] /\ place'["program"] = "gone" /\ place'["child"] = "gone"
        /\ place'["helper"] = place["helper"] /\ place'["init"] \in {place["init"], "gone", "stuck"}
        /\ ((place'["init"] = place["init"] /\ pair' = pair) \/ place'["init"] = "gone" \/ pair' = "ending")
    BY <2>1, <1>c, <1>f DEF SpawnInv, SpawnTypeOK
  <2>3. mem.init /\ place["init"] # "none"
    BY <2>1 DEF SpawnInv, Beside
  <2> QED BY <1>a, <1>b, <1>c, <1>f, <2>2, <2>3
         DEF SpawnInv, SpawnTypeOK, MemShape, Unbegun, Beside, Wrote, Held, Guarded, AfterChild
<1> QED BY <1>d, <1>e, <1>f

LEMMA SpawnEndSandboxInits ==
  ASSUME SpawnInv, EndSandboxInits
  PROVE  SpawnInv'
<1>1. SpawnTypeOK'
  BY DEF SpawnInv, SpawnTypeOK, MemShape, Unbegun, Beside, Wrote, Held, Guarded, AfterChild,
    EndSandboxInits, Child
<1>2. MemShape'
  BY DEF SpawnInv, SpawnTypeOK, MemShape, Unbegun, Beside, Wrote, Held, Guarded, AfterChild,
    EndSandboxInits, Child
<1>3. Unbegun'
  BY DEF SpawnInv, SpawnTypeOK, MemShape, Unbegun, Beside, Wrote, Held, Guarded, AfterChild,
    EndSandboxInits, Child
<1>4. Beside'
  BY DEF SpawnInv, SpawnTypeOK, MemShape, Unbegun, Beside, Wrote, Held, Guarded, AfterChild,
    EndSandboxInits, Child
<1>5. Wrote'
  BY DEF SpawnInv, SpawnTypeOK, MemShape, Unbegun, Beside, Wrote, Held, Guarded, AfterChild,
    EndSandboxInits, Child
<1>6. Held'
  BY DEF SpawnInv, SpawnTypeOK, MemShape, Unbegun, Beside, Wrote, Held, Guarded, AfterChild,
    EndSandboxInits, Child
<1>7. Guarded'
  BY DEF SpawnInv, SpawnTypeOK, MemShape, Unbegun, Beside, Wrote, Held, Guarded, AfterChild,
    EndSandboxInits, Child
<1>8. AfterChild'
  BY DEF SpawnInv, SpawnTypeOK, MemShape, Unbegun, Beside, Wrote, Held, Guarded, AfterChild,
    EndSandboxInits, Child
<1> QED BY <1>1, <1>2, <1>3, <1>4, <1>5, <1>6, <1>7, <1>8 DEF SpawnInv

LEMMA SpawnProgramEnds ==
  ASSUME SpawnInv, ProgramEnds
  PROVE  SpawnInv'
<1>1. SpawnTypeOK'
  BY DEF SpawnInv, SpawnTypeOK, MemShape, Unbegun, Beside, Wrote, Held, Guarded, AfterChild,
    ProgramEnds, Pid
<1>2. MemShape'
  BY DEF SpawnInv, SpawnTypeOK, MemShape, Unbegun, Beside, Wrote, Held, Guarded, AfterChild,
    ProgramEnds, Pid
<1>3. Unbegun'
  BY DEF SpawnInv, SpawnTypeOK, MemShape, Unbegun, Beside, Wrote, Held, Guarded, AfterChild,
    ProgramEnds, Pid
<1>4. Beside'
  BY DEF SpawnInv, SpawnTypeOK, MemShape, Unbegun, Beside, Wrote, Held, Guarded, AfterChild,
    ProgramEnds, Pid
<1>5. Wrote'
  BY DEF SpawnInv, SpawnTypeOK, MemShape, Unbegun, Beside, Wrote, Held, Guarded, AfterChild,
    ProgramEnds, Pid
<1>6. Held'
  BY DEF SpawnInv, SpawnTypeOK, MemShape, Unbegun, Beside, Wrote, Held, Guarded, AfterChild,
    ProgramEnds, Pid
<1>7. Guarded'
  BY DEF SpawnInv, SpawnTypeOK, MemShape, Unbegun, Beside, Wrote, Held, Guarded, AfterChild,
    ProgramEnds, Pid
<1>8. AfterChild'
  BY DEF SpawnInv, SpawnTypeOK, MemShape, Unbegun, Beside, Wrote, Held, Guarded, AfterChild,
    ProgramEnds, Pid
<1> QED BY <1>1, <1>2, <1>3, <1>4, <1>5, <1>6, <1>7, <1>8 DEF SpawnInv

LEMMA SpawnUnstuck ==
  ASSUME SpawnInv, Unstuck
  PROVE  SpawnInv'
<1>1. SpawnTypeOK'
  BY DEF SpawnInv, SpawnTypeOK, MemShape, Unbegun, Beside, Wrote, Held, Guarded, AfterChild,
    Unstuck
<1>2. MemShape'
  BY DEF SpawnInv, SpawnTypeOK, MemShape, Unbegun, Beside, Wrote, Held, Guarded, AfterChild,
    Unstuck
<1>3. Unbegun'
  BY DEF SpawnInv, SpawnTypeOK, MemShape, Unbegun, Beside, Wrote, Held, Guarded, AfterChild,
    Unstuck
<1>4. Beside'
  BY DEF SpawnInv, SpawnTypeOK, MemShape, Unbegun, Beside, Wrote, Held, Guarded, AfterChild,
    Unstuck
<1>5. Wrote'
  BY DEF SpawnInv, SpawnTypeOK, MemShape, Unbegun, Beside, Wrote, Held, Guarded, AfterChild,
    Unstuck
<1>6. Held'
  BY DEF SpawnInv, SpawnTypeOK, MemShape, Unbegun, Beside, Wrote, Held, Guarded, AfterChild,
    Unstuck
<1>7. Guarded'
  BY DEF SpawnInv, SpawnTypeOK, MemShape, Unbegun, Beside, Wrote, Held, Guarded, AfterChild,
    Unstuck
<1>8. AfterChild'
  BY DEF SpawnInv, SpawnTypeOK, MemShape, Unbegun, Beside, Wrote, Held, Guarded, AfterChild,
    Unstuck
<1> QED BY <1>1, <1>2, <1>3, <1>4, <1>5, <1>6, <1>7, <1>8 DEF SpawnInv

LEMMA SpawnPathChanges ==
  ASSUME SpawnInv, PathChanges
  PROVE  SpawnInv'
<1>1. SpawnTypeOK'
  BY DEF SpawnInv, SpawnTypeOK, MemShape, Unbegun, Beside, Wrote, Held, Guarded, AfterChild,
    PathChanges
<1>2. MemShape'
  BY DEF SpawnInv, SpawnTypeOK, MemShape, Unbegun, Beside, Wrote, Held, Guarded, AfterChild,
    PathChanges
<1>3. Unbegun'
  BY DEF SpawnInv, SpawnTypeOK, MemShape, Unbegun, Beside, Wrote, Held, Guarded, AfterChild,
    PathChanges
<1>4. Beside'
  BY DEF SpawnInv, SpawnTypeOK, MemShape, Unbegun, Beside, Wrote, Held, Guarded, AfterChild,
    PathChanges
<1>5. Wrote'
  BY DEF SpawnInv, SpawnTypeOK, MemShape, Unbegun, Beside, Wrote, Held, Guarded, AfterChild,
    PathChanges
<1>6. Held'
  BY DEF SpawnInv, SpawnTypeOK, MemShape, Unbegun, Beside, Wrote, Held, Guarded, AfterChild,
    PathChanges
<1>7. Guarded'
  BY DEF SpawnInv, SpawnTypeOK, MemShape, Unbegun, Beside, Wrote, Held, Guarded, AfterChild,
    PathChanges
<1>8. AfterChild'
  BY DEF SpawnInv, SpawnTypeOK, MemShape, Unbegun, Beside, Wrote, Held, Guarded, AfterChild,
    PathChanges
<1> QED BY <1>1, <1>2, <1>3, <1>4, <1>5, <1>6, <1>7, <1>8 DEF SpawnInv

LEMMA SpawnParentDies ==
  ASSUME SpawnInv, ParentDies
  PROVE  SpawnInv'
<1>1. SpawnTypeOK'
  BY DEF SpawnInv, SpawnTypeOK, MemShape, Unbegun, Beside, Wrote, Held, Guarded, AfterChild,
    ParentDies, InitEnds
<1>2. MemShape'
  BY DEF SpawnInv, SpawnTypeOK, MemShape, Unbegun, Beside, Wrote, Held, Guarded, AfterChild,
    ParentDies, InitEnds
<1>3. Unbegun'
  BY DEF SpawnInv, SpawnTypeOK, MemShape, Unbegun, Beside, Wrote, Held, Guarded, AfterChild,
    ParentDies, InitEnds
<1>4. Beside'
  BY DEF SpawnInv, SpawnTypeOK, MemShape, Unbegun, Beside, Wrote, Held, Guarded, AfterChild,
    ParentDies, InitEnds
<1>5. Wrote'
  BY DEF SpawnInv, SpawnTypeOK, MemShape, Unbegun, Beside, Wrote, Held, Guarded, AfterChild,
    ParentDies, InitEnds
<1>6. Held'
  BY DEF SpawnInv, SpawnTypeOK, MemShape, Unbegun, Beside, Wrote, Held, Guarded, AfterChild,
    ParentDies, InitEnds
<1>7. Guarded'
  BY DEF SpawnInv, SpawnTypeOK, MemShape, Unbegun, Beside, Wrote, Held, Guarded, AfterChild,
    ParentDies, InitEnds
<1>8. AfterChild'
  BY DEF SpawnInv, SpawnTypeOK, MemShape, Unbegun, Beside, Wrote, Held, Guarded, AfterChild,
    ParentDies, InitEnds
<1> QED BY <1>1, <1>2, <1>3, <1>4, <1>5, <1>6, <1>7, <1>8 DEF SpawnInv

LEMMA SpawnBegin ==
  ASSUME SpawnInv, NEW p \in Plans, Begin(p)
  PROVE  SpawnInv'
<1>1. SpawnTypeOK'
  BY PlansAssumption DEF SpawnInv, SpawnTypeOK, MemShape, Unbegun, Beside, Wrote, Held, Guarded,
    AfterChild, Begin, AnswerSpawn, PipeMade
<1>2. MemShape'
  BY PlansAssumption DEF SpawnInv, SpawnTypeOK, MemShape, Unbegun, Beside, Wrote, Held, Guarded,
    AfterChild, Begin, AnswerSpawn, PipeMade
<1>3. Unbegun'
  BY PlansAssumption DEF SpawnInv, SpawnTypeOK, MemShape, Unbegun, Beside, Wrote, Held, Guarded,
    AfterChild, Begin, AnswerSpawn, PipeMade
<1>4. Beside'
  BY PlansAssumption DEF SpawnInv, SpawnTypeOK, MemShape, Unbegun, Beside, Wrote, Held, Guarded,
    AfterChild, Begin, AnswerSpawn, PipeMade
<1>5. Wrote'
  BY PlansAssumption DEF SpawnInv, SpawnTypeOK, MemShape, Unbegun, Beside, Wrote, Held, Guarded,
    AfterChild, Begin, AnswerSpawn, PipeMade
<1>6. Held'
  BY PlansAssumption DEF SpawnInv, SpawnTypeOK, MemShape, Unbegun, Beside, Wrote, Held, Guarded,
    AfterChild, Begin, AnswerSpawn, PipeMade
<1>7. Guarded'
  BY PlansAssumption DEF SpawnInv, SpawnTypeOK, MemShape, Unbegun, Beside, Wrote, Held, Guarded,
    AfterChild, Begin, AnswerSpawn, PipeMade
<1>8. AfterChild'
  BY PlansAssumption DEF SpawnInv, SpawnTypeOK, MemShape, Unbegun, Beside, Wrote, Held, Guarded,
    AfterChild, Begin, AnswerSpawn, PipeMade
<1> QED BY <1>1, <1>2, <1>3, <1>4, <1>5, <1>6, <1>7, <1>8 DEF SpawnInv

LEMMA SpawnRunProgram ==
  ASSUME SpawnInv, NEW r \in {"child", "program"}, RunProgram(r)
  PROVE  SpawnInv'
<1>1. SpawnTypeOK'
  BY DEF SpawnInv, SpawnTypeOK, MemShape, Unbegun, Beside, Wrote, Held, Guarded, AfterChild,
    RunProgram, Report
<1>2. MemShape'
  BY DEF SpawnInv, SpawnTypeOK, MemShape, Unbegun, Beside, Wrote, Held, Guarded, AfterChild,
    RunProgram, Report
<1>3. Unbegun'
  BY DEF SpawnInv, SpawnTypeOK, MemShape, Unbegun, Beside, Wrote, Held, Guarded, AfterChild,
    RunProgram, Report
<1>4. Beside'
  BY DEF SpawnInv, SpawnTypeOK, MemShape, Unbegun, Beside, Wrote, Held, Guarded, AfterChild,
    RunProgram, Report
<1>5. Wrote'
  BY DEF SpawnInv, SpawnTypeOK, MemShape, Unbegun, Beside, Wrote, Held, Guarded, AfterChild,
    RunProgram, Report
<1>6. Held'
  BY DEF SpawnInv, SpawnTypeOK, MemShape, Unbegun, Beside, Wrote, Held, Guarded, AfterChild,
    RunProgram, Report
<1>7. Guarded'
  BY DEF SpawnInv, SpawnTypeOK, MemShape, Unbegun, Beside, Wrote, Held, Guarded, AfterChild,
    RunProgram, Report
<1>8. AfterChild'
  BY DEF SpawnInv, SpawnTypeOK, MemShape, Unbegun, Beside, Wrote, Held, Guarded, AfterChild,
    RunProgram, Report
<1> QED BY <1>1, <1>2, <1>3, <1>4, <1>5, <1>6, <1>7, <1>8 DEF SpawnInv

LEMMA SpawnWaitpid ==
  ASSUME SpawnInv, NEW any \in BOOLEAN, Waitpid(any)
  PROVE  SpawnInv'
<1>1. SpawnTypeOK'
  BY DEF SpawnInv, SpawnTypeOK, MemShape, Unbegun, Beside, Wrote, Held, Guarded, AfterChild,
    Waitpid, Reap, EndSandboxInit, InitEnds, Pid, Child
<1>2. MemShape'
  BY DEF SpawnInv, SpawnTypeOK, MemShape, Unbegun, Beside, Wrote, Held, Guarded, AfterChild,
    Waitpid, Reap, EndSandboxInit, InitEnds, Pid, Child
<1>3. Unbegun'
  BY DEF SpawnInv, SpawnTypeOK, MemShape, Unbegun, Beside, Wrote, Held, Guarded, AfterChild,
    Waitpid, Reap, EndSandboxInit, InitEnds, Pid, Child
<1>4. Beside'
  BY DEF SpawnInv, SpawnTypeOK, MemShape, Unbegun, Beside, Wrote, Held, Guarded, AfterChild,
    Waitpid, Reap, EndSandboxInit, InitEnds, Pid, Child
<1>5. Wrote'
  BY DEF SpawnInv, SpawnTypeOK, MemShape, Unbegun, Beside, Wrote, Held, Guarded, AfterChild,
    Waitpid, Reap, EndSandboxInit, InitEnds, Pid, Child
<1>6. Held'
  BY DEF SpawnInv, SpawnTypeOK, MemShape, Unbegun, Beside, Wrote, Held, Guarded, AfterChild,
    Waitpid, Reap, EndSandboxInit, InitEnds, Pid, Child
<1>7. Guarded'
  BY DEF SpawnInv, SpawnTypeOK, MemShape, Unbegun, Beside, Wrote, Held, Guarded, AfterChild,
    Waitpid, Reap, EndSandboxInit, InitEnds, Pid, Child
<1>8. AfterChild'
  BY DEF SpawnInv, SpawnTypeOK, MemShape, Unbegun, Beside, Wrote, Held, Guarded, AfterChild,
    Waitpid, Reap, EndSandboxInit, InitEnds, Pid, Child
<1> QED BY <1>1, <1>2, <1>3, <1>4, <1>5, <1>6, <1>7, <1>8 DEF SpawnInv

LEMMA SpawnRoleKilled ==
  ASSUME SpawnInv, NEW r \in Roles, RoleKilled(r)
  PROVE  SpawnInv'
<1>a. PICK b : mem' = [mem EXCEPT !.lost = b] /\ (mem.lost => b)
                 /\ (r = "child" /\ place["child"] \in {"vfork_init", "vfork_program"} => b)
  BY Zenon DEF RoleKilled, ChildAt
<1>b. /\ place[r] \in Live \ {"stuck"}
      /\ place' = IF r = "init" THEN InitEnds(place) ELSE [place EXCEPT ![r] = "zombie"]
      /\ UNCHANGED <<plan, pc, parent, pair, shown, answer, status, ready, holds>>
  BY DEF RoleKilled
<1>c. /\ mem'.lost = b /\ mem'.init = mem.init /\ mem'.program = mem.program /\ mem'.mapped = mem.mapped
      /\ mem'.init_error = mem.init_error /\ mem'.map_error = mem.map_error
  BY <1>a DEF SpawnInv, MemShape
<1>d. MemShape'
  BY <1>a, <1>c DEF SpawnInv, MemShape
<1>e. pc \in {"idle", "prepare", "rules", "start"} => FALSE
  BY <1>b DEF SpawnInv, Unbegun
<1>1. SpawnTypeOK'
  BY <1>a, <1>b, <1>c, <1>d, <1>e DEF SpawnInv, SpawnTypeOK, Unbegun, Beside, Wrote, Held, Guarded,
    AfterChild, InitEnds
<1>2. MemShape'
  BY <1>a, <1>b, <1>c, <1>d, <1>e DEF SpawnInv, SpawnTypeOK, Unbegun, Beside, Wrote, Held, Guarded,
    AfterChild, InitEnds
<1>3. Unbegun'
  BY <1>a, <1>b, <1>c, <1>d, <1>e DEF SpawnInv, SpawnTypeOK, Unbegun, Beside, Wrote, Held, Guarded,
    AfterChild, InitEnds
<1>4. Beside'
  BY <1>a, <1>b, <1>c, <1>d, <1>e DEF SpawnInv, SpawnTypeOK, Unbegun, Beside, Wrote, Held, Guarded,
    AfterChild, InitEnds
<1>5. Wrote'
  BY <1>a, <1>b, <1>c, <1>d, <1>e DEF SpawnInv, SpawnTypeOK, Unbegun, Beside, Wrote, Held, Guarded,
    AfterChild, InitEnds
<1>6. Held'
  BY <1>a, <1>b, <1>c, <1>d, <1>e DEF SpawnInv, SpawnTypeOK, Unbegun, Beside, Wrote, Held, Guarded,
    AfterChild, InitEnds
<1>7. Guarded'
  BY <1>a, <1>b, <1>c, <1>d, <1>e DEF SpawnInv, SpawnTypeOK, Unbegun, Beside, Wrote, Held, Guarded,
    AfterChild, InitEnds
<1>8. AfterChild'
  BY <1>a, <1>b, <1>c, <1>d, <1>e DEF SpawnInv, SpawnTypeOK, Unbegun, Beside, Wrote, Held, Guarded,
    AfterChild, InitEnds
<1> QED BY <1>1, <1>2, <1>3, <1>4, <1>5, <1>6, <1>7, <1>8 DEF SpawnInv

HIDE DEF Roles, Live, Over, Stages, Quiet, ChildPlaces, HelperPlaces, InitPlaces, ProgramPlaces, Has, Unveiling, RunHolds, NoMem, Admitted, Options, Rest

LEMMA SpawnStart == SpawnInit => SpawnInv
BY DEF SpawnInit, SpawnInv, SpawnTypeOK, MemShape, Unbegun, Beside, Wrote, Held, Guarded, AfterChild, Roles, Live,
       Over, Stages, Quiet, ChildPlaces, HelperPlaces, InitPlaces, ProgramPlaces, Has, Unveiling, RunHolds, NoMem, Options

LEMMA SpawnStep == SpawnInv /\ [SpawnNext]_spawnVars => SpawnInv'
<1> SUFFICES ASSUME SpawnInv, [SpawnNext]_spawnVars PROVE SpawnInv'
  OBVIOUS
<1>1. CASE UNCHANGED spawnVars
  BY <1>1 DEF spawnVars, SpawnInv, SpawnTypeOK, MemShape, Unbegun, Beside, Wrote, Held, Guarded, AfterChild,
              Unveiling, Has, RunHolds
<1>2. CASE \E p \in Plans : Begin(p)
  BY <1>2, SpawnBegin
<1>3. CASE ProcessStep
  BY <1>3, SpawnPinDescriptors, SpawnIdmapTrees, SpawnStartHelper, SpawnUnshare, SpawnMapFromOutside, SpawnReapHelper,
     SpawnMapIds, SpawnGoOffline, SpawnCloneInit, SpawnStartInit, SpawnInitStarted, SpawnInitReady, SpawnCloneProgram,
     SpawnProgramStarted, SpawnStartProgram, SpawnInitWatches, SpawnRunProgram DEF ProcessStep
<1>4. CASE ParentStep
  BY <1>4, SpawnResolve, SpawnRules, SpawnStartChild, SpawnResumeProgram, SpawnRecordPair, SpawnNoRoom,
     SpawnReadStatus, SpawnFail DEF ParentStep
<1>5. CASE (\E any \in BOOLEAN : Waitpid(any)) \/ EndSandboxInits
  BY <1>5, SpawnWaitpid, SpawnEndSandboxInits
<1>6. CASE ProgramEnds \/ Unstuck \/ PathChanges \/ ParentDies \/ \E r \in Roles : RoleKilled(r)
  BY <1>6, SpawnProgramEnds, SpawnUnstuck, SpawnPathChanges, SpawnParentDies, SpawnRoleKilled
<1> QED BY <1>1, <1>2, <1>3, <1>4, <1>5, <1>6 DEF SpawnNext

(* Through every kill of a process of it and every change of a path, each  *)
(* process of a start is where the others and the pipes say, and what      *)
(* holds the program grows in order (core/syscalls.c's spawn,              *)
(* unveil_child, start_program, run_program).                              *)
THEOREM SpawnInvariance == SpawnSpec => []SpawnInv
BY SpawnStart, SpawnStep, PTL DEF SpawnSpec

(* An image that runs is held by everything its options asked for, and one *)
(* allowed unix sockets runs in no root that shows one of the host's, even *)
(* where a path changed after spawn looked (start_program, run_program,    *)
(* build_root's second look).                                              *)
THEOREM ProgramIsHeld == SpawnSpec => []ProgramHeld
<1>1. SpawnInv => Sealed
  <2> SUFFICES ASSUME SpawnInv, NEW r \in Pid, place[r] = "exec"
               PROVE  /\ plan \cap {"credentials", "grants", "promises", "offline", "user"} \subseteq holds
                      /\ Unveiling => {"namespaces", "root", "no_capabilities"} \subseteq holds
                      /\ Has("offline") => {"namespaces", "no_capabilities"} \subseteq holds
                      /\ Unveiling /\ {"strict", "grants"} \subseteq plan => "own_rules" \in holds
    BY DEF Sealed
  <2>1. RunHolds \subseteq holds
    BY DEF SpawnInv, Held, Pid
  <2>2. CASE Unveiling
    <3>1. r = "program"
      BY <2>2 DEF Pid
    <3> QED BY <3>1, <2>1, <2>2 DEF SpawnInv, Held, RunHolds, Has
  <2>3. CASE ~Unveiling
    <3>1. r = "child" /\ Admitted(plan)
      BY <2>3 DEF Pid, SpawnInv, Unbegun
    <3>2. "user" \notin plan
      BY <3>1, <2>3 DEF Admitted, Unveiling, Has
    <3> QED BY <3>1, <3>2, <2>1, <2>3 DEF SpawnInv, Held, RunHolds, Has
  <2> QED BY <2>2, <2>3
<1>2. SpawnInv => SocketsSealed
  BY DEF SpawnInv, Guarded, SocketsSealed
<1> QED BY SpawnInvariance, <1>1, <1>2, PTL DEF ProgramHeld

(* A pid is answered only for a process past its exec that reported        *)
(* nothing, a failure only when no program of it runs, and then nothing it *)
(* made is left but an init the kernel cannot end yet, which is recorded   *)
(* (resume_program, record_pair, end_sandbox_init, spawn's end).           *)
THEOREM SpawnTellsTrue == SpawnSpec => []SpawnTells
<1>1. SpawnInv => Truthful
  <2> SUFFICES ASSUME SpawnInv PROVE Truthful
    OBVIOUS
  <2>1. answer = "pid" /\ pc = "answered" => status = <<>> /\ \A r \in Pid : place[r] \in Over \cup {"exec"}
    BY DEF SpawnInv, AfterChild, Pid, Quiet, Over
  <2>2. answer \in Stages => \A r \in {"child", "program"} : place[r] # "exec"
    BY DEF SpawnInv, AfterChild, Over
  <2> QED BY <2>1, <2>2 DEF SpawnInv, Wrote, Truthful
<1>2. SpawnInv => NothingLeft
  BY DEF SpawnInv, SpawnTypeOK, AfterChild, NothingLeft
<1> QED BY SpawnInvariance, <1>1, <1>2, PTL DEF SpawnTells

-----------------------------------------------------------------------------
(***************************************************************************)
(* Restrict.  What the runtime knows of itself between restrictions, and   *)
(* what each stage of one has established for the next.                    *)
(***************************************************************************)

HeldShape ==
    /\ held = [soft |-> held.soft, hard |-> held.hard, domain |-> held.domain, filters |-> held.filters,
               capable |-> held.capable, runs |-> held.runs, kept |-> held.kept, undone |-> held.undone,
               profile |-> held.profile]
    /\ held.soft \in [Resources -> Nat] /\ held.hard \in [Resources -> Nat]
    /\ \A r \in Resources : held.soft[r] <= held.hard[r]

OwnShape ==
    /\ began = [soft |-> began.soft, raised |-> began.raised, set |-> began.set, cut |-> began.cut]
    /\ began.soft \in Nat
    /\ moves = [todo |-> moves.todo, moved |-> moves.moved, nofile |-> moves.nofile, fault |-> moves.fault]
    /\ moves.todo \subseteq Resources
    /\ before = [held |-> before.held, intact |-> before.intact, good |-> before.good, repeat |-> before.repeat]
    /\ ask \in RestrictionShape
    /\ system \in {"linux", "darwin"}
    /\ kin = [child |-> kin.child, threads |-> kin.threads] /\ kin.threads \in {1, 2}

\* Every entry of /proc held open is at the number it is remembered by.
OpenEntries ==
    /\ files \in [Fds -> {"none", "file", "store"} \cup ProcEntries]
    /\ inspected \in [ProcEntries -> Fds \cup {-1}]
    /\ \A f \in Fds : files[f] \in ProcEntries => inspected[files[f]] = f
    /\ pace \in {"fds", "inspect"} /\ before.intact => \A e \in ProcEntries : inspected_same(e)
    /\ pace = "count" => system = "linux" /\ \A e \in ProcEntries : inspected_same(e)

\* Nothing was taken away that a refusal would not tell of.
Untouched ==
    /\ told = "refused" => held = before.held
    /\ pace # "" => told = ""
    /\ pace \in {"fds", "inspect", "count", "plan"} => held = before.held /\ ~moves.moved /\ ~moves.nofile
    /\ pace \in {"limits", "enforce"} /\ ~moves.moved => held = before.held

Within(r) == held.soft[r] <= ask.limits[r] /\ held.hard[r] <= ask.limits[r]

\* What a stage leaves to the next, and what outlives a success.
Established ==
    /\ pace \in {"", "fds", "inspect", "count", "plan", "limits", "enforce", "filter"}
    /\ before.good \/ before.repeat => \A r \in Resources : Within(r)
    /\ pace = "limits" => \A r \in Resources \ moves.todo : Within(r)
    /\ pace = "limits" /\ before.repeat => moves.todo = {}
    /\ pace \in {"enforce", "filter"} => \A r \in Resources : Within(r)
    /\ pace \in {"plan", "limits", "enforce", "filter"} =>
         /\ ~kin.child /\ (system = "linux" => kin.threads = 1)
         /\ \A f \in Fds : files[f] # "file" \/ f \in ask.fds
    /\ pace = "filter" => system = "linux" /\ held.domain \subseteq ask.grants

\* Which soft limit of descriptors a child is owed.
Owed ==
    /\ ~began.set => began.raised \/ held.soft["nofile"] = Lower(began.soft, held.hard["nofile"])
    /\ pace = "limits" /\ moves.nofile => began.set
    /\ began.set /\ began.raised /\ ~began.cut => system = "linux" /\ pace = "limits" /\ moves.nofile

RestrictInv == HeldShape /\ OwnShape /\ OpenEntries /\ Untouched /\ Established /\ Owed /\ RestrictionHolds /\ RepeatPasses

LEMMA LimitsCounted ==
  ASSUME RestrictInv, NEW r \in Resources
  PROVE  /\ held.soft[r] \in Nat /\ held.hard[r] \in Nat /\ held.soft[r] <= held.hard[r]
         /\ ask.limits[r] \in Nat
<1>1. held.soft[r] \in Nat /\ held.hard[r] \in Nat /\ held.soft[r] <= held.hard[r]
  BY DEF RestrictInv, HeldShape
<1>2. ask.limits \in [Resources -> 0 .. NoLimit] /\ NoLimit \in Nat
  BY NumbersAssumption DEF RestrictInv, OwnShape, RestrictionShape, NoLimit
<1> QED BY <1>1, <1>2

\* A limit set and nothing else: what the kernel holds then.
OthersHeld ==
    /\ held'.filters = held.filters /\ held'.capable = held.capable /\ held'.runs = held.runs
    /\ held'.kept = held.kept /\ held'.undone = held.undone
LimitIs(r, s, h) ==
    /\ held'.soft = [held.soft EXCEPT ![r] = s] /\ held'.hard = [held.hard EXCEPT ![r] = h]
    /\ held'.domain = held.domain /\ held'.profile = held.profile /\ OthersHeld

LEMMA LimitIsSet ==
  ASSUME HeldShape, NEW r \in Resources, NEW s \in Nat, NEW h \in Nat, s <= h,
         held' = [held EXCEPT !.soft[r] = s, !.hard[r] = h]
  PROVE  HeldShape' /\ LimitIs(r, s, h)
<1>1. LimitIs(r, s, h)
  BY DEF HeldShape, LimitIs, OthersHeld
<1>2. held' = [soft |-> held'.soft, hard |-> held'.hard, domain |-> held'.domain, filters |-> held'.filters,
               capable |-> held'.capable, runs |-> held'.runs, kept |-> held'.kept, undone |-> held'.undone,
               profile |-> held'.profile]
  BY DEF HeldShape
<1>3. held'.soft \in [Resources -> Nat] /\ held'.hard \in [Resources -> Nat]
  BY <1>1 DEF HeldShape, LimitIs
<1>4. ASSUME NEW q \in Resources PROVE held'.soft[q] <= held'.hard[q]
  BY <1>1 DEF HeldShape, LimitIs
<1> QED BY <1>1, <1>2, <1>3, <1>4 DEF HeldShape

\* Rights taken away and nothing else.
DomainIs(d, p) ==
    /\ held'.soft = held.soft /\ held'.hard = held.hard /\ held'.domain = d /\ held'.profile = p /\ OthersHeld

LEMMA DomainIsSet ==
  ASSUME HeldShape, NEW d, held' = [held EXCEPT !.domain = d]
  PROVE  HeldShape' /\ DomainIs(d, held.profile)
<1>1. DomainIs(d, held.profile)
  BY DEF HeldShape, DomainIs, OthersHeld
<1>2. held' = [soft |-> held'.soft, hard |-> held'.hard, domain |-> held'.domain, filters |-> held'.filters,
               capable |-> held'.capable, runs |-> held'.runs, kept |-> held'.kept, undone |-> held'.undone,
               profile |-> held'.profile]
  BY DEF HeldShape
<1> QED BY <1>1, <1>2 DEF HeldShape, DomainIs

LEMMA ProfileIsSet ==
  ASSUME HeldShape, NEW d, NEW p, held' = [held EXCEPT !.domain = d, !.profile = p]
  PROVE  HeldShape' /\ DomainIs(d, p)
<1>1. DomainIs(d, p)
  BY DEF HeldShape, DomainIs, OthersHeld
<1>2. held' = [soft |-> held'.soft, hard |-> held'.hard, domain |-> held'.domain, filters |-> held'.filters,
               capable |-> held'.capable, runs |-> held'.runs, kept |-> held'.kept, undone |-> held'.undone,
               profile |-> held'.profile]
  BY DEF HeldShape
<1> QED BY <1>1, <1>2 DEF HeldShape, DomainIs

\* Three lowest numbers of a set that has three.
Lowest(S, n) == CHOOSE f \in S : Cardinality({g \in S : g < f}) = n

LEMMA LowestThree ==
  ASSUME NEW S, S \subseteq Nat, IsFiniteSet(S), Cardinality(S) >= 3
  PROVE  /\ Lowest(S, 0) \in S /\ Lowest(S, 1) \in S /\ Lowest(S, 2) \in S
         /\ Lowest(S, 0) # Lowest(S, 1) /\ Lowest(S, 0) # Lowest(S, 2) /\ Lowest(S, 1) # Lowest(S, 2)
<1>1. Cardinality(S) \in Nat
  BY FS_CardinalityType
<1>2. \A T : T \subseteq Nat /\ T # {} => \E k \in T : \A j \in T : k <= j
  BY LeastOf
<1>0. Cardinality({}) = 0
  BY FS_EmptySet
<1>a. S # {}
  BY <1>0
<1>b. PICK a \in S : \A j \in S : a <= j
  BY <1>2, <1>a
<1>3. IsFiniteSet(S \ {a}) /\ Cardinality(S \ {a}) = Cardinality(S) - 1
  BY FS_RemoveElement
<1>c. S \ {a} # {} /\ S \ {a} \subseteq Nat
  BY <1>0, <1>1, <1>3
<1>4. PICK b \in S \ {a} : \A j \in S \ {a} : b <= j
  <2> DEFINE T == S \ {a}
  <2>1. T \subseteq Nat /\ T # {}
    BY <1>c
  <2>2. \E k \in T : \A j \in T : k <= j
    <3> HIDE DEF T
    <3> QED BY <1>2, <2>1
  <2> QED BY <2>2
<1>5. IsFiniteSet((S \ {a}) \ {b}) /\ Cardinality((S \ {a}) \ {b}) = Cardinality(S) - 2
  <2> DEFINE T == S \ {a}
  <2>1. IsFiniteSet(T) /\ b \in T /\ Cardinality(T) = Cardinality(S) - 1
    BY <1>3
  <2>2. IsFiniteSet(T \ {b}) /\ Cardinality(T \ {b}) = Cardinality(T) - 1
    <3> HIDE DEF T
    <3> QED BY <2>1, FS_RemoveElement
  <2>3. Cardinality(T \ {b}) = Cardinality(S) - 2
    <3> HIDE DEF T
    <3> QED BY <2>1, <2>2, <1>1
  <2> QED BY <2>2, <2>3
<1>d. (S \ {a}) \ {b} # {} /\ (S \ {a}) \ {b} \subseteq Nat
  BY <1>0, <1>1, <1>5
<1>6. PICK c \in (S \ {a}) \ {b} : \A j \in (S \ {a}) \ {b} : c <= j
  <2> DEFINE T == (S \ {a}) \ {b}
  <2>1. T \subseteq Nat /\ T # {}
    BY <1>d
  <2>2. \E k \in T : \A j \in T : k <= j
    <3> HIDE DEF T
    <3> QED BY <1>2, <2>1
  <2> QED BY <2>2
<1>e. a \in Nat /\ b \in Nat /\ c \in Nat /\ a \in S /\ b \in S /\ c \in S /\ a # b /\ c # a /\ c # b /\ a <= b /\ b <= c
  BY <1>b, <1>4, <1>6
<1>f. a < b /\ b < c /\ a < c
  BY <1>e
<1>7. Cardinality({g \in S : g < a}) = 0
  <2>1. ASSUME NEW g \in S, g < a PROVE FALSE
    <3>1. g \in Nat /\ a <= g
      BY <1>b
    <3> QED BY <2>1, <3>1, <1>e
  <2>2. {g \in S : g < a} = {}
    BY <2>1
  <2> QED BY <2>2, FS_EmptySet
<1>8. Cardinality({g \in S : g < b}) = 1
  <2>1. ASSUME NEW g \in S, g < b PROVE g = a
    <3>1. g \in Nat /\ (g # a => b <= g)
      BY <1>4
    <3> QED BY <2>1, <3>1, <1>e
  <2>2. {g \in S : g < b} = {a}
    BY <2>1, <1>e, <1>f
  <2> QED BY <2>2, FS_Singleton
<1>9. Cardinality({g \in S : g < c}) = 2
  <2>1. ASSUME NEW g \in S, g < c PROVE g = a \/ g = b
    <3>1. g \in Nat /\ (g # a /\ g # b => c <= g)
      BY <1>6
    <3> QED BY <2>1, <3>1, <1>e
  <2>2. {g \in S : g < c} = {a} \cup {b}
    BY <2>1, <1>e, <1>f
  <2>3. IsFiniteSet({a}) /\ Cardinality({a}) = 1 /\ b \notin {a}
    BY FS_Singleton, <1>e
  <2>4. Cardinality({a} \cup {b}) = Cardinality({a}) + 1
    BY <2>3, FS_AddElement
  <2> QED BY <2>2, <2>3, <2>4
<1>10. \A n : (\E f \in S : Cardinality({g \in S : g < f}) = n) =>
              Lowest(S, n) \in S /\ Cardinality({g \in S : g < Lowest(S, n)}) = n
  BY DEF Lowest
<1>11. /\ Lowest(S, 0) \in S /\ Cardinality({g \in S : g < Lowest(S, 0)}) = 0
       /\ Lowest(S, 1) \in S /\ Cardinality({g \in S : g < Lowest(S, 1)}) = 1
       /\ Lowest(S, 2) \in S /\ Cardinality({g \in S : g < Lowest(S, 2)}) = 2
  BY <1>7, <1>8, <1>9, <1>10
<1> QED BY <1>11

LEMMA LimitAt ==
  ASSUME HeldShape, NEW r \in Resources, NEW q \in Resources, NEW s, NEW h, LimitIs(r, s, h)
  PROVE  /\ held'.soft[q] = IF q = r THEN s ELSE held.soft[q]
         /\ held'.hard[q] = IF q = r THEN h ELSE held.hard[q]
<1>1. held.soft \in [Resources -> Nat] /\ held.hard \in [Resources -> Nat]
  BY DEF HeldShape
<1> QED BY <1>1 DEF LimitIs

LEMMA FilterIsSet ==
  ASSUME HeldShape, NEW fs, held' = [held EXCEPT !.filters = fs]
  PROVE  /\ HeldShape' /\ held'.soft = held.soft /\ held'.hard = held.hard /\ held'.domain = held.domain
         /\ held'.runs = held.runs /\ held'.undone = held.undone /\ held'.kept = held.kept
         /\ held'.filters = fs
<1>1. /\ held'.soft = held.soft /\ held'.hard = held.hard /\ held'.domain = held.domain
      /\ held'.runs = held.runs /\ held'.undone = held.undone /\ held'.kept = held.kept
      /\ held'.filters = fs
  BY DEF HeldShape
<1>2. held' = [soft |-> held'.soft, hard |-> held'.hard, domain |-> held'.domain, filters |-> held'.filters,
               capable |-> held'.capable, runs |-> held'.runs, kept |-> held'.kept, undone |-> held'.undone,
               profile |-> held'.profile]
  BY DEF HeldShape
<1> QED BY <1>1, <1>2 DEF HeldShape

\* A call that ends in a fault, at a stage past the counting.
LEMMA RestrictFaults ==
  ASSUME RestrictInv, pace \in {"inspect", "count", "plan", "enforce", "filter"}, told' \in {"partly", "refused"},
         told' = "refused" => held = before.held,
         pace' = "", moves' = [moves EXCEPT !.fault = TRUE],
         UNCHANGED <<system, files, kin, ask, before, turns, held, inspected, began>>
  PROVE  RestrictInv'
<1>1. moves'.todo = moves.todo /\ moves'.moved = moves.moved /\ moves'.nofile = moves.nofile /\ moves'.fault = TRUE
  BY DEF RestrictInv, OwnShape
<1>2. moves' = [todo |-> moves'.todo, moved |-> moves'.moved, nofile |-> moves'.nofile, fault |-> moves'.fault]
  BY DEF RestrictInv, OwnShape
<1>3. HeldShape' /\ OpenEntries'
  BY DEF RestrictInv, HeldShape, OpenEntries, inspected_same
<1>4. OwnShape'
  BY <1>1, <1>2 DEF RestrictInv, OwnShape
<1>5. Untouched' /\ Established'
  BY DEF RestrictInv, Untouched, Established, Within
<1>6. Owed'
  BY <1>1 DEF RestrictInv, Owed
<1>7. RestrictionHolds' /\ RepeatPasses'
  BY <1>1 DEF RestrictInv, RestrictionHolds, RepeatPasses, handed_on
<1> QED BY <1>3, <1>4, <1>5, <1>6, <1>7 DEF RestrictInv

\* A call that succeeds, whichever stage was its last.
LEMMA RestrictSucceeds ==
  ASSUME RestrictInv, pace \in {"enforce", "filter"}, HeldShape',
         held'.soft = held.soft, held'.hard = held.hard, held'.domain \subseteq ask.grants,
         held'.runs = held.runs, held'.undone = held.undone, held'.kept = held.kept,
         system = "linux" => \E f \in held'.filters : f.promises \subseteq ask.promises,
         told' = "ok", pace' = "", before' = [before EXCEPT !.good = TRUE],
         UNCHANGED <<system, began, files, kin, inspected, ask, turns, moves>>
  PROVE  RestrictInv'
<1>1. /\ before'.held = before.held /\ before'.intact = before.intact /\ before'.repeat = before.repeat
      /\ before' = [held |-> before'.held, intact |-> before'.intact, good |-> before'.good, repeat |-> before'.repeat]
  BY DEF RestrictInv, OwnShape
<1>2. \A r \in Resources : Within(r)
  BY DEF RestrictInv, Established
<1>3. OwnShape' /\ OpenEntries'
  BY <1>1 DEF RestrictInv, OwnShape, OpenEntries, inspected_same
<1>4. Untouched' /\ Owed'
  BY DEF RestrictInv, Untouched, Owed
<1>5. Established'
  BY <1>2 DEF Established, Within
<1>6. /\ ~kin.child /\ (system = "linux" => kin.threads = 1)
      /\ \A f \in Fds : files[f] # "file" \/ f \in ask.fds
  BY DEF RestrictInv, Established
<1>7. RestrictionHolds'
  BY <1>2, <1>6 DEF RestrictInv, RestrictionHolds, Within, handed_on
<1>8. RepeatPasses'
  BY DEF RepeatPasses
<1> QED BY <1>3, <1>4, <1>5, <1>7, <1>8 DEF RestrictInv

\* The kinds of limits and of entries are spelt out in what follows.
USE DEF Resources, ProcEntries, Lower, Within, inspected_same, handed_on

LEMMA RestrictPlace ==
  ASSUME RestrictInv, NEW f \in Fds, NEW what \in {"none", "file"}, Place(f, what)
  PROVE  RestrictInv'
<1>1. HeldShape'
  BY NumbersAssumption, RestrictionsAssumption DEF RestrictInv, HeldShape, OwnShape, OpenEntries,
    Untouched, Established, Owed, RestrictionHolds, RepeatPasses, Place, Between
<1>2. OwnShape'
  BY NumbersAssumption, RestrictionsAssumption DEF RestrictInv, HeldShape, OwnShape, OpenEntries,
    Untouched, Established, Owed, RestrictionHolds, RepeatPasses, Place, Between
<1>3. OpenEntries'
  BY NumbersAssumption, RestrictionsAssumption DEF RestrictInv, HeldShape, OwnShape, OpenEntries,
    Untouched, Established, Owed, RestrictionHolds, RepeatPasses, Place, Between
<1>4. Untouched'
  BY NumbersAssumption, RestrictionsAssumption DEF RestrictInv, HeldShape, OwnShape, OpenEntries,
    Untouched, Established, Owed, RestrictionHolds, RepeatPasses, Place, Between
<1>5. Established'
  BY NumbersAssumption, RestrictionsAssumption DEF RestrictInv, HeldShape, OwnShape, OpenEntries,
    Untouched, Established, Owed, RestrictionHolds, RepeatPasses, Place, Between
<1>6. Owed'
  BY NumbersAssumption, RestrictionsAssumption DEF RestrictInv, HeldShape, OwnShape, OpenEntries,
    Untouched, Established, Owed, RestrictionHolds, RepeatPasses, Place, Between
<1>7. RestrictionHolds'
  BY NumbersAssumption, RestrictionsAssumption DEF RestrictInv, HeldShape, OwnShape, OpenEntries,
    Untouched, Established, Owed, RestrictionHolds, RepeatPasses, Place, Between
<1>8. RepeatPasses'
  BY NumbersAssumption, RestrictionsAssumption DEF RestrictInv, HeldShape, OwnShape, OpenEntries,
    Untouched, Established, Owed, RestrictionHolds, RepeatPasses, Place, Between
<1> QED BY <1>1, <1>2, <1>3, <1>4, <1>5, <1>6, <1>7, <1>8 DEF RestrictInv

LEMMA RestrictKin ==
  ASSUME RestrictInv, NEW c \in BOOLEAN, NEW n \in 1 .. 2, Kin([child |-> c, threads |-> n])
  PROVE  RestrictInv'
<1>1. HeldShape'
  BY NumbersAssumption, RestrictionsAssumption DEF RestrictInv, HeldShape, OwnShape, OpenEntries,
    Untouched, Established, Owed, RestrictionHolds, RepeatPasses, Kin, Between
<1>a. kin' = [child |-> c, threads |-> n] /\ UNCHANGED <<began, moves, before, ask, system>>
  BY DEF Kin, Between
<1>b. kin'.child = c /\ kin'.threads = n /\ n \in {1, 2}
  BY <1>a
<1>c. kin' = [child |-> kin'.child, threads |-> kin'.threads]
  BY <1>a, <1>b
<1>2. OwnShape'
  BY <1>a, <1>b, <1>c DEF RestrictInv, OwnShape
<1>3. OpenEntries'
  BY NumbersAssumption, RestrictionsAssumption DEF RestrictInv, HeldShape, OwnShape, OpenEntries,
    Untouched, Established, Owed, RestrictionHolds, RepeatPasses, Kin, Between
<1>4. Untouched'
  BY NumbersAssumption, RestrictionsAssumption DEF RestrictInv, HeldShape, OwnShape, OpenEntries,
    Untouched, Established, Owed, RestrictionHolds, RepeatPasses, Kin, Between
<1>5. Established'
  BY NumbersAssumption, RestrictionsAssumption DEF RestrictInv, HeldShape, OwnShape, OpenEntries,
    Untouched, Established, Owed, RestrictionHolds, RepeatPasses, Kin, Between
<1>6. Owed'
  BY NumbersAssumption, RestrictionsAssumption DEF RestrictInv, HeldShape, OwnShape, OpenEntries,
    Untouched, Established, Owed, RestrictionHolds, RepeatPasses, Kin, Between
<1>7. RestrictionHolds'
  BY NumbersAssumption, RestrictionsAssumption DEF RestrictInv, HeldShape, OwnShape, OpenEntries,
    Untouched, Established, Owed, RestrictionHolds, RepeatPasses, Kin, Between
<1>8. RepeatPasses'
  BY NumbersAssumption, RestrictionsAssumption DEF RestrictInv, HeldShape, OwnShape, OpenEntries,
    Untouched, Established, Owed, RestrictionHolds, RepeatPasses, Kin, Between
<1> QED BY <1>1, <1>2, <1>3, <1>4, <1>5, <1>6, <1>7, <1>8 DEF RestrictInv

LEMMA RestrictSetrlimit ==
  ASSUME RestrictInv, NEW r \in Resources, NEW s \in 1 .. MaxLimit, NEW h \in 1 .. MaxLimit, setrlimit(r, s, h)
  PROVE  RestrictInv'
<1>0. s <= h
  BY DEF setrlimit
<1>g. s \in Nat /\ h \in Nat
  BY NumbersAssumption
<1>e. HeldShape /\ held' = [held EXCEPT !.soft[r] = s, !.hard[r] = h]
  BY DEF setrlimit, RestrictInv
<1>a. HeldShape' /\ LimitIs(r, s, h) /\ s \in Nat /\ h \in Nat
  <2> HIDE DEF Resources
  <2> QED BY <1>0, <1>g, <1>e, LimitIsSet
<1>b. /\ pace = "" /\ s <= h /\ h <= held.hard[r] /\ told' = ""
      /\ began' = IF r = "nofile" THEN [began EXCEPT !.raised = FALSE, !.set = TRUE] ELSE began
      /\ UNCHANGED <<system, moves, before, inspected, ask, pace, files, kin>>
  BY DEF setrlimit, Between
<1>c. ASSUME NEW q \in Resources, Within(q) PROVE Within(q)'
  <2>1. /\ held.soft[q] \in Nat /\ held.hard[q] \in Nat /\ ask.limits[q] \in Nat
        /\ held.soft \in [Resources -> Nat] /\ held.hard \in [Resources -> Nat]
    BY LimitsCounted DEF RestrictInv, HeldShape
  <2>2. held'.soft[q] = (IF q = r THEN s ELSE held.soft[q]) /\ held'.hard[q] = (IF q = r THEN h ELSE held.hard[q])
    <3> HIDE DEF Resources
    <3> QED BY <1>e, <1>a, LimitAt
  <2>3. ask' = ask /\ h <= held.hard[r] /\ s <= h
    BY <1>b
  <2>4. held'.soft[q] <= ask.limits[q]
    <3>1. CASE q = r
      BY <3>1, <2>1, <2>2, <2>3, <1>c, <1>g
    <3>2. CASE q # r
      BY <3>2, <2>2, <1>c
    <3> QED BY <3>1, <3>2
  <2>5. held'.hard[q] <= ask.limits[q]
    <3>1. CASE q = r
      BY <3>1, <2>1, <2>2, <2>3, <1>c, <1>g
    <3>2. CASE q # r
      BY <3>2, <2>2, <1>c
    <3> QED BY <3>1, <3>2
  <2> QED BY <2>3, <2>4, <2>5
<1>d. r # "nofile" => held'.soft["nofile"] = held.soft["nofile"] /\ held'.hard["nofile"] = held.hard["nofile"]
  BY <1>e, <1>a, LimitAt
<1>1. HeldShape'
  BY <1>a, <1>b, <1>c, <1>d DEF RestrictInv, OwnShape, OpenEntries, Untouched, Established, Owed,
    RestrictionHolds, RepeatPasses, LimitIs, OthersHeld
<1>2. OwnShape'
  BY <1>a, <1>b, <1>c, <1>d DEF RestrictInv, OwnShape, OpenEntries, Untouched, Established, Owed,
    RestrictionHolds, RepeatPasses, LimitIs, OthersHeld
<1>3. OpenEntries'
  BY <1>a, <1>b, <1>c, <1>d DEF RestrictInv, OwnShape, OpenEntries, Untouched, Established, Owed,
    RestrictionHolds, RepeatPasses, LimitIs, OthersHeld
<1>4. Untouched'
  BY <1>a, <1>b, <1>c, <1>d DEF RestrictInv, OwnShape, OpenEntries, Untouched, Established, Owed,
    RestrictionHolds, RepeatPasses, LimitIs, OthersHeld
<1>5. Established'
  <2>1. before.good' \/ before.repeat' => before.good \/ before.repeat
    BY <1>b
  <2> QED BY <1>b, <1>c, <2>1 DEF RestrictInv, Established
<1>6. Owed'
  BY <1>a, <1>b, <1>c, <1>d, ZenonT(30) DEF RestrictInv, OwnShape, OpenEntries, Untouched, Established, Owed,
    RestrictionHolds, RepeatPasses, LimitIs, OthersHeld
<1>7. RestrictionHolds'
  BY <1>a, <1>b, <1>c, <1>d DEF RestrictInv, OwnShape, OpenEntries, Untouched, Established, Owed,
    RestrictionHolds, RepeatPasses, LimitIs, OthersHeld
<1>8. RepeatPasses'
  BY <1>a, <1>b, <1>c, <1>d DEF RestrictInv, OwnShape, OpenEntries, Untouched, Established, Owed,
    RestrictionHolds, RepeatPasses, LimitIs, OthersHeld
<1> QED BY <1>1, <1>2, <1>3, <1>4, <1>5, <1>6, <1>7, <1>8 DEF RestrictInv

LEMMA RestrictLandlockRestrictExecute ==
  ASSUME RestrictInv, NEW keeps \in BOOLEAN, NEW works \in BOOLEAN, NEW dumps \in BOOLEAN, landlock_restrict_execute(keeps, works, dumps)
  PROVE  RestrictInv'
<1>1. HeldShape'
  BY NumbersAssumption, RestrictionsAssumption DEF RestrictInv, HeldShape, OwnShape, OpenEntries,
    Untouched, Established, Owed, RestrictionHolds, RepeatPasses, landlock_restrict_execute,
    Between, keep_artifact
<1>2. OwnShape'
  BY NumbersAssumption, RestrictionsAssumption DEF RestrictInv, HeldShape, OwnShape, OpenEntries,
    Untouched, Established, Owed, RestrictionHolds, RepeatPasses, landlock_restrict_execute,
    Between, keep_artifact
<1>3. OpenEntries'
  BY NumbersAssumption, RestrictionsAssumption DEF RestrictInv, HeldShape, OwnShape, OpenEntries,
    Untouched, Established, Owed, RestrictionHolds, RepeatPasses, landlock_restrict_execute,
    Between, keep_artifact
<1>4. Untouched'
  BY NumbersAssumption, RestrictionsAssumption DEF RestrictInv, HeldShape, OwnShape, OpenEntries,
    Untouched, Established, Owed, RestrictionHolds, RepeatPasses, landlock_restrict_execute,
    Between, keep_artifact
<1>5. Established'
  BY NumbersAssumption, RestrictionsAssumption DEF RestrictInv, HeldShape, OwnShape, OpenEntries,
    Untouched, Established, Owed, RestrictionHolds, RepeatPasses, landlock_restrict_execute,
    Between, keep_artifact
<1>6. Owed'
  BY NumbersAssumption, RestrictionsAssumption DEF RestrictInv, HeldShape, OwnShape, OpenEntries,
    Untouched, Established, Owed, RestrictionHolds, RepeatPasses, landlock_restrict_execute,
    Between, keep_artifact
<1>7. RestrictionHolds'
  BY NumbersAssumption, RestrictionsAssumption DEF RestrictInv, HeldShape, OwnShape, OpenEntries,
    Untouched, Established, Owed, RestrictionHolds, RepeatPasses, landlock_restrict_execute,
    Between, keep_artifact
<1>8. RepeatPasses'
  BY NumbersAssumption, RestrictionsAssumption DEF RestrictInv, HeldShape, OwnShape, OpenEntries,
    Untouched, Established, Owed, RestrictionHolds, RepeatPasses, landlock_restrict_execute,
    Between, keep_artifact
<1> QED BY <1>1, <1>2, <1>3, <1>4, <1>5, <1>6, <1>7, <1>8 DEF RestrictInv

LEMMA RestrictCallRestrict ==
  ASSUME RestrictInv, NEW a \in Restrictions, CallRestrict(a)
  PROVE  RestrictInv'
<1>1. HeldShape'
  BY NumbersAssumption, RestrictionsAssumption DEF RestrictInv, HeldShape, OwnShape, OpenEntries,
    Untouched, Established, Owed, RestrictionHolds, RepeatPasses, CallRestrict
<1>2. OwnShape'
  BY NumbersAssumption, RestrictionsAssumption DEF RestrictInv, HeldShape, OwnShape, OpenEntries,
    Untouched, Established, Owed, RestrictionHolds, RepeatPasses, CallRestrict
<1>3. OpenEntries'
  BY NumbersAssumption, RestrictionsAssumption DEF RestrictInv, HeldShape, OwnShape, OpenEntries,
    Untouched, Established, Owed, RestrictionHolds, RepeatPasses, CallRestrict
<1>4. Untouched'
  BY NumbersAssumption, RestrictionsAssumption DEF RestrictInv, HeldShape, OwnShape, OpenEntries,
    Untouched, Established, Owed, RestrictionHolds, RepeatPasses, CallRestrict
<1>5. Established'
  BY NumbersAssumption, RestrictionsAssumption DEF RestrictInv, HeldShape, OwnShape, OpenEntries,
    Untouched, Established, Owed, RestrictionHolds, RepeatPasses, CallRestrict
<1>6. Owed'
  BY NumbersAssumption, RestrictionsAssumption DEF RestrictInv, HeldShape, OwnShape, OpenEntries,
    Untouched, Established, Owed, RestrictionHolds, RepeatPasses, CallRestrict
<1>7. RestrictionHolds'
  BY NumbersAssumption, RestrictionsAssumption DEF RestrictInv, HeldShape, OwnShape, OpenEntries,
    Untouched, Established, Owed, RestrictionHolds, RepeatPasses, CallRestrict
<1>8. RepeatPasses'
  BY NumbersAssumption, RestrictionsAssumption DEF RestrictInv, HeldShape, OwnShape, OpenEntries,
    Untouched, Established, Owed, RestrictionHolds, RepeatPasses, CallRestrict
<1> QED BY <1>1, <1>2, <1>3, <1>4, <1>5, <1>6, <1>7, <1>8 DEF RestrictInv

LEMMA RestrictKeptOpen ==
  ASSUME RestrictInv, KeptOpen
  PROVE  RestrictInv'
<1>1. HeldShape'
  BY NumbersAssumption, RestrictionsAssumption DEF RestrictInv, HeldShape, OwnShape, OpenEntries,
    Untouched, Established, Owed, RestrictionHolds, RepeatPasses, KeptOpen, Refuse,
    restrict_refused, Pace
<1>2. OwnShape'
  BY NumbersAssumption, RestrictionsAssumption DEF RestrictInv, HeldShape, OwnShape, OpenEntries,
    Untouched, Established, Owed, RestrictionHolds, RepeatPasses, KeptOpen, Refuse,
    restrict_refused, Pace
<1>3. OpenEntries'
  BY NumbersAssumption, RestrictionsAssumption DEF RestrictInv, HeldShape, OwnShape, OpenEntries,
    Untouched, Established, Owed, RestrictionHolds, RepeatPasses, KeptOpen, Refuse,
    restrict_refused, Pace
<1>4. Untouched'
  BY NumbersAssumption, RestrictionsAssumption DEF RestrictInv, HeldShape, OwnShape, OpenEntries,
    Untouched, Established, Owed, RestrictionHolds, RepeatPasses, KeptOpen, Refuse,
    restrict_refused, Pace
<1>5. Established'
  BY NumbersAssumption, RestrictionsAssumption DEF RestrictInv, HeldShape, OwnShape, OpenEntries,
    Untouched, Established, Owed, RestrictionHolds, RepeatPasses, KeptOpen, Refuse,
    restrict_refused, Pace
<1>6. Owed'
  BY NumbersAssumption, RestrictionsAssumption DEF RestrictInv, HeldShape, OwnShape, OpenEntries,
    Untouched, Established, Owed, RestrictionHolds, RepeatPasses, KeptOpen, Refuse,
    restrict_refused, Pace
<1>7. RestrictionHolds'
  BY NumbersAssumption, RestrictionsAssumption DEF RestrictInv, HeldShape, OwnShape, OpenEntries,
    Untouched, Established, Owed, RestrictionHolds, RepeatPasses, KeptOpen, Refuse,
    restrict_refused, Pace
<1>8. RepeatPasses'
  <2>1. UNCHANGED <<files, ask, kin, moves, before, system>> /\ (told' = "refused" => \E f \in ask.fds : files[f] = "none")
        /\ told' \in {"", "refused"}
    BY DEF RestrictInv, Untouched, KeptOpen, Refuse, restrict_refused, Pace
  <2> QED BY <2>1 DEF RepeatPasses
<1> QED BY <1>1, <1>2, <1>3, <1>4, <1>5, <1>6, <1>7, <1>8 DEF RestrictInv

LEMMA RestrictInspectedOpen ==
  ASSUME RestrictInv, inspected_open
  PROVE  RestrictInv'
<1> DEFINE Forgot == [e \in ProcEntries |-> inspected_forget(e)]
           Closed == [f \in Fds |-> IF \E e \in ProcEntries : Forgot[e] = f THEN "none" ELSE files[f]]
           Vacant == {f \in Fds : Closed[f] = "none"}
<1>0. /\ pace = "inspect" /\ system = "linux" /\ told = "" /\ UNCHANGED <<system, held, began, kin, ask, before, turns, moves>>
      /\ held = before.held /\ ~moves.moved /\ ~moves.nofile
  BY DEF RestrictInv, Untouched, inspected_open, Pace
<1>1. ASSUME NEW e \in ProcEntries PROVE Forgot[e] # -1 <=> inspected_same(e)
  BY NumbersAssumption DEF inspected_forget
<1>2. ASSUME NEW f \in Fds PROVE (Closed[f] = files[f] /\ files[f] \notin ProcEntries) \/ Closed[f] = "none"
  <2>1. CASE files[f] \in ProcEntries
    <3>1. inspected[files[f]] = f
      BY <2>1 DEF RestrictInv, OpenEntries
    <3>2. Forgot[files[f]] = f
      BY <2>1, <3>1 DEF inspected_forget
    <3> QED BY <2>1, <3>2
  <2>2. CASE files[f] \notin ProcEntries
    BY <2>2
  <2> QED BY <2>1, <2>2
<1>3. ASSUME NEW f \in Fds PROVE Closed[f] \in {"none", "file", "store"}
  <2>1. files[f] \in {"none", "file", "store"} \cup ProcEntries
    BY DEF RestrictInv, OpenEntries
  <2> QED BY <2>1, <1>2
<1>4. HeldShape' /\ OwnShape' /\ Owed'
  BY <1>0 DEF RestrictInv, HeldShape, OwnShape, Owed
<1>5. CASE \A e \in ProcEntries : Forgot[e] # -1
  <2>1. pace' = "count" /\ UNCHANGED <<told, files, inspected>>
    <3> HIDE DEF ProcEntries
    <3> QED BY <1>5 DEF inspected_open, Pace
  <2>2. OpenEntries'
    BY <1>0, <1>1, <1>5, <2>1 DEF RestrictInv, OpenEntries
  <2> QED BY <1>0, <1>4, <2>1, <2>2 DEF RestrictInv, Untouched, Established, RestrictionHolds, RepeatPasses
<1>6. CASE \E e \in ProcEntries : Forgot[e] = -1
  <2>0. ~before.intact
    BY <1>0, <1>1, <1>6 DEF RestrictInv, OpenEntries
  <2>1. CASE "proc" \in held.domain /\ Cardinality(Vacant) >= 3
    <3>1. IsFiniteSet(Vacant) /\ Vacant \subseteq Nat /\ Vacant \subseteq Fds
      BY NumbersAssumption, FS_Subset
    <3>c. /\ LET lowest(n) == CHOOSE f \in Vacant : Cardinality({g \in Vacant : g < f}) = n
             IN  /\ inspected' = [tasks |-> lowest(0), descriptors |-> lowest(1), children |-> lowest(2)]
                 /\ files' = [f \in Fds |-> CASE f = lowest(0) -> "tasks" [] f = lowest(1) -> "descriptors"
                                              [] f = lowest(2) -> "children" [] OTHER -> Closed[f]]
          /\ Pace("count")
      <4> HIDE DEF ProcEntries
      <4>1. ~(\A e \in ProcEntries : Forgot[e] # -1) /\ ~("proc" \notin held.domain \/ Cardinality(Vacant) < 3)
        <5>1. Cardinality(Vacant) \in Nat
          <6> HIDE DEF Vacant
          <6> QED BY <3>1, FS_CardinalityType
        <5> QED BY <1>6, <2>1, <5>1
      <4> QED BY <4>1, Zenon DEF inspected_open
    <3>2. /\ inspected' = [tasks |-> Lowest(Vacant, 0), descriptors |-> Lowest(Vacant, 1), children |-> Lowest(Vacant, 2)]
          /\ files' = [f \in Fds |-> CASE f = Lowest(Vacant, 0) -> "tasks" [] f = Lowest(Vacant, 1) -> "descriptors"
                                         [] f = Lowest(Vacant, 2) -> "children" [] OTHER -> Closed[f]]
          /\ pace' = "count" /\ UNCHANGED told
      BY <3>c, Zenon DEF Lowest, Pace
    <3> HIDE DEF Vacant, Closed
    <3>a. Cardinality(Vacant) >= 3
      BY <2>1
    <3>b. /\ Lowest(Vacant, 0) \in Vacant /\ Lowest(Vacant, 1) \in Vacant /\ Lowest(Vacant, 2) \in Vacant
          /\ Lowest(Vacant, 0) # Lowest(Vacant, 1) /\ Lowest(Vacant, 0) # Lowest(Vacant, 2) /\ Lowest(Vacant, 1) # Lowest(Vacant, 2)
      BY <3>1, <3>a, LowestThree
    <3>3. PICK a \in Vacant, b \in Vacant, c \in Vacant :
            a = Lowest(Vacant, 0) /\ b = Lowest(Vacant, 1) /\ c = Lowest(Vacant, 2) /\ a # b /\ a # c /\ b # c
      BY <3>b
    <3>4. /\ inspected' = [tasks |-> a, descriptors |-> b, children |-> c]
          /\ files' = [f \in Fds |-> CASE f = a -> "tasks" [] f = b -> "descriptors" [] f = c -> "children" [] OTHER -> Closed[f]]
      BY <3>2, <3>3
    <3>5. a \in Fds /\ b \in Fds /\ c \in Fds
      BY <3>1, <3>3
    <3>6. inspected' \in [ProcEntries -> Fds \cup {-1}]
      BY <3>4, <3>5
    <3>7. /\ inspected'["tasks"] = a /\ inspected'["descriptors"] = b /\ inspected'["children"] = c
          /\ files'[a] = "tasks" /\ files'[b] = "descriptors" /\ files'[c] = "children"
      BY <3>3, <3>4, <3>5
    <3>8. ASSUME NEW f \in Fds
          PROVE  /\ files'[f] \in {"none", "file", "store"} \cup ProcEntries
                 /\ files'[f] \in ProcEntries => f = a \/ f = b \/ f = c
      BY <1>3, <3>4
    <3>9. files' \in [Fds -> {"none", "file", "store"} \cup ProcEntries]
      BY <3>4, <3>8
    <3>10. OpenEntries'
      BY <1>0, <3>2, <3>5, <3>6, <3>7, <3>8, <3>9 DEF OpenEntries
    <3>11. Untouched' /\ Established'
      BY <1>0, <3>2 DEF RestrictInv, Untouched, Established
    <3>12. RestrictionHolds' /\ RepeatPasses'
      BY <1>0, <3>2 DEF RestrictInv, RestrictionHolds, RepeatPasses
    <3> QED BY <1>4, <3>10, <3>11, <3>12 DEF RestrictInv
  <2>2. CASE ~("proc" \in held.domain /\ Cardinality(Vacant) >= 3)
    <3>1. inspected' = [e \in ProcEntries |-> -1] /\ files' = Closed /\ told' = "refused" /\ pace' = ""
      <4> HIDE DEF ProcEntries
      <4> QED BY <1>6, <2>2 DEF inspected_open
    <3> HIDE DEF Vacant
    <3>2. files' \in [Fds -> {"none", "file", "store"} \cup ProcEntries] /\ \A f \in Fds : files'[f] \notin ProcEntries
      BY <1>3, <3>1
    <3>3. OpenEntries'
      BY <3>1, <3>2 DEF OpenEntries
    <3>4. Untouched' /\ Established'
      BY <1>0, <3>1 DEF RestrictInv, Untouched, Established
    <3>5. RestrictionHolds' /\ RepeatPasses'
      BY <1>0, <2>0, <3>1 DEF RestrictInv, RestrictionHolds, RepeatPasses
    <3> QED BY <1>4, <3>3, <3>4, <3>5 DEF RestrictInv
  <2> QED BY <2>1, <2>2
<1> QED BY <1>5, <1>6

LEMMA RestrictCount ==
  ASSUME RestrictInv, Count
  PROVE  RestrictInv'
<1>0. pace = "count" /\ system = "linux" /\ told = "" /\ \A e \in ProcEntries : inspected_same(e)
  BY DEF RestrictInv, Untouched, OpenEntries, Count
<1>a. first_child = kin.child /\ thread_count = kin.threads
  BY <1>0 DEF first_child, thread_count, Listed
<1>b. ASSUME NEW f \in Fds, files[f] \notin {"none", "store"}, \A e \in ProcEntries : f # inspected[e]
      PROVE files[f] = "file"
  BY <1>b DEF RestrictInv, OpenEntries
<1>c. ASSUME NEW f \in Fds, files[f] = "file"
      PROVE \A e \in ProcEntries : f # inspected[e]
  BY <1>0, <1>c
<1>d. unaccounted_descriptor = {f \in Fds : files[f] = "file" /\ f \notin ask.fds}
  <2> DEFINE found == {f \in Fds : /\ files[f] \notin {"none", "store"} /\ f \notin ask.fds
                                  /\ \A e \in ProcEntries : f # inspected[e]}
  <2>1. unaccounted_descriptor = found
    BY <1>0 DEF unaccounted_descriptor, Listed
  <2> HIDE DEF ProcEntries
  <2>2. found = {f \in Fds : files[f] = "file" /\ f \notin ask.fds}
    BY <1>b, <1>c
  <2> QED BY <2>1, <2>2
<1>1. CASE first_child \/ thread_count > 1 \/ unaccounted_descriptor # {}
  <2>1. /\ told' = "refused" /\ pace' = ""
        /\ UNCHANGED <<system, files, kin, ask, before, turns, held, began, inspected, moves>>
    BY <1>1 DEF Count, Refuse, restrict_refused
  <2>2. HeldShape' /\ OwnShape' /\ OpenEntries'
    BY <2>1 DEF RestrictInv, HeldShape, OwnShape, OpenEntries
  <2>3. Untouched' /\ Owed'
    BY <1>0, <2>1 DEF RestrictInv, Untouched, Owed
  <2>4. Established' /\ RestrictionHolds'
    BY <2>1 DEF RestrictInv, Established, RestrictionHolds
  <2>5. kin.child \/ kin.threads > 1 \/ \E f \in Fds : files[f] = "file" /\ f \notin ask.fds
    BY <1>1, <1>a, <1>d
  <2>6. RepeatPasses'
    BY <2>1, <2>5 DEF RepeatPasses
  <2> QED BY <2>2, <2>3, <2>4, <2>6 DEF RestrictInv
<1>2. CASE ~(first_child \/ thread_count > 1 \/ unaccounted_descriptor # {})
  <2>1. pace' = "plan" /\ UNCHANGED <<system, ask, before, turns, told, held, began, files, kin, inspected, moves>>
    BY <1>2 DEF Count, Pace
  <2>2. HeldShape' /\ OwnShape' /\ OpenEntries'
    BY <2>1 DEF RestrictInv, HeldShape, OwnShape, OpenEntries
  <2>3. Untouched' /\ Owed'
    BY <1>0, <2>1 DEF RestrictInv, Untouched, Owed
  <2>4. ~kin.child /\ kin.threads = 1
    BY <1>2, <1>a DEF RestrictInv, OwnShape
  <2>5. \A f \in Fds : files[f] # "file" \/ f \in ask.fds
    BY <1>2, <1>d
  <2>6. Established'
    BY <2>1, <2>4, <2>5 DEF RestrictInv, Established
  <2>7. RestrictionHolds' /\ RepeatPasses'
    BY <1>0, <2>1 DEF RestrictInv, RestrictionHolds, RepeatPasses
  <2> QED BY <2>2, <2>3, <2>6, <2>7 DEF RestrictInv
<1> QED BY <1>1, <1>2

LEMMA RestrictDarwinCount ==
  ASSUME RestrictInv, DarwinCount
  PROVE  RestrictInv'
<1>1. HeldShape'
  BY NumbersAssumption, RestrictionsAssumption DEF RestrictInv, HeldShape, OwnShape, OpenEntries,
    Untouched, Established, Owed, RestrictionHolds, RepeatPasses, DarwinCount, Refuse,
    restrict_refused, Pace, darwin_first_child, darwin_unaccounted_descriptor
<1>2. OwnShape'
  BY NumbersAssumption, RestrictionsAssumption DEF RestrictInv, HeldShape, OwnShape, OpenEntries,
    Untouched, Established, Owed, RestrictionHolds, RepeatPasses, DarwinCount, Refuse,
    restrict_refused, Pace, darwin_first_child, darwin_unaccounted_descriptor
<1>3. OpenEntries'
  BY NumbersAssumption, RestrictionsAssumption DEF RestrictInv, HeldShape, OwnShape, OpenEntries,
    Untouched, Established, Owed, RestrictionHolds, RepeatPasses, DarwinCount, Refuse,
    restrict_refused, Pace, darwin_first_child, darwin_unaccounted_descriptor
<1>4. Untouched'
  BY NumbersAssumption, RestrictionsAssumption DEF RestrictInv, HeldShape, OwnShape, OpenEntries,
    Untouched, Established, Owed, RestrictionHolds, RepeatPasses, DarwinCount, Refuse,
    restrict_refused, Pace, darwin_first_child, darwin_unaccounted_descriptor
<1>5. Established'
  BY NumbersAssumption, RestrictionsAssumption DEF RestrictInv, HeldShape, OwnShape, OpenEntries,
    Untouched, Established, Owed, RestrictionHolds, RepeatPasses, DarwinCount, Refuse,
    restrict_refused, Pace, darwin_first_child, darwin_unaccounted_descriptor
<1>6. Owed'
  BY NumbersAssumption, RestrictionsAssumption DEF RestrictInv, HeldShape, OwnShape, OpenEntries,
    Untouched, Established, Owed, RestrictionHolds, RepeatPasses, DarwinCount, Refuse,
    restrict_refused, Pace, darwin_first_child, darwin_unaccounted_descriptor
<1>7. RestrictionHolds'
  BY NumbersAssumption, RestrictionsAssumption DEF RestrictInv, HeldShape, OwnShape, OpenEntries,
    Untouched, Established, Owed, RestrictionHolds, RepeatPasses, DarwinCount, Refuse,
    restrict_refused, Pace, darwin_first_child, darwin_unaccounted_descriptor
<1>8. RepeatPasses'
  BY NumbersAssumption, RestrictionsAssumption DEF RestrictInv, HeldShape, OwnShape, OpenEntries,
    Untouched, Established, Owed, RestrictionHolds, RepeatPasses, DarwinCount, Refuse,
    restrict_refused, Pace, darwin_first_child, darwin_unaccounted_descriptor
<1> QED BY <1>1, <1>2, <1>3, <1>4, <1>5, <1>6, <1>7, <1>8 DEF RestrictInv

LEMMA RestrictUncounted ==
  ASSUME RestrictInv, Uncounted
  PROVE  RestrictInv'
<1>1. pace \in {"inspect", "count"} /\ held = before.held
  BY DEF RestrictInv, Untouched, Uncounted
<1>2. /\ told' = "refused" /\ pace' = "" /\ moves' = [moves EXCEPT !.fault = TRUE]
      /\ UNCHANGED <<system, files, kin, ask, before, turns, held, inspected, began>>
  BY DEF Uncounted, Fault, restrict_refused
<1> QED BY <1>1, <1>2, RestrictFaults

LEMMA RestrictPlan ==
  ASSUME RestrictInv, NEW fails \in BOOLEAN, Plan(fails)
  PROVE  RestrictInv'
<1>0. pace = "plan" /\ told = "" /\ held = before.held /\ ~moves.moved /\ ~moves.nofile
  BY DEF RestrictInv, Untouched, Plan
<1>1. CASE fails
  <2>1. /\ told' = "refused"
        /\ pace' = "" /\ moves' = [moves EXCEPT !.fault = TRUE]
        /\ UNCHANGED <<system, files, kin, ask, before, turns, held, inspected, began>>
    BY <1>1 DEF Plan, Fault, restrict_refused
  <2> QED BY <1>0, <2>1, RestrictFaults
<1>2. CASE ~fails
  <2> DEFINE todo == {r \in Resources : plan_limit(r).changes}
  <2>1. /\ moves' = [moves EXCEPT !.todo = todo] /\ pace' = "limits"
        /\ UNCHANGED <<system, ask, before, turns, told, held, began, files, kin, inspected>>
    BY <1>2 DEF Plan, Pace
  <2>2. ASSUME NEW r \in Resources PROVE r \in todo <=> ~Within(r)
    <3>1. held.soft[r] \in Nat /\ held.hard[r] \in Nat /\ ask.limits[r] \in Nat
      BY LimitsCounted
    <3>2. plan_limit(r).changes <=> \/ Lower(held.soft[r], ask.limits[r]) # held.soft[r]
                                   \/ Lower(held.hard[r], ask.limits[r]) # held.hard[r]
      BY DEF plan_limit
    <3> QED BY <3>1, <3>2
  <2> HIDE DEF todo
  <2>3. todo \subseteq Resources
    BY DEF todo
  <2>4. /\ moves'.todo = todo /\ moves'.moved = moves.moved /\ moves'.nofile = moves.nofile /\ moves'.fault = moves.fault
        /\ moves' = [todo |-> moves'.todo, moved |-> moves'.moved, nofile |-> moves'.nofile, fault |-> moves'.fault]
    BY <2>1 DEF RestrictInv, OwnShape
  <2>5. HeldShape' /\ OpenEntries'
    BY <1>0, <2>1 DEF RestrictInv, HeldShape, OpenEntries
  <2>6. OwnShape'
    BY <2>1, <2>3, <2>4 DEF RestrictInv, OwnShape
  <2>7. Untouched' /\ Owed'
    BY <1>0, <2>1, <2>4 DEF RestrictInv, Untouched, Owed
  <2>8. (\A r \in Resources \ moves'.todo : Within(r)') /\ (before.repeat' => moves'.todo = {})
    BY <2>1, <2>2, <2>3, <2>4, ZenonT(30) DEF RestrictInv, Established
  <2>9. Established'
    BY <1>0, <2>1, <2>8 DEF RestrictInv, Established
  <2>10. RestrictionHolds' /\ RepeatPasses'
    BY <1>0, <2>1 DEF RestrictInv, RestrictionHolds, RepeatPasses
  <2> QED BY <2>5, <2>6, <2>7, <2>9, <2>10 DEF RestrictInv
<1> QED BY <1>1, <1>2

LEMMA RestrictSetLimit ==
  ASSUME RestrictInv, NEW r \in Resources, NEW fails \in BOOLEAN, SetLimit(r, fails)
  PROVE  RestrictInv'
<1>0. pace = "limits" /\ r \in moves.todo /\ ~before.repeat /\ told = ""
  BY DEF RestrictInv, Established, Untouched, SetLimit
<1>1. CASE fails \/ ~MaySetLimits
  <2>1. PICK b : /\ began' = [began EXCEPT !.cut = b] /\ (began.cut => b)
                 /\ (system = "linux" /\ moves.nofile => b)
    BY <1>1, Zenon DEF SetLimit
  <2>2. /\ told' = IF moves.moved THEN "partly" ELSE "refused"
        /\ pace' = "" /\ moves' = [moves EXCEPT !.fault = fails]
        /\ UNCHANGED <<system, files, kin, ask, before, turns, held, inspected>>
    BY <1>1 DEF SetLimit, restrict_refused
  <2>3. /\ began'.soft = began.soft /\ began'.raised = began.raised /\ began'.set = began.set /\ began'.cut = b
        /\ began' = [soft |-> began'.soft, raised |-> began'.raised, set |-> began'.set, cut |-> began'.cut]
    BY <2>1 DEF RestrictInv, OwnShape
  <2>4. /\ moves'.todo = moves.todo /\ moves'.nofile = moves.nofile
        /\ moves' = [todo |-> moves'.todo, moved |-> moves'.moved, nofile |-> moves'.nofile, fault |-> moves'.fault]
    BY <2>2 DEF RestrictInv, OwnShape
  <2>5. HeldShape' /\ OpenEntries'
    BY <2>2 DEF RestrictInv, HeldShape, OpenEntries
  <2>6. OwnShape'
    BY <2>2, <2>3, <2>4 DEF RestrictInv, OwnShape
  <2>7. Untouched'
    BY <1>0, <2>2 DEF RestrictInv, Untouched
  <2>8. Established'
    BY <2>2 DEF RestrictInv, Established
  <2>9. Owed'
    BY <1>0, <2>1, <2>2, <2>3 DEF RestrictInv, Owed
  <2>10. RestrictionHolds' /\ RepeatPasses'
    BY <1>0, <2>2 DEF RestrictInv, RestrictionHolds, RepeatPasses
  <2> QED BY <2>5, <2>6, <2>7, <2>8, <2>9, <2>10 DEF RestrictInv
<1>2. CASE ~fails /\ MaySetLimits
  <2> DEFINE s == Lower(held.soft[r], ask.limits[r])
             h == Lower(held.hard[r], ask.limits[r])
  <2>1. held' = [held EXCEPT !.soft[r] = s, !.hard[r] = h]
    BY <1>2 DEF SetLimit, plan_limit
  <2>2. /\ moves' = [moves EXCEPT !.todo = @ \ {r}, !.moved = TRUE, !.nofile = @ \/ r = "nofile"]
        /\ pace' = "limits" /\ UNCHANGED <<system, ask, before, turns, told, files, kin, inspected>>
    BY <1>2 DEF SetLimit, Pace
  <2>3. /\ held.soft[r] \in Nat /\ held.hard[r] \in Nat /\ held.soft[r] <= held.hard[r] /\ ask.limits[r] \in Nat
        /\ HeldShape
    BY LimitsCounted DEF RestrictInv
  <2>4. s \in Nat /\ h \in Nat /\ s <= h /\ s <= ask.limits[r] /\ h <= ask.limits[r]
    BY <2>3
  <2>5. HeldShape' /\ LimitIs(r, s, h)
    <3> HIDE DEF s, h, Resources
    <3> QED BY <2>1, <2>3, <2>4, LimitIsSet
  <2>6. ASSUME NEW q \in Resources, q = r \/ Within(q) PROVE Within(q)'
    <3>1. held'.soft[q] = (IF q = r THEN s ELSE held.soft[q]) /\ held'.hard[q] = (IF q = r THEN h ELSE held.hard[q])
      <4> HIDE DEF s, h, Resources
      <4> QED BY <2>3, <2>5, LimitAt
    <3> HIDE DEF s, h
    <3> QED BY <2>2, <2>4, <2>6, <3>1
  <2>7. PICK nofile : /\ moves' = [moves EXCEPT !.todo = @ \ {r}, !.moved = TRUE, !.nofile = nofile]
                      /\ (nofile <=> (moves.nofile \/ r = "nofile"))
    BY <2>2, Zenon
  <2>8. /\ moves'.todo = moves.todo \ {r} /\ moves'.moved = TRUE /\ moves'.nofile = nofile /\ moves'.fault = moves.fault
        /\ moves' = [todo |-> moves'.todo, moved |-> moves'.moved, nofile |-> moves'.nofile, fault |-> moves'.fault]
    BY <2>7 DEF RestrictInv, OwnShape
  <2>9. ASSUME r # "nofile" PROVE OwnShape' /\ Owed'
    <3>1. began' = began
      BY <1>2, <2>9 DEF SetLimit
    <3>2. held'.soft["nofile"] = held.soft["nofile"] /\ held'.hard["nofile"] = held.hard["nofile"]
      <4> HIDE DEF s, h
      <4> QED BY <2>3, <2>5, <2>9, LimitAt
    <3>3. OwnShape'
      BY <2>2, <2>8, <3>1 DEF RestrictInv, OwnShape
    <3>a. moves'.nofile <=> moves.nofile
      BY <2>7, <2>8, <2>9
    <3>4. Owed'
      BY <2>2, <3>a, <3>1, <3>2, <1>0 DEF RestrictInv, Owed
    <3> QED BY <3>3, <3>4
  <2>10. ASSUME r = "nofile" PROVE OwnShape' /\ Owed'
    <3>1. PICK b : began' = [began EXCEPT !.set = TRUE, !.raised = b] /\ (b => began.raised /\ system = "linux")
      BY <1>2, <2>10, Zenon DEF SetLimit
    <3>2. /\ began'.soft = began.soft /\ began'.raised = b /\ began'.set = TRUE /\ began'.cut = began.cut
          /\ began' = [soft |-> began'.soft, raised |-> began'.raised, set |-> began'.set, cut |-> began'.cut]
      BY <3>1 DEF RestrictInv, OwnShape
    <3>3. OwnShape'
      BY <2>2, <2>8, <3>2 DEF RestrictInv, OwnShape
    <3>4. Owed'
      BY <2>2, <2>7, <2>8, <2>10, <3>1, <3>2 DEF Owed
    <3> QED BY <3>3, <3>4
  <2>11. OpenEntries'
    BY <1>0, <2>2 DEF RestrictInv, OpenEntries
  <2>12. Untouched'
    BY <1>0, <2>2, <2>8 DEF RestrictInv, Untouched
  <2>13. Established'
    <3>1. \A q \in Resources \ moves'.todo : Within(q)'
      BY <1>0, <2>6, <2>8 DEF RestrictInv, Established
    <3>2. before.good' \/ before.repeat' => \A q \in Resources : Within(q)'
      BY <2>2, <2>6 DEF RestrictInv, Established
    <3> QED BY <1>0, <2>2, <3>1, <3>2 DEF RestrictInv, Established
  <2>14. RestrictionHolds' /\ RepeatPasses'
    <3>1. held'.runs = held.runs /\ held'.undone = held.undone /\ held'.kept = held.kept
      BY <2>5 DEF LimitIs, OthersHeld
    <3> QED BY <1>0, <2>2, <3>1 DEF RestrictInv, RestrictionHolds, RepeatPasses
  <2> QED BY <2>5, <2>9, <2>10, <2>11, <2>12, <2>13, <2>14 DEF RestrictInv
<1> QED BY <1>1, <1>2

LEMMA RestrictLimitsSet ==
  ASSUME RestrictInv, LimitsSet
  PROVE  RestrictInv'
<1>0. pace = "limits" /\ moves.todo = {} /\ told = "" /\ pace' = "enforce"
      /\ UNCHANGED <<system, ask, before, turns, told, held, files, kin, inspected, moves>>
  BY DEF RestrictInv, Untouched, LimitsSet, Pace
<1>1. CASE moves.nofile
  <2>1. began' = [began EXCEPT !.raised = FALSE]
    BY <1>0, <1>1 DEF LimitsSet, NofileMoved
  <2>2. /\ began'.soft = began.soft /\ began'.raised = FALSE /\ began'.set = began.set /\ began'.cut = began.cut
        /\ began' = [soft |-> began'.soft, raised |-> began'.raised, set |-> began'.set, cut |-> began'.cut]
    BY <2>1 DEF RestrictInv, OwnShape
  <2>3. began.set
    BY <1>0, <1>1 DEF RestrictInv, Owed
  <2>4. OwnShape' /\ Owed'
    BY <1>0, <2>2, <2>3 DEF RestrictInv, OwnShape, Owed
  <2> QED BY <1>0, <2>4 DEF RestrictInv, HeldShape, OpenEntries, Untouched, Established, RestrictionHolds, RepeatPasses
<1>2. CASE ~moves.nofile
  <2>1. began' = began
    BY <1>2 DEF LimitsSet, NofileMoved
  <2>2. OwnShape' /\ Owed'
    BY <1>0, <1>2, <2>1 DEF RestrictInv, OwnShape, Owed
  <2> QED BY <1>0, <2>2 DEF RestrictInv, HeldShape, OpenEntries, Untouched, Established, RestrictionHolds, RepeatPasses
<1> QED BY <1>1, <1>2

LEMMA RestrictEnforceRuleset ==
  ASSUME RestrictInv, NEW fails \in BOOLEAN, enforce_ruleset(fails)
  PROVE  RestrictInv'
<1>0. pace = "enforce" /\ system = "linux" /\ told = ""
  BY DEF RestrictInv, Untouched, enforce_ruleset
<1>1. CASE fails
  <2>1. /\ told' = IF moves.moved THEN "partly" ELSE "refused"
        /\ pace' = "" /\ moves' = [moves EXCEPT !.fault = TRUE]
        /\ UNCHANGED <<system, files, kin, ask, before, turns, held, inspected, began>>
    BY <1>1 DEF enforce_ruleset, Fault, restrict_refused
  <2>2. ~moves.moved => held = before.held
    BY <1>0 DEF RestrictInv, Untouched
  <2> QED BY <1>0, <2>1, <2>2, RestrictFaults
<1>2. CASE ~fails
  <2>1. held' = [held EXCEPT !.domain = held.domain \cap ask.grants] /\ HeldShape
    BY <1>2 DEF enforce_ruleset, RestrictInv
  <2>2. pace' = "filter" /\ UNCHANGED <<system, ask, before, turns, told, began, files, kin, inspected, moves>>
    BY <1>2 DEF enforce_ruleset, Pace
  <2>3. HeldShape' /\ DomainIs(held.domain \cap ask.grants, held.profile)
    BY <2>1, DomainIsSet
  <2>4. /\ held'.soft = held.soft /\ held'.hard = held.hard /\ held'.domain \subseteq ask.grants
        /\ held'.runs = held.runs /\ held'.undone = held.undone /\ held'.kept = held.kept
    BY <2>3 DEF DomainIs, OthersHeld
  <2>5. OwnShape' /\ OpenEntries' /\ Untouched' /\ Owed'
    BY <1>0, <2>2, <2>4 DEF RestrictInv, OwnShape, OpenEntries, Untouched, Owed
  <2>6. Established'
    BY <1>0, <2>2, <2>4 DEF RestrictInv, Established
  <2>7. RestrictionHolds' /\ RepeatPasses'
    BY <1>0, <2>2, <2>4 DEF RestrictInv, RestrictionHolds, RepeatPasses
  <2> QED BY <2>3, <2>5, <2>6, <2>7 DEF RestrictInv
<1> QED BY <1>1, <1>2

LEMMA RestrictCosmicPromisesApply ==
  ASSUME RestrictInv, NEW fails \in BOOLEAN, cosmic_promises_apply(fails)
  PROVE  RestrictInv'
<1>0. pace = "filter" /\ system = "linux" /\ told = ""
  BY DEF RestrictInv, Untouched, Established, cosmic_promises_apply
<1>1. CASE fails
  <2>1. /\ told' = "partly"
        /\ pace' = "" /\ moves' = [moves EXCEPT !.fault = TRUE]
        /\ UNCHANGED <<system, files, kin, ask, before, turns, held, inspected, began>>
    BY <1>1 DEF cosmic_promises_apply, Fault, restrict_refused
  <2> QED BY <1>0, <2>1, RestrictFaults
<1>2. CASE ~fails
  <2> DEFINE filter == [promises |-> ask.promises, limits |-> lacks_resource_capability]
  <2>1. held' = [held EXCEPT !.filters = held.filters \cup {filter}] /\ HeldShape
    BY <1>2 DEF cosmic_promises_apply, RestrictInv
  <2>2. /\ told' = "ok" /\ pace' = "" /\ before' = [before EXCEPT !.good = TRUE]
        /\ UNCHANGED <<system, began, files, kin, inspected, ask, turns, moves>>
    BY <1>2 DEF cosmic_promises_apply, Succeed
  <2>3. filter.promises = ask.promises
    OBVIOUS
  <2>4. /\ HeldShape' /\ held'.soft = held.soft /\ held'.hard = held.hard /\ held'.domain = held.domain
        /\ held'.runs = held.runs /\ held'.undone = held.undone /\ held'.kept = held.kept
        /\ held'.filters = held.filters \cup {filter}
    <3> HIDE DEF filter
    <3> QED BY <2>1, FilterIsSet
  <2>5. \E f \in held'.filters : f.promises \subseteq ask.promises
    <3> HIDE DEF filter
    <3> QED BY <2>3, <2>4
  <2>6. held'.domain \subseteq ask.grants
    BY <1>0, <2>4 DEF RestrictInv, Established
  <2> QED BY <1>0, <2>2, <2>4, <2>5, <2>6, RestrictSucceeds
<1> QED BY <1>1, <1>2

LEMMA RestrictApplySeatbelt ==
  ASSUME RestrictInv, NEW fails \in BOOLEAN, apply_seatbelt(fails)
  PROVE  RestrictInv'
<1>0. pace = "enforce" /\ system = "darwin" /\ told = ""
  BY DEF RestrictInv, Untouched, apply_seatbelt
<1>1. CASE fails
  <2>1. /\ told' = IF moves.moved THEN "partly" ELSE "refused"
        /\ pace' = "" /\ moves' = [moves EXCEPT !.fault = TRUE]
        /\ UNCHANGED <<system, files, kin, ask, before, turns, held, inspected, began>>
    BY <1>1 DEF apply_seatbelt, Fault, restrict_refused
  <2>2. ~moves.moved => held = before.held
    BY <1>0 DEF RestrictInv, Untouched
  <2> QED BY <1>0, <2>1, <2>2, RestrictFaults
<1>2. CASE ~fails
  <2>1. held' = [held EXCEPT !.domain = held.domain \cap ask.grants, !.profile = TRUE] /\ HeldShape
    BY <1>2 DEF apply_seatbelt, RestrictInv
  <2>2. /\ told' = "ok" /\ pace' = "" /\ before' = [before EXCEPT !.good = TRUE]
        /\ UNCHANGED <<system, began, files, kin, inspected, ask, turns, moves>>
    BY <1>2 DEF apply_seatbelt, Succeed
  <2>3. HeldShape' /\ DomainIs(held.domain \cap ask.grants, TRUE)
    BY <2>1, ProfileIsSet
  <2>4. /\ held'.soft = held.soft /\ held'.hard = held.hard /\ held'.domain \subseteq ask.grants
        /\ held'.runs = held.runs /\ held'.undone = held.undone /\ held'.kept = held.kept
    BY <2>3 DEF DomainIs, OthersHeld
  <2> QED BY <1>0, <2>2, <2>3, <2>4, RestrictSucceeds
<1> QED BY <1>1, <1>2

HIDE DEF Resources, ProcEntries, Lower, Within, inspected_same, handed_on

LEMMA RestrictStart == RestrictInit => RestrictInv
<1> SUFFICES ASSUME RestrictInit PROVE RestrictInv
  OBVIOUS
<1>0. PICK s \in 1 .. MaxLimit, h \in 1 .. MaxLimit, able \in BOOLEAN :
      /\ s <= h
      /\ held = [soft |-> [nofile |-> cosmic_raise_descriptor_limit(s, h).soft, other |-> h],
                 hard |-> [x \in Resources |-> h], domain |-> Paths, filters |-> {}, capable |-> able,
                 runs |-> TRUE, kept |-> FALSE, undone |-> FALSE, profile |-> FALSE]
      /\ began = [soft |-> s, raised |-> cosmic_raise_descriptor_limit(s, h).raised, set |-> FALSE, cut |-> FALSE]
  BY Zenon DEF RestrictInit
<1>1. /\ system \in {"linux", "darwin"} /\ files = [f \in Fds |-> "none"] /\ kin = [child |-> FALSE, threads |-> 1]
      /\ inspected = [e \in ProcEntries |-> -1] /\ ask \in Restrictions /\ pace = "" /\ told = ""
      /\ moves = [todo |-> {}, moved |-> FALSE, nofile |-> FALSE, fault |-> FALSE]
      /\ before = [held |-> held, intact |-> FALSE, good |-> FALSE, repeat |-> FALSE]
  BY Zenon DEF RestrictInit
<1>2. s \in Nat /\ h \in Nat /\ Raised \in Nat
  BY NumbersAssumption
<1>3. DEFINE soft == cosmic_raise_descriptor_limit(s, h).soft
<1>4. /\ soft \in Nat /\ soft <= h
      /\ ~cosmic_raise_descriptor_limit(s, h).raised => soft = s
  BY <1>0, <1>2 DEF cosmic_raise_descriptor_limit, Lower
<1>5. HeldShape
  <2> HIDE DEF soft
  <2>1. held.soft = [nofile |-> soft, other |-> h] /\ held.hard = [x \in Resources |-> h]
    BY <1>0 DEF soft
  <2>2. held.soft \in [Resources -> Nat] /\ held.hard \in [Resources -> Nat]
    BY <2>1, <1>2, <1>4 DEF Resources
  <2>3. \A r \in Resources : held.soft[r] <= held.hard[r]
    BY <2>1, <1>2, <1>4 DEF Resources
  <2> QED BY <2>2, <2>3, <1>0 DEF HeldShape
<1>6. OwnShape
  BY <1>0, <1>1, <1>2, RestrictionsAssumption DEF OwnShape
<1>7. OpenEntries
  BY <1>1 DEF OpenEntries, ProcEntries
<1>8. Untouched /\ Established
  BY <1>1 DEF Untouched, Established
<1>9. Owed
  <2>1. began.raised = cosmic_raise_descriptor_limit(s, h).raised /\ began.soft = s /\ ~began.set
    BY <1>0
  <2>2. held.soft["nofile"] = soft /\ held.hard["nofile"] = h
    BY <1>0 DEF Resources
  <2>3. Lower(s, h) = s
    BY <1>0, <1>2 DEF Lower
  <2> HIDE DEF soft
  <2> QED BY <2>1, <2>2, <2>3, <1>4, <1>1 DEF Owed
<1>10. RestrictionHolds /\ RepeatPasses
  BY <1>0, <1>1 DEF RestrictionHolds, RepeatPasses
<1> QED BY <1>5, <1>6, <1>7, <1>8, <1>9, <1>10 DEF RestrictInv

LEMMA RestrictStep == RestrictInv /\ [RestrictNext]_restrictVars => RestrictInv'
<1> SUFFICES ASSUME RestrictInv, [RestrictNext]_restrictVars PROVE RestrictInv'
  OBVIOUS
<1>1. CASE UNCHANGED restrictVars
  <2>1. (HeldShape /\ OwnShape)'
    BY <1>1 DEF restrictVars, RestrictInv, HeldShape, OwnShape
  <2>2. OpenEntries'
    BY <1>1 DEF restrictVars, RestrictInv, OpenEntries, inspected_same
  <2>3. (Untouched /\ Owed)'
    BY <1>1 DEF restrictVars, RestrictInv, Untouched, Owed
  <2>4. Established'
    BY <1>1 DEF restrictVars, RestrictInv, Established, Within
  <2>5. (RestrictionHolds /\ RepeatPasses)'
    BY <1>1 DEF restrictVars, RestrictInv, RestrictionHolds, RepeatPasses, handed_on
  <2> QED BY <2>1, <2>2, <2>3, <2>4, <2>5 DEF RestrictInv
<1>2. CASE \E f \in Fds, what \in {"none", "file"} : files[f] # what /\ Place(f, what)
  BY <1>2, RestrictPlace
<1>3. CASE \E c \in BOOLEAN, n \in 1 .. 2 : Kin([child |-> c, threads |-> n])
  BY <1>3, RestrictKin
<1>4. CASE \E r \in Resources, s, h \in 1 .. MaxLimit : setrlimit(r, s, h)
  BY <1>4, RestrictSetrlimit
<1>5. CASE \E keeps, works, dumps \in BOOLEAN : landlock_restrict_execute(keeps, works, dumps)
  BY <1>5, RestrictLandlockRestrictExecute
<1>6. CASE \E a \in Restrictions : CallRestrict(a)
  BY <1>6, RestrictCallRestrict
<1>7. CASE KeptOpen \/ inspected_open \/ Count \/ DarwinCount \/ Uncounted \/ LimitsSet
  BY <1>7, RestrictKeptOpen, RestrictInspectedOpen, RestrictCount, RestrictDarwinCount, RestrictUncounted,
     RestrictLimitsSet
<1>8. CASE \E fails \in BOOLEAN :
             \/ Plan(fails)
             \/ \E r \in Resources : SetLimit(r, fails)
             \/ enforce_ruleset(fails) \/ cosmic_promises_apply(fails) \/ apply_seatbelt(fails)
  BY <1>8, RestrictPlan, RestrictSetLimit, RestrictEnforceRuleset, RestrictCosmicPromisesApply, RestrictApplySeatbelt
<1> QED BY <1>1, <1>2, <1>3, <1>4, <1>5, <1>6, <1>7, <1>8 DEF RestrictNext

(* Through every restriction, whichever step of it fails, and through what *)
(* the program does to its descriptors, children and limits in between, a  *)
(* limit taken is kept in order, each stage finds what the one before it   *)
(* established, and a handle on /proc is where it is remembered            *)
(* (core/syscalls.c's restrict_self, inspected_open, plan_limit).          *)
THEOREM RestrictInvariance == RestrictSpec => []RestrictInv
BY RestrictStart, RestrictStep, PTL DEF RestrictSpec

(* restrict_self's answer is true: a plain refusal took nothing away, a    *)
(* success holds the process to all that was asked with nothing left       *)
(* outside it, a repeat by a process that kept to it passes, and a child   *)
(* is given back the soft limit of descriptors it is owed                  *)
(* (restore_descriptor_limit).                                             *)
THEOREM RestrictIsHonest == RestrictSpec => []RestrictTells
<1>1. RestrictInv => RefusalHonest /\ RestrictionHolds /\ RepeatPasses
  BY DEF RestrictInv, Untouched, RefusalHonest
<1>2. RestrictInv => ChildLimit
  BY DEF RestrictInv, Owed, ChildLimit, restored_descriptor_limit
<1> QED BY RestrictInvariance, <1>1, <1>2, PTL DEF RestrictTells

-----------------------------------------------------------------------------
(***************************************************************************)
(* Children.  What the tables say of each child, as the look of any handle *)
(* leaves them; the same holds within a look, so it is said of the tables  *)
(* a look changes: the processes P, the pids owned O, the statuses filed   *)
(* R, the handles' statuses St, those told there is no child F, and the    *)
(* handles' stages Sg.  A handle is clean while it is not done with its    *)
(* pid and nobody else was given that: of a clean one the pid is its own.  *)
(***************************************************************************)

HandleStages == {"none", "spawned", "open", "dropped", "collected", "closed"}
Holding == {"spawned", "open", "dropped", "collected"}
Statuses == Handles \cup {Orphan, Nothing}

\* A handle still to be done with its pid, which nobody else was given.
Clean(Sg, h) == Sg[h] \in Holding /\ h \notin reused

TablesOK(P, O, R, St, F, Sg) ==
    /\ DOMAIN P \subseteq 1 .. MaxPid /\ \A p \in DOMAIN P : P[p] \in Process
    /\ DOMAIN R \subseteq O /\ \A p \in DOMAIN R : R[p] \in Handles \cup {Orphan}
    /\ St \in [Handles -> Statuses] /\ F \subseteq Handles /\ Sg \in [Handles -> HandleStages]
    /\ pid_of \in [Handles -> Nat] /\ \A h \in Handles : Sg[h] \in Holding => pid_of[h] # 0
    /\ \A h \in Handles : Sg[h] \in {"none", "spawned"} => St[h] = Nothing

\* A process is some child, its handle not done with it, or made by one.
Lineage(P, St, Sg) ==
    \A p \in DOMAIN P :
      /\ Sg[P[p].who] # "none"
      /\ P[p].leader => P[p].ours /\ p = pid_of[P[p].who]
      /\ P[p].group \in {0, pid_of[P[p].who]}
      /\ P[p].leader /\ P[p].who \notin reused => Sg[P[p].who] \in Holding /\ St[P[p].who] = Nothing

\* The pid of a clean handle, and the group it leads, are its child's alone.
Alone(P, Sg) ==
    \A h \in Handles : Clean(Sg, h) =>
      /\ \A g \in Handles \ {h} : Sg[g] \in Holding => pid_of[g] # pid_of[h]
      /\ \A q \in DOMAIN P :
           /\ q = pid_of[h] => P[q].who = h /\ P[q].leader
           /\ P[q].group = pid_of[h] => P[q].who = h

\* A pid is owned for a handle that waits for its status.
Owning(O, St, Sg) ==
    /\ \A p \in O : \E g \in Handles :
          Sg[g] \in Holding \ {"spawned"} /\ pid_of[g] = p /\ St[g] = Nothing
    /\ \A h \in Handles :
          Clean(Sg, h) /\ Sg[h] # "spawned" /\ St[h] = Nothing => pid_of[h] \in O

\* A status filed for a clean handle is its child's, which is reaped.
FiledRight(P, R, Sg) ==
    \A h \in Handles : Clean(Sg, h) /\ pid_of[h] \in DOMAIN R =>
      pid_of[h] \notin DOMAIN P /\ R[pid_of[h]] = h

\* No child is lost but by an overtaken start.
NoneLost(P, R, St, F, Sg) ==
    \A h \in Handles \ reused :
      /\ St[h] \in {Nothing, h}
      /\ h \notin overtaken =>
           /\ h \notin F
           /\ Sg[h] \in Holding /\ St[h] = Nothing => pid_of[h] \in DOMAIN P \cup DOMAIN R

Tables(P, O, R, St, F, Sg) ==
    /\ TablesOK(P, O, R, St, F, Sg) /\ Lineage(P, St, Sg) /\ Alone(P, Sg)
    /\ Owning(O, St, Sg) /\ FiledRight(P, R, Sg) /\ NoneLost(P, R, St, F, Sg)

\* What may hold the thread.
Threads ==
    /\ {starting, finalizing, blocked} \subseteq Handles \cup {Nobody}
    /\ \A h \in Handles : stage[h] = "spawned" <=> starting = h
    /\ finalizing # Nobody => stage[finalizing] = "dropped" /\ starting \in overtaken \cup {Nobody}
    /\ blocked # Nobody =>
          /\ stage[blocked] = "open" /\ starting = Nobody /\ finalizing = Nobody
          /\ pid_of[blocked] \in DOMAIN processes /\ processes[pid_of[blocked]].ours

\* Whom the last signal reached.
Aimed ==
    \A x \in struck : IF x.by = Strays THEN x.leader => x.who \in reused
                      ELSE x.who = x.by \/ x.by \in reused

ChildrenInv ==
    /\ Tables(processes, owned_pids, reaped, status_of, failed, stage)
    /\ Threads /\ Aimed

-----------------------------------------------------------------------------
\* What a look does to the tables.

\* collect: the exits in G leave the processes, an owned one's filed.
LEMMA CollectKeeps ==
  ASSUME NEW P, NEW O, NEW R, NEW St, NEW F, NEW Sg, Tables(P, O, R, St, F, Sg),
         NEW G \in SUBSET DOMAIN P, NEW R2,
         \A h \in Handles : Sg[h] = "spawned" => h \in overtaken,
         DOMAIN R2 = DOMAIN R \cup (G \cap O),
         \A p \in DOMAIN R2 :
            R2[p] = IF p \in G \cap O THEN IF P[p].leader THEN P[p].who ELSE Orphan ELSE R[p]
  PROVE  Tables(Without(P, G), O, R2, St, F, Sg)
<1> DEFINE Q == Without(P, G)
<1>1. DOMAIN Q = DOMAIN P \ G /\ \A p \in DOMAIN Q : Q[p] = P[p]
  BY DEF Without, Restrict
<1>2. TablesOK(P, O, R, St, F, Sg) /\ Lineage(P, St, Sg) /\ Alone(P, Sg)
      /\ Owning(O, St, Sg) /\ FiledRight(P, R, Sg) /\ NoneLost(P, R, St, F, Sg)
  BY DEF Tables
<1> HIDE DEF Q
<1>3. TablesOK(Q, O, R2, St, F, Sg)
  BY <1>1, <1>2 DEF TablesOK, Process
<1>4. Lineage(Q, St, Sg)
  BY <1>1, <1>2 DEF Lineage
<1>5. Alone(Q, Sg)
  BY <1>1, <1>2 DEF Alone
<1>6. FiledRight(Q, R2, Sg)
  BY <1>1, <1>2 DEF FiledRight, Alone
<1>7. NoneLost(Q, R2, St, F, Sg)
  BY <1>1, <1>2 DEF NoneLost, Owning, Clean, Holding
<1> QED BY <1>2, <1>3, <1>4, <1>5, <1>6, <1>7 DEF Tables, Q

\* claim: what is filed with a handle is its own child's, if it is clean.
LEMMA ClaimKeeps ==
  ASSUME NEW P, NEW O, NEW R, NEW St, NEW F, NEW Sg, Tables(P, O, R, St, F, Sg),
         NEW h \in Handles, Sg[h] \in Holding \ {"spawned"},
         NEW D \in SUBSET {pid_of[h]}, NEW what \in Handles \cup {Orphan},
         h \notin reused => what = h /\ pid_of[h] \notin DOMAIN P \ D
  PROVE  Tables(Without(P, D), O \ {pid_of[h]}, Without(R, {pid_of[h]}), [St EXCEPT ![h] = what], F, Sg)
<1> DEFINE Q == Without(P, D)
           R2 == Without(R, {pid_of[h]})
           O2 == O \ {pid_of[h]}
           S2 == [St EXCEPT ![h] = what]
<1>1. /\ DOMAIN Q = DOMAIN P \ D /\ \A p \in DOMAIN Q : Q[p] = P[p]
      /\ DOMAIN R2 = DOMAIN R \ {pid_of[h]} /\ \A p \in DOMAIN R2 : R2[p] = R[p]
  BY DEF Without, Restrict
<1>2. TablesOK(P, O, R, St, F, Sg) /\ Lineage(P, St, Sg) /\ Alone(P, Sg)
      /\ Owning(O, St, Sg) /\ FiledRight(P, R, Sg) /\ NoneLost(P, R, St, F, Sg)
  BY DEF Tables
<1>3. S2 \in [Handles -> Statuses] /\ S2[h] = what /\ \A g \in Handles \ {h} : S2[g] = St[g]
  BY <1>2 DEF TablesOK, Statuses
<1>4. \A p \in O2 : p \in O /\ p # pid_of[h]
  OBVIOUS
<1>5. \A p \in O : p # pid_of[h] => p \in O2
  OBVIOUS
<1> HIDE DEF Q, R2, O2, S2
<1>6. TablesOK(Q, O2, R2, S2, F, Sg)
  <2>1. DOMAIN R2 \subseteq O2
    BY <1>1, <1>2, <1>5 DEF TablesOK
  <2>2. \A g \in Handles : Sg[g] \in {"none", "spawned"} => S2[g] = Nothing
    BY <1>2, <1>3 DEF TablesOK, Holding
  <2> QED BY <1>1, <1>2, <1>3, <2>1, <2>2 DEF TablesOK
<1>7. Lineage(Q, S2, Sg)
  <2>1. ASSUME NEW p \in DOMAIN Q
        PROVE  Q[p].leader /\ Q[p].who \notin reused => Q[p].who # h
    BY <1>1, <1>2 DEF Lineage
  <2>2. \A p \in DOMAIN Q : Q[p].who \in Handles
    BY <1>1, <1>2 DEF TablesOK, Process
  <2> QED BY <1>1, <1>2, <1>3, <2>1, <2>2 DEF Lineage
<1>8. Alone(Q, Sg)
  BY <1>1, <1>2 DEF Alone
<1>9. Owning(O2, S2, Sg)
  <2>1. ASSUME NEW p \in O2
        PROVE  \E g \in Handles : Sg[g] \in Holding \ {"spawned"} /\ pid_of[g] = p /\ S2[g] = Nothing
    <3>1. PICK g \in Handles : Sg[g] \in Holding \ {"spawned"} /\ pid_of[g] = p /\ St[g] = Nothing
      BY <1>2, <1>4 DEF Owning
    <3>2. g # h
      BY <1>4, <3>1
    <3> QED BY <1>3, <3>1, <3>2
  <2>2. ASSUME NEW g \in Handles, Clean(Sg, g), Sg[g] # "spawned", S2[g] = Nothing
        PROVE  pid_of[g] \in O2
    <3>1. what # Nothing
      BY HandlesAssumption DEF Orphan, Nothing
    <3>2. g # h
      BY <1>3, <2>2, <3>1
    <3>3. pid_of[g] \in O
      BY <1>2, <1>3, <2>2, <3>2 DEF Owning
    <3>4. pid_of[g] # pid_of[h]
      BY <1>2, <2>2, <3>2 DEF Alone
    <3> QED BY <1>5, <3>3, <3>4
  <2> QED BY <2>1, <2>2 DEF Owning
<1>10. FiledRight(Q, R2, Sg)
  BY <1>1, <1>2 DEF FiledRight
<1>11. NoneLost(Q, R2, S2, F, Sg)
  <2>1. ASSUME NEW g \in Handles \ reused PROVE S2[g] \in {Nothing, g}
    BY <1>2, <1>3 DEF NoneLost
  <2>2. ASSUME NEW g \in Handles \ reused, g \notin overtaken, Sg[g] \in Holding, S2[g] = Nothing
        PROVE  pid_of[g] \in DOMAIN Q \cup DOMAIN R2
    <3>1. what # Nothing
      BY HandlesAssumption DEF Orphan, Nothing
    <3>2. g # h
      BY <1>3, <2>2, <3>1
    <3>3. pid_of[g] # pid_of[h]
      BY <1>2, <2>2, <3>2 DEF Alone, Clean
    <3> QED BY <1>1, <1>2, <1>3, <2>2, <3>2, <3>3 DEF NoneLost
  <2>3. \A g \in Handles \ reused : g \notin overtaken => g \notin F
    BY <1>2 DEF NoneLost
  <2> QED BY <2>1, <2>2, <2>3 DEF NoneLost
<1> QED BY <1>6, <1>7, <1>8, <1>9, <1>10, <1>11 DEF Tables, Q, O2, R2, S2

\* A handle whose child has no status and is no process of ours is told so.
LEMMA FailKeeps ==
  ASSUME NEW P, NEW O, NEW R, NEW St, NEW F, NEW Sg, Tables(P, O, R, St, F, Sg),
         NEW h \in Handles, Sg[h] \in Holding, St[h] = Nothing,
         pid_of[h] \notin DOMAIN R, ~(pid_of[h] \in DOMAIN P /\ P[pid_of[h]].ours)
  PROVE  Tables(P, O, R, St, F \cup {h}, Sg)
<1>1. TablesOK(P, O, R, St, F, Sg) /\ Lineage(P, St, Sg) /\ Alone(P, Sg)
      /\ Owning(O, St, Sg) /\ FiledRight(P, R, Sg) /\ NoneLost(P, R, St, F, Sg)
  BY DEF Tables
<1>2. h \in reused \cup overtaken
  <2>1. CASE h \notin reused \cup overtaken
    <3>1. pid_of[h] \in DOMAIN P
      BY <1>1, <2>1 DEF NoneLost
    <3>2. P[pid_of[h]].leader
      BY <1>1, <2>1, <3>1 DEF Alone, Clean
    <3> QED BY <1>1, <3>1, <3>2 DEF Lineage
  <2> QED BY <2>1
<1>3. NoneLost(P, R, St, F \cup {h}, Sg)
  BY <1>1, <1>2 DEF NoneLost
<1>4. TablesOK(P, O, R, St, F \cup {h}, Sg)
  BY <1>1 DEF TablesOK
<1> QED BY <1>1, <1>3, <1>4 DEF Tables

\* A handle is dropped, given up, or closed with its status.
Moves(a, b, known) ==
    \/ a = "open" /\ b = "dropped"
    \/ a = "dropped" /\ b = "collected"
    \/ a \in Holding \ {"spawned"} /\ b = "closed" /\ known # Nothing

LEMMA StageKeeps ==
  ASSUME NEW P, NEW O, NEW R, NEW St, NEW F, NEW Sg, Tables(P, O, R, St, F, Sg),
         NEW h \in Handles, NEW b, Moves(Sg[h], b, St[h])
  PROVE  Tables(P, O, R, St, F, [Sg EXCEPT ![h] = b])
<1> DEFINE T == [Sg EXCEPT ![h] = b]
<1>1. TablesOK(P, O, R, St, F, Sg) /\ Lineage(P, St, Sg) /\ Alone(P, Sg)
      /\ Owning(O, St, Sg) /\ FiledRight(P, R, Sg) /\ NoneLost(P, R, St, F, Sg)
  BY DEF Tables
<1>2. b \in {"dropped", "collected", "closed"} /\ Sg[h] \in Holding \ {"spawned"}
  BY DEF Moves, Holding
<1>3. T \in [Handles -> HandleStages] /\ T[h] = b /\ \A g \in Handles \ {h} : T[g] = Sg[g]
  BY <1>1, <1>2 DEF TablesOK, HandleStages
<1>4. b \notin Holding => St[h] # Nothing
  BY DEF Moves, Holding
<1> HIDE DEF T
<1>5. \A g \in Handles : T[g] \in Holding => Sg[g] \in Holding
  BY <1>2, <1>3
<1>6. \A g \in Handles : Clean(T, g) => Clean(Sg, g)
  BY <1>5 DEF Clean
<1>7. \A g \in Handles : St[g] = Nothing /\ Sg[g] \in Holding => T[g] \in Holding
  BY <1>3, <1>4
<1>8. \A g \in Handles : T[g] \in {"none", "spawned"} <=> Sg[g] \in {"none", "spawned"}
  BY <1>2, <1>3 DEF Holding
<1>9. \A g \in Handles : (T[g] = "spawned" <=> Sg[g] = "spawned") /\ (T[g] = "none" <=> Sg[g] = "none")
  BY <1>2, <1>3 DEF Holding
<1>10. TablesOK(P, O, R, St, F, T)
  BY <1>1, <1>3, <1>5, <1>8 DEF TablesOK
<1>11. Lineage(P, St, T)
  <2>1. \A p \in DOMAIN P : P[p].who \in Handles
    BY <1>1 DEF TablesOK, Process
  <2> QED BY <1>1, <1>7, <1>9, <2>1 DEF Lineage
<1>12. Alone(P, T)
  BY <1>1, <1>5, <1>6 DEF Alone
<1>13. Owning(O, St, T)
  <2>1. ASSUME NEW p \in O
        PROVE  \E g \in Handles : T[g] \in Holding \ {"spawned"} /\ pid_of[g] = p /\ St[g] = Nothing
    BY <1>1, <1>7, <1>9 DEF Owning
  <2>2. \A g \in Handles : Clean(T, g) /\ T[g] # "spawned" /\ St[g] = Nothing => pid_of[g] \in O
    BY <1>1, <1>6, <1>9 DEF Owning
  <2> QED BY <2>1, <2>2 DEF Owning
<1>14. FiledRight(P, R, T)
  BY <1>1, <1>6 DEF FiledRight
<1>15. NoneLost(P, R, St, F, T)
  BY <1>1, <1>5 DEF NoneLost
<1> QED BY <1>10, <1>11, <1>12, <1>13, <1>14, <1>15 DEF Tables, T

LEMMA WithoutTwice ==
  ASSUME NEW f, NEW A, NEW B
  PROVE  Without(Without(f, A), B) = Without(f, A \cup B)
BY DEF Without, Restrict

\* A look leaves the tables in order, whatever it finds.
LEMMA LookKeeps ==
  ASSUME Tables(processes, owned_pids, reaped, status_of, failed, stage),
         NEW h \in Handles, stage[h] \in Holding \ {"spawned"},
         \A g \in Handles : stage[g] = "spawned" => g \in overtaken,
         exited(h)
  PROVE  /\ Tables(processes', owned_pids', reaped', status_of', failed', stage)
         /\ DOMAIN processes' \subseteq DOMAIN processes
         /\ \A p \in DOMAIN processes' : processes'[p] = processes[p]
         /\ status_of'[h] = Nothing /\ failed' = failed /\ h \notin failed =>
              pid_of[h] \in DOMAIN processes' /\ processes[pid_of[h]].ours
<1> DEFINE p == pid_of[h]
           G == Gone
           Files == Filed
           Q == Without(processes, G)
           Ours == p \in DOMAIN processes \ G /\ processes[p].ours
<1>1. G \subseteq DOMAIN processes
  BY DEF Gone
<1>2. /\ DOMAIN Files = DOMAIN reaped \cup (G \cap owned_pids)
      /\ \A q \in DOMAIN Files :
           Files[q] = IF q \in G \cap owned_pids
                      THEN IF processes[q].leader THEN processes[q].who ELSE Orphan ELSE reaped[q]
  BY DEF Filed, StatusOf
<1>3. Tables(Q, owned_pids, Files, status_of, failed, stage)
  <2> HIDE DEF G, Files
  <2> QED BY <1>1, <1>2, CollectKeeps
<1>4. DOMAIN Q = DOMAIN processes \ G /\ \A q \in DOMAIN Q : Q[q] = processes[q]
  BY DEF Without, Restrict
<1>5. \/ status_of[h] # Nothing /\ UNCHANGED childTables
      \/ /\ status_of[h] = Nothing /\ p \in DOMAIN Files
         /\ processes' = Q /\ claim(h, Files[p], Files)
      \/ /\ status_of[h] = Nothing /\ p \notin DOMAIN Files /\ Ours /\ processes[p].exited
         /\ processes' = Without(processes, G \cup {p}) /\ claim(h, StatusOf(p), Files)
      \/ /\ status_of[h] = Nothing /\ p \notin DOMAIN Files /\ ~(Ours /\ processes[p].exited)
         /\ processes' = Q /\ reaped' = Files
         /\ failed' = (IF Ours THEN failed ELSE failed \cup {h})
         /\ UNCHANGED <<owned_pids, status_of>>
  BY DEF exited
<1>6. \A q \in DOMAIN processes : processes[q].who \in Handles
  BY DEF Tables, TablesOK, Process
<1>7. status_of \in [Handles -> Statuses]
  BY DEF Tables, TablesOK
<1>8. Handles \cap {Orphan, Nothing} = {} /\ Orphan # Nothing
  BY HandlesAssumption DEF Orphan, Nothing
<1>9. \A q : StatusOf(q) = IF processes[q].leader THEN processes[q].who ELSE Orphan
  BY DEF StatusOf
<1> HIDE DEF G, Files, Q
<1>10. CASE status_of[h] # Nothing /\ UNCHANGED childTables
  BY <1>10 DEF childTables
<1>11. CASE status_of[h] = Nothing /\ p \in DOMAIN Files /\ processes' = Q /\ claim(h, Files[p], Files)
  <2>1. Files[p] \in Handles \cup {Orphan}
    BY <1>3, <1>11 DEF Tables, TablesOK
  <2>2. h \notin reused => Files[p] = h /\ p \notin DOMAIN Q
    BY <1>3, <1>11 DEF Tables, FiledRight, Clean
  <2>3. Tables(Without(Q, {}), owned_pids \ {p}, Without(Files, {p}), [status_of EXCEPT ![h] = Files[p]], failed, stage)
    BY <1>3, <2>1, <2>2, ClaimKeeps
  <2>4. Without(Q, {}) = Q
    BY WithoutTwice DEF Q
  <2>5. status_of'[h] # Nothing
    BY <1>7, <1>8, <1>11, <2>1 DEF claim
  <2> QED BY <1>4, <1>11, <2>3, <2>4, <2>5 DEF claim
<1>12. CASE /\ status_of[h] = Nothing /\ p \notin DOMAIN Files /\ Ours /\ processes[p].exited
            /\ processes' = Without(processes, G \cup {p}) /\ claim(h, StatusOf(p), Files)
  <2>1. StatusOf(p) \in Handles \cup {Orphan}
    BY <1>6, <1>9, <1>12
  <2>2. h \notin reused => StatusOf(p) = h
    BY <1>9, <1>12 DEF Tables, Alone, Clean
  <2>3. Tables(Without(Q, {p}), owned_pids \ {p}, Without(Files, {p}), [status_of EXCEPT ![h] = StatusOf(p)], failed, stage)
    BY <1>3, <2>1, <2>2, ClaimKeeps
  <2>4. Without(Q, {p}) = processes'
    BY <1>12, WithoutTwice DEF Q
  <2>5. status_of'[h] # Nothing
    BY <1>7, <1>8, <1>12, <2>1 DEF claim
  <2>6. DOMAIN processes' \subseteq DOMAIN processes /\ \A q \in DOMAIN processes' : processes'[q] = processes[q]
    BY <1>12 DEF Without, Restrict
  <2> QED BY <1>12, <2>3, <2>4, <2>5, <2>6 DEF claim
<1>13. CASE /\ status_of[h] = Nothing /\ p \notin DOMAIN Files /\ ~(Ours /\ processes[p].exited)
            /\ processes' = Q /\ reaped' = Files
            /\ failed' = (IF Ours THEN failed ELSE failed \cup {h})
            /\ UNCHANGED <<owned_pids, status_of>>
  <2>1. CASE Ours
    BY <1>3, <1>4, <1>13, <2>1
  <2>2. CASE ~Ours
    <3>1. ~(p \in DOMAIN Q /\ Q[p].ours)
      BY <1>4, <2>2
    <3>2. Tables(Q, owned_pids, Files, status_of, failed \cup {h}, stage)
      BY <1>3, <1>13, <3>1, FailKeeps
    <3> QED BY <1>4, <1>13, <2>2, <3>2
  <2> QED BY <2>1, <2>2
<1> QED BY <1>5, <1>10, <1>11, <1>12, <1>13

\* What a handle's signal reaches is its own, of the processes known before.
LEMMA StrikeKeeps ==
  ASSUME Tables(processes, owned_pids, reaped, status_of, failed, stage),
         NEW h \in Handles, stage[h] \in Holding, NEW known,
         DOMAIN known \subseteq DOMAIN processes,
         \A p \in DOMAIN known : known[p] = processes[p],
         NEW pids, pids = Members(h, known) \/ pids = Target(h, known),
         Strikes(h, pids), reused' = reused
  PROVE  Aimed'
<1>1. ASSUME NEW p \in pids PROVE processes[p].who = h \/ h \in reused
  <2>1. p \in DOMAIN processes /\ (p = pid_of[h] \/ processes[p].group = pid_of[h])
    BY <1>1 DEF Members, Target
  <2> QED BY <2>1 DEF Tables, Alone, Clean
<1>2. h # Strays
  BY HandlesAssumption
<1>3. ASSUME NEW x \in struck' PROVE x.by = h /\ (x.who = h \/ h \in reused)
  BY <1>1, <1>3 DEF Strikes
<1> QED BY <1>2, <1>3 DEF Aimed

\* The stage a handle is in after its group is settled, and whom that struck.
LEMMA SettleKeeps ==
  ASSUME ChildrenInv, NEW h \in Handles, stage[h] \in Holding \ {"spawned"},
         Tables(processes', owned_pids', reaped', status_of', failed', stage),
         DOMAIN processes' \subseteq DOMAIN processes,
         \A p \in DOMAIN processes' : processes'[p] = processes[p],
         status_of'[h] # Nothing, clear_group(h), UNCHANGED <<pid_of, grouped, overtaken, reused>>
  PROVE  /\ Tables(processes, owned_pids, reaped, status_of, failed, stage)'
         /\ Aimed'
         /\ stage' = stage \/ stage' = [stage EXCEPT ![h] = "closed"]
<1>1. stage' = stage \/ stage' = [stage EXCEPT ![h] = "closed"]
  BY DEF clear_group
<1>2. Tables(processes', owned_pids', reaped', status_of', failed', stage')
  <2>1. Moves(stage[h], "closed", status_of'[h])
    BY DEF Moves
  <2> QED BY <1>1, <2>1, StageKeeps
<1>3. Tables(processes, owned_pids, reaped, status_of, failed, stage)'
  BY <1>2 DEF Tables, TablesOK, Lineage, Alone, Owning, FiledRight, NoneLost, Clean
<1>4. Aimed'
  <2>1. CASE UNCHANGED struck
    BY <2>1 DEF ChildrenInv, Aimed
  <2>2. CASE Strikes(h, Members(h, processes'))
    BY <2>2, StrikeKeeps DEF ChildrenInv
  <2> QED BY <2>1, <2>2 DEF clear_group
<1> QED BY <1>1, <1>3, <1>4

\* Where only the thread, the stages and the tables change as said, the
\* tables' invariant is the one of the next state.
LEMMA TablesNext ==
  ASSUME Tables(processes', owned_pids', reaped', status_of', failed', stage'),
         UNCHANGED <<pid_of, overtaken, reused>>
  PROVE  Tables(processes, owned_pids, reaped, status_of, failed, stage)'
BY DEF Tables, TablesOK, Lineage, Alone, Owning, FiledRight, NoneLost, Clean

-----------------------------------------------------------------------------
\* The kernel's steps.

LEMMA ForkFacts ==
  ASSUME NEW p \in 1 .. MaxPid, NEW made, Forks(p, made)
  PROVE  /\ DOMAIN processes' = DOMAIN processes \cup {p} /\ p \notin DOMAIN processes
         /\ \A q \in DOMAIN processes : processes'[q] = processes[q] /\ processes[q].group # p
         /\ processes'[p] = made
         /\ reused \subseteq reused'
         /\ \A h \in Handles : stage[h] \in Holding /\ pid_of[h] = p => h \in reused'
         /\ made.leader => \A g \in Handles :
               stage[g] \in Holding /\ pid_of[g] = p => made.who \notin Handles \/ made.who \in reused'
BY DEF Forks, Holders, Holder, Holding

LEMMA DescendsKeeps ==
  ASSUME ChildrenInv, NEW p \in 1 .. MaxPid, Descends(p)
  PROVE  ChildrenInv'
<1>0. PICK q \in DOMAIN processes : \E group \in {processes[q].group, 0} :
        Forks(p, [who |-> processes[q].who, leader |-> FALSE, group |-> group, ours |-> FALSE, exited |-> FALSE])
  BY DEF Descends
<1>1. PICK group \in {processes[q].group, 0} :
        Forks(p, [who |-> processes[q].who, leader |-> FALSE, group |-> group, ours |-> FALSE, exited |-> FALSE])
  BY <1>0
<1> DEFINE made == [who |-> processes[q].who, leader |-> FALSE, group |-> group, ours |-> FALSE, exited |-> FALSE]
<1>2. /\ DOMAIN processes' = DOMAIN processes \cup {p} /\ p \notin DOMAIN processes
      /\ \A r \in DOMAIN processes : processes'[r] = processes[r] /\ processes[r].group # p
      /\ processes'[p] = made
      /\ reused \subseteq reused'
      /\ \A h \in Handles : stage[h] \in Holding /\ pid_of[h] = p => h \in reused'
  <2> HIDE DEF made
  <2> QED BY <1>1, ForkFacts DEF made
<1>3. UNCHANGED <<owned_pids, reaped, status_of, failed, starting, finalizing, blocked, pid_of, grouped, stage, overtaken, struck>>
  BY DEF Descends, inside, begun
<1>4. /\ TablesOK(processes, owned_pids, reaped, status_of, failed, stage)
      /\ Lineage(processes, status_of, stage) /\ Alone(processes, stage)
      /\ Owning(owned_pids, status_of, stage) /\ FiledRight(processes, reaped, stage)
      /\ NoneLost(processes, reaped, status_of, failed, stage)
  BY DEF ChildrenInv, Tables
<1>5. processes[q] \in Process
  BY <1>1, <1>4 DEF TablesOK
<1>6. made \in Process /\ made.who = processes[q].who /\ ~made.leader /\ made.group \in {processes[q].group, 0}
  BY <1>5 DEF Process
<1> HIDE DEF made
<1>7. TablesOK(processes', owned_pids', reaped', status_of', failed', stage')
  BY <1>2, <1>3, <1>4, <1>6 DEF TablesOK
<1>8. \A h \in Handles : Clean(stage, h)' => Clean(stage, h) /\ pid_of[h] # p
  BY <1>2, <1>3 DEF Clean
<1>9. Lineage(processes, status_of, stage)'
  <2>1. stage[processes[q].who] # "none" /\ processes[q].group \in {0, pid_of[processes[q].who]}
    BY <1>1, <1>4 DEF Lineage
  <2> QED BY <1>2, <1>3, <1>4, <1>6, <2>1 DEF Lineage
<1>10. Alone(processes, stage)'
  <2>1. ASSUME NEW h \in Handles, Clean(stage, h)', NEW r \in DOMAIN processes'
        PROVE  /\ r = pid_of[h] => processes'[r].who = h /\ processes'[r].leader
               /\ processes'[r].group = pid_of[h] => processes'[r].who = h
    <3>1. CASE r \in DOMAIN processes
      BY <1>2, <1>4, <1>8, <2>1, <3>1 DEF Alone
    <3>2. CASE r = p
      <4>1. pid_of[h] # p /\ pid_of[h] # 0
        BY <1>4, <1>8, <2>1 DEF TablesOK, Clean
      <4>2. processes'[r].group = pid_of[h] => processes[q].group = pid_of[h]
        BY <1>2, <1>6, <3>2, <4>1
      <4>3. processes[q].group = pid_of[h] => processes[q].who = h
        BY <1>1, <1>4, <1>8, <2>1 DEF Alone
      <4> QED BY <1>2, <1>6, <3>2, <4>1, <4>2, <4>3
    <3> QED BY <1>2, <3>1, <3>2
  <2>2. ASSUME NEW h \in Handles, Clean(stage, h)', NEW g \in Handles \ {h}, stage[g] \in Holding
        PROVE  pid_of[g] # pid_of[h]
    BY <1>4, <1>8, <2>2 DEF Alone
  <2> QED BY <1>3, <2>1, <2>2 DEF Alone
<1>11. Owning(owned_pids, status_of, stage)'
  BY <1>3, <1>4, <1>8 DEF Owning
<1>12. FiledRight(processes, reaped, stage)'
  BY <1>2, <1>3, <1>4, <1>8 DEF FiledRight
<1>13. NoneLost(processes, reaped, status_of, failed, stage)'
  BY <1>2, <1>3, <1>4 DEF NoneLost
<1>14. Threads'
  BY <1>2, <1>3 DEF ChildrenInv, Threads
<1>15. Aimed'
  BY <1>2, <1>3 DEF ChildrenInv, Aimed
<1> QED BY <1>3, <1>7, <1>9, <1>10, <1>11, <1>12, <1>13, <1>14, <1>15 DEF ChildrenInv, Tables, TablesOK

LEMMA ExitsKeeps ==
  ASSUME ChildrenInv, NEW p \in 1 .. MaxPid, Exits(p)
  PROVE  ChildrenInv'
<1>1. UNCHANGED <<owned_pids, reaped, status_of, failed, starting, finalizing, blocked, pid_of, grouped, stage, overtaken, reused, struck>>
  BY DEF Exits, inside, begun
<1>2. /\ TablesOK(processes, owned_pids, reaped, status_of, failed, stage)
      /\ Lineage(processes, status_of, stage) /\ Alone(processes, stage)
      /\ Owning(owned_pids, status_of, stage) /\ FiledRight(processes, reaped, stage)
      /\ NoneLost(processes, reaped, status_of, failed, stage)
  BY DEF ChildrenInv, Tables
<1>3. Threads /\ Aimed
  BY DEF ChildrenInv
<1>4. /\ DOMAIN processes' \subseteq DOMAIN processes
      /\ \A q \in DOMAIN processes : processes[q].ours => q \in DOMAIN processes'
      /\ \A q \in DOMAIN processes' :
           /\ processes'[q].who = processes[q].who /\ processes'[q].leader = processes[q].leader
           /\ processes'[q].group = processes[q].group
           /\ processes[q].ours => processes'[q].ours
           /\ processes'[q] \in Process
  <2>1. \A q \in DOMAIN processes : processes[q] \in Process
    BY <1>2 DEF TablesOK
  <2>2. CASE processes[p].ours
    <3>1. processes' = [q \in DOMAIN processes |->
                 [who    |-> processes[q].who,
                  leader |-> processes[q].leader,
                  group  |-> processes[q].group,
                  ours   |-> \/ processes[q].ours
                             \/ adopting = "yes" /\ processes[p].leader /\ processes[q].who = processes[p].who,
                  exited |-> processes[q].exited \/ q = p]]
      BY <2>2 DEF Exits
    <3> QED BY <2>1, <3>1 DEF Process
  <2>3. CASE ~processes[p].ours
    <3>1. processes' = Without(processes, {p})
      BY <2>3 DEF Exits
    <3>2. DOMAIN processes' = DOMAIN processes \ {p} /\ \A q \in DOMAIN processes' : processes'[q] = processes[q]
      BY <3>1 DEF Without, Restrict
    <3> QED BY <2>1, <2>3, <3>2
  <2> QED BY <2>2, <2>3
<1>5. TablesOK(processes', owned_pids, reaped, status_of, failed, stage)
  BY <1>2, <1>4 DEF TablesOK
<1>6. Lineage(processes', status_of, stage)
  BY <1>2, <1>4 DEF Lineage
<1>7. Alone(processes', stage)
  BY <1>2, <1>4 DEF Alone
<1>8. FiledRight(processes', reaped, stage)
  BY <1>2, <1>4 DEF FiledRight
<1>9. NoneLost(processes', reaped, status_of, failed, stage)
  <2>1. ASSUME NEW h \in Handles \ reused, h \notin overtaken, stage[h] \in Holding, status_of[h] = Nothing
        PROVE  pid_of[h] \in DOMAIN processes' \cup DOMAIN reaped
    <3>1. CASE pid_of[h] \in DOMAIN reaped
      BY <3>1
    <3>2. CASE pid_of[h] \in DOMAIN processes
      <4>1. processes[pid_of[h]].leader
        BY <1>2, <2>1, <3>2 DEF Alone, Clean
      <4>2. processes[pid_of[h]].ours
        BY <1>2, <3>2, <4>1 DEF Lineage
      <4> QED BY <1>4, <3>2, <4>2
    <3> QED BY <1>2, <2>1, <3>1, <3>2 DEF NoneLost
  <2> QED BY <1>2, <2>1 DEF NoneLost
<1>10. Tables(processes', owned_pids', reaped', status_of', failed', stage')
  BY <1>1, <1>2, <1>5, <1>6, <1>7, <1>8, <1>9 DEF Tables
<1>11. Threads'
  BY <1>1, <1>3, <1>4 DEF Threads
<1>12. Aimed'
  BY <1>1, <1>3 DEF Aimed
<1> QED BY <1>1, <1>10, <1>11, <1>12, TablesNext DEF ChildrenInv

-----------------------------------------------------------------------------
\* The module's steps.

LEMMA StartKeeps ==
  ASSUME ChildrenInv, NEW h \in Handles, NEW group \in BOOLEAN, NEW p \in 1 .. MaxPid,
         child_start(h, group, p)
  PROVE  ChildrenInv'
<1> DEFINE made == [who |-> h, leader |-> TRUE, group |-> IF group THEN p ELSE 0, ours |-> TRUE, exited |-> FALSE]
<1>1. /\ DOMAIN processes' = DOMAIN processes \cup {p} /\ p \notin DOMAIN processes
      /\ \A q \in DOMAIN processes : processes'[q] = processes[q] /\ processes[q].group # p
      /\ processes'[p] = made
      /\ reused \subseteq reused'
      /\ \A g \in Handles : stage[g] \in Holding /\ pid_of[g] = p => g \in reused' /\ h \in reused'
  <2>1. Forks(p, made)
    BY DEF child_start
  <2>2. made.leader /\ made.who = h
    OBVIOUS
  <2> HIDE DEF made
  <2> QED BY <2>1, <2>2, ForkFacts
<1>2. /\ UNCHANGED <<owned_pids, reaped, status_of, failed, finalizing, blocked, overtaken, struck>>
      /\ Free /\ stage[h] = "none" /\ starting' = h
      /\ stage' = [stage EXCEPT ![h] = "spawned"] /\ pid_of' = [pid_of EXCEPT ![h] = p]
  BY DEF child_start
<1>3. /\ TablesOK(processes, owned_pids, reaped, status_of, failed, stage)
      /\ Lineage(processes, status_of, stage) /\ Alone(processes, stage)
      /\ Owning(owned_pids, status_of, stage) /\ FiledRight(processes, reaped, stage)
      /\ NoneLost(processes, reaped, status_of, failed, stage)
  BY DEF ChildrenInv, Tables
<1>4. /\ stage' \in [Handles -> HandleStages] /\ stage'[h] = "spawned" /\ \A g \in Handles \ {h} : stage'[g] = stage[g]
      /\ pid_of' \in [Handles -> Nat] /\ pid_of'[h] = p /\ \A g \in Handles \ {h} : pid_of'[g] = pid_of[g]
      /\ p \in Nat /\ p # 0 /\ stage[h] \notin Holding
  <2>1. p \in Nat /\ p # 0
    BY HandlesAssumption
  <2> QED BY <1>2, <1>3, <2>1 DEF TablesOK, HandleStages, Holding
<1>5. made \in Process /\ made.who = h /\ made.leader /\ made.ours /\ made.group \in {0, p}
  BY <1>4 DEF Process
<1> HIDE DEF made
<1>6. \A q \in DOMAIN processes : processes[q].who \in Handles \ {h}
  <2>1. \A q \in DOMAIN processes : processes[q].who \in Handles
    BY <1>3 DEF TablesOK, Process
  <2> QED BY <1>2, <1>3, <2>1 DEF Lineage
<1>7. \A g \in Handles \ {h} : Clean(stage, g)' => Clean(stage, g) /\ pid_of[g] # p
  BY <1>1, <1>4 DEF Clean
<1>8. Clean(stage, h)' => \A g \in Handles : stage[g] \in Holding => pid_of[g] # p
  BY <1>1 DEF Clean
<1>9. TablesOK(processes, owned_pids, reaped, status_of, failed, stage)'
  <2>1. \A g \in Handles : stage'[g] \in {"none", "spawned"} => status_of[g] = Nothing
    BY <1>2, <1>3, <1>4 DEF TablesOK
  <2>2. \A g \in Handles : stage'[g] \in Holding => pid_of'[g] # 0
    BY <1>3, <1>4 DEF TablesOK
  <2> QED BY <1>1, <1>2, <1>3, <1>4, <1>5, <2>1, <2>2 DEF TablesOK
<1>10. Lineage(processes, status_of, stage)'
  <2>1. ASSUME NEW q \in DOMAIN processes'
        PROVE  /\ stage'[processes'[q].who] # "none"
               /\ processes'[q].leader => processes'[q].ours /\ q = pid_of'[processes'[q].who]
               /\ processes'[q].group \in {0, pid_of'[processes'[q].who]}
               /\ processes'[q].leader /\ processes'[q].who \notin reused' =>
                    stage'[processes'[q].who] \in Holding /\ status_of'[processes'[q].who] = Nothing
    <3>1. CASE q \in DOMAIN processes
      BY <1>1, <1>2, <1>3, <1>4, <1>6, <3>1 DEF Lineage
    <3>2. CASE q = p
      <4>1. status_of[h] = Nothing
        BY <1>2, <1>3 DEF TablesOK
      <4> QED BY <1>1, <1>2, <1>4, <1>5, <3>2, <4>1 DEF Holding
    <3> QED BY <1>1, <3>1, <3>2
  <2> QED BY <2>1 DEF Lineage
<1>11. Alone(processes, stage)'
  <2>1. ASSUME NEW g \in Handles, Clean(stage, g)', NEW r \in Handles \ {g}, stage'[r] \in Holding
        PROVE  pid_of'[r] # pid_of'[g]
    BY <1>3, <1>4, <1>7, <1>8, <2>1 DEF Alone
  <2>2. ASSUME NEW g \in Handles, Clean(stage, g)', NEW q \in DOMAIN processes'
        PROVE  /\ q = pid_of'[g] => processes'[q].who = g /\ processes'[q].leader
               /\ processes'[q].group = pid_of'[g] => processes'[q].who = g
    <3>1. CASE g = h
      BY <1>1, <1>4, <1>5, <2>2, <3>1
    <3>2. CASE g # h
      <4>1. Clean(stage, g) /\ pid_of[g] # p /\ pid_of[g] # 0 /\ pid_of'[g] = pid_of[g]
        BY <1>3, <1>4, <1>7, <2>2, <3>2 DEF TablesOK, Clean
      <4>2. CASE q = p
        BY <1>1, <1>5, <4>1, <4>2
      <4>3. CASE q \in DOMAIN processes
        BY <1>1, <1>3, <4>1, <4>3 DEF Alone
      <4> QED BY <1>1, <4>2, <4>3
    <3> QED BY <3>1, <3>2
  <2> QED BY <2>1, <2>2 DEF Alone
<1>12. Owning(owned_pids, status_of, stage)'
  <2>1. ASSUME NEW q \in owned_pids
        PROVE  \E g \in Handles : stage'[g] \in Holding \ {"spawned"} /\ pid_of'[g] = q /\ status_of[g] = Nothing
    <3>1. PICK g \in Handles : stage[g] \in Holding \ {"spawned"} /\ pid_of[g] = q /\ status_of[g] = Nothing
      BY <1>3 DEF Owning
    <3> QED BY <1>4, <3>1
  <2>2. ASSUME NEW g \in Handles, Clean(stage, g)', stage'[g] # "spawned", status_of[g] = Nothing
        PROVE  pid_of'[g] \in owned_pids
    BY <1>3, <1>4, <1>7, <2>2 DEF Owning
  <2> QED BY <1>2, <2>1, <2>2 DEF Owning
<1>13. FiledRight(processes, reaped, stage)'
  <2>1. ASSUME NEW g \in Handles, Clean(stage, g)', pid_of'[g] \in DOMAIN reaped
        PROVE  pid_of'[g] \notin DOMAIN processes' /\ reaped[pid_of'[g]] = g
    <3>1. g # h
      <4>1. CASE g = h
        <5>1. p \in owned_pids
          BY <1>3, <1>4, <2>1, <4>1 DEF TablesOK
        <5> QED BY <1>3, <1>8, <2>1, <4>1, <5>1 DEF Owning
      <4> QED BY <4>1
    <3> QED BY <1>1, <1>3, <1>4, <1>7, <2>1, <3>1 DEF FiledRight
  <2> QED BY <1>2, <2>1 DEF FiledRight
<1>14. NoneLost(processes, reaped, status_of, failed, stage)'
  <2>1. ASSUME NEW g \in Handles \ reused', g \notin overtaken, stage'[g] \in Holding, status_of[g] = Nothing
        PROVE  pid_of'[g] \in DOMAIN processes' \cup DOMAIN reaped
    <3>1. CASE g = h
      BY <1>1, <1>4, <3>1
    <3>2. CASE g # h
      BY <1>1, <1>3, <1>4, <2>1, <3>2 DEF NoneLost
    <3> QED BY <3>1, <3>2
  <2> QED BY <1>1, <1>2, <1>3, <2>1 DEF NoneLost
<1>15. Threads'
  <2>1. \A g \in Handles : stage[g] # "spawned"
    BY <1>2, HandlesAssumption DEF ChildrenInv, Threads, Free
  <2>2. \A g \in Handles : stage'[g] = "spawned" <=> g = h
    BY <1>4, <2>1
  <2> QED BY <1>2, <2>2 DEF ChildrenInv, Threads, Free
<1>16. Aimed'
  BY <1>1, <1>2 DEF ChildrenInv, Aimed
<1> QED BY <1>9, <1>10, <1>11, <1>12, <1>13, <1>14, <1>15, <1>16 DEF ChildrenInv, Tables

LEMMA MakeHandleKeeps ==
  ASSUME ChildrenInv, NEW h \in Handles, make_handle(h)
  PROVE  ChildrenInv'
<1>1. /\ UNCHANGED <<processes, reaped, status_of, failed, finalizing, blocked, pid_of, grouped, overtaken, reused, struck>>
      /\ starting = h /\ finalizing = Nobody /\ starting' = Nobody
      /\ stage' = [stage EXCEPT ![h] = "open"] /\ owned_pids' = owned_pids \cup {pid_of[h]}
  BY DEF make_handle, begun
<1>2. /\ TablesOK(processes, owned_pids, reaped, status_of, failed, stage)
      /\ Lineage(processes, status_of, stage) /\ Alone(processes, stage)
      /\ Owning(owned_pids, status_of, stage) /\ FiledRight(processes, reaped, stage)
      /\ NoneLost(processes, reaped, status_of, failed, stage)
  BY DEF ChildrenInv, Tables
<1>3. Threads /\ Aimed
  BY DEF ChildrenInv
<1>4. h # Nobody
  BY HandlesAssumption
<1>5. stage[h] = "spawned" /\ \A g \in Handles \ {h} : stage[g] # "spawned"
  BY <1>1, <1>3 DEF Threads
<1>6. stage' \in [Handles -> HandleStages] /\ stage'[h] = "open" /\ \A g \in Handles \ {h} : stage'[g] = stage[g]
  BY <1>1, <1>2 DEF TablesOK, HandleStages
<1>7. \A g \in Handles : stage'[g] \in Holding <=> stage[g] \in Holding
  BY <1>5, <1>6 DEF Holding
<1>8. \A g \in Handles : Clean(stage', g) <=> Clean(stage, g)
  BY <1>7 DEF Clean
<1>9. TablesOK(processes, owned_pids', reaped, status_of, failed, stage')
  BY <1>1, <1>2, <1>6, <1>7 DEF TablesOK
<1>10. Lineage(processes, status_of, stage')
  <2>1. \A p \in DOMAIN processes : processes[p].who \in Handles
    BY <1>2 DEF TablesOK, Process
  <2> QED BY <1>2, <1>6, <1>7, <2>1 DEF Lineage
<1>11. Alone(processes, stage')
  BY <1>2, <1>7, <1>8 DEF Alone
<1>12. Owning(owned_pids', status_of, stage')
  <2>1. ASSUME NEW p \in owned_pids'
        PROVE  \E g \in Handles : stage'[g] \in Holding \ {"spawned"} /\ pid_of[g] = p /\ status_of[g] = Nothing
    <3>1. CASE p = pid_of[h]
      <4>1. status_of[h] = Nothing
        BY <1>2, <1>5 DEF TablesOK
      <4> QED BY <1>6, <3>1, <4>1 DEF Holding
    <3>2. CASE p \in owned_pids
      <4>1. PICK g \in Handles : stage[g] \in Holding \ {"spawned"} /\ pid_of[g] = p /\ status_of[g] = Nothing
        BY <1>2, <3>2 DEF Owning
      <4> QED BY <1>5, <1>6, <4>1
    <3> QED BY <1>1, <3>1, <3>2
  <2>2. ASSUME NEW g \in Handles, Clean(stage', g), stage'[g] # "spawned", status_of[g] = Nothing
        PROVE  pid_of[g] \in owned_pids'
    <3>1. CASE g = h
      BY <1>1, <3>1
    <3>2. CASE g # h
      BY <1>1, <1>2, <1>6, <1>8, <2>2, <3>2 DEF Owning
    <3> QED BY <3>1, <3>2
  <2> QED BY <2>1, <2>2 DEF Owning
<1>13. FiledRight(processes, reaped, stage')
  BY <1>2, <1>8 DEF FiledRight
<1>14. NoneLost(processes, reaped, status_of, failed, stage')
  BY <1>2, <1>7 DEF NoneLost
<1>15. Tables(processes', owned_pids', reaped', status_of', failed', stage')
  BY <1>1, <1>9, <1>10, <1>11, <1>12, <1>13, <1>14 DEF Tables
<1>16. Threads'
  <2>1. blocked = Nobody
    BY <1>1, <1>3, <1>4 DEF Threads
  <2>2. \A g \in Handles : stage'[g] # "spawned" /\ g # Nobody
    BY <1>5, <1>6, HandlesAssumption
  <2> QED BY <1>1, <1>3, <2>1, <2>2 DEF Threads
<1>17. Aimed'
  BY <1>1, <1>3 DEF Aimed
<1> QED BY <1>1, <1>15, <1>16, <1>17, TablesNext DEF ChildrenInv

\* A look by a handle on whose behalf the thread is held by nothing else, or
\* by its own finalizer.
LEMMA LookReady ==
  ASSUME ChildrenInv, NEW h \in Handles, Open(h) \/ finalizing = h
  PROVE  /\ stage[h] \in Holding \ {"spawned"}
         /\ \A g \in Handles : stage[g] = "spawned" => g \in overtaken
         /\ blocked = Nobody
         /\ Tables(processes, owned_pids, reaped, status_of, failed, stage)
<1>1. Threads /\ \A g \in Handles : g # Nobody
  BY HandlesAssumption DEF ChildrenInv
<1>2. CASE Open(h)
  BY <1>1, <1>2 DEF Open, Free, Threads, Holding, ChildrenInv
<1>3. CASE finalizing = h
  BY <1>1, <1>3 DEF Threads, Holding, ChildrenInv
<1> QED BY <1>2, <1>3

LEMMA InterruptedKeeps ==
  ASSUME ChildrenInv, NEW h \in Handles, interrupted(h)
  PROVE  ChildrenInv'
<1>1. Open(h) /\ exited(h) /\ UNCHANGED <<starting, finalizing, blocked, pid_of, stage, overtaken, reused, struck>>
  BY DEF interrupted, inside, begun
<1>2. Tables(processes', owned_pids', reaped', status_of', failed', stage) /\ blocked = Nobody
  BY <1>1, LookReady, LookKeeps
<1>3. Tables(processes, owned_pids, reaped, status_of, failed, stage)'
  BY <1>1, <1>2, TablesNext
<1>4. Threads' /\ Aimed'
  BY <1>1, <1>2 DEF ChildrenInv, Threads, Aimed
<1> QED BY <1>3, <1>4 DEF ChildrenInv

\* After the stage of a handle no start or finalizer holds is changed.
LEMMA ThreadsKept ==
  ASSUME ChildrenInv, NEW h \in Handles, stage[h] \in Holding \ {"spawned"}, blocked' = Nobody,
         UNCHANGED <<starting, overtaken>>,
         NEW b \in {"dropped", "collected", "closed"},
         stage' = stage \/ stage' = [stage EXCEPT ![h] = b],
         \/ finalizing' = finalizing /\ (stage' = stage \/ finalizing # h)
         \/ finalizing' = Nobody
  PROVE  Threads'
<1>1. Threads /\ stage \in [Handles -> HandleStages]
  BY DEF ChildrenInv, Tables, TablesOK
<1>2. \A g \in Handles : stage'[g] = "spawned" <=> stage[g] = "spawned"
  BY <1>1
<1>3. \A g \in Handles \ {h} : stage'[g] = stage[g]
  BY <1>1
<1> QED BY <1>1, <1>2, <1>3 DEF Threads

LEMMA LooksKeeps ==
  ASSUME ChildrenInv, NEW h \in Handles, child_looks(h)
  PROVE  ChildrenInv'
<1>1. /\ Open(h) /\ exited(h) /\ UNCHANGED <<starting, finalizing, blocked, pid_of, grouped, overtaken, reused>>
      /\ IF status_of'[h] = Nothing THEN UNCHANGED <<stage, struck>> ELSE clear_group(h)
  BY DEF child_looks, inside, begun
<1>2. /\ stage[h] \in Holding \ {"spawned"} /\ blocked = Nobody
      /\ Tables(processes', owned_pids', reaped', status_of', failed', stage)
      /\ DOMAIN processes' \subseteq DOMAIN processes
      /\ \A p \in DOMAIN processes' : processes'[p] = processes[p]
  BY <1>1, LookReady, LookKeeps
<1>3. finalizing = Nobody /\ h # Nobody
  BY <1>1, HandlesAssumption DEF Open, Free
<1>4. CASE status_of'[h] = Nothing
  <2>1. Tables(processes, owned_pids, reaped, status_of, failed, stage)'
    BY <1>1, <1>2, <1>4, TablesNext
  <2>2. Threads' /\ Aimed'
    BY <1>1, <1>2, <1>4 DEF ChildrenInv, Threads, Aimed
  <2> QED BY <2>1, <2>2 DEF ChildrenInv
<1>5. CASE status_of'[h] # Nothing
  <2>1. /\ Tables(processes, owned_pids, reaped, status_of, failed, stage)' /\ Aimed'
        /\ stage' = stage \/ stage' = [stage EXCEPT ![h] = "closed"]
    BY <1>1, <1>2, <1>5, SettleKeeps
  <2>2. Threads'
    BY <1>1, <1>2, <1>3, <2>1, ThreadsKept
  <2> QED BY <2>1, <2>2 DEF ChildrenInv
<1> QED BY <1>4, <1>5

LEMMA WaitKeeps ==
  ASSUME ChildrenInv, NEW h \in Handles, child_wait(h)
  PROVE  ChildrenInv'
<1>1. /\ Open(h) /\ exited(h) /\ blocked' = h
      /\ status_of'[h] = Nothing /\ failed' = failed /\ h \notin failed
      /\ UNCHANGED <<starting, finalizing, pid_of, stage, overtaken, reused, struck>>
  BY DEF child_wait, begun
<1>2. /\ Tables(processes', owned_pids', reaped', status_of', failed', stage)
      /\ \A p \in DOMAIN processes' : processes'[p] = processes[p]
      /\ pid_of[h] \in DOMAIN processes' /\ processes[pid_of[h]].ours
  BY <1>1, LookReady, LookKeeps
<1>3. Tables(processes, owned_pids, reaped, status_of, failed, stage)'
  BY <1>1, <1>2, TablesNext
<1>4. Threads'
  BY <1>1, <1>2 DEF ChildrenInv, Threads, Open, Free
<1>5. Aimed'
  BY <1>1 DEF ChildrenInv, Aimed
<1> QED BY <1>3, <1>4, <1>5 DEF ChildrenInv

LEMMA WaitReturnsKeeps ==
  ASSUME ChildrenInv, NEW h \in Handles, child_wait_returns(h)
  PROVE  ChildrenInv'
<1> DEFINE p == pid_of[h]
<1>1. /\ blocked = h /\ processes' = Without(processes, {p})
      /\ claim(h, StatusOf(p), reaped) /\ clear_group(h) /\ blocked' = Nobody
      /\ UNCHANGED <<starting, finalizing, pid_of, grouped, overtaken, reused>>
  BY DEF child_wait_returns, begun
<1>2. h # Nobody /\ Threads /\ Tables(processes, owned_pids, reaped, status_of, failed, stage)
  BY HandlesAssumption DEF ChildrenInv
<1>3. /\ stage[h] = "open" /\ starting = Nobody /\ finalizing = Nobody
      /\ p \in DOMAIN processes
  BY <1>1, <1>2 DEF Threads
<1>4. StatusOf(p) \in Handles \cup {Orphan}
  BY <1>2, <1>3 DEF StatusOf, Tables, TablesOK, Process
<1>5. h \notin reused => StatusOf(p) = h
  BY <1>2, <1>3 DEF StatusOf, Tables, Alone, Clean, Holding
<1>6. stage[h] \in Holding \ {"spawned"}
  BY <1>3 DEF Holding
<1>7. Tables(Without(processes, {p}), owned_pids \ {p}, Without(reaped, {p}), [status_of EXCEPT ![h] = StatusOf(p)], failed, stage)
  BY <1>2, <1>4, <1>5, <1>6, ClaimKeeps
<1>8. Tables(processes', owned_pids', reaped', status_of', failed', stage)
  BY <1>1, <1>7 DEF claim
<1>9. DOMAIN processes' \subseteq DOMAIN processes /\ \A q \in DOMAIN processes' : processes'[q] = processes[q]
  BY <1>1 DEF Without, Restrict
<1>10. status_of'[h] # Nothing
  <2>1. status_of'[h] = StatusOf(p)
    BY <1>1, <1>2 DEF claim, Tables, TablesOK
  <2> QED BY <1>4, <2>1, HandlesAssumption DEF Orphan, Nothing
<1>11. /\ Tables(processes, owned_pids, reaped, status_of, failed, stage)' /\ Aimed'
       /\ stage' = stage \/ stage' = [stage EXCEPT ![h] = "closed"]
  BY <1>1, <1>6, <1>8, <1>9, <1>10, SettleKeeps
<1>12. Threads'
  BY <1>1, <1>2, <1>3, <1>6, <1>11, ThreadsKept
<1> QED BY <1>11, <1>12 DEF ChildrenInv

LEMMA StopKeeps ==
  ASSUME ChildrenInv, NEW h \in Handles, child_stop(h)
  PROVE  ChildrenInv'
<1>1. /\ Open(h) /\ Strikes(h, Target(h, processes))
      /\ UNCHANGED <<processes, owned_pids, reaped, status_of, failed, starting, finalizing, blocked, pid_of, stage, overtaken, reused>>
  BY DEF child_stop, childTables, inside, begun
<1>2. Aimed'
  BY <1>1, LookReady, StrikeKeeps
<1>3. Tables(processes, owned_pids, reaped, status_of, failed, stage)'
  BY <1>1, TablesNext DEF ChildrenInv
<1>4. Threads'
  BY <1>1 DEF ChildrenInv, Threads
<1> QED BY <1>2, <1>3, <1>4 DEF ChildrenInv

LEMMA EndChildKeeps ==
  ASSUME ChildrenInv, NEW h \in Handles, Open(h) \/ finalizing = h, end_child(h),
         UNCHANGED <<pid_of, grouped, overtaken, reused>>
  PROVE  /\ Tables(processes, owned_pids, reaped, status_of, failed, stage)' /\ Aimed'
         /\ stage' = stage \/ stage' = [stage EXCEPT ![h] = "closed"]
<1>1. /\ stage[h] \in Holding \ {"spawned"}
      /\ Tables(processes', owned_pids', reaped', status_of', failed', stage)
      /\ DOMAIN processes' \subseteq DOMAIN processes
      /\ \A p \in DOMAIN processes' : processes'[p] = processes[p]
  BY LookReady, LookKeeps DEF end_child
<1>2. CASE status_of'[h] # Nothing /\ clear_group(h)
  BY <1>1, <1>2, SettleKeeps
<1>3. CASE UNCHANGED <<stage, struck>>
  <2>1. Tables(processes, owned_pids, reaped, status_of, failed, stage)'
    BY <1>1, <1>3, TablesNext
  <2>2. Aimed'
    BY <1>3 DEF ChildrenInv, Aimed
  <2> QED BY <1>3, <2>1, <2>2
<1>4. CASE Strikes(h, Target(h, processes')) /\ UNCHANGED stage
  <2>1. Tables(processes, owned_pids, reaped, status_of, failed, stage)'
    BY <1>1, <1>4, TablesNext
  <2>2. Aimed'
    BY <1>1, <1>4, StrikeKeeps DEF ChildrenInv
  <2> QED BY <1>4, <2>1, <2>2
<1> QED BY <1>2, <1>3, <1>4 DEF end_child

LEMMA CloseKeeps ==
  ASSUME ChildrenInv, NEW h \in Handles, child_close(h)
  PROVE  ChildrenInv'
<1>1. Open(h) /\ end_child(h) /\ UNCHANGED <<starting, finalizing, blocked, pid_of, grouped, overtaken, reused>>
  BY DEF child_close, inside, begun
<1>2. /\ Tables(processes, owned_pids, reaped, status_of, failed, stage)' /\ Aimed'
      /\ stage' = stage \/ stage' = [stage EXCEPT ![h] = "closed"]
  BY <1>1, EndChildKeeps
<1>3. finalizing # h
  BY <1>1, HandlesAssumption DEF Open, Free
<1>4. Threads'
  BY <1>1, <1>2, <1>3, LookReady, ThreadsKept
<1> QED BY <1>2, <1>4 DEF ChildrenInv

LEMMA FinalizerKeeps ==
  ASSUME ChildrenInv, NEW h \in Handles, finalizer(h)
  PROVE  ChildrenInv'
<1>1. /\ finalizing = h /\ end_child(h) /\ UNCHANGED <<starting, blocked, pid_of, grouped, overtaken, reused>>
      /\ finalizing' = IF stage'[h] = "closed" THEN Nobody ELSE h
  BY DEF finalizer, begun
<1>2. /\ Tables(processes, owned_pids, reaped, status_of, failed, stage)' /\ Aimed'
      /\ stage' = stage \/ stage' = [stage EXCEPT ![h] = "closed"]
  BY <1>1, EndChildKeeps
<1>3. (stage' = stage /\ finalizing' = finalizing) \/ finalizing' = Nobody
  <2>1. stage \in [Handles -> HandleStages]
    BY DEF ChildrenInv, Tables, TablesOK
  <2> QED BY <1>1, <1>2, <2>1
<1>4. Threads'
  BY <1>1, <1>2, <1>3, LookReady, ThreadsKept
<1> QED BY <1>2, <1>4 DEF ChildrenInv

LEMMA FinalizerFailsKeeps ==
  ASSUME ChildrenInv, NEW h \in Handles, finalizer_fails(h)
  PROVE  ChildrenInv'
<1>1. /\ finalizing = h /\ exited(h) /\ UNCHANGED <<starting, blocked, pid_of, grouped, overtaken, reused, struck>>
      /\ stage' = [stage EXCEPT ![h] = "collected"] /\ finalizing' = Nobody
  BY DEF finalizer_fails, begun
<1>2. /\ stage[h] \in Holding \ {"spawned"} /\ blocked = Nobody
      /\ Tables(processes', owned_pids', reaped', status_of', failed', stage)
  BY <1>1, LookReady, LookKeeps
<1>3. stage[h] = "dropped"
  BY <1>1, HandlesAssumption DEF ChildrenInv, Threads
<1>4. Tables(processes', owned_pids', reaped', status_of', failed', stage')
  BY <1>1, <1>2, <1>3, StageKeeps DEF Moves
<1>5. Tables(processes, owned_pids, reaped, status_of, failed, stage)'
  BY <1>1, <1>4, TablesNext
<1>6. Threads'
  BY <1>1, <1>2, ThreadsKept
<1>7. Aimed'
  BY <1>1 DEF ChildrenInv, Aimed
<1> QED BY <1>5, <1>6, <1>7 DEF ChildrenInv

LEMMA DropKeeps ==
  ASSUME ChildrenInv, NEW h \in Handles, child_drop(h)
  PROVE  ChildrenInv'
<1>1. /\ Open(h) /\ stage' = [stage EXCEPT ![h] = "dropped"]
      /\ UNCHANGED <<processes, owned_pids, reaped, status_of, failed, starting, finalizing, blocked, pid_of, overtaken, reused, struck>>
  BY DEF child_drop, childTables, inside, begun
<1>2. stage[h] = "open" /\ finalizing # h
  BY <1>1, HandlesAssumption DEF Open, Free
<1>3. Tables(processes', owned_pids', reaped', status_of', failed', stage')
  BY <1>1, <1>2, StageKeeps DEF Moves, ChildrenInv
<1>4. Tables(processes, owned_pids, reaped, status_of, failed, stage)'
  BY <1>1, <1>3, TablesNext
<1>5. Threads'
  BY <1>1, <1>2, LookReady, ThreadsKept
<1>6. Aimed'
  BY <1>1 DEF ChildrenInv, Aimed
<1> QED BY <1>4, <1>5, <1>6 DEF ChildrenInv

LEMMA CollectorKeeps ==
  ASSUME ChildrenInv, NEW h \in Handles, collector(h)
  PROVE  ChildrenInv'
<1>1. /\ stage[h] = "dropped" /\ finalizing = Nobody /\ blocked = Nobody /\ finalizing' = h
      /\ overtaken' = IF starting = Nobody THEN overtaken ELSE overtaken \cup {starting}
      /\ UNCHANGED <<processes, owned_pids, reaped, status_of, failed, starting, blocked, pid_of, stage, reused, struck>>
  BY DEF collector, childTables, begun
<1>2. Tables(processes, owned_pids, reaped, status_of, failed, stage)'
  <2>1. overtaken \subseteq overtaken'
    BY <1>1
  <2>2. NoneLost(processes, reaped, status_of, failed, stage)'
    BY <1>1, <2>1 DEF ChildrenInv, Tables, NoneLost
  <2> QED BY <1>1, <2>2 DEF ChildrenInv, Tables, TablesOK, Lineage, Alone, Owning, FiledRight, Clean
<1>3. Threads'
  BY <1>1 DEF ChildrenInv, Threads
<1>4. Aimed'
  BY <1>1 DEF ChildrenInv, Aimed
<1> QED BY <1>2, <1>3, <1>4 DEF ChildrenInv

LEMMA EndStraysKeeps ==
  ASSUME ChildrenInv, end_strays
  PROVE  ChildrenInv'
<1> DEFINE strays == {p \in DOMAIN processes' : processes[p].ours} \ owned_pids
           hit == {p \in DOMAIN processes' : p \in strays \/ processes[p].group \in strays}
<1>1. /\ Free /\ processes' = Without(processes, Gone) /\ reaped' = Filed /\ Strikes(Strays, hit)
      /\ UNCHANGED <<owned_pids, status_of, failed, starting, finalizing, blocked, pid_of, stage, overtaken, reused>>
  BY DEF end_strays, inside, begun
<1>2. /\ TablesOK(processes, owned_pids, reaped, status_of, failed, stage)
      /\ Lineage(processes, status_of, stage) /\ Owning(owned_pids, status_of, stage)
  BY DEF ChildrenInv, Tables
<1>3. \A g \in Handles : stage[g] # "spawned"
  BY <1>1, HandlesAssumption DEF ChildrenInv, Threads, Free
<1>4. Tables(processes', owned_pids', reaped', status_of', failed', stage')
  <2>1. Gone \subseteq DOMAIN processes
    BY DEF Gone
  <2>2. /\ DOMAIN Filed = DOMAIN reaped \cup (Gone \cap owned_pids)
        /\ \A q \in DOMAIN Filed :
             Filed[q] = IF q \in Gone \cap owned_pids
                        THEN IF processes[q].leader THEN processes[q].who ELSE Orphan ELSE reaped[q]
    BY DEF Filed, StatusOf
  <2>3. Tables(Without(processes, Gone), owned_pids, Filed, status_of, failed, stage)
    BY <1>3, <2>1, <2>2, CollectKeeps DEF ChildrenInv
  <2> QED BY <1>1, <2>3
<1>5. Tables(processes, owned_pids, reaped, status_of, failed, stage)'
  BY <1>1, <1>4, TablesNext
<1>6. DOMAIN processes' \subseteq DOMAIN processes
  BY <1>1 DEF Without, Restrict
<1>7. ASSUME NEW p \in hit, processes[p].leader PROVE processes[p].who \in reused
  <2>1. p \in DOMAIN processes /\ 0 \notin DOMAIN processes
    BY <1>2, <1>6, HandlesAssumption DEF TablesOK
  <2>2. processes[p].who \in Handles
    BY <1>2, <2>1 DEF TablesOK, Process
  <2>3. p = pid_of[processes[p].who] /\ processes[p].group \in {0, p}
    BY <1>2, <1>7, <2>1 DEF Lineage
  <2>4. p \in strays
    BY <1>6, <2>1, <2>3
  <2>5. CASE processes[p].who \notin reused
    <3>1. stage[processes[p].who] \in Holding /\ status_of[processes[p].who] = Nothing
      BY <1>2, <1>7, <2>1, <2>5 DEF Lineage
    <3>2. p \in owned_pids
      BY <1>2, <1>3, <2>2, <2>3, <2>5, <3>1 DEF Owning, Clean
    <3> QED BY <2>4, <3>2
  <2> QED BY <2>5
<1> HIDE DEF hit
<1>8. Aimed'
  <2>1. \A x \in struck' : \E p \in hit : x.by = Strays /\ x.who = processes[p].who /\ x.leader = processes[p].leader
    BY <1>1 DEF Strikes
  <2> QED BY <1>1, <1>7, <2>1 DEF Aimed
<1>9. Threads'
  BY <1>1 DEF ChildrenInv, Threads, Free
<1> QED BY <1>5, <1>8, <1>9 DEF ChildrenInv

\* The invariant is inductive: initially nothing is known of any child, and
\* every step, of the kernel's or of the module's, keeps it.
THEOREM ChildrenInductive == ChildrenSpec => []ChildrenInv
<1>1. ChildrenInit => ChildrenInv
  <2> SUFFICES ASSUME ChildrenInit PROVE ChildrenInv
    OBVIOUS
  <2>1. /\ DOMAIN processes = {} /\ DOMAIN reaped = {} /\ owned_pids = {} /\ failed = {} /\ struck = {}
        /\ stage = [h \in Handles |-> "none"] /\ pid_of = [h \in Handles |-> 0]
        /\ status_of = [h \in Handles |-> Nothing]
        /\ starting = Nobody /\ finalizing = Nobody /\ blocked = Nobody
    BY DEF ChildrenInit
  <2>2. Tables(processes, owned_pids, reaped, status_of, failed, stage)
    BY <2>1 DEF Tables, TablesOK, Lineage, Alone, Owning, FiledRight, NoneLost, Clean, Holding, HandleStages, Statuses
  <2>3. Threads /\ Aimed
    BY <2>1, HandlesAssumption DEF Threads, Aimed
  <2> QED BY <2>2, <2>3 DEF ChildrenInv
<1>2. ChildrenInv /\ [ChildrenNext]_childVars => ChildrenInv'
  <2> SUFFICES ASSUME ChildrenInv, [ChildrenNext]_childVars PROVE ChildrenInv'
    OBVIOUS
  <2>1. CASE UNCHANGED childVars
    <3>1. UNCHANGED <<processes, owned_pids, reaped, status_of, failed, starting, finalizing, blocked, pid_of, stage, overtaken, reused, struck>>
      BY <2>1 DEF childVars, childTables, inside, begun
    <3>2. Tables(processes, owned_pids, reaped, status_of, failed, stage)'
      BY <3>1, TablesNext DEF ChildrenInv
    <3> QED BY <3>1, <3>2 DEF ChildrenInv, Threads, Aimed
  <2>2. CASE ChildrenNext
    <3>1. CASE end_strays
      BY <3>1, EndStraysKeeps
    <3>2. CASE \E p \in 1 .. MaxPid : Exits(p) \/ Descends(p)
      BY <3>2, ExitsKeeps, DescendsKeeps
    <3>3. ASSUME NEW h \in Handles,
                 \/ \E p \in 1 .. MaxPid, group \in BOOLEAN : child_start(h, group, p)
                 \/ make_handle(h) \/ interrupted(h) \/ child_looks(h) \/ child_wait(h) \/ child_wait_returns(h)
                 \/ child_stop(h) \/ child_close(h) \/ child_drop(h)
                 \/ collector(h) \/ finalizer(h) \/ finalizer_fails(h)
          PROVE  ChildrenInv'
      BY <3>3, StartKeeps, MakeHandleKeeps, InterruptedKeeps, LooksKeeps, WaitKeeps, WaitReturnsKeeps,
         StopKeeps, CloseKeeps, DropKeeps, CollectorKeeps, FinalizerKeeps, FinalizerFailsKeeps
    <3> QED BY <2>2, <3>1, <3>2, <3>3 DEF ChildrenNext
  <2> QED BY <2>1, <2>2
<1> QED BY <1>1, <1>2, PTL DEF ChildrenSpec

\* Whatever the number of handles and processes, and whichever pids the
\* kernel gives out again: a handle answers only its own child's status,
\* whoever collected it, only one overtaken in its start is told there is
\* none, and no signal reaches another's child, but for a handle whose own
\* pid came back before it was done with it.
THEOREM ChildrenAreKept == ChildrenSpec => []ChildrenKept
<1>1. ChildrenInv => ChildrenKept
  <2> SUFFICES ASSUME ChildrenInv PROVE ChildrenKept
    OBVIOUS
  <2>1. /\ TablesOK(processes, owned_pids, reaped, status_of, failed, stage)
        /\ Alone(processes, stage) /\ FiledRight(processes, reaped, stage)
        /\ NoneLost(processes, reaped, status_of, failed, stage) /\ Aimed
    BY DEF ChildrenInv, Tables
  <2>2. ASSUME NEW h \in Handles \ reused, h \notin overtaken, stage[h] \in {"open", "dropped"}, status_of[h] = Nothing
        PROVE  LET p == pid_of[h]
               IN  \/ p \in DOMAIN processes /\ processes[p].who = h /\ processes[p].leader
                   \/ p \in DOMAIN reaped /\ reaped[p] = h
    <3>1. Clean(stage, h) /\ stage[h] \in Holding
      BY <2>2 DEF Clean, Holding
    <3>2. pid_of[h] \in DOMAIN processes \cup DOMAIN reaped
      BY <2>1, <2>2, <3>1 DEF NoneLost
    <3> QED BY <2>1, <3>1, <3>2 DEF Alone, FiledRight
  <2>3. \A h \in Handles \ reused : status_of[h] \in {Nothing, h} /\ (h \notin overtaken => h \notin failed)
    BY <2>1 DEF NoneLost
  <2>4. DOMAIN reaped \subseteq owned_pids
    BY <2>1 DEF TablesOK
  <2> QED BY <2>1, <2>2, <2>3, <2>4 DEF ChildrenKept, Aimed
<1> QED BY <1>1, ChildrenInductive, PTL
=============================================================================
