------------------------------- MODULE Restrict -------------------------------
(***************************************************************************)
(* A process that restricts itself (core/syscalls.c's restrict_self): the  *)
(* order in which it looks at itself, plans, and takes its limits, its     *)
(* file rights and its calls away, with any step failing; and what the     *)
(* program may have done to its own descriptors, children and limits       *)
(* before, between and after restrictions.                                 *)
(*                                                                         *)
(* A restriction of one thread runs with nothing beside it, so its steps   *)
(* interleave with faults only.  A path is a model value, a limit a small  *)
(* number, a filter the promises it keeps and whether it lets a limit be   *)
(* set.  A descriptor is what it names: a file of the program's, the       *)
(* store's own, or one of the three entries of /proc.                      *)
(***************************************************************************)
EXTENDS Integers, FiniteSets

CONSTANTS
    Fds,      \* numbers of descriptors above 2
    Paths,    \* what a grant may name; "proc" is one of them
    MaxLimit, \* the largest limit
    Raised,   \* DESCRIPTOR_LIMIT_RAISED
    MaxSteps, \* bound: what the program does besides restricting itself
    MaxCalls, \* bound: restrictions
    Restrictions      \* the restrictions tried: [promises, limits, grants, fds]

Resources == {"nofile", "other"}
ProcEntries == {"tasks", "descriptors", "children"}
NoLimit == MaxLimit + 1
\* What a caller may ask for (read_promises, read_rlimits, read_grants).
RestrictionShape == [promises : SUBSET {"fork"}, limits : [Resources -> 0 .. NoLimit],
          grants : SUBSET Paths, fds : SUBSET Fds]

ASSUME RestrictionsAssumption == Restrictions \subseteq RestrictionShape
ASSUME NumbersAssumption == Fds \subseteq Nat /\ IsFiniteSet(Fds) /\ {MaxLimit, Raised} \subseteq Nat

Lower(a, b) == IF a < b THEN a ELSE b

VARIABLES
    system,     \* "linux" or "darwin"
    held,       \* what the kernel holds the process to
    began,      \* [soft: started_descriptor_limit, raised: descriptor_limit_raised]
    files,      \* what each descriptor names, or "none"
    kin,        \* [child: one not reaped, threads: how many]
    inspected,  \* the descriptors of the three entries, or -1
    ask,        \* the restriction under way or last made
    pace,       \* where restrict_self is, "" between calls
    moves,      \* [todo: limits to set, moved, nofile]
    before,     \* what was so when it was called
    turns,      \* [steps, calls] so far
    told        \* its answer: "", "ok", "refused" or "partly"

restrictVars == <<system, held, began, files, kin, inspected, ask, pace, moves, before, turns, told>>

-----------------------------------------------------------------------------
\* The descriptor limit a start raises and an exec gives back.

cosmic_raise_descriptor_limit(soft, hard) ==
    LET target == Lower(Raised, hard)
    IN  IF soft >= target THEN [soft |-> soft, raised |-> FALSE] ELSE [soft |-> target, raised |-> TRUE]

restored_descriptor_limit ==
    IF began.raised THEN Lower(began.soft, held.hard["nofile"]) ELSE held.soft["nofile"]

RestrictInit ==
    \E s, h \in 1 .. MaxLimit, able \in BOOLEAN :
      /\ s <= h
      /\ LET r == cosmic_raise_descriptor_limit(s, h)
         IN  /\ held = [soft |-> [nofile |-> r.soft, other |-> h], hard |-> [x \in Resources |-> h],
                        domain |-> Paths, filters |-> {}, capable |-> able,
                        runs |-> TRUE, kept |-> FALSE, undone |-> FALSE, profile |-> FALSE]
             /\ began = [soft |-> s, raised |-> r.raised, set |-> FALSE, cut |-> FALSE]
      /\ system \in {"linux", "darwin"}
      /\ files = [f \in Fds |-> "none"]
      /\ kin = [child |-> FALSE, threads |-> 1]
      /\ inspected = [e \in ProcEntries |-> -1]
      /\ ask \in Restrictions
      /\ pace = "" /\ told = ""
      /\ moves = [todo |-> {}, moved |-> FALSE, nofile |-> FALSE, fault |-> FALSE]
      /\ turns = [steps |-> 0, calls |-> 0]
      /\ before = [held |-> held, intact |-> FALSE, good |-> FALSE, repeat |-> FALSE]

-----------------------------------------------------------------------------
\* What the program does between restrictions.

Between ==
    /\ pace = "" /\ turns.steps < MaxSteps
    /\ turns' = [turns EXCEPT !.steps = @ + 1]
    /\ UNCHANGED <<system, moves, before, inspected, ask, pace>>

\* dup2 and close: any number, the runtime's own handles among them.
Place(f, what) ==
    /\ Between
    /\ files[f] # "store"
    /\ files' = [files EXCEPT ![f] = what]
    /\ told' = ""
    /\ UNCHANGED <<held, began, kin>>

Kin(k) ==
    /\ Between
    /\ kin' = k /\ kin' # kin
    /\ told' = ""
    /\ UNCHANGED <<held, began, files>>

MaySetLimits == \A f \in held.filters : f.limits

\* The kernel lowers any limit and raises a soft one up to the hard.
setrlimit(r, s, h) ==
    /\ Between
    /\ MaySetLimits /\ s <= h /\ h <= held.hard[r]
    /\ held' = [held EXCEPT !.soft[r] = s, !.hard[r] = h]
    /\ began' = IF r = "nofile" THEN [began EXCEPT !.raised = FALSE, !.set = TRUE] ELSE began
    /\ told' = ""
    /\ UNCHANGED <<files, kin>>

\* landlock_restrict_execute: held to running what is listed, which leaves
\* the core out (keeps) or not, and undumpable last, where that may fail.
keep_artifact(h) == [h EXCEPT !.kept = TRUE]

landlock_restrict_execute(keeps, works, dumps) ==
    /\ Between
    /\ system = "linux"
    /\ held' = IF ~works THEN held
               ELSE LET h == [held EXCEPT !.runs = @ /\ ~keeps]
                    IN  IF ~keeps THEN h ELSE IF dumps THEN keep_artifact(h) ELSE [h EXCEPT !.undone = TRUE]
    /\ told' = IF works /\ (keeps => dumps) THEN "execute held" ELSE "execute refused"
    /\ UNCHANGED <<began, files, kin>>

\* Whether spawn lets the artifact's descriptor go on to a child.
handed_on == ~held.kept

-----------------------------------------------------------------------------
\* The /proc entries a restriction reads, held open from the first one.

inspected_same(e) == inspected[e] \in Fds /\ files[inspected[e]] = e

\* Mutant: a handle is trusted whatever its number names now.
inspected_trusted(e) == inspected[e]

inspected_forget(e) == IF inspected_same(e) THEN inspected[e] ELSE -1

\* What a listing through an entry's handle shows: the truth where the
\* handle is the entry's, nothing where another file is in its number.
Listed(e, truth, nothing) == IF inspected_same(e) THEN truth ELSE nothing

first_child == Listed("children", kin.child, FALSE)
thread_count == Listed("tasks", kin.threads, 1)
unaccounted_descriptor ==
    LET found == {f \in Fds : /\ files[f] \notin {"none", "store"} /\ f \notin ask.fds
                              /\ \A e \in ProcEntries : f # inspected[e]}
    IN  Listed("descriptors", found, {})

darwin_first_child == kin.child
darwin_unaccounted_descriptor == {f \in Fds : files[f] \notin {"none", "store"} /\ f \notin ask.fds}

-----------------------------------------------------------------------------
\* restrict_self.

seatbelt_holding == held.profile

CallRestrict(a) ==
    /\ pace = "" /\ turns.calls < MaxCalls
    /\ turns' = [turns EXCEPT !.calls = @ + 1]
    /\ ask' = a
    /\ told' = ""
    /\ before' = [held |-> held, intact |-> \A e \in ProcEntries : inspected_same(e),
                  good |-> FALSE, repeat |-> before.good /\ ask = a]
    /\ moves' = [todo |-> {}, moved |-> FALSE, nofile |-> FALSE, fault |-> FALSE]
    /\ pace' = "fds"
    /\ UNCHANGED <<system, held, began, files, kin, inspected>>

\* A refusal ends the call: partly where something was changed already.
restrict_refused(partly) ==
    /\ told' = IF partly THEN "partly" ELSE "refused"
    /\ pace' = ""
    /\ UNCHANGED <<system, files, kin, ask, before, turns>>

Refuse(partly) == restrict_refused(partly) /\ UNCHANGED <<held, began, inspected, moves>>
Fault(partly) == restrict_refused(partly) /\ moves' = [moves EXCEPT !.fault = TRUE] /\ UNCHANGED began

Pace(next) == pace' = next /\ UNCHANGED <<system, ask, before, turns, told>>

KeptOpen ==
    /\ pace = "fds"
    /\ IF \E f \in ask.fds : files[f] = "none" THEN Refuse(FALSE)
       ELSE /\ Pace("inspect")
            /\ UNCHANGED <<held, began, files, kin, inspected, moves>>

\* Handles of ours that are still so are closed and opened again when one
\* of the three is not: free numbers are taken, and /proc must be open.
inspected_open ==
    LET kept == [e \in ProcEntries |-> inspected_forget(e)]
        closed == [f \in Fds |-> IF \E e \in ProcEntries : kept[e] = f THEN "none" ELSE files[f]]
        free == {f \in Fds : closed[f] = "none"}
    IN  /\ pace = "inspect" /\ system = "linux"
        /\ \/ /\ \A e \in ProcEntries : kept[e] # -1
              /\ Pace("count")
              /\ UNCHANGED <<held, began, files, kin, inspected, moves>>
           \/ /\ \E e \in ProcEntries : kept[e] = -1
              /\ \/ /\ "proc" \in held.domain /\ Cardinality(free) >= 3
                    /\ LET lowest(n) == CHOOSE f \in free : Cardinality({g \in free : g < f}) = n
                       IN  /\ inspected' = [tasks |-> lowest(0), descriptors |-> lowest(1), children |-> lowest(2)]
                           /\ files' = [f \in Fds |-> CASE f = lowest(0) -> "tasks" [] f = lowest(1) -> "descriptors"
                                                        [] f = lowest(2) -> "children" [] OTHER -> closed[f]]
                    /\ Pace("count")
                    /\ UNCHANGED <<held, began, kin, moves>>
                 \/ /\ "proc" \notin held.domain \/ Cardinality(free) < 3
                    /\ inspected' = [e \in ProcEntries |-> -1]
                    /\ files' = closed
                    /\ told' = "refused" /\ pace' = ""
                    /\ UNCHANGED <<system, held, began, kin, ask, before, turns, moves>>

Count ==
    /\ pace = "count" /\ system = "linux"
    /\ IF first_child \/ thread_count > 1 \/ unaccounted_descriptor # {} THEN Refuse(FALSE)
       ELSE /\ Pace("plan")
            /\ UNCHANGED <<held, began, files, kin, inspected, moves>>

DarwinCount ==
    /\ pace = "inspect" /\ system = "darwin"
    /\ IF seatbelt_holding \/ darwin_first_child \/ darwin_unaccounted_descriptor # {} THEN Refuse(FALSE)
       ELSE /\ Pace("plan")
            /\ UNCHANGED <<held, began, files, kin, inspected, moves>>

\* What is to be counted cannot be listed.
Uncounted ==
    /\ \/ pace = "count" /\ system = "linux"
       \/ pace = "inspect" /\ system = "darwin"
    /\ Fault(FALSE) /\ UNCHANGED <<held, inspected>>

plan_limit(r) ==
    LET target == [soft |-> Lower(held.soft[r], ask.limits[r]), hard |-> Lower(held.hard[r], ask.limits[r])]
    IN  [target |-> target, changes |-> target.soft # held.soft[r] \/ target.hard # held.hard[r]]

\* Every limit is planned, and the ruleset made, before any is set.
Plan(fails) ==
    /\ pace = "plan"
    /\ IF fails THEN Fault(FALSE) /\ UNCHANGED <<held, inspected>>
       ELSE /\ moves' = [moves EXCEPT !.todo = {r \in Resources : plan_limit(r).changes}]
            /\ Pace("limits")
            /\ UNCHANGED <<held, began, files, kin, inspected>>

\* On Linux a limit of descriptors is noted when all are set, on Darwin at once.

NofileMoved == IF system = "linux" THEN moves.todo = {} /\ moves.nofile ELSE moves.nofile

SetLimit(r, fails) ==
    /\ pace = "limits" /\ r \in moves.todo
    /\ IF fails \/ ~MaySetLimits
       THEN /\ restrict_refused(moves.moved)
            /\ moves' = [moves EXCEPT !.fault = fails]
            /\ began' = [began EXCEPT !.cut = @ \/ (system = "linux" /\ moves.nofile)]
            /\ UNCHANGED <<held, inspected>>
       ELSE /\ held' = [held EXCEPT !.soft[r] = plan_limit(r).target.soft, !.hard[r] = plan_limit(r).target.hard]
            /\ moves' = [moves EXCEPT !.todo = @ \ {r}, !.moved = TRUE, !.nofile = @ \/ r = "nofile"]
            /\ began' = IF r # "nofile" THEN began
                        ELSE [began EXCEPT !.set = TRUE, !.raised = @ /\ system = "linux"]
            /\ Pace("limits")
            /\ UNCHANGED <<files, kin, inspected>>

LimitsSet ==
    /\ pace = "limits" /\ moves.todo = {}
    /\ began' = IF NofileMoved THEN [began EXCEPT !.raised = FALSE] ELSE began
    /\ Pace("enforce")
    /\ UNCHANGED <<held, files, kin, inspected, moves>>

enforce_ruleset(fails) ==
    /\ pace = "enforce" /\ system = "linux"
    /\ IF fails THEN Fault(moves.moved) /\ UNCHANGED <<held, inspected>>
       ELSE /\ held' = [held EXCEPT !.domain = @ \cap ask.grants]
            /\ Pace("filter")
            /\ UNCHANGED <<began, files, kin, inspected, moves>>

\* Whether the process is known to lack CAP_SYS_RESOURCE: an earlier filter
\* refuses capget, and a limit set to what it is stands in for it.
lacks_resource_capability == IF held.filters # {} THEN MaySetLimits ELSE ~held.capable

Succeed ==
    /\ told' = "ok" /\ pace' = ""
    /\ before' = [before EXCEPT !.good = TRUE]
    /\ UNCHANGED <<system, began, files, kin, inspected, ask, turns, moves>>

cosmic_promises_apply(fails) ==
    /\ pace = "filter"
    /\ IF fails THEN Fault(TRUE) /\ UNCHANGED <<held, inspected>>
       ELSE /\ held' = [held EXCEPT !.filters =
                          @ \cup {[promises |-> ask.promises, limits |-> lacks_resource_capability]}]
            /\ Succeed

apply_seatbelt(fails) ==
    /\ pace = "enforce" /\ system = "darwin"
    /\ IF fails THEN Fault(moves.moved) /\ UNCHANGED <<held, inspected>>
       ELSE held' = [held EXCEPT !.domain = @ \cap ask.grants, !.profile = TRUE] /\ Succeed

RestrictNext ==
    \/ \E f \in Fds, what \in {"none", "file"} : files[f] # what /\ Place(f, what)
    \/ \E c \in BOOLEAN, n \in 1 .. 2 : Kin([child |-> c, threads |-> n])
    \/ \E r \in Resources, s, h \in 1 .. MaxLimit : setrlimit(r, s, h)
    \/ \E keeps, works, dumps \in BOOLEAN : landlock_restrict_execute(keeps, works, dumps)
    \/ \E a \in Restrictions : CallRestrict(a)
    \/ KeptOpen \/ inspected_open \/ Count \/ DarwinCount \/ Uncounted
    \/ \E fails \in BOOLEAN :
         \/ Plan(fails)
         \/ \E r \in Resources : SetLimit(r, fails)
         \/ enforce_ruleset(fails) \/ cosmic_promises_apply(fails) \/ apply_seatbelt(fails)
    \/ LimitsSet

RestrictSpec == RestrictInit /\ [][RestrictNext]_restrictVars

-----------------------------------------------------------------------------
\* Properties.

\* A refusal that does not say the process is partly restricted took
\* nothing away: no limit, no right to a file, no call (restrict_self's
\* message, which a caller relies on to carry on unrestricted).
RefusalHonest == told = "refused" => held = before.held

\* What a restriction that answers true holds: every limit asked for, no
\* file outside the grants, no call outside the promises; and nothing that
\* it cannot hold is left, neither child nor second thread nor descriptor
\* that is not named, whatever the program did to the handles it counts
\* them through.  A process held from running its core gives its artifact
\* to no child.
RestrictionHolds ==
    /\ told = "ok" =>
         /\ \A r \in Resources : held.hard[r] <= ask.limits[r] /\ held.soft[r] <= ask.limits[r]
         /\ held.domain \subseteq ask.grants
         /\ ~kin.child
         /\ system = "linux" =>
              /\ \E f \in held.filters : f.promises \subseteq ask.promises
              /\ kin.threads = 1
         /\ \A f \in Fds : files[f] # "file" \/ f \in ask.fds
    /\ (~held.runs /\ ~held.undone) => ~handed_on

\* On Linux a restriction made again, by a process that kept to it, is not
\* refused: its own limits need no call its filter refuses, its handles on
\* /proc outlive Landlock (the comments of inspected and plan_limit).
RepeatPasses ==
    (before.repeat /\ system = "linux" /\ before.intact /\ told \in {"refused", "partly"})
        => \/ moves.fault \/ kin.child \/ kin.threads > 1
           \/ \E f \in Fds : files[f] = "file" /\ f \notin ask.fds
           \/ \E f \in ask.fds : files[f] = "none"

\* A program executed gets the soft limit of descriptors the program chose,
\* or where it chose none the one this process was started with (the
\* comments of setrlimit and restore_descriptor_limit).  Left out is a
\* restriction cut short by a limit that cannot be set after the one of
\* descriptors was, which Linux's loop returns from before it notes that.
ChildLimit ==
    (pace = "" /\ ~began.cut) => restored_descriptor_limit =
        IF began.set THEN held.soft["nofile"] ELSE Lower(began.soft, held.hard["nofile"])


\* What restrict says is what the process is then held by: a refusal and a
\* success alike, a repeat, and the limit a child is given back.
RestrictTells == RefusalHonest /\ RestrictionHolds /\ RepeatPasses /\ ChildLimit
=============================================================================
