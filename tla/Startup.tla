------------------------------ MODULE Startup ------------------------------
(***************************************************************************)
(* How a start is held to the core it runs (core/startup.c) and to the     *)
(* database it was told to run (core/main.c).                              *)
(*                                                                         *)
(* A cached core is hashed once, and a stamp beside it, of its inode and   *)
(* times in seconds, spares later starts the pass while it holds.  Starts  *)
(* run side by side; the entry may be written in place, or extracted anew  *)
(* under its name, at any step.  Its contents are two halves, so that a    *)
(* write may land behind the pass that hashes it.                          *)
(*                                                                         *)
(* A database is opened by its path twice, to check it and by SQLite; the  *)
(* path may be given to another file between, with an inode that is free.  *)
(***************************************************************************)
EXTENDS Integers, FiniteSets

CONSTANTS
    Starts,     \* processes that start
    DiskInodes,    \* bound: inodes, numbers
    MaxClock,   \* bound: seconds
    MaxWrites   \* bound: writes and swaps of others

ASSUME StartupAssumption == 1 \in DiskInodes

VARIABLES
    clock,      \* seconds
    disk,       \* each inode's file: [a, b: whether its half is the core's, time]
    cached,     \* the inode the cache's name is
    stamp,      \* [ino, time], ino 0 for none
    start,      \* each start: [at, ino, time, whole, stamped]
    vouched,    \* the stats [ino, time] under which a whole pass matched
    writes,
    path,       \* the file at the database's path: [ino, file]
    opening     \* the open: [at, held, sqlite, keep, moved]

stampVars == <<clock, disk, cached, stamp, start, vouched, writes>>
openVars == <<path, opening>>
startupVars == <<stampVars, openVars>>

NoStamp == [ino |-> 0, time |-> 0]
NoStart == [at |-> "none", ino |-> 0, time |-> 0, whole |-> TRUE, stamped |-> FALSE]
NoFile == [ino |-> 0, file |-> 0]

StartupInit ==
    /\ clock = 2
    /\ disk = [i \in DiskInodes |-> [a |-> TRUE, b |-> TRUE, time |-> 1]]
    /\ cached = 1 /\ stamp = NoStamp
    /\ start = [p \in Starts |-> NoStart]
    /\ vouched = {} /\ writes = 0
    /\ path = [ino |-> 1, file |-> 1]
    /\ opening = [at |-> "none", held |-> NoFile, sqlite |-> NoFile, keep |-> FALSE, moved |-> FALSE]

\* A new file is given an inode that no name and no descriptor holds.
Unheld(used) == DiskInodes \ used
Wrote == writes < MaxWrites /\ writes' = writes + 1

-----------------------------------------------------------------------------
\* Others.

Tick ==
    /\ clock < MaxClock /\ clock' = clock + 1
    /\ UNCHANGED <<disk, cached, stamp, start, vouched, writes, openVars>>

\* The entry is written in place; its times are the second's.
Damage(half, good) ==
    /\ Wrote
    /\ disk' = [disk EXCEPT ![cached] =
           IF half = "a" THEN [@ EXCEPT !.a = good, !.time = clock] ELSE [@ EXCEPT !.b = good, !.time = clock]]
    /\ UNCHANGED <<clock, cached, stamp, start, vouched, openVars>>

\* The launcher extracts the core again, under the same name.
Extract ==
    /\ Wrote
    /\ cached' \in Unheld({cached} \cup {start[p].ino : p \in Starts})
    /\ disk' = [disk EXCEPT ![cached'] = [a |-> TRUE, b |-> TRUE, time |-> clock]]
    /\ UNCHANGED <<clock, stamp, start, vouched, openVars>>

-----------------------------------------------------------------------------
\* A start: portable, or a bare core run against a database.

Go(p, where) == start' = [start EXCEPT ![p].at = where]

\* What the launcher handed over, whole and agreeing, or why the start ends.
cosmic_startup_validate(agrees) == IF agrees THEN "fstat" ELSE "refused"

\* cosmic_startup_validate and the manifest's decoding and the launcher's
\* choice, or the database's record: what disagrees ends the start.
cosmic_startup_adopt(p, agrees) ==
    /\ start[p].at = "none"
    /\ start' = [start EXCEPT ![p] = [NoStart EXCEPT
           !.ino = IF agrees THEN cached ELSE 0, !.at = cosmic_startup_validate(agrees)]]
    /\ UNCHANGED <<clock, disk, cached, stamp, vouched, writes, openVars>>

fstat(p) ==
    /\ start[p].at = "fstat"
    /\ start' = [start EXCEPT ![p].time = disk[start[p].ino].time, ![p].at = "look"]
    /\ UNCHANGED <<clock, disk, cached, stamp, vouched, writes, openVars>>

\* stamp_path: only the entry under its name has a stamp.  It is asked once,
\* before the pass.
stamp_path(p) == start[p].ino = cached

\* stamp_holds: a start under a stamp that holds hashes nothing.
stamp_holds(p) ==
    /\ start[p].at = "look"
    /\ start' = [start EXCEPT
           ![p].stamped = stamp_path(p),
           ![p].at = IF stamp_path(p) /\ stamp = [ino |-> start[p].ino, time |-> start[p].time]
                     THEN "adopted" ELSE "first"]
    /\ UNCHANGED <<clock, disk, cached, stamp, vouched, writes, openVars>>

\* cosmic_sha256_range_matches, over one half and then the other.
HashFirst(p) ==
    /\ start[p].at = "first"
    /\ start' = [start EXCEPT ![p].whole = disk[start[p].ino].a, ![p].at = "second"]
    /\ UNCHANGED <<clock, disk, cached, stamp, vouched, writes, openVars>>

HashSecond(p) ==
    /\ start[p].at = "second"
    /\ LET file == disk[start[p].ino]
           matches == start[p].whole /\ file.b
       IN  /\ Go(p, IF ~matches THEN "refused" ELSE IF start[p].stamped THEN "stamp" ELSE "adopted")
           /\ vouched' = IF matches /\ file.time = start[p].time
                         THEN vouched \cup {[ino |-> start[p].ino, time |-> file.time]} ELSE vouched
    /\ UNCHANGED <<clock, disk, cached, stamp, writes, openVars>>

\* Mutant: what is stamped is the entry as it is now.
stamp_write_now(p, ok) ==
    /\ start[p].at = "stamp"
    /\ stamp' = IF ok /\ disk[start[p].ino].time < clock
                THEN [ino |-> start[p].ino, time |-> disk[start[p].ino].time] ELSE stamp
    /\ Go(p, "adopted")
    /\ UNCHANGED <<clock, disk, cached, vouched, writes, openVars>>

\* stamp_write: best effort, and not within the second of the last change.
stamp_write(p, ok) ==
    /\ start[p].at = "stamp"
    /\ stamp' = IF ok /\ start[p].time < clock
                THEN [ino |-> start[p].ino, time |-> start[p].time] ELSE stamp
    /\ Go(p, "adopted")
    /\ UNCHANGED <<clock, disk, cached, vouched, writes, openVars>>

\* The process is over, and another may start.
Exit(p) ==
    /\ start[p].at \in {"adopted", "refused"}
    /\ start' = [start EXCEPT ![p] = NoStart]
    /\ UNCHANGED <<clock, disk, cached, stamp, vouched, writes, openVars>>

StampNext ==
    \/ Tick \/ Extract
    \/ \E half \in {"a", "b"}, good \in BOOLEAN : Damage(half, good)
    \/ \E p \in Starts :
          \/ fstat(p) \/ stamp_holds(p) \/ HashFirst(p) \/ HashSecond(p) \/ Exit(p)
          \/ \E ok \in BOOLEAN : stamp_write(p, ok) \/ cosmic_startup_adopt(p, ok)

-----------------------------------------------------------------------------
\* open_database.

InUse == {path.ino, opening.sqlite.ino} \cup (IF opening.keep THEN {opening.held.ino} ELSE {})

\* The path is given to another file, whose inode is one that is free.
SwapPath ==
    /\ Wrote
    /\ \E i \in Unheld(InUse) : path' = [ino |-> i, file |-> writes + 2]
    /\ opening' = [opening EXCEPT !.moved = (@ \/ opening.at = "restat")]
    /\ UNCHANGED <<clock, disk, cached, stamp, start, vouched>>

Opens(next) == opening' = next /\ UNCHANGED <<stampVars, path>>
To(where) == [opening EXCEPT !.at = where]

OpenFile ==
    opening.at = "none" /\ Opens([To("sqlite") EXCEPT !.held = path, !.keep = TRUE])

SqliteOpen(ok) ==
    opening.at = "sqlite" /\ Opens([To(IF ok THEN "restat" ELSE "refused") EXCEPT !.sqlite = path])

\* The path must still name the inode checked, whose descriptor is held until
\* now so that no other file has it.
open_checked ==
    /\ opening.at = "restat"
    /\ Opens([To(IF path.ino = opening.held.ino THEN "bind" ELSE "refused") EXCEPT !.keep = FALSE])

\* Its meta rows and the digest it records of the core (cosmic_database_bind).
cosmic_database_bind(ok) ==
    opening.at = "bind" /\ Opens(To(IF ok THEN "open" ELSE "refused"))

DatabaseNext ==
    \/ SwapPath \/ OpenFile \/ open_checked
    \/ \E ok \in BOOLEAN : SqliteOpen(ok) \/ cosmic_database_bind(ok)

StartupSpec == StartupInit /\ [][StampNext \/ DatabaseNext]_startupVars

-----------------------------------------------------------------------------
\* A stamp that holds for the entry was earned by it: some start read the
\* whole of it, and found the core, while its inode and times were these
\* (stamp_write is given what was looked at before the pass).
StampEarned ==
    stamp = [ino |-> cached, time |-> disk[cached].time] => stamp \in vouched

\* "Startup writes it after hashing the entry, once a second has passed since
\* the entry last changed, so any later write moves one of the times it
\* records" (core/startup.c:190-192): a stamp that holds is of a sound entry.
StampTrue ==
    stamp = [ino |-> cached, time |-> disk[cached].time] => disk[cached].a /\ disk[cached].b

\* The database SQLite holds is the file that was checked, unless the path was
\* changed between SQLite's open and the last look (open_database).
OpenedIsChecked ==
    opening.at \in {"bind", "open"} /\ ~opening.moved => opening.sqlite.file = opening.held.file

\* A start runs what it checked: by hashing it, by a stamp earned by hashing
\* it, or by the descriptor it was checked through.
StartupTrusts == StampEarned /\ OpenedIsChecked
=============================================================================
