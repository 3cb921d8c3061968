----------------------------- MODULE CoreProofs -----------------------------
(***************************************************************************)
(* Proofs about what the core's C keeps by itself, for any number of       *)
(* starts, inodes, databases, handles, calls and entries: that a start     *)
(* runs what it checked (module Startup), that a module comes from its     *)
(* owner (module Store), that a call of SQLite's tells of itself and       *)
(* nothing outlives what it points to (module Sqlite), and that a file     *)
(* accepted is nothing but its parts (module Artifact).                    *)
(***************************************************************************)
EXTENDS Startup, Store, Sqlite, Artifact, SequenceTheorems, SequenceLemmas, TLAPS

(***************************************************************************)
(* Startup.  A stamp need not be of what is on the disk: a start writes    *)
(* what it saw before its pass, and the entry may have changed in it.      *)
(* What keeps a stamp from holding unearned is time: an inode's times only *)
(* grow, also when the inode goes to another file, so a stat that no whole *)
(* pass matched under is already of the past (Dated).  No start reads an   *)
(* inode that was given away meanwhile, for it holds the file open.        *)
(***************************************************************************)
DiskTypes ==
  /\ clock \in Nat
  /\ disk \in [DiskInodes -> [a : BOOLEAN, b : BOOLEAN, time : Nat \ {0}]]
  /\ cached \in DiskInodes
  /\ start \in [Starts -> [at : {"none", "refused", "fstat", "look", "first", "second", "stamp", "adopted"},
                           ino : DiskInodes \cup {0}, time : Nat, whole : BOOLEAN, stamped : BOOLEAN]]
  /\ stamp \in [ino : DiskInodes \cup {0}, time : Nat]

Reads(p) == start[p].at \in {"look", "first", "second", "stamp"}

\* What was seen of an inode is earned, or past.
Past(seen) == seen.ino \in DiskInodes => seen.time < disk[seen.ino].time
Seen(p) == [ino |-> start[p].ino, time |-> start[p].time]

Dated ==
  /\ \A i \in DiskInodes : disk[i].time <= clock
  /\ \A p \in Starts : start[p].at = "fstat" \/ Reads(p) => start[p].ino \in DiskInodes
  /\ \A p \in Starts : Reads(p) => start[p].time <= disk[start[p].ino].time
  /\ \A p \in Starts : start[p].at = "stamp" => Seen(p) \in vouched \/ Past(Seen(p))
  /\ stamp \in vouched \/ Past(stamp)

StampInv == DiskTypes /\ Dated

LEMMA StartupInitStamp == StartupInit => StampInv
<1> SUFFICES ASSUME StartupInit PROVE StampInv
  OBVIOUS
<1>1. NoStart \in [at : {"none"}, ino : {0}, time : Nat, whole : BOOLEAN, stamped : BOOLEAN] /\ NoStart.at = "none"
  BY DEF NoStart
<1>2. DiskTypes
  BY <1>1, StartupAssumption DEF StartupInit, DiskTypes, NoStamp
<1>3. Dated
  BY <1>1, <1>2, StartupAssumption DEF StartupInit, Dated, DiskTypes, Reads, Past, NoStamp
<1> QED
  BY <1>2, <1>3 DEF StampInv

LEMMA StampStep ==
  ASSUME StampInv, [StampNext]_stampVars
  PROVE  StampInv'
<1> USE DEF StampInv, DiskTypes, Dated, Reads, Past, Seen
<1>1. CASE Tick
  BY <1>1 DEF Tick
<1>2. CASE Extract
  BY <1>2 DEF Extract, Unheld
<1>3. ASSUME NEW half \in {"a", "b"}, NEW good \in BOOLEAN, Damage(half, good)
      PROVE  StampInv'
  <2>1. /\ \A i \in DiskInodes : disk'[i].time = IF i = cached THEN clock ELSE disk[i].time
        /\ disk' \in [DiskInodes -> [a : BOOLEAN, b : BOOLEAN, time : Nat \ {0}]]
    <3> DEFINE old == disk[cached]
               new == IF half = "a" THEN [old EXCEPT !.a = good, !.time = clock]
                                    ELSE [old EXCEPT !.b = good, !.time = clock]
    <3>1. old \in [a : BOOLEAN, b : BOOLEAN, time : Nat \ {0}] /\ clock \in Nat \ {0}
      OBVIOUS
    <3>2. disk' = [disk EXCEPT ![cached] = new]
      BY <1>3 DEF Damage
    <3> HIDE DEF old
    <3>3. new \in [a : BOOLEAN, b : BOOLEAN, time : Nat \ {0}] /\ new.time = clock
      BY <3>1
    <3> QED
      BY <3>2, <3>3
  <2>2. UNCHANGED <<clock, cached, stamp, start, vouched>>
    BY <1>3 DEF Damage
  <2> QED
    BY <2>1, <2>2, SMTT(30)
<1>4. ASSUME NEW p \in Starts, fstat(p) PROVE StampInv'
  BY <1>4 DEF fstat
<1>5. ASSUME NEW p \in Starts, stamp_holds(p) PROVE StampInv'
  BY <1>5, SMTT(30) DEF stamp_holds, stamp_path
<1>6. ASSUME NEW p \in Starts, HashFirst(p) PROVE StampInv'
  BY <1>6, SMTT(30) DEF HashFirst
<1>7. ASSUME NEW p \in Starts, HashSecond(p) PROVE StampInv'
  <2> DEFINE file == disk[start[p].ino]
             matches == start[p].whole /\ file.b
             seen == [ino |-> start[p].ino, time |-> file.time]
  <2>1. /\ UNCHANGED <<clock, disk, cached, stamp>> /\ start[p].at = "second"
        /\ start' = [start EXCEPT ![p].at = IF ~matches THEN "refused"
                                           ELSE IF start[p].stamped THEN "stamp" ELSE "adopted"]
        /\ vouched' = IF matches /\ file.time = start[p].time THEN vouched \cup {seen} ELSE vouched
    BY <1>7 DEF HashSecond, Go
  <2>2. DiskTypes'
    BY <2>1
  <2>3. start[p].time <= file.time /\ start[p].ino \in DiskInodes /\ file.time \in Nat
    BY <2>1
  <2>4. start'[p].at = "stamp" => matches
    BY <2>1
  <2>5. start'[p].at = "stamp" => Seen(p)' \in vouched' \/ Past(Seen(p))'
    BY <2>1, <2>3, <2>4
  <2>6. \A q \in Starts \ {p} : start'[q] = start[q]
    BY <2>1
  <2>7. vouched \subseteq vouched' /\ start'[p].ino = start[p].ino /\ start'[p].time = start[p].time
    BY <2>1
  <2> QED
    BY <2>1, <2>2, <2>3, <2>5, <2>6, <2>7
<1>8. ASSUME NEW p \in Starts, Exit(p) PROVE StampInv'
  BY <1>8 DEF Exit, NoStart
<1>9. ASSUME NEW p \in Starts, NEW ok \in BOOLEAN, stamp_write(p, ok) PROVE StampInv'
  BY <1>9 DEF stamp_write, Go
<1>10. ASSUME NEW p \in Starts, NEW ok \in BOOLEAN, cosmic_startup_adopt(p, ok) PROVE StampInv'
  BY <1>10 DEF cosmic_startup_adopt, cosmic_startup_validate, NoStart
<1>11. CASE UNCHANGED stampVars
  BY <1>11 DEF stampVars
<1> QED
  BY <1>1, <1>2, <1>3, <1>4, <1>5, <1>6, <1>7, <1>8, <1>9, <1>10, <1>11 DEF StampNext

(* A stamp that holds for the entry was earned by it.                      *)
LEMMA StampInvEarned == StampInv => StampEarned
BY DEF StampInv, DiskTypes, Dated, Past, StampEarned

(***************************************************************************)
(* The open.  The descriptor held from the check to the last look keeps    *)
(* its inode from any other file, so the path naming that inode names that *)
(* file (OpenInv).                                                         *)
(***************************************************************************)
DiskFile == [ino : DiskInodes \cup {0}, file : Nat]

OpenInv ==
  /\ writes \in Nat /\ path \in DiskFile
  /\ opening \in [at : {"none", "sqlite", "restat", "bind", "open", "refused"},
                  held : DiskFile, sqlite : DiskFile, keep : BOOLEAN, moved : BOOLEAN]
  /\ opening.at \in {"sqlite", "restat"} => opening.keep
  /\ opening.keep /\ path.ino = opening.held.ino => path.file = opening.held.file
  /\ opening.at = "restat" /\ ~opening.moved => opening.sqlite.file = path.file
  /\ OpenedIsChecked

LEMMA StartupInitOpen == StartupInit => OpenInv
BY StartupAssumption DEF StartupInit, OpenInv, NoFile, DiskFile, OpenedIsChecked

LEMMA OpenStep ==
  ASSUME OpenInv, [StampNext \/ DatabaseNext]_startupVars
  PROVE  OpenInv'
<1> USE DEF OpenInv, DiskFile, OpenedIsChecked
<1>1. CASE SwapPath
  <2>1. PICK i \in DiskInodes \ InUse : path' = [ino |-> i, file |-> writes + 2]
    BY <1>1 DEF SwapPath, Unheld
  <2>2. /\ opening' = [opening EXCEPT !.moved = (opening.moved \/ opening.at = "restat")]
        /\ writes' = writes + 1
    BY <1>1 DEF SwapPath, Wrote
  <2>3. opening.keep => i # opening.held.ino
    BY <2>1 DEF InUse
  <2> QED
    BY <2>1, <2>2, <2>3
<1>2. CASE OpenFile
  BY <1>2 DEF OpenFile, Opens, To, stampVars
<1>3. ASSUME NEW ok \in BOOLEAN, SqliteOpen(ok) PROVE OpenInv'
  BY <1>3 DEF SqliteOpen, Opens, To, stampVars
<1>4. CASE open_checked
  BY <1>4 DEF open_checked, Opens, To, stampVars
<1>5. ASSUME NEW ok \in BOOLEAN, cosmic_database_bind(ok) PROVE OpenInv'
  BY <1>5 DEF cosmic_database_bind, Opens, To, stampVars
<1>6. CASE StampNext
  <2>1. UNCHANGED openVars /\ (writes' = writes \/ writes' = writes + 1)
    BY <1>6 DEF StampNext, Tick, Extract, Damage, Wrote, fstat, stamp_holds, HashFirst, HashSecond,
                Exit, stamp_write, cosmic_startup_adopt
  <2> QED
    BY <2>1 DEF openVars
<1>7. CASE UNCHANGED startupVars
  BY <1>7 DEF startupVars, stampVars, openVars
<1> QED
  BY <1>1, <1>2, <1>3, <1>4, <1>5, <1>6, <1>7 DEF DatabaseNext

(* A start runs what it checked, whoever writes the entry, extracts it     *)
(* again, starts beside it or changes the database's path.                 *)
THEOREM StartsTrust == StartupSpec => []StartupTrusts
<1>1. StampInv /\ [StampNext \/ DatabaseNext]_startupVars => StampInv'
  <2> SUFFICES ASSUME StampInv, [StampNext \/ DatabaseNext]_startupVars PROVE StampInv'
    OBVIOUS
  <2>1. CASE DatabaseNext
    <3>1. UNCHANGED <<clock, disk, cached, stamp, start, vouched>>
      BY <2>1 DEF DatabaseNext, SwapPath, OpenFile, SqliteOpen, open_checked, cosmic_database_bind,
                  Opens, stampVars
    <3> QED
      BY <3>1 DEF StampInv, DiskTypes, Dated, Reads, Past, Seen
  <2>2. CASE [StampNext]_stampVars
    BY <2>2, StampStep
  <2> QED
    BY <2>1, <2>2 DEF startupVars
<1>2. OpenInv /\ [StampNext \/ DatabaseNext]_startupVars => OpenInv'
  BY OpenStep
<1>3. StampInv /\ OpenInv => StartupTrusts
  BY StampInvEarned DEF OpenInv, StartupTrusts
<1> QED
  BY <1>1, <1>2, <1>3, StartupInitStamp, StartupInitOpen, PTL DEF StartupSpec

-----------------------------------------------------------------------------
(***************************************************************************)
(* The store.  The list ends in the binary's database whatever is attached *)
(* or set aside (Based).                                                   *)
(***************************************************************************)
Based ==
  /\ attached \in Seq(Projects \cup {"b"}) /\ attached # << >> /\ attached[Len(attached)] = "b"
  /\ "b" \in conns
  /\ list = IF saved = << >> THEN attached ELSE <<"b">>
  /\ saved # << >> => saved = attached
  /\ conns = {attached[i] : i \in 1..Len(attached)}

LEMMA BasedWhole == Based => ListWhole
BY DEF Based, ListWhole

LEMMA BasedList ==
  ASSUME Based
  PROVE  list \in Seq(Projects \cup {"b"}) /\ Len(list) \in Nat \ {0} /\ list[Len(list)] = "b"
<1>1. <<"b">> \in Seq(Projects \cup {"b"}) /\ Len(<<"b">>) = 1 /\ <<"b">>[1] = "b"
  OBVIOUS
<1>2. CASE saved = << >>
  BY <1>2 DEF Based
<1>3. CASE saved # << >>
  BY <1>1, <1>3 DEF Based
<1> QED
  BY <1>2, <1>3

LEMMA AttachStep ==
  ASSUME Based, NEW d \in Projects, NEW stop, store_attach(d, stop)
  PROVE  Based'
<1>1. CASE saved # << >> \/ stop # "none"
  BY <1>1 DEF store_attach, Based
<1>2. CASE saved = << >> /\ stop = "none"
  <2>1. /\ list' = <<d>> \o list /\ attached' = <<d>> \o attached /\ conns' = conns \cup {d}
        /\ saved' = saved
    BY <1>2 DEF store_attach
  <2>2. attached \in Seq(Projects \cup {"b"}) /\ Len(attached) \in Nat \ {0} /\ attached[Len(attached)] = "b"
    BY DEF Based
  <2>3. /\ attached' \in Seq(Projects \cup {"b"}) /\ Len(attached') = Len(attached) + 1
        /\ attached'[1] = d /\ \A i \in 1..Len(attached) : attached'[i + 1] = attached[i]
    BY <2>1, <2>2
  <2>4. conns' = {attached'[i] : i \in 1..Len(attached')}
    <3>1. conns = {attached[i] : i \in 1..Len(attached)}
      BY DEF Based
    <3>2. \A i \in 1..Len(attached') : i = 1 \/ (i - 1 \in 1..Len(attached) /\ attached'[i] = attached[i - 1])
      BY <2>2, <2>3
    <3>3. \A i \in 1..Len(attached) : i + 1 \in 1..Len(attached')
      BY <2>2, <2>3
    <3>4. 1 \in 1..Len(attached')
      BY <2>2, <2>3
    <3>5. ASSUME NEW i \in 1..Len(attached') PROVE attached'[i] \in conns'
      BY <2>1, <2>3, <3>1, <3>2
    <3>6. ASSUME NEW c \in conns' PROVE \E i \in 1..Len(attached') : c = attached'[i]
      <4>1. CASE c = d
        BY <2>3, <3>4, <4>1
      <4>2. CASE c \in conns
        <5>1. PICK i \in 1..Len(attached) : c = attached[i]
          BY <3>1, <4>2
        <5> QED
          BY <2>3, <3>3, <5>1
      <4> QED
        BY <2>1, <3>6, <4>1, <4>2
    <3> QED
      BY <3>5, <3>6
  <2> QED
    BY <1>2, <2>1, <2>2, <2>3, <2>4 DEF Based
<1> QED
  BY <1>1, <1>2

LEMMA BasedStep ==
  ASSUME Based, [StoreNext]_storeVars
  PROVE  Based'
<1>1. CASE store_alone
  BY <1>1 DEF store_alone, Based
<1>2. CASE AloneOver
  BY <1>2 DEF AloneOver, Based
<1>3. CASE UNCHANGED <<list, saved, conns, attached>>
  BY <1>3 DEF Based
<1> QED
  BY <1>1, <1>2, <1>3, AttachStep DEF StoreNext, store_searcher, store_bytecode, store_source,
       store_meta, storeVars

(* What a search of the list answers.                                      *)
LEMMA SearchStep ==
  ASSUME Based, NEW n \in StoreNames, store_searcher(n)
  PROVE  AnsweredByOwner'
<1> DEFINE reserved == names_reserved(n)
           holding == Holding(list, 1..Len(list), n)
           i == IF reserved THEN LastHolding(1..Len(list), n) ELSE FirstHolding(1..Len(list), n)
<1>1. /\ list \in Seq(Projects \cup {"b"}) /\ Len(list) \in Nat \ {0} /\ list[Len(list)] = "b"
      /\ UNCHANGED <<list, saved, attached>>
  BY BasedList DEF store_searcher
<1>2. /\ answer'.what \in {"require", "missing", "raised"} /\ answer'.name = n
      /\ answer'.what = "require" /\ ~names_plain_raw(n) =>
           i # 0 /\ answer'.from = list[i] /\ answer'.raw = load_from(n, i)
  BY DEF store_searcher, Answer
<1>3. n # "ca_roots_default"
  BY DEF StoreNames
<1>4. SUFFICES ASSUME answer'.what = "require", ~names_plain_raw(n)
      PROVE  LET binary == Rows["b"][n] # "none"
                 place == Holding(attached, 1..Len(attached), n)
             IN  /\ (binary /\ names_reserved(n) => answer'.from = "b")
                 /\ (~(binary /\ names_reserved(n)) /\ saved = << >> =>
                      answer'.from = attached[IF names_reserved(n) THEN Hindmost(place) ELSE Foremost(place)])
                 /\ (saved # << >> => answer'.from = "b")
                 /\ (answer'.raw # "none" => answer'.from = "b" /\ n \in {"cosmic.store", "build.fuzz"})
  BY <1>1, <1>2, <1>3, Zenon DEF AnsweredByOwner
<1>5. holding # {} /\ i = IF reserved THEN Hindmost(holding) ELSE Foremost(holding)
  BY <1>2, <1>4 DEF LastHolding, FirstHolding
<1>6. Rows["b"][n] # "none" /\ reserved => list[i] = "b"
  <2>1. SUFFICES ASSUME Rows["b"][n] # "none", reserved PROVE i = Len(list)
    BY <1>1
  <2>2. Len(list) \in holding /\ \A j \in holding : j \in Nat /\ j <= Len(list)
    BY <1>1, <2>1 DEF Holding
  <2> HIDE DEF i, holding
  <2>4. i \in holding /\ \A j \in holding : j <= i
    BY <1>5, <2>1, <2>2 DEF Hindmost
  <2> QED
    BY <1>1, <2>2, <2>4
<1>7. saved = << >> => list = attached
  BY DEF Based
<1>8. saved # << >> => list[i] = "b"
  <2>1. SUFFICES ASSUME saved # << >> PROVE i = Len(list)
    BY <1>1
  <2>2. Len(list) = 1
    BY <2>1 DEF Based
  <2>3. holding = {1}
    BY <1>5, <2>2 DEF Holding
  <2> HIDE DEF holding
  <2> QED
    BY <1>5, <2>2, <2>3 DEF Hindmost, Foremost
<1>9. load_from(n, i) # "none" => list[i] = "b" /\ n \in {"cosmic.store", "build.fuzz"}
  BY <1>1 DEF load_from, raw_modules
<1> QED
  BY <1>2, <1>4, <1>5, <1>6, <1>7, <1>8, <1>9

LEMMA OwnerStep ==
  ASSUME Based, AnsweredByOwner, [StoreNext]_storeVars
  PROVE  AnsweredByOwner'
<1>1. list \in Seq(Projects \cup {"b"}) /\ Len(list) \in Nat \ {0} /\ list[Len(list)] = "b"
  BY BasedList
<1>2. ASSUME NEW d \in Projects, NEW stop, store_attach(d, stop) PROVE AnsweredByOwner'
  BY <1>2 DEF store_attach, AnsweredByOwner, NoAnswer
<1>3. CASE store_alone \/ AloneOver
  BY <1>3 DEF store_alone, AloneOver, AnsweredByOwner, NoAnswer
<1>4. ASSUME NEW n \in StoreNames, store_bytecode(n) PROVE AnsweredByOwner'
  BY <1>4 DEF store_bytecode, Answer, AnsweredByOwner, StoreNames
<1>5. \A n : FirstHolding({Len(list)}, n) \in {0, Len(list)}
  BY DEF FirstHolding, Holding, Foremost
<1>6. ASSUME NEW n \in StoreNames, store_source(n) PROVE AnsweredByOwner'
  BY <1>1, <1>5, <1>6 DEF store_source, Answer, AnsweredByOwner
<1>7. ASSUME NEW k \in StoreKeys, store_meta(k) PROVE AnsweredByOwner'
  BY <1>1, <1>5, <1>7 DEF store_meta, Answer, AnsweredByOwner
<1>8. CASE UNCHANGED storeVars
  BY <1>8, Zenon DEF storeVars, AnsweredByOwner
<1> QED
  BY <1>2, <1>3, <1>4, <1>6, <1>7, <1>8, SearchStep DEF StoreNext

(* The list is whole and each module answered by its owner, whatever is    *)
(* attached, fails to attach, or is set aside meanwhile.                   *)
THEOREM StoreIsOwners == StoreSpec => []StoreAnswers
<1>1. StoreInit => Based /\ AnsweredByOwner
  BY DEF StoreInit, Based, AnsweredByOwner, NoAnswer
<1>2. Based /\ AnsweredByOwner /\ [StoreNext]_storeVars => Based' /\ AnsweredByOwner'
  BY BasedStep, OwnerStep
<1>3. Based /\ AnsweredByOwner => StoreAnswers
  BY BasedWhole DEF StoreAnswers
<1> QED
  BY <1>1, <1>2, <1>3, PTL DEF StoreSpec

-----------------------------------------------------------------------------
(***************************************************************************)
(* Sqlite.  Neither property is inductive.  That a live statement's        *)
(* connection is open needs that a connection is as its handle says and a  *)
(* statement of the connection of its owner (Lives); that a call in SQLite *)
(* finds its connection open, and its wait its whole budget, needs what    *)
(* SQLite's own call began with, which nothing changes before it is over   *)
(* (InSqlite); and that a message is of the call telling it, that no two   *)
(* calls and no two statements hold one guard, and a call one of a         *)
(* statement's only while in SQLite (GuardsApart).                         *)
(***************************************************************************)
FrameStages == {"guarded", "made", "binding", "telling", "sqlite", "busy"}
CallKinds == {"exec", "prepare", "step", "list", "values"}

ValueLists == UNION {[1..k -> value_kind] : k \in 0..2}

Frame == [n : Nat, op : CallKinds, h : Handles \cup {"none"}, s : Stmts \cup {"none"}, result : BOOLEAN,
          stage : FrameStages, guard : Nat, values : ValueLists,
          at : 0..2, met : Int, interrupted : BOOLEAN]
HandleRecord == [made : BOOLEAN, db : Conns \cup {"null"}, borrowed : BOOLEAN, busy : Int, deadline : Int,
                 cancelled : BOOLEAN, held : BOOLEAN, gone : BOOLEAN]
StatementRecord == [made : BOOLEAN, live : BOOLEAN, db : Conns \cup {"null"}, owner : Handles \cup {"null"},
                    at : {"start", "row", "done", "bad"}, guard : Nat, bound : [1..2 -> Nat],
                    held : BOOLEAN, gone : BOOLEAN]

SqlTypes ==
  /\ conn \in [Conns -> {"unused", "open", "zombie", "closed"}]
  /\ handler \in [Conns -> Handles \cup {"none"}]
  /\ handles \in [Handles -> HandleRecord]
  /\ stmts \in [Stmts -> StatementRecord]
  /\ msg \in [1..MaxSqlCalls -> [call : Nat, cancelled : BOOLEAN]]
  /\ frames \in Seq(Frame) /\ Len(frames) <= 2
  /\ sqlCalls \in 0..MaxSqlCalls /\ now \in Nat
  /\ gaveUp \in [met : Int, at : Int, budget : Int]

\* The connection a handle is of.
HomeOf(h) == IF h \in Own THEN h ELSE "store"

HandleOK(h) ==
  /\ handles[h].made \/ (~handles[h].held /\ ~handles[h].gone /\ handles[h].db = "null")
  /\ handles[h].db \in {"null", HomeOf(h)}
  /\ handles[h].made => (handles[h].borrowed <=> h \in Borrowed)
  /\ handles[h].gone => handles[h].db = "null"
  /\ h \in Own => conn[h] = IF ~handles[h].made THEN "unused"
                            ELSE IF handles[h].db = "null" THEN "closed" ELSE "open"

StatementOK(s) ==
  /\ stmts[s].made => /\ stmts[s].owner \in Handles /\ stmts[s].db = HomeOf(stmts[s].owner)
                      /\ handles[stmts[s].owner].made
  /\ ~stmts[s].made => ~stmts[s].live /\ ~stmts[s].held /\ stmts[s].owner = "null"
  /\ stmts[s].live => /\ conn[stmts[s].db] = "open" /\ ~stmts[s].gone
                      /\ ~handles[stmts[s].owner].gone

HandlerOK(c) ==
  handler[c] # "none" => c \in Own /\ handler[c] = c /\ handles[c].made /\ handles[c].busy >= 0

Lives ==
  /\ conn["store"] = "open"
  /\ \A h \in Handles : HandleOK(h)
  /\ \A s \in Stmts : StatementOK(s)
  /\ \A c \in Conns : HandlerOK(c)

\* A frame, wherever it is.
CallOK(f) ==
  /\ f.n \in 1..sqlCalls
  /\ f.op \in {"exec", "prepare"} => f.h \in Handles /\ handles[f.h].made
  /\ f.op = "exec" => f.s = "none"
  /\ f.op # "exec" => f.s \in Stmts
  /\ f.op = "step" => stmts[f.s].made
  /\ f.op \in {"list", "values"} => f.stage \in {"guarded", "binding", "telling"}
  /\ f.stage = "made" => f.op = "prepare"
  /\ f.stage = "binding" => f.op \in {"list", "values"}
  /\ f.stage \in {"guarded", "made", "binding"} => f.met < 0
  /\ f.interrupted => f.stage \in {"busy", "telling"}
  /\ f.result => f.guard \in 1..sqlCalls
  /\ ~f.result => f.guard = 0 /\ f.stage # "telling"

\* A frame in SQLite's own call, which nothing interrupts.
InSqlite(f) ==
  f.stage \in {"sqlite", "busy"} =>
    /\ f.op \in {"exec", "prepare"} => handles[f.h].db # "null"
    /\ f.op = "prepare" => stmts[f.s].made /\ stmts[f.s].owner = f.h /\ ~stmts[f.s].gone
    /\ f.op = "step" => stmts[f.s].live
    /\ LET c == ConnOf(f)
       IN  /\ f.stage = "busy" => handler[c] # "none"
           /\ handler[c] # "none" =>
                /\ handles[c].cancelled = f.interrupted
                /\ f.stage = "sqlite" /\ f.met < 0 => handles[c].deadline < 0
                /\ f.stage = "sqlite" /\ f.met >= 0 =>
                     handles[c].deadline = f.met + handles[c].busy /\ now <= handles[c].deadline

UnderWay ==
  /\ \A i \in 1..Len(frames) : CallOK(frames[i]) /\ InSqlite(frames[i])
  /\ Len(frames) = 2 => frames[1].stage \in Allocating

\* Who holds a guard: a call, or between calls a statement, and no two.
GuardsApart ==
  /\ \A s \in Stmts : stmts[s].guard \in 0..sqlCalls
  /\ \A s, t \in Stmts : s # t /\ stmts[s].guard = stmts[t].guard => stmts[s].guard = 0
  /\ \A i \in 1..Len(frames), s \in Stmts :
       frames[i].guard = stmts[s].guard /\ frames[i].guard # 0 =>
         frames[i].op = "step" /\ frames[i].s = s /\ frames[i].stage \in {"sqlite", "busy"}
  /\ \A i, j \in 1..Len(frames) : i # j /\ frames[i].guard = frames[j].guard => frames[i].guard = 0

SqlInv == SqlTypes /\ Lives /\ UnderWay /\ GuardsApart /\ OutcomeItsOwn

-----------------------------------------------------------------------------
(* A stack that is not empty, and what is left of it without its top.      *)
LEMMA Stacked ==
  ASSUME NEW S, NEW q \in Seq(S), q # << >>
  PROVE  Len(q) \in Nat /\ Len(q) >= 1 /\ q[Len(q)] \in S
<1>1. Len(q) \in Nat /\ Len(q) # 0
  BY EmptySeq
<1>2. Len(q) >= 1 /\ Len(q) \in 1..Len(q)
  BY <1>1
<1> QED
  BY <1>1, <1>2

LEMMA Unstacked ==
  ASSUME NEW S, NEW q \in Seq(S), q # << >>
  PROVE  /\ SubSeq(q, 1, Len(q) - 1) \in Seq(S) /\ Len(SubSeq(q, 1, Len(q) - 1)) = Len(q) - 1
         /\ \A i \in 1..(Len(q) - 1) : SubSeq(q, 1, Len(q) - 1)[i] = q[i]
<1> DEFINE k == Len(q) - 1
           r == SubSeq(q, 1, k)
<1>1. k \in Nat /\ \A i \in 1..k : q[i] \in S
  BY Stacked
<1> HIDE DEF k
<1>2. /\ r \in Seq(S) /\ Len(r) = IF 1 <= k THEN k - 1 + 1 ELSE 0
      /\ \A i \in 1..(k - 1 + 1) : r[i] = q[1 + i - 1]
  BY <1>1, SubSeqProperties
<1> HIDE DEF r
<1>3. Len(r) = k /\ \A i \in 1..k : r[i] = q[i]
  BY <1>1, <1>2
<1> QED
  BY <1>2, <1>3 DEF r, k

LEMMA OneOrTwo ==
  ASSUME NEW q, Len(q) \in Nat, Len(q) >= 1, Len(q) <= 2
  PROVE  Len(q) \in 1..2
<1> DEFINE n == Len(q)
<1>1. n \in Nat /\ n >= 1 /\ n <= 2
  OBVIOUS
<1> HIDE DEF n
<1>2. n \in 1..2
  BY <1>1
<1> QED
  BY <1>2 DEF n

(* The calls under way, as one begins, ends or goes on.  The calls below   *)
(* the top one are allocating.                                             *)
LEMMA Pushed ==
  ASSUME SqlTypes, MayCall, NEW f \in Frame, frames' = Append(frames, f)
  PROVE  /\ frames' \in Seq(Frame) /\ Len(frames) \in Nat /\ Len(frames') \in 1..2
         /\ Len(frames') = Len(frames) + 1 /\ frames'[Len(frames')] = f
         /\ \A i \in 1..Len(frames) : frames'[i] = frames[i] /\ frames[i].stage \in Allocating
         /\ sqlCalls < MaxSqlCalls
BY DEF SqlTypes, MayCall, TopFrame

LEMMA Popped ==
  ASSUME SqlTypes, UnderWay, frames # << >>, frames' = Pop
  PROVE  /\ frames' \in Seq(Frame) /\ Len(frames) \in 1..2 /\ Len(frames') = Len(frames) - 1
         /\ TopFrame \in Frame /\ TopFrame = frames[Len(frames)]
         /\ \A i \in 1..Len(frames') : /\ i \in 1..Len(frames) /\ i # Len(frames)
                                       /\ frames'[i] = frames[i] /\ frames[i].stage \in Allocating
<1>0. frames \in Seq(Frame) /\ Len(frames) <= 2 /\ (Len(frames) = 2 => frames[1].stage \in Allocating)
  BY DEF SqlTypes, UnderWay
<1>1. Len(frames) \in 1..2 /\ frames[Len(frames)] \in Frame
  <2>1. Len(frames) \in Nat /\ Len(frames) >= 1 /\ frames[Len(frames)] \in Frame
    BY <1>0, Stacked
  <2> QED
    BY <1>0, <2>1, OneOrTwo
<1>2. TopFrame \in Frame /\ TopFrame = frames[Len(frames)]
  BY <1>1 DEF TopFrame
<1>3. /\ frames' \in Seq(Frame) /\ Len(frames') = Len(frames) - 1
      /\ \A i \in 1..Len(frames') : frames'[i] = frames[i]
  BY <1>0, <1>1, Unstacked DEF Pop
<1> QED
  BY <1>0, <1>1, <1>2, <1>3

LEMMA Gone ==
  ASSUME SqlTypes, UnderWay, frames # << >>, NEW f \in Frame, frames' = [frames EXCEPT ![Len(frames)] = f]
  PROVE  /\ frames' \in Seq(Frame) /\ Len(frames) \in 1..2 /\ Len(frames') = Len(frames)
         /\ TopFrame \in Frame /\ TopFrame = frames[Len(frames)] /\ frames'[Len(frames)] = f
         /\ \A i \in 1..Len(frames') : i # Len(frames) => frames'[i] = frames[i] /\ frames[i].stage \in Allocating
<1>0. frames \in Seq(Frame) /\ Len(frames) <= 2 /\ (Len(frames) = 2 => frames[1].stage \in Allocating)
  BY DEF SqlTypes, UnderWay
<1>1. Len(frames) \in 1..2 /\ frames[Len(frames)] \in Frame
  <2>1. Len(frames) \in Nat /\ Len(frames) >= 1 /\ frames[Len(frames)] \in Frame
    BY <1>0, Stacked
  <2> QED
    BY <1>0, <2>1, OneOrTwo
<1>2. TopFrame \in Frame /\ TopFrame = frames[Len(frames)]
  BY <1>1 DEF TopFrame
<1>3. /\ frames' \in Seq(Frame) /\ Len(frames') = Len(frames) /\ frames'[Len(frames)] = f
      /\ \A i \in 1..Len(frames') : i # Len(frames) => frames'[i] = frames[i]
  BY <1>0, <1>1
<1> QED
  BY <1>0, <1>1, <1>2, <1>3

LEMMA TopIs ==
  ASSUME SqlTypes, UnderWay, frames # << >>
  PROVE  /\ Len(frames) \in 1..2 /\ TopFrame = frames[Len(frames)] /\ TopFrame \in Frame
         /\ CallOK(TopFrame) /\ InSqlite(TopFrame)
<1>1. Len(frames) \in 1..2 /\ TopFrame = frames[Len(frames)] /\ TopFrame \in Frame
  <2>1. Len(frames) \in Nat /\ Len(frames) >= 1 /\ frames[Len(frames)] \in Frame
    BY Stacked DEF SqlTypes
  <2> QED
    BY <2>1, OneOrTwo DEF SqlTypes, TopFrame
<1> QED
  BY <1>1 DEF UnderWay

(* With nothing in SQLite's own call every call under way is allocating.   *)
LEMMA AllAllocating ==
  ASSUME SqlTypes, MayCall \/ MayCollect
  PROVE  \A i \in 1..Len(frames) : frames[i].stage \in Allocating
BY DEF SqlTypes, MayCall, MayCollect, TopFrame

-----------------------------------------------------------------------------
(* What a step leaves of a handle and of a statement that only begins a    *)
(* wait, or only steps, binds and keeps a guard.                           *)
HandlesSteady ==
  /\ handles' \in [Handles -> HandleRecord]
  /\ \A k \in Handles : /\ handles'[k].made = handles[k].made /\ handles'[k].db = handles[k].db
                        /\ handles'[k].borrowed = handles[k].borrowed /\ handles'[k].busy = handles[k].busy
                        /\ handles'[k].held = handles[k].held /\ handles'[k].gone = handles[k].gone
StatementsSteady ==
  /\ stmts' \in [Stmts -> StatementRecord]
  /\ \A t \in Stmts : /\ stmts'[t].made = stmts[t].made /\ stmts'[t].live = stmts[t].live
                      /\ stmts'[t].db = stmts[t].db /\ stmts'[t].owner = stmts[t].owner
                      /\ stmts'[t].held = stmts[t].held /\ stmts'[t].gone = stmts[t].gone

LEMMA WaitOf ==
  ASSUME NEW r \in HandleRecord, NEW d \in Int, NEW c \in BOOLEAN
  PROVE  [r EXCEPT !.deadline = d, !.cancelled = c] \in HandleRecord
<1>1. [r EXCEPT !.deadline = d] \in HandleRecord
  BY DEF HandleRecord
<1> DEFINE q == [r EXCEPT !.deadline = d]
<1> HIDE DEF q
<1>2. q \in HandleRecord => [q EXCEPT !.cancelled = c] \in HandleRecord
  BY DEF HandleRecord
<1> QED
  BY <1>1, <1>2 DEF q

LEMMA WaitBegun ==
  ASSUME SqlTypes, NEW h \in Handles, handles' = [handles EXCEPT ![h] = begin_wait(h)]
  PROVE  /\ HandlesSteady
         /\ \A k \in Handles : k # h => handles'[k] = handles[k]
         /\ handles'[h].busy >= 0 => handles'[h].deadline < 0 /\ handles'[h].cancelled = FALSE
<1>1. handles[h] \in HandleRecord /\ handles \in [Handles -> HandleRecord]
  BY DEF SqlTypes
<1>2. begin_wait(h) \in HandleRecord
  <2>1. -1 \in Int /\ FALSE \in BOOLEAN
    OBVIOUS
  <2> QED
    BY <1>1, <2>1, WaitOf DEF begin_wait
<1>3. /\ begin_wait(h).made = handles[h].made /\ begin_wait(h).db = handles[h].db
      /\ begin_wait(h).borrowed = handles[h].borrowed /\ begin_wait(h).busy = handles[h].busy
      /\ begin_wait(h).held = handles[h].held /\ begin_wait(h).gone = handles[h].gone
  BY <1>1 DEF begin_wait, HandleRecord
<1>4. begin_wait(h).busy >= 0 => begin_wait(h).deadline < 0 /\ begin_wait(h).cancelled = FALSE
  <2>1. handles[h].busy \in Int
    BY <1>1 DEF HandleRecord
  <2>2. CASE handles[h].busy < 0
    BY <1>3, <2>1, <2>2
  <2>3. CASE ~(handles[h].busy < 0)
    <3>1. begin_wait(h).deadline = -1 /\ begin_wait(h).cancelled = FALSE
      BY <1>1, <2>3 DEF begin_wait, HandleRecord
    <3> QED
      BY <3>1
  <2> QED
    BY <2>2, <2>3
<1> QED
  BY <1>1, <1>2, <1>3, <1>4 DEF HandlesSteady

(* A call's frame.                                                         *)
FrameOf(n, op, h, s, result, stage, guard, values, at) ==
  [n |-> n, op |-> op, h |-> h, s |-> s, result |-> result, stage |-> stage, guard |-> guard,
   values |-> values, at |-> at, met |-> -1, interrupted |-> FALSE]

LEMMA NewFrame ==
  ASSUME NEW n \in Nat, NEW op \in CallKinds, NEW h \in Handles \cup {"none"}, NEW s \in Stmts \cup {"none"},
         NEW result \in BOOLEAN, NEW stage \in FrameStages, NEW guard \in Nat,
         NEW values \in ValueLists, NEW at \in 0..2
  PROVE  FrameOf(n, op, h, s, result, stage, guard, values, at) \in Frame
BY DEF Frame, FrameOf

LEMMA CountUp ==
  ASSUME SqlTypes
  PROVE  sqlCalls + 1 \in Nat
BY DEF SqlTypes

LEMMA FrameNames ==
  /\ \A op \in {"exec", "prepare", "step", "list", "values"} : op \in CallKinds
  /\ \A st \in {"guarded", "made", "binding", "telling", "sqlite", "busy"} : st \in FrameStages
  /\ \A h \in Handles : h \in Handles \cup {"none"}
  /\ \A s \in Stmts : s \in Stmts \cup {"none"}
  /\ "none" \in Handles \cup {"none"} /\ "none" \in Stmts \cup {"none"}
  /\ 0 \in 0..2 /\ 1 \in 0..2 /\ 0 \in Nat
BY DEF CallKinds, FrameStages

LEMMA NoValues == << >> \in ValueLists
<1>1. << >> \in Seq(value_kind) /\ Len(<< >>) = 0
  BY EmptySeq
<1>2. << >> \in [1..Len(<< >>) -> value_kind]
  BY <1>1, LenProperties
<1>3. << >> \in [1..0 -> value_kind]
  BY <1>1, <1>2
<1>4. 0 \in 0..2
  OBVIOUS
<1> QED
  BY <1>3, <1>4 DEF ValueLists

LEMMA Restaged ==
  ASSUME NEW f \in Frame, NEW stage \in FrameStages
  PROVE  [f EXCEPT !.stage = stage] \in Frame
BY DEF Frame

-----------------------------------------------------------------------------
(* What a step does to the calls under way, by how it changes them.  What  *)
(* was made stays made, and calls are only counted up.                     *)
Grows ==
  /\ sqlCalls \in Nat /\ sqlCalls' \in Nat /\ sqlCalls <= sqlCalls'
  /\ \A k \in Handles : handles[k].made => handles'[k].made
  /\ \A t \in Stmts : stmts[t].made => stmts'[t].made
GuardsStay == \A t \in Stmts : stmts'[t].guard = stmts[t].guard

(* A step that leaves the calls under way alone, taken while each of them  *)
(* allocates.                                                              *)
LEMMA Aside ==
  ASSUME SqlInv, SqlTypes', Grows, GuardsStay, MayCall \/ MayCollect, UNCHANGED <<frames, msg, gaveUp>>
  PROVE  UnderWay' /\ GuardsApart' /\ OutcomeItsOwn'
<1>1. /\ frames \in Seq(Frame) /\ frames' = frames /\ msg' = msg /\ gaveUp' = gaveUp
      /\ UnderWay /\ GuardsApart /\ OutcomeItsOwn
  BY DEF SqlInv, SqlTypes
<1>2. \A i \in 1..Len(frames) : frames[i].stage \in Allocating
  BY AllAllocating DEF SqlInv
<1>3. ASSUME NEW i \in 1..Len(frames') PROVE CallOK(frames[i])' /\ InSqlite(frames[i])'
  <2>1. /\ i \in 1..Len(frames) /\ CallOK(frames[i]) /\ frames'[i] = frames[i]
        /\ frames[i].stage \notin {"sqlite", "busy"}
    BY <1>1, <1>2, <1>3 DEF UnderWay, Allocating
  <2>2. CallOK(frames[i])'
    BY <2>1 DEF CallOK, Grows
  <2>3. InSqlite(frames[i])'
    BY <2>1 DEF InSqlite
  <2> QED
    BY <2>2, <2>3
<1>4. UnderWay'
  BY <1>1, <1>3 DEF UnderWay
<1>5. GuardsApart'
  <2>1. \A s \in Stmts : stmts'[s].guard \in 0..sqlCalls'
    BY <1>1 DEF GuardsApart, GuardsStay, Grows
  <2> QED
    BY <1>1, <2>1 DEF GuardsApart, GuardsStay
<1>6. OutcomeItsOwn'
  BY <1>1 DEF OutcomeItsOwn, GuardsStay
<1> QED
  BY <1>4, <1>5, <1>6

(* A call begins: with no guard, one of its own, or the one its statement  *)
(* kept for it.                                                            *)
LEMMA Begins ==
  ASSUME SqlInv, SqlTypes', Grows, MayCall, sqlCalls' = sqlCalls + 1, UNCHANGED <<stmts, msg, gaveUp>>,
         NEW f \in Frame, frames' = Append(frames, f),
         CallOK(f)', InSqlite(f)', f.stage # "telling",
         f.guard \in {0, sqlCalls + 1}
           \/ (f.op = "step" /\ f.stage = "sqlite" /\ f.guard = stmts[f.s].guard)
  PROVE  UnderWay' /\ GuardsApart' /\ OutcomeItsOwn'
<1>1. /\ stmts' = stmts /\ msg' = msg /\ gaveUp' = gaveUp /\ sqlCalls \in Nat
      /\ UnderWay /\ GuardsApart /\ OutcomeItsOwn
  BY DEF SqlInv, SqlTypes
<1>2. /\ frames' \in Seq(Frame) /\ Len(frames) \in Nat /\ Len(frames') \in 1..2
      /\ Len(frames') = Len(frames) + 1 /\ frames'[Len(frames')] = f
      /\ \A i \in 1..Len(frames) : frames'[i] = frames[i] /\ frames[i].stage \in Allocating
  BY Pushed DEF SqlInv
<1>3. \A i \in 1..Len(frames') : i # Len(frames') =>
        i \in 1..Len(frames) /\ frames'[i] = frames[i] /\ frames[i].stage \in Allocating
  BY <1>2
<1>4. ASSUME NEW i \in 1..Len(frames') PROVE CallOK(frames[i])' /\ InSqlite(frames[i])'
  <2>1. CASE i = Len(frames')
    <3>0. frames'[i] = f /\ CallOK(f)' /\ InSqlite(f)'
      BY <1>2, <2>1
    <3>1. CallOK(frames[i])'
      BY ONLY <3>0, ZenonT(30) DEF CallOK
    <3>2. InSqlite(frames[i])'
      BY ONLY <3>0, ZenonT(30) DEF InSqlite, ConnOf
    <3> QED BY ONLY <3>1, <3>2
  <2>2. CASE i # Len(frames')
    <3>1. /\ i \in 1..Len(frames) /\ CallOK(frames[i]) /\ frames'[i] = frames[i]
          /\ frames[i].stage \notin {"sqlite", "busy"}
      BY <1>1, <1>3, <2>2 DEF UnderWay, Allocating
    <3>2. CallOK(frames[i])'
      BY <3>1 DEF CallOK, Grows
    <3>3. InSqlite(frames[i])'
      BY <3>1 DEF InSqlite
    <3> QED
      BY <3>2, <3>3
  <2> QED
    BY <2>1, <2>2, SMTT(30)
<1>5. Len(frames') = 2 => frames'[1].stage \in Allocating
  <2>1. 1 \in 1..Len(frames')
    BY <1>2
  <2> QED
    BY <1>3, <2>1
<1>6. UnderWay'
  BY <1>4, <1>5 DEF UnderWay
<1>7. \A s \in Stmts : stmts[s].guard \in 0..sqlCalls /\ stmts[s].guard # sqlCalls + 1
  BY <1>1 DEF GuardsApart
<1>8. \A i \in 1..Len(frames) : frames[i].guard \in 0..sqlCalls /\ frames[i].guard # sqlCalls + 1
  BY <1>1 DEF UnderWay, CallOK
<1>9. GuardsApart'
  <2>1. \A s \in Stmts : stmts'[s].guard \in 0..sqlCalls'
    BY <1>1, <1>7 DEF Grows
  <2>2. ASSUME NEW i \in 1..Len(frames'), NEW s \in Stmts, frames'[i].guard = stmts'[s].guard, frames'[i].guard # 0
        PROVE  frames'[i].op = "step" /\ frames'[i].s = s /\ frames'[i].stage \in {"sqlite", "busy"}
    <3>1. CASE i = Len(frames')
      <4>1. f.op = "step" /\ f.stage = "sqlite" /\ f.guard = stmts[f.s].guard
        BY <1>1, <1>2, <1>7, <2>2, <3>1
      <4>2. f.s \in Stmts
        BY <4>1 DEF CallOK
      <4>3. f.s = s
        BY <1>1, <1>2, <2>2, <3>1, <4>1, <4>2 DEF GuardsApart
      <4> QED
        BY <1>2, <3>1, <4>1, <4>3
    <3>2. CASE i # Len(frames')
      BY <1>1, <1>3, <2>2, <3>2 DEF GuardsApart
    <3> QED
      BY <3>1, <3>2
  <2>3. ASSUME NEW i \in 1..Len(frames), frames[i].guard = f.guard PROVE f.guard = 0
    <3>1. CASE f.guard \in {0, sqlCalls + 1}
      BY <1>8, <2>3, <3>1
    <3>2. CASE f.op = "step" /\ f.stage = "sqlite" /\ f.guard = stmts[f.s].guard
      <4>1. f.s \in Stmts
        BY <3>2 DEF CallOK
      <4>2. frames[i].stage \in Allocating
        BY <1>2
      <4> QED
        BY <1>1, <2>3, <3>2, <4>1, <4>2 DEF GuardsApart, Allocating
    <3> QED
      BY <3>1, <3>2
  <2>4. ASSUME NEW i \in 1..Len(frames'), NEW j \in 1..Len(frames'), i # j, frames'[i].guard = frames'[j].guard
        PROVE  frames'[i].guard = 0
    <3>1. CASE i = Len(frames')
      BY <1>2, <1>3, <2>3, <2>4, <3>1
    <3>2. CASE j = Len(frames')
      BY <1>2, <1>3, <2>3, <2>4, <3>2
    <3>3. CASE i # Len(frames') /\ j # Len(frames')
      BY <1>1, <1>3, <2>4, <3>3 DEF GuardsApart
    <3> QED
      BY <3>1, <3>2, <3>3
  <2> QED
    BY <1>1, <2>1, <2>2, <2>4 DEF GuardsApart
<1>10. OutcomeItsOwn'
  <2>1. \A i \in 1..Len(frames') : frames'[i].stage = "telling" =>
          msg'[frames'[i].guard] = [call |-> frames'[i].n, cancelled |-> frames'[i].interrupted]
    BY <1>1, <1>2, <1>3 DEF OutcomeItsOwn
  <2>2. ASSUME NEW g \in DOMAIN msg', msg'[g] # NoMessage
        PROVE  /\ \E i \in 1..Len(frames') : frames'[i].stage = "telling" /\ frames'[i].guard = g
               /\ \A s \in Stmts : stmts'[s].guard # g
    <3>1. /\ \E i \in 1..Len(frames) : frames[i].stage = "telling" /\ frames[i].guard = g
          /\ \A s \in Stmts : stmts[s].guard # g
      BY <1>1, <2>2 DEF OutcomeItsOwn
    <3>2. \A i \in 1..Len(frames) : i \in 1..Len(frames')
      BY <1>2
    <3> QED
      BY <1>1, <1>2, <3>1, <3>2
  <2> QED
    BY <1>1, <2>1, <2>2 DEF OutcomeItsOwn
<1> QED
  BY <1>6, <1>9, <1>10

(* A call that has nothing to tell is over.                                *)
LEMMA Ends ==
  ASSUME SqlInv, SqlTypes', Grows, GuardsStay, UNCHANGED <<msg, gaveUp>>,
         frames # << >>, TopFrame.stage # "telling", frames' = Pop
  PROVE  UnderWay' /\ GuardsApart' /\ OutcomeItsOwn'
<1>1. /\ msg' = msg /\ gaveUp' = gaveUp /\ UnderWay /\ GuardsApart /\ OutcomeItsOwn
  BY DEF SqlInv
<1>2. /\ frames' \in Seq(Frame) /\ Len(frames) \in 1..2 /\ Len(frames') = Len(frames) - 1
      /\ TopFrame = frames[Len(frames)]
      /\ \A i \in 1..Len(frames') : /\ i \in 1..Len(frames) /\ i # Len(frames)
                                    /\ frames'[i] = frames[i] /\ frames[i].stage \in Allocating
  BY Popped DEF SqlInv
<1>3. ASSUME NEW i \in 1..Len(frames') PROVE CallOK(frames[i])' /\ InSqlite(frames[i])'
  <2>1. /\ i \in 1..Len(frames) /\ CallOK(frames[i]) /\ frames'[i] = frames[i]
        /\ frames[i].stage \notin {"sqlite", "busy"}
    BY <1>1, <1>2, <1>3 DEF UnderWay, Allocating
  <2>2. CallOK(frames[i])'
    BY <2>1 DEF CallOK, Grows
  <2>3. InSqlite(frames[i])'
    BY <2>1 DEF InSqlite
  <2> QED
    BY <2>2, <2>3
<1>4. Len(frames') # 2
  BY <1>2
<1>5. UnderWay'
  BY <1>3, <1>4 DEF UnderWay
<1>6. GuardsApart'
  <2>1. \A s \in Stmts : stmts'[s].guard \in 0..sqlCalls'
    BY <1>1 DEF GuardsApart, GuardsStay, Grows
  <2>2. \A s, t \in Stmts : s # t /\ stmts'[s].guard = stmts'[t].guard => stmts'[s].guard = 0
    BY <1>1 DEF GuardsApart, GuardsStay
  <2>3. \A i \in 1..Len(frames'), s \in Stmts :
          frames'[i].guard = stmts'[s].guard /\ frames'[i].guard # 0 =>
            frames'[i].op = "step" /\ frames'[i].s = s /\ frames'[i].stage \in {"sqlite", "busy"}
    BY <1>1, <1>2 DEF GuardsApart, GuardsStay
  <2>4. \A i, j \in 1..Len(frames') : i # j /\ frames'[i].guard = frames'[j].guard => frames'[i].guard = 0
    BY <1>1, <1>2 DEF GuardsApart
  <2> QED
    BY <2>1, <2>2, <2>3, <2>4 DEF GuardsApart
<1>7. OutcomeItsOwn'
  <2>1. ASSUME NEW g \in DOMAIN msg', msg'[g] # NoMessage
        PROVE  /\ \E i \in 1..Len(frames') : frames'[i].stage = "telling" /\ frames'[i].guard = g
               /\ \A s \in Stmts : stmts'[s].guard # g
    <3>1. PICK i \in 1..Len(frames) : frames[i].stage = "telling" /\ frames[i].guard = g
      BY <1>1, <2>1 DEF OutcomeItsOwn
    <3>2. i # Len(frames)
      BY <1>2, <3>1
    <3>3. i \in 1..Len(frames')
      BY <1>2, <3>2
    <3>4. frames'[i].stage = "telling" /\ frames'[i].guard = g
      BY <1>2, <3>1, <3>3
    <3>5. \A s \in Stmts : stmts[s].guard # g
      BY <1>1, <2>1 DEF OutcomeItsOwn
    <3> QED
      BY <3>3, <3>4, <3>5 DEF GuardsStay
  <2> QED
    BY <1>1, <1>2, <2>1 DEF OutcomeItsOwn
<1> QED
  BY <1>5, <1>6, <1>7

(* A call goes on, with the guard it has, and nothing to tell yet.         *)
LEMMA GoesOn ==
  ASSUME SqlInv, SqlTypes', Grows, UNCHANGED <<msg, sqlCalls>>, frames # << >>,
         NEW f \in Frame, frames' = [frames EXCEPT ![Len(frames)] = f],
         TopFrame.stage # "telling", f.stage # "telling", f.guard = TopFrame.guard,
         CallOK(f)', InSqlite(f)',
         \A t \in Stmts : \/ stmts'[t].guard \in {stmts[t].guard, 0}
                          \/ t = f.s /\ stmts'[t].guard = f.guard /\ f.guard # 0
                             /\ TopFrame.stage = "guarded" /\ f.op = "step" /\ f.stage = "sqlite",
         \A t \in Stmts : stmts[t].guard = f.guard /\ f.guard # 0 =>
             f.op = "step" /\ f.s = t /\ f.stage \in {"sqlite", "busy"},
         gaveUp'.at - gaveUp'.met = gaveUp'.budget
  PROVE  UnderWay' /\ GuardsApart' /\ OutcomeItsOwn'
<1>1. /\ msg' = msg /\ sqlCalls' = sqlCalls /\ UnderWay /\ GuardsApart /\ OutcomeItsOwn
  BY DEF SqlInv
<1>2. /\ frames' \in Seq(Frame) /\ Len(frames) \in 1..2 /\ Len(frames') = Len(frames)
      /\ TopFrame \in Frame /\ TopFrame = frames[Len(frames)] /\ frames'[Len(frames)] = f
      /\ \A i \in 1..Len(frames') : i # Len(frames) => frames'[i] = frames[i] /\ frames[i].stage \in Allocating
  BY Gone DEF SqlInv
<1>3. ASSUME NEW i \in 1..Len(frames') PROVE CallOK(frames[i])' /\ InSqlite(frames[i])'
  <2>1. CASE i = Len(frames)
    BY <1>2, <2>1 DEF CallOK, InSqlite, ConnOf
  <2>2. CASE i # Len(frames)
    <3>1. /\ i \in 1..Len(frames) /\ CallOK(frames[i]) /\ frames'[i] = frames[i]
          /\ frames[i].stage \notin {"sqlite", "busy"}
      BY <1>1, <1>2, <2>2 DEF UnderWay, Allocating
    <3>2. CallOK(frames[i])'
      BY <3>1 DEF CallOK, Grows
    <3>3. InSqlite(frames[i])'
      BY <3>1 DEF InSqlite
    <3> QED
      BY <3>2, <3>3
  <2> QED
    BY <2>1, <2>2
<1>4. Len(frames') = 2 => frames'[1].stage \in Allocating
  <2>1. 1 \in 1..Len(frames')
    BY <1>2
  <2> QED
    BY <1>2, <2>1
<1>5. UnderWay'
  BY <1>3, <1>4 DEF UnderWay
<1>6. \A i \in 1..Len(frames') : i \in 1..Len(frames) /\ frames'[i].guard = frames[i].guard
  BY <1>2
<1>7. Len(frames) \in 1..Len(frames)
  BY <1>2
<1>8. f.guard \in 0..sqlCalls
  <2>1. f.result \in BOOLEAN /\ sqlCalls \in Nat
    BY DEF Frame, SqlInv, SqlTypes
  <2> QED
    BY <1>1, <2>1 DEF CallOK
<1>9. GuardsApart'
  <2>0. 0 \in 0..sqlCalls
    BY DEF SqlInv, SqlTypes
  <2>1. \A s \in Stmts : stmts'[s].guard \in 0..sqlCalls'
    BY <1>1, <1>8, <2>0 DEF GuardsApart
  <2>2. ASSUME NEW s \in Stmts, NEW t \in Stmts, s # t, stmts'[s].guard = stmts'[t].guard
        PROVE  stmts'[s].guard = 0
    <3>1. CASE stmts'[s].guard \in {stmts[s].guard, 0} /\ stmts'[t].guard \in {stmts[t].guard, 0}
      BY <1>1, <2>2, <3>1 DEF GuardsApart
    <3>2. CASE /\ s = f.s /\ stmts'[s].guard = f.guard /\ f.guard # 0
               /\ stmts'[t].guard \in {stmts[t].guard, 0}
      BY <2>2, <3>2
    <3>3. CASE /\ t = f.s /\ stmts'[t].guard = f.guard /\ f.guard # 0
               /\ stmts'[s].guard \in {stmts[s].guard, 0}
      BY <2>2, <3>3
    <3> QED
      BY <2>2, <3>1, <3>2, <3>3
  <2>3. ASSUME NEW i \in 1..Len(frames'), NEW s \in Stmts, frames'[i].guard = stmts'[s].guard, frames'[i].guard # 0
        PROVE  frames'[i].op = "step" /\ frames'[i].s = s /\ frames'[i].stage \in {"sqlite", "busy"}
    <3>1. CASE i = Len(frames)
      BY <1>2, <2>3, <3>1
    <3>2. CASE i # Len(frames)
      <4>1. frames[i].guard # f.guard
        BY <1>1, <1>2, <1>6, <1>7, <2>3, <3>2 DEF GuardsApart
      <4>2. stmts'[s].guard = stmts[s].guard
        BY <1>6, <2>3, <4>1
      <4> QED
        BY <1>1, <1>2, <1>6, <2>3, <3>2, <4>2 DEF GuardsApart
    <3> QED
      BY <3>1, <3>2
  <2>4. \A i, j \in 1..Len(frames') : i # j /\ frames'[i].guard = frames'[j].guard => frames'[i].guard = 0
    BY <1>1, <1>6 DEF GuardsApart
  <2> QED
    BY <2>1, <2>2, <2>3, <2>4 DEF GuardsApart
<1>10. OutcomeItsOwn'
  <2>1. \A i \in 1..Len(frames') : frames'[i].stage = "telling" =>
          msg'[frames'[i].guard] = [call |-> frames'[i].n, cancelled |-> frames'[i].interrupted]
    BY <1>1, <1>2 DEF OutcomeItsOwn
  <2>2. ASSUME NEW g \in DOMAIN msg', msg'[g] # NoMessage
        PROVE  /\ \E i \in 1..Len(frames') : frames'[i].stage = "telling" /\ frames'[i].guard = g
               /\ \A s \in Stmts : stmts'[s].guard # g
    <3>1. PICK i \in 1..Len(frames) : frames[i].stage = "telling" /\ frames[i].guard = g
      BY <1>1, <2>2 DEF OutcomeItsOwn
    <3>2. i # Len(frames) /\ i \in 1..Len(frames')
      BY <1>2, <3>1
    <3>3. frames'[i].stage = "telling" /\ frames'[i].guard = g
      BY <1>2, <3>1, <3>2
    <3>4. \A s \in Stmts : stmts[s].guard # g
      BY <1>1, <2>2 DEF OutcomeItsOwn
    <3>5. f.guard # 0 => g # f.guard
      BY <1>1, <1>2, <1>7, <3>1, <3>2 DEF GuardsApart
    <3>6. g # 0
      BY <2>2 DEF SqlTypes
    <3> QED
      BY <3>2, <3>3, <3>4, <3>5, <3>6
  <2> QED
    BY <1>1, <2>1, <2>2 DEF OutcomeItsOwn
<1> QED
  BY <1>5, <1>9, <1>10

(* A call's answer is captured in its guard, which no statement keeps.     *)
LEMMA Tells ==
  ASSUME SqlInv, SqlTypes', Grows, UNCHANGED <<sqlCalls, gaveUp>>, frames # << >>,
         frames' = [frames EXCEPT ![Len(frames)] = [TopFrame EXCEPT !.stage = "telling"]],
         msg' = [msg EXCEPT ![TopFrame.guard] = capture(TopFrame, TopFrame.interrupted)],
         TopFrame.stage # "telling", TopFrame.result,
         \A t \in Stmts : stmts'[t].guard = stmts[t].guard \/ stmts'[t].guard = 0,
         \A t \in Stmts : stmts'[t].guard # TopFrame.guard
  PROVE  UnderWay' /\ GuardsApart' /\ OutcomeItsOwn'
<1> DEFINE f == [TopFrame EXCEPT !.stage = "telling"]
<1>1. /\ sqlCalls' = sqlCalls /\ gaveUp' = gaveUp /\ UnderWay /\ GuardsApart /\ OutcomeItsOwn
      /\ sqlCalls \in 0..MaxSqlCalls /\ MaxSqlCalls \in Nat
      /\ msg \in [1..MaxSqlCalls -> [call : Nat, cancelled : BOOLEAN]]
  BY SqliteAssumption DEF SqlInv, SqlTypes
<1>2. TopFrame \in Frame /\ CallOK(TopFrame) /\ InSqlite(TopFrame)
  BY TopIs DEF SqlInv
<1>3. /\ f \in Frame /\ f.stage = "telling" /\ f.n = TopFrame.n /\ f.op = TopFrame.op /\ f.h = TopFrame.h
      /\ f.s = TopFrame.s /\ f.result = TopFrame.result /\ f.guard = TopFrame.guard
      /\ f.interrupted = TopFrame.interrupted
  BY <1>2 DEF Frame, FrameStages
<1>4. /\ frames' \in Seq(Frame) /\ Len(frames) \in 1..2 /\ Len(frames') = Len(frames)
      /\ TopFrame = frames[Len(frames)] /\ frames'[Len(frames)] = f
      /\ \A i \in 1..Len(frames') : i # Len(frames) => frames'[i] = frames[i] /\ frames[i].stage \in Allocating
  <2>1. frames' = [frames EXCEPT ![Len(frames)] = f]
    OBVIOUS
  <2> HIDE DEF f
  <2> QED
    BY <1>3, <2>1, Gone DEF SqlInv
<1> HIDE DEF f
<1>5. CallOK(f) /\ f.guard \in 1..sqlCalls
  BY <1>2, <1>3 DEF CallOK
<1>6. ASSUME NEW i \in 1..Len(frames') PROVE CallOK(frames[i])' /\ InSqlite(frames[i])'
  <2>1. /\ CallOK(frames'[i]) /\ frames'[i].stage \notin {"sqlite", "busy"}
    <3>1. CASE i = Len(frames)
      BY <1>3, <1>4, <1>5, <3>1
    <3>2. CASE i # Len(frames)
      BY <1>1, <1>4, <3>2 DEF UnderWay, Allocating
    <3> QED
      BY <3>1, <3>2
  <2>2. CallOK(frames[i])'
    BY <2>1 DEF CallOK, Grows
  <2>3. InSqlite(frames[i])'
    BY <2>1 DEF InSqlite
  <2> QED
    BY <2>2, <2>3
<1>7. Len(frames') = 2 => frames'[1].stage \in Allocating
  <2>1. 1 \in 1..Len(frames')
    BY <1>4
  <2> QED
    BY <1>4, <2>1
<1>8. UnderWay'
  BY <1>6, <1>7 DEF UnderWay
<1>9. \A i \in 1..Len(frames') : i \in 1..Len(frames) /\ frames'[i].guard = frames[i].guard
  BY <1>3, <1>4
<1>10. Len(frames) \in 1..Len(frames)
  BY <1>4
<1>11. GuardsApart'
  <2>1. \A s \in Stmts : stmts'[s].guard \in 0..sqlCalls'
    BY <1>1 DEF GuardsApart
  <2>2. \A s, t \in Stmts : s # t /\ stmts'[s].guard = stmts'[t].guard => stmts'[s].guard = 0
    BY <1>1 DEF GuardsApart
  <2>3. ASSUME NEW i \in 1..Len(frames'), NEW s \in Stmts, frames'[i].guard = stmts'[s].guard, frames'[i].guard # 0
        PROVE  frames'[i].op = "step" /\ frames'[i].s = s /\ frames'[i].stage \in {"sqlite", "busy"}
    <3>1. i # Len(frames)
      BY <1>3, <1>4, <2>3
    <3>2. stmts'[s].guard = stmts[s].guard
      BY <2>3
    <3> QED
      BY <1>1, <1>4, <1>9, <2>3, <3>1, <3>2 DEF GuardsApart
  <2>4. \A i, j \in 1..Len(frames') : i # j /\ frames'[i].guard = frames'[j].guard => frames'[i].guard = 0
    BY <1>1, <1>9 DEF GuardsApart
  <2> QED
    BY <2>1, <2>2, <2>3, <2>4 DEF GuardsApart
<1>12. /\ DOMAIN msg' = DOMAIN msg /\ msg'[f.guard] = [call |-> f.n, cancelled |-> f.interrupted]
       /\ \A g \in DOMAIN msg : g # f.guard => msg'[g] = msg[g]
  <2>1. f.guard \in 1..MaxSqlCalls
    BY <1>1, <1>5
  <2> QED
    BY <1>1, <1>3, <2>1 DEF capture
<1>13. OutcomeItsOwn'
  <2>1. ASSUME NEW i \in 1..Len(frames'), frames'[i].stage = "telling"
        PROVE  msg'[frames'[i].guard] = [call |-> frames'[i].n, cancelled |-> frames'[i].interrupted]
    <3>1. CASE i = Len(frames)
      BY <1>4, <1>12, <3>1
    <3>2. CASE i # Len(frames)
      <4>1. frames'[i] = frames[i] /\ i \in 1..Len(frames)
        BY <1>4, <1>9, <3>2
      <4>2. frames[i].guard # f.guard
        BY <1>1, <1>3, <1>4, <1>5, <1>10, <3>2, <4>1, SMTT(30) DEF GuardsApart
      <4>3. frames[i].guard \in DOMAIN msg
        <5>1. frames[i] \in Frame /\ CallOK(frames[i])
          BY <1>1, <4>1 DEF UnderWay, SqlInv, SqlTypes
        <5>2. frames[i].guard \in 1..sqlCalls
          BY <2>1, <4>1, <5>1 DEF CallOK, Frame
        <5> QED
          BY <1>1, <5>2
      <4>4. msg[frames[i].guard] = [call |-> frames[i].n, cancelled |-> frames[i].interrupted]
        BY <1>1, <2>1, <4>1, ZenonT(30) DEF OutcomeItsOwn
      <4>5. msg'[frames[i].guard] = msg[frames[i].guard]
        BY <1>12, <4>2, <4>3
      <4> QED
        BY <4>1, <4>4, <4>5
    <3> QED
      BY <3>1, <3>2
  <2>2. ASSUME NEW g \in DOMAIN msg', msg'[g] # NoMessage
        PROVE  /\ \E i \in 1..Len(frames') : frames'[i].stage = "telling" /\ frames'[i].guard = g
               /\ \A s \in Stmts : stmts'[s].guard # g
    <3>1. CASE g = f.guard
      <4>1. Len(frames) \in 1..Len(frames') /\ frames'[Len(frames)].stage = "telling" /\ frames'[Len(frames)].guard = g
        BY <1>3, <1>4, <3>1
      <4> QED
        BY <1>3, <3>1, <4>1
    <3>2. CASE g # f.guard
      <4>1. g \in DOMAIN msg /\ msg[g] # NoMessage /\ g # 0
        BY <1>1, <1>12, <2>2, <3>2
      <4>2. PICK i \in 1..Len(frames) : frames[i].stage = "telling" /\ frames[i].guard = g
        BY <1>1, <4>1 DEF OutcomeItsOwn
      <4>3. i # Len(frames) /\ i \in 1..Len(frames')
        BY <1>4, <4>2
      <4>4. frames'[i].stage = "telling" /\ frames'[i].guard = g
        BY <1>4, <4>2, <4>3
      <4>5. \A s \in Stmts : stmts[s].guard # g
        BY <1>1, <4>1 DEF OutcomeItsOwn
      <4> QED
        BY <4>1, <4>3, <4>4, <4>5
    <3> QED
      BY <3>1, <3>2
  <2> QED
    BY <1>1, <2>1, <2>2 DEF OutcomeItsOwn
<1> QED
  BY <1>8, <1>11, <1>13

(* A call's record is made, and its guard closed.                          *)
LEMMA Told ==
  ASSUME SqlInv, push_outcome
  PROVE  SqlInv'
<1>1. /\ UNCHANGED <<conn, handler, handles, stmts, sqlCalls, now, gaveUp>>
      /\ frames # << >> /\ frames' = Pop /\ TopFrame.stage = "telling"
      /\ msg' = [msg EXCEPT ![TopFrame.guard] = NoMessage]
      /\ SqlTypes /\ Lives /\ UnderWay /\ GuardsApart /\ OutcomeItsOwn
      /\ sqlCalls \in 0..MaxSqlCalls /\ MaxSqlCalls \in Nat
      /\ msg \in [1..MaxSqlCalls -> [call : Nat, cancelled : BOOLEAN]]
  BY SqliteAssumption DEF SqlInv, push_outcome, AtStage, SqlTypes
<1>2. /\ frames' \in Seq(Frame) /\ Len(frames) \in 1..2 /\ Len(frames') = Len(frames) - 1
      /\ TopFrame = frames[Len(frames)]
      /\ \A i \in 1..Len(frames') : /\ i \in 1..Len(frames) /\ i # Len(frames)
                                    /\ frames'[i] = frames[i] /\ frames[i].stage \in Allocating
  BY <1>1, Popped
<1>3. TopFrame \in Frame /\ CallOK(TopFrame)
  BY <1>1, TopIs
<1>4. TopFrame.guard \in 1..sqlCalls /\ TopFrame.guard \in 1..MaxSqlCalls
  BY <1>1, <1>3 DEF CallOK, Frame
<1>5. SqlTypes'
  <2>1. NoMessage \in [call : Nat, cancelled : BOOLEAN]
    BY DEF NoMessage
  <2>2. msg' \in [1..MaxSqlCalls -> [call : Nat, cancelled : BOOLEAN]]
    BY <1>1, <2>1
  <2>3. Len(frames') <= 2
    BY <1>2
  <2> QED
    BY <1>1, <1>2, <2>2, <2>3 DEF SqlTypes
<1>6. Lives'
  BY <1>1 DEF Lives, HandleOK, StatementOK, HandlerOK
<1>7. UnderWay'
  <2>1. ASSUME NEW i \in 1..Len(frames') PROVE CallOK(frames[i])' /\ InSqlite(frames[i])'
    <3>1. /\ i \in 1..Len(frames) /\ CallOK(frames[i]) /\ frames'[i] = frames[i]
          /\ frames[i].stage \notin {"sqlite", "busy"}
      BY <1>1, <1>2, <2>1 DEF UnderWay, Allocating
    <3>2. CallOK(frames[i])'
      BY <1>1, <3>1 DEF CallOK
    <3>3. InSqlite(frames[i])'
      BY <3>1 DEF InSqlite
    <3> QED
      BY <3>2, <3>3
  <2>2. Len(frames') # 2
    BY <1>2
  <2> QED
    BY <2>1, <2>2 DEF UnderWay
<1>8. GuardsApart'
  <2>1. stmts' = stmts /\ sqlCalls' = sqlCalls /\ GuardsApart
    BY <1>1
  <2>2. \A i \in 1..Len(frames') : i \in 1..Len(frames) /\ frames'[i] = frames[i]
    BY <1>2
  <2>3. ASSUME NEW i \in 1..Len(frames'), NEW s \in Stmts, frames'[i].guard = stmts'[s].guard, frames'[i].guard # 0
        PROVE  frames'[i].op = "step" /\ frames'[i].s = s /\ frames'[i].stage \in {"sqlite", "busy"}
    BY <2>1, <2>2, <2>3 DEF GuardsApart
  <2>4. \A i, j \in 1..Len(frames') : i # j /\ frames'[i].guard = frames'[j].guard => frames'[i].guard = 0
    BY <2>1, <2>2 DEF GuardsApart
  <2> QED
    BY <2>1, <2>3, <2>4 DEF GuardsApart
<1>9. /\ DOMAIN msg' = DOMAIN msg /\ msg'[TopFrame.guard] = NoMessage
      /\ \A g \in DOMAIN msg : g # TopFrame.guard => msg'[g] = msg[g]
  BY <1>1, <1>4
<1>10. OutcomeItsOwn'
  <2>1. ASSUME NEW i \in 1..Len(frames'), frames'[i].stage = "telling"
        PROVE  msg'[frames'[i].guard] = [call |-> frames'[i].n, cancelled |-> frames'[i].interrupted]
    <3>1. frames'[i] = frames[i] /\ i \in 1..Len(frames) /\ i # Len(frames) /\ Len(frames) \in 1..Len(frames)
      BY <1>2, <2>1, SMTT(30)
    <3>2. frames[i].guard # TopFrame.guard
      <4>1. GuardsApart /\ TopFrame.guard # 0
        BY <1>1, <1>4
      <4> QED
        BY <1>2, <3>1, <4>1 DEF GuardsApart
    <3>3. frames[i].guard \in DOMAIN msg
      <4>1. frames[i] \in Frame /\ CallOK(frames[i])
        BY <1>1, <3>1 DEF UnderWay, SqlTypes
      <4>2. frames[i].guard \in 1..sqlCalls
        BY <2>1, <3>1, <4>1 DEF CallOK, Frame
      <4> QED
        BY <1>1, <4>2
    <3>4. msg[frames[i].guard] = [call |-> frames[i].n, cancelled |-> frames[i].interrupted]
      BY <1>1, <2>1, <3>1 DEF OutcomeItsOwn
    <3>5. msg'[frames[i].guard] = msg[frames[i].guard]
      BY <1>9, <3>2, <3>3
    <3> QED
      BY <3>1, <3>4, <3>5
  <2>2. ASSUME NEW g \in DOMAIN msg', msg'[g] # NoMessage
        PROVE  /\ \E i \in 1..Len(frames') : frames'[i].stage = "telling" /\ frames'[i].guard = g
               /\ \A s \in Stmts : stmts'[s].guard # g
    <3>1. g # TopFrame.guard /\ g \in DOMAIN msg /\ msg[g] # NoMessage
      BY <1>9, <2>2
    <3>2. PICK i \in 1..Len(frames) : frames[i].stage = "telling" /\ frames[i].guard = g
      BY <1>1, <3>1 DEF OutcomeItsOwn
    <3>3. i # Len(frames)
      BY <1>2, <3>1, <3>2
    <3>4. i \in 1..Len(frames')
      BY <1>2, <3>3
    <3>5. frames'[i].stage = "telling" /\ frames'[i].guard = g
      BY <1>2, <3>2, <3>4
    <3>6. \A s \in Stmts : stmts'[s].guard # g
      BY <1>1, <3>1 DEF OutcomeItsOwn
    <3> QED
      BY <3>4, <3>5, <3>6
  <2> QED
    BY <1>1, <2>1, <2>2 DEF OutcomeItsOwn
<1> QED
  BY <1>5, <1>6, <1>7, <1>8, <1>10 DEF SqlInv

-----------------------------------------------------------------------------
(* Steps that begin a wait, step, bind or keep a guard end no lifetime.    *)
LEMMA LivesStay ==
  ASSUME SqlInv, HandlesSteady, StatementsSteady, UNCHANGED <<conn, handler>>
  PROVE  Lives'
<1>1. Lives /\ conn' = conn /\ handler' = handler /\ SqlTypes
  BY DEF SqlInv
<1>2. \A h \in Handles : HandleOK(h)'
  BY <1>1 DEF Lives, HandleOK, HandlesSteady, HomeOf
<1>3. \A s \in Stmts : StatementOK(s)'
  BY <1>1, SMTT(30) DEF Lives, StatementOK, HandlesSteady, StatementsSteady, HomeOf, SqlTypes, StatementRecord
<1>4. \A c \in Conns : HandlerOK(c)'
  BY <1>1 DEF Lives, HandlerOK, HandlesSteady, Handles
<1> QED
  BY <1>1, <1>2, <1>3, <1>4 DEF Lives

LEMMA Steady ==
  ASSUME SqlTypes, UNCHANGED handles
  PROVE  HandlesSteady
BY DEF SqlTypes, HandlesSteady

LEMMA SteadyStatements ==
  ASSUME SqlTypes, UNCHANGED stmts
  PROVE  StatementsSteady /\ GuardsStay
BY DEF SqlTypes, StatementsSteady, GuardsStay

LEMMA SteadyGrows ==
  ASSUME SqlTypes, HandlesSteady, StatementsSteady, sqlCalls' \in {sqlCalls, sqlCalls + 1}
  PROVE  Grows
BY DEF SqlTypes, HandlesSteady, StatementsSteady, Grows

-----------------------------------------------------------------------------
(* The calls that are over at once.                                        *)
ConnTable == [Conns -> {"unused", "open", "zombie", "closed"}]
HandlerTable == [Conns -> Handles \cup {"none"}]

LEMMA OverAtOnce ==
  ASSUME SqlInv, AtOnce, conn' \in ConnTable, handler' \in HandlerTable,
         handles' \in [Handles -> HandleRecord], stmts' \in [Stmts -> StatementRecord],
         \A k \in Handles : handles[k].made => handles'[k].made,
         \A t \in Stmts : stmts[t].made => stmts'[t].made,
         GuardsStay, Lives'
  PROVE  SqlInv'
<1>1. /\ MayCall /\ sqlCalls' = sqlCalls + 1 /\ UNCHANGED <<frames, now, gaveUp, msg>>
      /\ sqlCalls < MaxSqlCalls /\ SqlTypes
  BY DEF AtOnce, MayCall, SqlInv
<1>2. sqlCalls \in Nat /\ sqlCalls' \in 0..MaxSqlCalls
  BY <1>1, SqliteAssumption DEF SqlTypes
<1>3. SqlTypes'
  BY <1>1, <1>2 DEF SqlTypes, ConnTable, HandlerTable
<1>4. Grows
  BY <1>1, <1>2 DEF Grows
<1>5. UnderWay' /\ GuardsApart' /\ OutcomeItsOwn'
  BY <1>1, <1>3, <1>4, Aside
<1> QED
  BY <1>3, <1>5 DEF SqlInv

LEMMA Typed ==
  ASSUME SqlInv
  PROVE  /\ conn \in ConnTable /\ handler \in HandlerTable /\ handles \in [Handles -> HandleRecord]
         /\ stmts \in [Stmts -> StatementRecord]
BY DEF SqlInv, SqlTypes, ConnTable, HandlerTable

LEMMA FreshHandle ==
  /\ fresh_handle \in HandleRecord
  /\ fresh_handle.borrowed = FALSE /\ fresh_handle.gone = FALSE /\ fresh_handle.busy = -1
<1>1. -1 \in Int /\ FALSE \in BOOLEAN /\ "null" \in Conns \cup {"null"}
  OBVIOUS
<1>2. \A d \in Int : [made |-> FALSE, db |-> "null", borrowed |-> FALSE, busy |-> d, deadline |-> d,
                     cancelled |-> FALSE, held |-> FALSE, gone |-> FALSE] \in HandleRecord
  BY DEF HandleRecord
<1> QED
  BY <1>1, <1>2 DEF fresh_handle

LEMMA OpenDatabase ==
  ASSUME SqlInv, NEW h \in Own, NEW fails \in BOOLEAN, open_database(h, fails)
  PROVE  SqlInv'
<1> DEFINE r == [fresh_handle EXCEPT !.made = TRUE, !.held = ~fails, !.db = IF fails THEN "null" ELSE h]
<1>1. /\ r \in HandleRecord /\ r.made = TRUE /\ r.db = (IF fails THEN "null" ELSE h)
      /\ r.borrowed = FALSE /\ r.gone = FALSE
  <2>0. (~fails) \in BOOLEAN
    OBVIOUS
  <2>1. (IF fails THEN "null" ELSE h) \in Conns \cup {"null"}
    BY DEF Conns
  <2> DEFINE d == IF fails THEN "null" ELSE h
             held == ~fails
  <2>2. d \in Conns \cup {"null"} /\ held \in BOOLEAN /\ r = [fresh_handle EXCEPT !.made = TRUE, !.held = held, !.db = d]
    BY <2>0, <2>1
  <2> HIDE DEF d, held, r
  <2>3. r \in HandleRecord /\ r.made = TRUE /\ r.db = d /\ r.borrowed = FALSE /\ r.gone = FALSE
    BY <2>2, FreshHandle DEF HandleRecord
  <2> QED
    BY <2>3 DEF d
<1>2. /\ AtOnce /\ h \in Handles /\ h \in Conns /\ ~handles[h].made /\ handles' = [handles EXCEPT ![h] = r]
      /\ conn' = [conn EXCEPT ![h] = IF fails THEN "closed" ELSE "open"]
      /\ handler' = handler /\ stmts' = stmts
  BY DEF open_database, Handles, Conns
<1> HIDE DEF r
<1>3. /\ conn \in ConnTable /\ handler \in HandlerTable /\ handles \in [Handles -> HandleRecord]
      /\ stmts \in [Stmts -> StatementRecord]
  BY Typed
<1>4. /\ handles' \in [Handles -> HandleRecord] /\ conn' \in ConnTable
      /\ handles'[h] = r /\ \A k \in Handles : k # h => handles'[k] = handles[k]
      /\ conn'[h] = (IF fails THEN "closed" ELSE "open") /\ \A c \in Conns : c # h => conn'[c] = conn[c]
  BY <1>1, <1>2, <1>3 DEF ConnTable
<1>5. Lives'
  <2>1. Lives
    BY DEF SqlInv
  <2>2. conn'["store"] = "open"
    BY <1>4, <2>1, SqliteAssumption DEF Lives, Conns
  <2>3. ASSUME NEW k \in Handles PROVE HandleOK(k)'
    <3>1. CASE k = h
      BY <1>1, <1>4, <3>1, SqliteAssumption DEF HandleOK, HomeOf
    <3>2. CASE k # h
      BY <1>4, <2>1, <3>2 DEF HandleOK, HomeOf, Lives, Conns
    <3> QED
      BY <3>1, <3>2
  <2>4. ASSUME NEW t \in Stmts PROVE StatementOK(t)'
    <3>1. StatementOK(t)
      BY <2>1 DEF Lives
    <3>2. stmts[t].made => stmts[t].owner \in Handles /\ stmts[t].owner # h /\ stmts[t].db = HomeOf(stmts[t].owner)
      BY <1>2, <3>1 DEF StatementOK
    <3>3. stmts[t].made => stmts[t].db # h
      BY <3>2, SqliteAssumption DEF HomeOf
    <3>4. stmts[t].made => stmts[t].db \in Conns
      BY <3>2 DEF HomeOf, Conns
    <3> QED
      BY <1>2, <1>3, <1>4, <3>1, <3>2, <3>3, <3>4 DEF StatementOK, HomeOf, StatementRecord
  <2>5. ASSUME NEW c \in Conns PROVE HandlerOK(c)'
    BY <1>2, <1>4, <2>1 DEF Lives, HandlerOK, Handles
  <2> QED
    BY <2>2, <2>3, <2>4, <2>5 DEF Lives
<1> QED
  BY <1>1, <1>2, <1>3, <1>4, <1>5, OverAtOnce DEF GuardsStay

LEMMA PushBorrowed ==
  ASSUME SqlInv, NEW h \in Borrowed, cosmic_sqlite_push_borrowed(h)
  PROVE  SqlInv'
<1> DEFINE r == [fresh_handle EXCEPT !.made = TRUE, !.held = TRUE, !.db = "store", !.borrowed = TRUE]
<1>1. r \in HandleRecord /\ r.made = TRUE /\ r.db = "store" /\ r.borrowed = TRUE /\ r.gone = FALSE
  <2>1. "store" \in Conns \cup {"null"}
    BY DEF Conns
  <2> QED
    BY <2>1, FreshHandle DEF HandleRecord
<1>2. /\ AtOnce /\ h \in Handles /\ h \notin Own /\ ~handles[h].made /\ handles' = [handles EXCEPT ![h] = r]
      /\ conn' = conn /\ handler' = handler /\ stmts' = stmts
  BY SqliteAssumption DEF cosmic_sqlite_push_borrowed, Handles
<1> HIDE DEF r
<1>3. /\ conn \in ConnTable /\ handler \in HandlerTable /\ handles \in [Handles -> HandleRecord]
      /\ stmts \in [Stmts -> StatementRecord]
  BY Typed
<1>4. /\ handles' \in [Handles -> HandleRecord]
      /\ handles'[h] = r /\ \A k \in Handles : k # h => handles'[k] = handles[k]
  BY <1>1, <1>2, <1>3
<1>5. Lives'
  <2>1. Lives
    BY DEF SqlInv
  <2>2. ASSUME NEW k \in Handles PROVE HandleOK(k)'
    <3>1. CASE k = h
      BY <1>1, <1>2, <1>4, <3>1 DEF HandleOK, HomeOf
    <3>2. CASE k # h
      BY <1>2, <1>4, <2>1, <3>2 DEF HandleOK, HomeOf, Lives
    <3> QED
      BY <3>1, <3>2
  <2>3. ASSUME NEW t \in Stmts PROVE StatementOK(t)'
    <3>1. StatementOK(t)
      BY <2>1 DEF Lives
    <3>2. stmts[t].made => stmts[t].owner \in Handles /\ stmts[t].owner # h
      BY <1>2, <3>1 DEF StatementOK
    <3> QED
      BY <1>2, <1>3, <1>4, <3>1, <3>2 DEF StatementOK, HomeOf, StatementRecord
  <2>4. ASSUME NEW c \in Conns PROVE HandlerOK(c)'
    BY <1>2, <1>4, <2>1 DEF Lives, HandlerOK, Handles
  <2> QED
    BY <1>2, <2>1, <2>2, <2>3, <2>4 DEF Lives
<1> QED
  BY <1>1, <1>2, <1>3, <1>4, <1>5, OverAtOnce DEF GuardsStay

LEMMA BusyTimeout ==
  ASSUME SqlInv, NEW h \in Handles, NEW ms \in Budgets, handle_busy_timeout(h, ms)
  PROVE  SqlInv'
<1> DEFINE r == [handles[h] EXCEPT !.busy = ms, !.deadline = -1, !.cancelled = FALSE]
<1>1. /\ conn \in ConnTable /\ handler \in HandlerTable /\ handles \in [Handles -> HandleRecord]
      /\ stmts \in [Stmts -> StatementRecord] /\ ms \in Nat
  BY Typed, SqliteAssumption
<1>2. /\ r \in HandleRecord /\ r.busy = ms /\ r.made = handles[h].made /\ r.db = handles[h].db
      /\ r.borrowed = handles[h].borrowed /\ r.held = handles[h].held /\ r.gone = handles[h].gone
  <2> DEFINE q == [handles[h] EXCEPT !.busy = ms]
  <2>1. /\ q \in HandleRecord /\ q.busy = ms /\ q.made = handles[h].made /\ q.db = handles[h].db
        /\ q.borrowed = handles[h].borrowed /\ q.held = handles[h].held /\ q.gone = handles[h].gone
    BY <1>1 DEF HandleRecord
  <2>2. r = [q EXCEPT !.deadline = -1, !.cancelled = FALSE]
    OBVIOUS
  <2> HIDE DEF q
  <2>3. -1 \in Int /\ FALSE \in BOOLEAN
    OBVIOUS
  <2>4. r \in HandleRecord
    BY <2>1, <2>2, <2>3, WaitOf
  <2>5. /\ r.busy = q.busy /\ r.made = q.made /\ r.db = q.db
        /\ r.borrowed = q.borrowed /\ r.held = q.held /\ r.gone = q.gone
    BY <2>1, <2>2 DEF HandleRecord
  <2> QED
    BY <2>1, <2>4, <2>5
<1>3. /\ AtOnce /\ handles[h].made /\ handles[h].db # "null" /\ ~handles[h].borrowed
      /\ handles' = [handles EXCEPT ![h] = r] /\ handler' = [handler EXCEPT ![handles[h].db] = h]
      /\ conn' = conn /\ stmts' = stmts
  BY DEF handle_busy_timeout, checked_handle
<1> HIDE DEF r
<1>4. Lives /\ HandleOK(h)
  BY DEF SqlInv, Lives
<1>5. h \in Own /\ handles[h].db = h /\ h \in Conns
  BY <1>3, <1>4 DEF HandleOK, HomeOf, Handles, Conns
<1>6. /\ handles' \in [Handles -> HandleRecord] /\ handler' \in HandlerTable
      /\ handles'[h] = r /\ \A k \in Handles : k # h => handles'[k] = handles[k]
      /\ handler'[h] = h /\ \A c \in Conns : c # h => handler'[c] = handler[c]
  BY <1>1, <1>2, <1>3, <1>5 DEF HandlerTable
<1>7. Lives'
  <2>1. \A k \in Handles : HandleOK(k)'
    BY <1>2, <1>3, <1>4, <1>6, ZenonT(40) DEF HandleOK, HomeOf, Lives
  <2>2. \A t \in Stmts : StatementOK(t)'
    BY <1>1, <1>2, <1>3, <1>4, <1>6 DEF StatementOK, HomeOf, Lives, StatementRecord
  <2>3. ASSUME NEW c \in Conns PROVE HandlerOK(c)'
    <3>1. CASE c = h
      <4>1. r.busy \in Nat /\ r.made
        BY <1>1, <1>2, <1>3
      <4>2. r.busy >= 0
        BY <4>1
      <4> QED
        BY <1>5, <1>6, <3>1, <4>1, <4>2 DEF HandlerOK
    <3>2. CASE c # h
      BY <1>4, <1>6, <3>2 DEF HandlerOK, Lives, Handles
    <3> QED
      BY <3>1, <3>2
  <2> QED
    BY <1>3, <1>4, <2>1, <2>2, <2>3 DEF Lives
<1> QED
  BY <1>1, <1>2, <1>3, <1>6, <1>7, OverAtOnce DEF GuardsStay

(* A handle lets go of its connection, which closes if it is its own.      *)
LEMMA HandleClose ==
  ASSUME SqlInv, NEW h \in Handles, handle_close(h)
  PROVE  SqlInv'
<1>1. /\ conn \in ConnTable /\ handler \in HandlerTable /\ handles \in [Handles -> HandleRecord]
      /\ stmts \in [Stmts -> StatementRecord]
  BY Typed
<1>2. /\ AtOnce /\ handles[h].made /\ handler' = handler /\ stmts' = stmts
  BY DEF handle_close
<1>3. Lives /\ HandleOK(h)
  BY DEF SqlInv, Lives
<1> DEFINE c == handles[h].db
           r == [handles[h] EXCEPT !.db = "null"]
<1>4. /\ r \in HandleRecord /\ r.db = "null" /\ r.made = handles[h].made /\ r.borrowed = handles[h].borrowed
      /\ r.busy = handles[h].busy /\ r.held = handles[h].held /\ r.gone = handles[h].gone
  BY <1>1 DEF HandleRecord
<1>5. CASE c = "null" \/ handles[h].borrowed
  <2>1. handles' = [handles EXCEPT ![h] = r] /\ conn' = conn
    BY <1>5 DEF handle_close
  <2> HIDE DEF r
  <2>2. /\ handles' \in [Handles -> HandleRecord]
        /\ handles'[h] = r /\ \A k \in Handles : k # h => handles'[k] = handles[k]
    BY <1>1, <1>4, <2>1
  <2>3. \A k \in Handles : HandleOK(k)'
    BY <1>2, <1>3, <1>4, <1>5, <2>1, <2>2, SqliteAssumption DEF HandleOK, HomeOf, Lives
  <2>4. \A t \in Stmts : StatementOK(t)'
    BY <1>1, <1>2, <1>3, <1>4, <2>1, <2>2 DEF StatementOK, HomeOf, Lives, StatementRecord
  <2>5. \A k \in Conns : HandlerOK(k)'
    BY <1>2, <1>3, <1>4, <2>1, <2>2 DEF HandlerOK, Lives, Handles
  <2>6. Lives'
    BY <1>3, <2>1, <2>3, <2>4, <2>5 DEF Lives
  <2> QED
    BY <1>1, <1>2, <1>4, <2>1, <2>2, <2>6, OverAtOnce DEF GuardsStay
<1>6. CASE ~(c = "null" \/ handles[h].borrowed) /\ OpenOn(c)
  <2>1. handles' = handles /\ conn' = conn
    BY <1>6 DEF handle_close
  <2>2. Lives'
    BY <1>2, <1>3, <2>1 DEF Lives, HandleOK, StatementOK, HandlerOK
  <2> QED
    BY <1>1, <1>2, <2>1, <2>2, OverAtOnce DEF GuardsStay
<1>7. CASE ~(c = "null" \/ handles[h].borrowed) /\ ~OpenOn(c)
  <2>1. handles' = [handles EXCEPT ![h] = r] /\ conn' = [conn EXCEPT ![c] = "closed"]
    BY <1>7 DEF handle_close
  <2>2. h \in Own /\ c = h /\ h \in Conns /\ h # "store"
    BY <1>2, <1>3, <1>7, SqliteAssumption DEF HandleOK, HomeOf, Handles, Conns
  <2> HIDE DEF r
  <2>3. /\ handles' \in [Handles -> HandleRecord] /\ conn' \in ConnTable
        /\ handles'[h] = r /\ \A k \in Handles : k # h => handles'[k] = handles[k]
        /\ conn'[h] = "closed" /\ \A k \in Conns : k # h => conn'[k] = conn[k]
    BY <1>1, <1>4, <2>1, <2>2 DEF ConnTable
  <2>4. ASSUME NEW k \in Handles PROVE HandleOK(k)'
    <3>1. CASE k = h
      BY <1>2, <1>3, <1>4, <2>3, <3>1, SqliteAssumption DEF HandleOK, HomeOf
    <3>2. CASE k # h
      BY <1>3, <2>3, <3>2 DEF HandleOK, HomeOf, Lives, Conns
    <3> QED
      BY <3>1, <3>2
  <2>5. ASSUME NEW t \in Stmts PROVE StatementOK(t)'
    <3>1. StatementOK(t) /\ (stmts[t].live => stmts[t].db # h)
      BY <1>3, <1>7, <2>2 DEF Lives, OpenOn
    <3>2. stmts[t].made => stmts[t].db \in Conns
      BY <3>1 DEF StatementOK, HomeOf, Conns
    <3> QED
      BY <1>1, <1>2, <1>4, <2>3, <3>1, <3>2 DEF StatementOK, HomeOf, StatementRecord
  <2>6. \A k \in Conns : HandlerOK(k)'
    BY <1>2, <1>3, <1>4, <2>3 DEF HandlerOK, Lives, Handles
  <2>7. conn'["store"] = "open"
    BY <1>3, <2>2, <2>3 DEF Lives, Conns
  <2>8. Lives'
    BY <2>4, <2>5, <2>6, <2>7 DEF Lives
  <2> QED
    BY <1>1, <1>2, <1>4, <2>3, <2>8, OverAtOnce DEF GuardsStay
<1> QED
  BY <1>5, <1>6, <1>7

(* A statement bound to, read or rewound; a handle asked.                  *)
LEMMA SteadyAtOnce ==
  ASSUME SqlInv, AtOnce, HandlesSteady, StatementsSteady, GuardsStay, UNCHANGED <<conn, handler>>
  PROVE  SqlInv'
<1>1. conn' \in ConnTable /\ handler' \in HandlerTable
  BY Typed
<1>2. Lives'
  BY LivesStay
<1> QED
  BY <1>1, <1>2, OverAtOnce DEF HandlesSteady, StatementsSteady

LEMMA Bound ==
  ASSUME SqlInv, NEW s \in Stmts, NEW i \in 1..2, bound(s, i)
  PROVE  SqlInv'
<1>1. SqlTypes /\ stmts[s] \in StatementRecord /\ stmts \in [Stmts -> StatementRecord] /\ sqlCalls + 1 \in Nat
  BY DEF SqlInv, SqlTypes
<1> DEFINE b == [stmts[s].bound EXCEPT ![i] = IF Bindable(s) THEN sqlCalls + 1 ELSE @]
           r == [stmts[s] EXCEPT !.bound = b]
<1>2. b \in [1..2 -> Nat]
  BY <1>1 DEF StatementRecord
<1>3. AtOnce /\ stmts' = [stmts EXCEPT ![s] = r] /\ conn' = conn /\ handler' = handler /\ handles' = handles
  BY <1>1 DEF bound, StatementRecord
<1> HIDE DEF b
<1>4. /\ r \in StatementRecord /\ r.made = stmts[s].made /\ r.live = stmts[s].live /\ r.db = stmts[s].db
      /\ r.owner = stmts[s].owner /\ r.held = stmts[s].held /\ r.gone = stmts[s].gone /\ r.guard = stmts[s].guard
  BY <1>1, <1>2 DEF StatementRecord
<1> HIDE DEF r
<1>5. StatementsSteady /\ GuardsStay
  BY <1>1, <1>3, <1>4 DEF StatementsSteady, GuardsStay
<1> QED
  BY <1>1, <1>3, <1>5, Steady, SteadyAtOnce

LEMMA OnlyRead ==
  ASSUME SqlInv, AtOnce, UNCHANGED <<conn, handler, handles, stmts>>
  PROVE  SqlInv'
BY Steady, SteadyStatements, SteadyAtOnce DEF SqlInv

LEMMA Rewound ==
  ASSUME SqlInv, NEW s \in Stmts, NEW clear \in BOOLEAN, rewound(s, clear)
  PROVE  SqlInv'
<1>1. SqlTypes /\ stmts[s] \in StatementRecord /\ stmts \in [Stmts -> StatementRecord]
  BY DEF SqlInv, SqlTypes
<1>2. stmts[s].live /\ StatementOK(s)
  BY DEF rewound, checked_statement, SqlInv, Lives
<1> DEFINE b == IF clear THEN <<0, 0>> ELSE stmts[s].bound
           r == [stmts[s] EXCEPT !.at = "start", !.bound = b]
<1>3. b \in [1..2 -> Nat]
  BY <1>1 DEF StatementRecord
<1>4. /\ AtOnce /\ stmts' = [stmts EXCEPT ![s] = r] /\ conn' = conn /\ handler' = handler
      /\ handles' = [handles EXCEPT ![stmts[s].owner] = begin_wait(stmts[s].owner)]
  BY <1>1 DEF rewound, StatementRecord
<1> HIDE DEF b
<1>5. /\ r \in StatementRecord /\ r.made = stmts[s].made /\ r.live = stmts[s].live /\ r.db = stmts[s].db
      /\ r.owner = stmts[s].owner /\ r.held = stmts[s].held /\ r.gone = stmts[s].gone /\ r.guard = stmts[s].guard
  BY <1>1, <1>3 DEF StatementRecord
<1> HIDE DEF r
<1>6. StatementsSteady /\ GuardsStay
  BY <1>1, <1>4, <1>5 DEF StatementsSteady, GuardsStay
<1>7. stmts[s].owner \in Handles
  BY <1>1, <1>2 DEF StatementOK, StatementRecord
<1>8. HandlesSteady
  BY <1>1, <1>4, <1>7, WaitBegun
<1> QED
  BY <1>4, <1>6, <1>8, SteadyAtOnce

-----------------------------------------------------------------------------
(* What ends a lifetime, or only passes time.                              *)
LEMMA NotACall ==
  ASSUME SqlInv, MayCollect, UNCHANGED <<msg, frames, sqlCalls, gaveUp>>, now' \in Nat,
         conn' \in ConnTable, handler' \in HandlerTable,
         handles' \in [Handles -> HandleRecord], stmts' \in [Stmts -> StatementRecord],
         \A k \in Handles : handles[k].made => handles'[k].made,
         \A t \in Stmts : stmts[t].made => stmts'[t].made,
         GuardsStay, Lives'
  PROVE  SqlInv'
<1>1. SqlTypes
  BY DEF SqlInv
<1>2. SqlTypes'
  BY <1>1 DEF SqlTypes, ConnTable, HandlerTable
<1>3. Grows
  BY <1>1 DEF Grows, SqlTypes
<1>4. UnderWay' /\ GuardsApart' /\ OutcomeItsOwn'
  BY <1>2, <1>3, Aside
<1> QED
  BY <1>2, <1>4 DEF SqlInv

LEMMA FinalizedLives ==
  ASSUME SqlInv, NEW s \in Stmts, stmts[s].made, Finalized(s), UNCHANGED <<conn, handler>>
  PROVE  /\ Lives' /\ GuardsStay
         /\ handles' \in [Handles -> HandleRecord] /\ stmts' \in [Stmts -> StatementRecord]
         /\ \A k \in Handles : handles[k].made => handles'[k].made
         /\ \A t \in Stmts : stmts[t].made => stmts'[t].made
<1>1. SqlTypes /\ stmts[s] \in StatementRecord /\ stmts \in [Stmts -> StatementRecord]
  BY DEF SqlInv, SqlTypes
<1>2. Lives /\ StatementOK(s) /\ conn' = conn /\ handler' = handler
  BY DEF SqlInv, Lives
<1>3. stmts[s].owner \in Handles
  BY <1>2 DEF StatementOK
<1>4. HandlesSteady
  <2>1. CASE stmts[s].live
    BY <1>1, <1>3, <2>1, WaitBegun DEF Finalized
  <2>2. CASE ~stmts[s].live
    BY <1>1, <2>2, Steady DEF Finalized
  <2> QED
    BY <2>1, <2>2
<1> DEFINE gone == ~stmts[s].held
           r == [stmts[s] EXCEPT !.live = FALSE, !.gone = gone]
<1>5. stmts' = [stmts EXCEPT ![s] = r]
  BY <1>1 DEF Finalized, StatementRecord
<1>6. gone \in BOOLEAN
  OBVIOUS
<1> HIDE DEF gone
<1>7. /\ r \in StatementRecord /\ r.made = stmts[s].made /\ r.live = FALSE /\ r.db = stmts[s].db
      /\ r.owner = stmts[s].owner /\ r.held = stmts[s].held /\ r.guard = stmts[s].guard
  BY <1>1, <1>6 DEF StatementRecord
<1> HIDE DEF r
<1>8. /\ stmts' \in [Stmts -> StatementRecord]
      /\ stmts'[s] = r /\ \A t \in Stmts : t # s => stmts'[t] = stmts[t]
  BY <1>1, <1>5, <1>7
<1>9. \A h \in Handles : HandleOK(h)'
  BY <1>2, <1>4 DEF Lives, HandleOK, HandlesSteady, HomeOf
<1>10. ASSUME NEW t \in Stmts PROVE StatementOK(t)'
  <2>1. CASE t = s
    BY <1>2, <1>4, <1>7, <1>8, <2>1 DEF StatementOK, HandlesSteady, HomeOf
  <2>2. CASE t # s
    BY <1>1, <1>2, <1>4, <1>8, <2>2 DEF Lives, StatementOK, HandlesSteady, HomeOf, StatementRecord
  <2> QED
    BY <2>1, <2>2
<1>11. \A c \in Conns : HandlerOK(c)'
  BY <1>2, <1>4 DEF Lives, HandlerOK, HandlesSteady, Handles
<1>12. Lives'
  BY <1>2, <1>9, <1>10, <1>11 DEF Lives
<1> QED
  BY <1>4, <1>7, <1>8, <1>12 DEF HandlesSteady, GuardsStay

LEMMA StatementFinalize ==
  ASSUME SqlInv, NEW s \in Stmts, statement_finalize(s)
  PROVE  SqlInv'
<1>1. AtOnce /\ stmts[s].made /\ Finalized(s) /\ UNCHANGED <<conn, handler>>
  BY DEF statement_finalize
<1> QED
  BY <1>1, Typed, FinalizedLives, OverAtOnce

LEMMA StatementGc ==
  ASSUME SqlInv, NEW s \in Stmts, statement_gc(s)
  PROVE  SqlInv'
<1>1. /\ MayCollect /\ stmts[s].made /\ Finalized(s) /\ UNCHANGED <<conn, handler>>
      /\ UNCHANGED <<msg, frames, sqlCalls, gaveUp>> /\ now' = now
  BY DEF statement_gc
<1>2. now' \in Nat
  BY <1>1 DEF SqlInv, SqlTypes
<1> QED
  BY <1>1, <1>2, Typed, FinalizedLives, NotACall

LEMMA HandleGc ==
  ASSUME SqlInv, NEW h \in Handles, handle_gc(h)
  PROVE  SqlInv'
<1>1. /\ conn \in ConnTable /\ handler \in HandlerTable /\ handles \in [Handles -> HandleRecord]
      /\ stmts \in [Stmts -> StatementRecord]
  BY Typed
<1>2. Lives /\ HandleOK(h)
  BY DEF SqlInv, Lives
<1> DEFINE c == handles[h].db
           r == [handles[h] EXCEPT !.db = "null", !.gone = TRUE]
<1>3. /\ MayCollect /\ handles[h].made /\ handler' = handler /\ stmts' = stmts
      /\ UNCHANGED <<msg, frames, sqlCalls, gaveUp>> /\ now' = now
      /\ \A s \in Stmts : stmts[s].owner = h => stmts[s].gone
      /\ handles' = [handles EXCEPT ![h] = r]
  BY <1>1 DEF handle_gc, HandleRecord
<1>4. \A s \in Stmts : stmts[s].live => stmts[s].made /\ stmts[s].owner # h
  BY <1>1, <1>2, <1>3 DEF Lives, StatementOK, StatementRecord
<1>5. /\ r \in HandleRecord /\ r.db = "null" /\ r.made = handles[h].made /\ r.borrowed = handles[h].borrowed
      /\ r.busy = handles[h].busy /\ r.held = handles[h].held /\ r.gone = TRUE
  BY <1>1 DEF HandleRecord
<1> HIDE DEF r
<1>6. /\ handles' \in [Handles -> HandleRecord]
      /\ handles'[h] = r /\ \A k \in Handles : k # h => handles'[k] = handles[k]
  BY <1>1, <1>3, <1>5
<1>7. now' \in Nat
  BY <1>3 DEF SqlInv, SqlTypes
<1>8. conn' \in ConnTable /\ Lives'
  <2>1. CASE c = "null" \/ handles[h].borrowed
    <3>1. conn' = conn
      BY <2>1 DEF handle_gc
    <3>2. \A k \in Handles : HandleOK(k)'
      BY <1>2, <1>3, <1>5, <1>6, <2>1, <3>1, SqliteAssumption DEF HandleOK, HomeOf, Lives
    <3>3. \A t \in Stmts : StatementOK(t)'
      BY <1>1, <1>2, <1>3, <1>4, <1>5, <1>6, <3>1 DEF StatementOK, HomeOf, Lives, StatementRecord
    <3>4. \A k \in Conns : HandlerOK(k)'
      BY <1>2, <1>3, <1>5, <1>6, <3>1 DEF HandlerOK, Lives, Handles
    <3> QED
      BY <1>1, <1>2, <3>1, <3>2, <3>3, <3>4 DEF Lives
  <2>2. CASE ~(c = "null" \/ handles[h].borrowed)
    <3>1. h \in Own /\ c = h /\ h \in Conns /\ h # "store"
      BY <1>2, <1>3, <2>2, SqliteAssumption DEF HandleOK, HomeOf, Handles, Conns
    <3>2. \A t \in Stmts : stmts[t].live => stmts[t].db # h
      BY <1>1, <1>2, <1>4, <3>1 DEF Lives, StatementOK, HomeOf, StatementRecord
    <3>3. ~OpenOn(c)
      BY <3>1, <3>2 DEF OpenOn
    <3>4. conn' = [conn EXCEPT ![c] = "closed"]
      BY <2>2, <3>3 DEF handle_gc
    <3>5. /\ conn' \in ConnTable /\ conn'[h] = "closed"
          /\ \A k \in Conns : k # h => conn'[k] = conn[k]
      BY <1>1, <3>1, <3>4 DEF ConnTable
    <3>6. ASSUME NEW k \in Handles PROVE HandleOK(k)'
      <4>1. CASE k = h
        BY <1>2, <1>3, <1>5, <1>6, <3>5, <4>1, SqliteAssumption DEF HandleOK, HomeOf
      <4>2. CASE k # h
        BY <1>2, <1>6, <3>5, <4>2 DEF HandleOK, HomeOf, Lives, Conns
      <4> QED
        BY <4>1, <4>2
    <3>7. ASSUME NEW t \in Stmts PROVE StatementOK(t)'
      <4>1. StatementOK(t)
        BY <1>2 DEF Lives
      <4>2. stmts[t].made => stmts[t].db \in Conns
        BY <4>1 DEF StatementOK, HomeOf, Conns
      <4>3. stmts[t].live => /\ stmts[t].made /\ stmts[t].owner \in Handles
                             /\ handles'[stmts[t].owner] = handles[stmts[t].owner]
                             /\ conn'[stmts[t].db] = conn[stmts[t].db]
        BY <1>4, <1>6, <3>2, <3>5, <4>1, <4>2 DEF StatementOK
      <4>4. stmts[t].made => handles'[stmts[t].owner].made
        BY <1>5, <1>6, <4>1 DEF StatementOK
      <4> QED
        BY <1>3, <4>1, <4>3, <4>4 DEF StatementOK, HomeOf
    <3>8. \A k \in Conns : HandlerOK(k)'
      BY <1>2, <1>3, <1>5, <1>6 DEF HandlerOK, Lives, Handles
    <3>9. conn'["store"] = "open"
      BY <1>2, <3>1, <3>5 DEF Lives, Conns
    <3> QED
      BY <3>5, <3>6, <3>7, <3>8, <3>9 DEF Lives
  <2> QED
    BY <2>1, <2>2
<1> QED
  BY <1>1, <1>3, <1>5, <1>6, <1>7, <1>8, NotACall DEF GuardsStay

LEMMA LetsGo ==
  ASSUME SqlInv, LetGo
  PROVE  SqlInv'
<1>1. /\ conn \in ConnTable /\ handler \in HandlerTable /\ handles \in [Handles -> HandleRecord]
      /\ stmts \in [Stmts -> StatementRecord] /\ now \in Nat
  BY Typed DEF SqlInv, SqlTypes
<1>2. /\ MayCollect /\ UNCHANGED <<msg, frames, sqlCalls, gaveUp>> /\ now' = now /\ conn' = conn /\ handler' = handler
  BY DEF LetGo, MayCollect
<1>3. Lives
  BY DEF SqlInv
<1>4. CASE \E h \in Handles : handles[h].held /\ handles' = [handles EXCEPT ![h].held = FALSE] /\ UNCHANGED stmts
  <2>1. PICK h \in Handles : handles[h].held /\ handles' = [handles EXCEPT ![h].held = FALSE] /\ stmts' = stmts
    BY <1>4
  <2> DEFINE r == [handles[h] EXCEPT !.held = FALSE]
  <2>2. /\ r \in HandleRecord /\ r.db = handles[h].db /\ r.made = handles[h].made /\ r.borrowed = handles[h].borrowed
        /\ r.busy = handles[h].busy /\ r.held = FALSE /\ r.gone = handles[h].gone
    BY <1>1 DEF HandleRecord
  <2>3. handles' = [handles EXCEPT ![h] = r]
    BY <1>1, <2>1
  <2> HIDE DEF r
  <2>4. /\ handles' \in [Handles -> HandleRecord]
        /\ handles'[h] = r /\ \A k \in Handles : k # h => handles'[k] = handles[k]
    BY <1>1, <2>2, <2>3
  <2>5. \A k \in Handles : HandleOK(k)'
    BY <1>2, <1>3, <2>2, <2>4 DEF HandleOK, HomeOf, Lives
  <2>6. \A t \in Stmts : StatementOK(t)'
    BY <1>1, <1>2, <1>3, <2>1, <2>2, <2>4 DEF StatementOK, HomeOf, Lives, StatementRecord
  <2>7. \A k \in Conns : HandlerOK(k)'
    BY <1>2, <1>3, <2>2, <2>4 DEF HandlerOK, Lives, Handles
  <2>8. Lives'
    BY <1>2, <1>3, <2>5, <2>6, <2>7 DEF Lives
  <2> QED
    BY <1>1, <1>2, <2>1, <2>2, <2>4, <2>8, NotACall DEF GuardsStay
<1>5. CASE \E s \in Stmts : stmts[s].held /\ stmts' = [stmts EXCEPT ![s].held = FALSE] /\ UNCHANGED handles
  <2>1. PICK s \in Stmts : stmts[s].held /\ stmts' = [stmts EXCEPT ![s].held = FALSE] /\ handles' = handles
    BY <1>5
  <2> DEFINE r == [stmts[s] EXCEPT !.held = FALSE]
  <2>2. /\ r \in StatementRecord /\ r.made = stmts[s].made /\ r.live = stmts[s].live /\ r.db = stmts[s].db
        /\ r.owner = stmts[s].owner /\ r.held = FALSE /\ r.gone = stmts[s].gone /\ r.guard = stmts[s].guard
    BY <1>1 DEF StatementRecord
  <2>3. stmts' = [stmts EXCEPT ![s] = r]
    BY <1>1, <2>1
  <2> HIDE DEF r
  <2>4. /\ stmts' \in [Stmts -> StatementRecord]
        /\ stmts'[s] = r /\ \A t \in Stmts : t # s => stmts'[t] = stmts[t]
    BY <1>1, <2>2, <2>3
  <2>5. \A t \in Stmts : StatementOK(t)'
    BY <1>1, <1>2, <1>3, <2>1, <2>2, <2>4 DEF StatementOK, HomeOf, Lives, StatementRecord
  <2>6. Lives'
    BY <1>2, <1>3, <2>1, <2>5 DEF Lives, HandleOK, HandlerOK
  <2> QED
    BY <1>1, <1>2, <2>1, <2>2, <2>4, <2>6, NotACall DEF GuardsStay
<1> QED
  BY <1>4, <1>5 DEF LetGo

LEMMA TimePasses ==
  ASSUME SqlInv, Later
  PROVE  SqlInv'
<1>1. /\ MayCollect /\ UNCHANGED <<msg, frames, sqlCalls, gaveUp>> /\ now' = now + 1
      /\ UNCHANGED <<conn, handler, handles, stmts>> /\ now \in Nat /\ SqlTypes
  BY DEF Later, MayCollect, SqlInv, SqlTypes
<1>2. HandlesSteady /\ StatementsSteady /\ GuardsStay
  BY <1>1, Steady, SteadyStatements
<1>3. Lives'
  BY <1>1, <1>2, LivesStay
<1>4. now' \in Nat
  BY <1>1
<1> QED
  BY <1>1, <1>2, <1>3, <1>4, Typed, NotACall

-----------------------------------------------------------------------------
(* The calls that begin.  A wait begins with no deadline and no signal.    *)
WaitFresh(c) == handler'[c] # "none" => handles'[c].deadline < 0 /\ handles'[c].cancelled = FALSE

LEMMA FreshWait ==
  ASSUME SqlInv, NEW h \in Handles, handles' = [handles EXCEPT ![h] = begin_wait(h)], UNCHANGED handler
  PROVE  HandlesSteady /\ WaitFresh(HomeOf(h))
<1>1. /\ HandlesSteady
      /\ handles'[h].busy >= 0 => handles'[h].deadline < 0 /\ handles'[h].cancelled = FALSE
  BY WaitBegun DEF SqlInv
<1>2. HomeOf(h) \in Conns
  BY DEF HomeOf, Conns
<1>3. HandlerOK(HomeOf(h))
  BY <1>2 DEF SqlInv, Lives
<1>4. CASE handler[HomeOf(h)] # "none"
  <2>1. HomeOf(h) \in Own /\ handles[HomeOf(h)].busy >= 0
    BY <1>3, <1>4 DEF HandlerOK
  <2>2. HomeOf(h) = h
    BY <2>1, SqliteAssumption DEF HomeOf
  <2>3. handles'[h].busy >= 0
    BY <1>1, <2>1, <2>2 DEF HandlesSteady
  <2> QED
    BY <1>1, <2>2, <2>3 DEF WaitFresh
<1> QED
  BY <1>1, <1>4 DEF WaitFresh

\* What holds of the frame of a call as it begins.
Beginning(f) ==
  /\ f.n = sqlCalls + 1 /\ f.met = -1 /\ f.interrupted = FALSE
  /\ f.stage \in {"guarded", "made", "binding", "sqlite"}
  /\ f.op \in {"exec", "prepare"} => f.h \in Handles /\ handles[f.h].made
  /\ f.op = "exec" => f.s = "none"
  /\ f.op # "exec" => f.s \in Stmts
  /\ f.op = "step" => stmts[f.s].made
  /\ f.op \in {"list", "values"} => f.stage \in {"guarded", "binding"}
  /\ f.stage = "made" => f.op = "prepare"
  /\ f.stage = "binding" => f.op \in {"list", "values"}
  /\ f.result => \/ f.guard = sqlCalls + 1
                 \/ f.op = "step" /\ f.stage = "sqlite" /\ f.guard = stmts[f.s].guard /\ f.guard # 0
  /\ ~f.result => f.guard = 0
  /\ f.stage = "sqlite" => \/ f.op = "exec" /\ handles[f.h].db # "null"
                           \/ f.op = "step" /\ stmts[f.s].live

LEMMA CallBegins ==
  ASSUME SqlInv, NEW f \in Frame, MayCall, sqlCalls' = sqlCalls + 1, frames' = Append(frames, f), Beginning(f),
         HandlesSteady, UNCHANGED <<conn, handler, stmts, msg, now, gaveUp>>,
         f.stage = "sqlite" => WaitFresh(IF f.op = "exec" THEN handles[f.h].db ELSE stmts[f.s].db)
  PROVE  SqlInv'
<1>1. /\ SqlTypes /\ conn' = conn /\ handler' = handler /\ stmts' = stmts /\ msg' = msg
      /\ now' = now /\ gaveUp' = gaveUp
  BY DEF SqlInv
<1>2. /\ frames' \in Seq(Frame) /\ Len(frames') \in 1..2 /\ sqlCalls < MaxSqlCalls
  BY <1>1, Pushed
<1>3. sqlCalls \in Nat /\ sqlCalls' \in 0..MaxSqlCalls
  BY <1>1, <1>2, SqliteAssumption DEF SqlTypes
<1>4. SqlTypes'
  <2>1. Len(frames') <= 2
    BY <1>2
  <2> QED
    BY <1>1, <1>2, <1>3, <2>1 DEF SqlTypes, HandlesSteady
<1>5. StatementsSteady /\ Grows
  BY <1>1, <1>3, SteadyStatements, SteadyGrows
<1>6. Lives'
  BY <1>1, <1>5, LivesStay
<1>7. CallOK(f)'
  <2>1. f.guard \in Nat /\ f.result \in BOOLEAN /\ f.n \in 1..sqlCalls'
    BY <1>3 DEF Frame, Beginning
  <2>2. f.result => f.guard \in 1..sqlCalls'
    <3>1. CASE f.guard = sqlCalls + 1
      BY <1>3, <3>1
    <3>2. CASE f.op = "step" /\ f.guard = stmts[f.s].guard /\ f.guard # 0
      <4>1. f.s \in Stmts
        BY <3>2 DEF Beginning
      <4>2. f.guard \in 0..sqlCalls
        BY <3>2, <4>1 DEF SqlInv, GuardsApart
      <4> QED
        BY <1>3, <3>2, <4>2
    <3> QED
      BY <3>1, <3>2 DEF Beginning
  <2> QED
    BY <1>1, <2>1, <2>2 DEF CallOK, Beginning, HandlesSteady
<1>8. InSqlite(f)'
  <2>1. CASE f.stage = "sqlite" /\ f.op = "exec"
    <3>1. ConnOf(f)' = handles[f.h].db /\ handles'[f.h].db # "null"
      BY <2>1, SqliteAssumption DEF Beginning, HandlesSteady, ConnOf
    <3>2. f.met < 0 /\ ~(f.met >= 0)
      BY DEF Beginning
    <3> QED
      BY <2>1, <3>1, <3>2 DEF InSqlite, Beginning, WaitFresh
  <2>2. CASE f.stage = "sqlite" /\ f.op = "step"
    <3>1. f.s # "none"
      BY <2>2, SqliteAssumption DEF Beginning
    <3>2. ConnOf(f)' = stmts[f.s].db /\ stmts'[f.s].live
      BY <1>1, <2>2, <3>1 DEF Beginning, ConnOf
    <3>3. f.met < 0 /\ ~(f.met >= 0)
      BY DEF Beginning
    <3> QED
      BY <2>2, <3>2, <3>3 DEF InSqlite, Beginning, WaitFresh
  <2>3. CASE f.stage \in {"guarded", "made", "binding"}
    BY <2>3 DEF InSqlite
  <2> QED
    BY <2>1, <2>2, <2>3 DEF Beginning
<1>9. f.guard \in {0, sqlCalls + 1} \/ (f.op = "step" /\ f.stage = "sqlite" /\ f.guard = stmts[f.s].guard)
  BY DEF Beginning, Frame
<1>10. f.stage # "telling"
  BY DEF Beginning
<1>11. UnderWay' /\ GuardsApart' /\ OutcomeItsOwn'
  BY <1>1, <1>4, <1>5, <1>7, <1>8, <1>9, <1>10, Begins
<1> QED
  BY <1>4, <1>6, <1>11 DEF SqlInv

LEMMA HandleExec ==
  ASSUME SqlInv, NEW h \in Handles, handle_exec(h)
  PROVE  SqlInv'
<1>1. /\ handles[h].made /\ handles[h].db # "null" /\ CallOf("exec", h, "none", FALSE, "sqlite", 0, << >>, 0)
      /\ handles' = [handles EXCEPT ![h] = begin_wait(h)]
      /\ UNCHANGED <<conn, handler, stmts, msg, now, gaveUp>>
  BY DEF handle_exec, checked_handle, Call
<1>2. PICK f \in Frame : f = FrameOf(sqlCalls + 1, "exec", h, "none", FALSE, "sqlite", 0, << >>, 0)
  BY <1>1, NoValues, CountUp, NewFrame, FrameNames DEF SqlInv
<1>3. MayCall /\ sqlCalls' = sqlCalls + 1 /\ frames' = Append(frames, f)
  BY <1>1, <1>2 DEF CallOf, FrameOf
<1>4. Beginning(f)
  BY <1>1, <1>2 DEF Beginning, FrameOf
<1>5. HandlesSteady /\ WaitFresh(HomeOf(h))
  BY <1>1, FreshWait
<1>6. handles[h].db = HomeOf(h)
  BY <1>1 DEF SqlInv, Lives, HandleOK
<1> QED
  BY <1>1, <1>2, <1>3, <1>4, <1>5, <1>6, CallBegins DEF FrameOf

LEMMA HandleExecResult ==
  ASSUME SqlInv, NEW h \in Handles, handle_exec_result(h)
  PROVE  SqlInv'
<1>1. /\ handles[h].made /\ CallOf("exec", h, "none", TRUE, "guarded", sqlCalls + 1, << >>, 0)
      /\ UNCHANGED <<conn, handler, handles, stmts, msg, now, gaveUp>>
  BY DEF handle_exec_result, Call
<1>2. PICK f \in Frame : f = FrameOf(sqlCalls + 1, "exec", h, "none", TRUE, "guarded", sqlCalls + 1, << >>, 0)
  BY <1>1, NoValues, CountUp, NewFrame, FrameNames DEF SqlInv
<1>3. MayCall /\ sqlCalls' = sqlCalls + 1 /\ frames' = Append(frames, f)
  BY <1>1, <1>2 DEF CallOf, FrameOf
<1>4. Beginning(f)
  BY <1>1, <1>2 DEF Beginning, FrameOf
<1>5. HandlesSteady
  BY <1>1, Steady DEF SqlInv
<1> QED
  BY <1>1, <1>2, <1>3, <1>4, <1>5, CallBegins DEF FrameOf

LEMMA HandlePrepare ==
  ASSUME SqlInv, NEW h \in Handles, NEW s \in Stmts, NEW result \in BOOLEAN, handle_prepare(h, s, result)
  PROVE  SqlInv'
<1> DEFINE g == IF result THEN sqlCalls + 1 ELSE 0
<1>1. /\ handles[h].made /\ CallOf("prepare", h, s, result, "made", g, << >>, 0)
      /\ UNCHANGED <<conn, handler, handles, stmts, msg, now, gaveUp>> /\ g \in Nat
  BY DEF handle_prepare, checked_handle, Call, SqlInv, SqlTypes
<1>2. (result => g = sqlCalls + 1) /\ (~result => g = 0)
  OBVIOUS
<1> HIDE DEF g
<1>3. PICK f \in Frame : f = FrameOf(sqlCalls + 1, "prepare", h, s, result, "made", g, << >>, 0)
  BY <1>1, NoValues, CountUp, NewFrame, FrameNames DEF SqlInv
<1>4. MayCall /\ sqlCalls' = sqlCalls + 1 /\ frames' = Append(frames, f)
  BY <1>1, <1>3 DEF CallOf, FrameOf
<1>5. Beginning(f)
  BY <1>1, <1>2, <1>3 DEF Beginning, FrameOf
<1>6. HandlesSteady
  BY <1>1, Steady DEF SqlInv
<1> QED
  BY <1>1, <1>3, <1>4, <1>5, <1>6, CallBegins DEF FrameOf

(* A statement stepped: its owner's wait begins.                           *)
LEMMA StatementWait ==
  ASSUME SqlInv, NEW s \in Stmts, stmts[s].live, UNCHANGED handler,
         handles' = [handles EXCEPT ![stmts[s].owner] = begin_wait(stmts[s].owner)]
  PROVE  stmts[s].made /\ HandlesSteady /\ WaitFresh(stmts[s].db)
<1>1. StatementOK(s) /\ stmts[s] \in StatementRecord
  BY DEF SqlInv, Lives, SqlTypes
<1>2. stmts[s].made /\ stmts[s].owner \in Handles /\ stmts[s].db = HomeOf(stmts[s].owner)
  BY <1>1 DEF StatementOK, StatementRecord
<1> QED
  BY <1>2, FreshWait

LEMMA StatementStep ==
  ASSUME SqlInv, NEW s \in Stmts, statement_step(s)
  PROVE  SqlInv'
<1>1. /\ stmts[s].live /\ CallOf("step", "none", s, FALSE, "sqlite", 0, << >>, 0)
      /\ handles' = [handles EXCEPT ![stmts[s].owner] = begin_wait(stmts[s].owner)]
      /\ UNCHANGED <<conn, handler, stmts, msg, now, gaveUp>>
  BY DEF statement_step, checked_statement, Call
<1>2. PICK f \in Frame : f = FrameOf(sqlCalls + 1, "step", "none", s, FALSE, "sqlite", 0, << >>, 0)
  BY <1>1, NoValues, CountUp, NewFrame, FrameNames DEF SqlInv
<1>3. MayCall /\ sqlCalls' = sqlCalls + 1 /\ frames' = Append(frames, f)
  BY <1>1, <1>2 DEF CallOf, FrameOf
<1>4. stmts[s].made /\ HandlesSteady /\ WaitFresh(stmts[s].db)
  BY <1>1, StatementWait
<1>5. Beginning(f)
  BY <1>1, <1>2, <1>4 DEF Beginning, FrameOf
<1> QED
  BY <1>1, <1>2, <1>3, <1>4, <1>5, CallBegins DEF FrameOf

LEMMA StatementStepResult ==
  ASSUME SqlInv, NEW s \in Stmts, statement_step_result(s)
  PROVE  SqlInv'
<1>1. /\ stmts[s].live /\ UNCHANGED <<conn, handler, stmts, msg, now, gaveUp>>
      /\ StatementOK(s) /\ stmts[s] \in StatementRecord
  BY DEF statement_step_result, checked_statement, SqlInv, SqlTypes, Lives
<1>2. stmts[s].made /\ stmts[s].guard \in Nat
  BY <1>1 DEF StatementOK, StatementRecord
<1>3. CASE stmts[s].guard # 0
  <2>1. /\ CallOf("step", "none", s, TRUE, "sqlite", stmts[s].guard, << >>, 0)
        /\ handles' = [handles EXCEPT ![stmts[s].owner] = begin_wait(stmts[s].owner)]
    BY <1>3 DEF statement_step_result
  <2>2. PICK f \in Frame : f = FrameOf(sqlCalls + 1, "step", "none", s, TRUE, "sqlite", stmts[s].guard, << >>, 0)
    BY <1>2, <2>1, NoValues, CountUp, NewFrame, FrameNames DEF SqlInv
  <2>3. MayCall /\ sqlCalls' = sqlCalls + 1 /\ frames' = Append(frames, f)
    BY <2>1, <2>2 DEF CallOf, FrameOf
  <2>4. HandlesSteady /\ WaitFresh(stmts[s].db)
    BY <1>1, <2>1, StatementWait
  <2>5. Beginning(f)
    BY <1>1, <1>2, <1>3, <2>2 DEF Beginning, FrameOf
  <2> QED
    BY <1>1, <2>2, <2>3, <2>4, <2>5, CallBegins DEF FrameOf
<1>4. CASE ~(stmts[s].guard # 0)
  <2>1. CallOf("step", "none", s, TRUE, "guarded", sqlCalls + 1, << >>, 0) /\ handles' = handles
    BY <1>4 DEF statement_step_result, Call
  <2>2. PICK f \in Frame : f = FrameOf(sqlCalls + 1, "step", "none", s, TRUE, "guarded", sqlCalls + 1, << >>, 0)
    BY <1>1, <2>1, NoValues, CountUp, NewFrame, FrameNames DEF SqlInv
  <2>3. MayCall /\ sqlCalls' = sqlCalls + 1 /\ frames' = Append(frames, f)
    BY <2>1, <2>2 DEF CallOf, FrameOf
  <2>4. HandlesSteady
    BY <2>1, Steady DEF SqlInv
  <2>5. Beginning(f)
    BY <1>2, <2>2 DEF Beginning, FrameOf
  <2> QED
    BY <1>1, <2>2, <2>3, <2>4, <2>5, CallBegins DEF FrameOf
<1> QED
  BY <1>3, <1>4

LEMMA BindList ==
  ASSUME SqlInv, NEW s \in Stmts, NEW i \in 1..2, bind_list(s, i)
  PROVE  SqlInv'
<1> DEFINE v == [j \in 1..i |-> "array"]
<1>1. /\ CallOf("list", "none", s, FALSE, "binding", 0, v, i)
      /\ UNCHANGED <<conn, handler, handles, stmts, msg, now, gaveUp>>
  BY DEF bind_list
<1>2. v \in ValueLists /\ i \in 0..2
  BY DEF value_kind, ValueLists
<1> HIDE DEF v
<1>3. PICK f \in Frame : f = FrameOf(sqlCalls + 1, "list", "none", s, FALSE, "binding", 0, v, i)
  BY <1>1, <1>2, CountUp, NewFrame, FrameNames DEF SqlInv
<1>4. MayCall /\ sqlCalls' = sqlCalls + 1 /\ frames' = Append(frames, f)
  BY <1>1, <1>3 DEF CallOf, FrameOf
<1>5. HandlesSteady
  BY <1>1, Steady DEF SqlInv
<1>6. Beginning(f)
  BY <1>3 DEF Beginning, FrameOf
<1> QED
  BY <1>1, <1>3, <1>4, <1>5, <1>6, CallBegins DEF FrameOf

LEMMA BindValues ==
  ASSUME SqlInv, NEW s \in Stmts, NEW v \in value_kind \X value_kind, statement_bind_values_result(s, v)
  PROVE  SqlInv'
<1>1. /\ CallOf("values", "none", s, TRUE, "guarded", sqlCalls + 1, v, 1)
      /\ UNCHANGED <<conn, handler, handles, stmts, msg, now, gaveUp>>
  BY DEF statement_bind_values_result
<1>2. v \in ValueLists
  <2>1. v \in [1..2 -> value_kind]
    OBVIOUS
  <2> QED
    BY <2>1 DEF ValueLists
<1>3. PICK f \in Frame : f = FrameOf(sqlCalls + 1, "values", "none", s, TRUE, "guarded", sqlCalls + 1, v, 1)
  BY <1>1, <1>2, CountUp, NewFrame, FrameNames DEF SqlInv
<1>4. MayCall /\ sqlCalls' = sqlCalls + 1 /\ frames' = Append(frames, f)
  BY <1>1, <1>3 DEF CallOf, FrameOf
<1>5. HandlesSteady
  BY <1>1, Steady DEF SqlInv
<1>6. Beginning(f)
  BY <1>3 DEF Beginning, FrameOf
<1> QED
  BY <1>1, <1>3, <1>4, <1>5, <1>6, CallBegins DEF FrameOf

-----------------------------------------------------------------------------
(* The calls that go on, or end.                                           *)
LEMMA CallEnds ==
  ASSUME SqlInv, frames # << >>, TopFrame.stage # "telling", frames' = Pop,
         UNCHANGED <<conn, handler, msg, sqlCalls, now, gaveUp>>,
         handles' \in [Handles -> HandleRecord], stmts' \in [Stmts -> StatementRecord],
         \A k \in Handles : handles[k].made => handles'[k].made,
         \A t \in Stmts : stmts[t].made => stmts'[t].made,
         GuardsStay, Lives'
  PROVE  SqlInv'
<1>1. SqlTypes /\ UnderWay
  BY DEF SqlInv
<1>2. frames' \in Seq(Frame) /\ Len(frames) \in 1..2 /\ Len(frames') = Len(frames) - 1
  BY <1>1, Popped
<1>3. Len(frames') <= 2
  <2>1. PICK n \in 1..2 : n = Len(frames)
    BY <1>2
  <2>2. Len(frames') = n - 1
    BY <1>2, <2>1
  <2>3. n - 1 <= 2
    OBVIOUS
  <2> QED
    BY <2>2, <2>3
<1>4. SqlTypes'
  BY <1>1, <1>2, <1>3 DEF SqlTypes
<1>5. Grows
  BY <1>1 DEF Grows, SqlTypes
<1>6. UnderWay' /\ GuardsApart' /\ OutcomeItsOwn'
  BY <1>4, <1>5, Ends
<1> QED
  BY <1>4, <1>6 DEF SqlInv

LEMMA CallEndsSteady ==
  ASSUME SqlInv, frames # << >>, TopFrame.stage # "telling", frames' = Pop,
         UNCHANGED <<conn, handler, msg, sqlCalls, now, gaveUp>>,
         HandlesSteady, StatementsSteady, GuardsStay
  PROVE  SqlInv'
<1>1. Lives'
  BY LivesStay
<1> QED
  BY <1>1, CallEnds DEF HandlesSteady, StatementsSteady

LEMMA CallGoesOn ==
  ASSUME SqlInv, frames # << >>, NEW f \in Frame, frames' = [frames EXCEPT ![Len(frames)] = f],
         UNCHANGED <<conn, handler, msg, sqlCalls>>, now' \in Nat, gaveUp' \in [met : Int, at : Int, budget : Int],
         handles' \in [Handles -> HandleRecord], stmts' \in [Stmts -> StatementRecord],
         \A k \in Handles : handles[k].made => handles'[k].made,
         \A t \in Stmts : stmts[t].made => stmts'[t].made,
         Lives', TopFrame.stage # "telling", f.stage # "telling", f.guard = TopFrame.guard,
         CallOK(f)', InSqlite(f)',
         \A t \in Stmts : \/ stmts'[t].guard \in {stmts[t].guard, 0}
                          \/ t = f.s /\ stmts'[t].guard = f.guard /\ f.guard # 0
                             /\ TopFrame.stage = "guarded" /\ f.op = "step" /\ f.stage = "sqlite",
         \A t \in Stmts : stmts[t].guard = f.guard /\ f.guard # 0 =>
             f.op = "step" /\ f.s = t /\ f.stage \in {"sqlite", "busy"},
         gaveUp'.at - gaveUp'.met = gaveUp'.budget
  PROVE  SqlInv'
<1>1. SqlTypes /\ UnderWay
  BY DEF SqlInv
<1>2. frames' \in Seq(Frame) /\ Len(frames) \in 1..2 /\ Len(frames') = Len(frames)
  BY <1>1, Gone
<1>3. Len(frames') <= 2
  BY <1>2, SMTT(30)
<1>4. SqlTypes'
  BY <1>1, <1>2, <1>3 DEF SqlTypes
<1>5. Grows
  BY <1>1 DEF Grows, SqlTypes
<1>6. UnderWay' /\ GuardsApart' /\ OutcomeItsOwn'
  BY <1>4, <1>5, GoesOn
<1> QED
  BY <1>4, <1>6 DEF SqlInv

(* A call at a place it allocates has a guard no statement keeps.          *)
LEMMA GuardItsOwn ==
  ASSUME SqlInv, frames # << >>, TopFrame.stage \notin {"sqlite", "busy"}, TopFrame.guard # 0
  PROVE  \A t \in Stmts : stmts[t].guard # TopFrame.guard
<1>1. Len(frames) \in 1..2 /\ TopFrame = frames[Len(frames)] /\ GuardsApart
  BY TopIs DEF SqlInv
<1>2. Len(frames) \in 1..Len(frames)
  BY <1>1
<1> QED
  BY <1>1, <1>2 DEF GuardsApart

LEMMA GaveUpWhole ==
  ASSUME SqlInv
  PROVE  gaveUp \in [met : Int, at : Int, budget : Int] /\ gaveUp.at - gaveUp.met = gaveUp.budget
BY DEF SqlInv, SqlTypes, OutcomeItsOwn

LEMMA RaisesStep ==
  ASSUME SqlInv, Raises
  PROVE  SqlInv'
<1>1. /\ frames # << >> /\ TopFrame.stage # "telling" /\ frames' = Pop
      /\ UNCHANGED <<conn, handler, handles, stmts, msg, sqlCalls, now, gaveUp>>
  BY DEF Raises
<1> QED
  BY <1>1, Steady, SteadyStatements, CallEndsSteady DEF SqlInv

LEMMA RestagedFields ==
  ASSUME NEW f \in Frame, NEW stage
  PROVE  LET g == [f EXCEPT !.stage = stage]
         IN  /\ g.stage = stage /\ g.n = f.n /\ g.op = f.op /\ g.h = f.h /\ g.s = f.s /\ g.result = f.result
             /\ g.guard = f.guard /\ g.met = f.met /\ g.interrupted = f.interrupted
BY DEF Frame

LEMMA Executes ==
  ASSUME SqlInv, execute
  PROVE  SqlInv'
<1>1. /\ frames # << >> /\ TopFrame.stage = "guarded" /\ TopFrame.op = "exec"
      /\ UNCHANGED <<conn, handler, stmts, msg, sqlCalls, now, gaveUp>>
  BY DEF execute, AtStage
<1>2. /\ TopFrame \in Frame /\ CallOK(TopFrame) /\ SqlTypes /\ StatementsSteady /\ GuardsStay
  BY <1>1, TopIs, SteadyStatements DEF SqlInv
<1>3. CASE ~checked_handle(TopFrame.h)
  <2>1. frames' = Pop /\ handles' = handles
    BY <1>3 DEF execute
  <2> QED
    BY <1>1, <1>2, <2>1, Steady, CallEndsSteady
<1>4. CASE checked_handle(TopFrame.h)
  <2>1. PICK h \in Handles : h = TopFrame.h
    BY <1>1, <1>2 DEF CallOK
  <2>2. PICK f \in Frame : f = [TopFrame EXCEPT !.stage = "sqlite"]
    BY <1>2, Restaged DEF FrameStages
  <2>3. /\ f.stage = "sqlite" /\ f.n = TopFrame.n /\ f.op = "exec" /\ f.h = h /\ f.s = TopFrame.s
        /\ f.result = TopFrame.result /\ f.guard = TopFrame.guard /\ f.met = TopFrame.met
        /\ f.interrupted = TopFrame.interrupted
    BY <1>1, <1>2, <2>1, <2>2, RestagedFields
  <2>4. /\ frames' = [frames EXCEPT ![Len(frames)] = f] /\ handles[h].db # "null"
        /\ handles' = [handles EXCEPT ![h] = begin_wait(h)]
    BY <1>4, <2>1, <2>2 DEF execute, Goes, checked_handle
  <2>5. HandlesSteady /\ WaitFresh(HomeOf(h)) /\ handles[h].db = HomeOf(h)
    BY <1>1, <2>4, FreshWait DEF SqlInv, Lives, HandleOK
  <2>6. CallOK(f)'
    BY <1>1, <1>2, <2>1, <2>3, <2>5 DEF CallOK, HandlesSteady
  <2>7. InSqlite(f)'
    <3>1. f.s = "none" /\ f.met \in Int /\ f.met < 0 /\ ~f.interrupted /\ f.interrupted \in BOOLEAN
      BY <1>1, <1>2, <2>3 DEF CallOK, Frame
    <3>2. ConnOf(f)' = HomeOf(h) /\ handles'[f.h].db # "null"
      BY <2>3, <2>4, <2>5, <3>1 DEF ConnOf, HandlesSteady
    <3>3. ~(f.met >= 0) /\ f.interrupted = FALSE
      BY <3>1
    <3> QED
      BY <2>3, <2>5, <3>2, <3>3 DEF InSqlite, WaitFresh
  <2>8. Lives'
    BY <1>1, <1>2, <2>5, LivesStay
  <2>9. \A t \in Stmts : f.guard # 0 => stmts[t].guard # f.guard
    BY <1>1, <2>3, GuardItsOwn
  <2>10. now' \in Nat /\ gaveUp' \in [met : Int, at : Int, budget : Int] /\ gaveUp'.at - gaveUp'.met = gaveUp'.budget
    BY <1>1, <1>2, GaveUpWhole DEF SqlTypes
  <2>11. \A t \in Stmts : stmts'[t].guard = stmts[t].guard
    BY <1>1
  <2>12. stmts' \in [Stmts -> StatementRecord] /\ \A t \in Stmts : stmts[t].made => stmts'[t].made
    BY <1>2 DEF StatementsSteady
  <2> QED
    BY <1>1, <2>3, <2>4, <2>5, <2>6, <2>7, <2>8, <2>9, <2>10, <2>11, <2>12, CallGoesOn, ZenonT(30) DEF HandlesSteady
<1> QED
  BY <1>3, <1>4

Prepared(d, h) == [fresh_statement EXCEPT !.made = TRUE, !.db = d, !.owner = h]

LEMMA FreshStatement ==
  ASSUME NEW d \in Conns \cup {"null"}, NEW h \in Handles
  PROVE  /\ Prepared(d, h) \in StatementRecord /\ Prepared(d, h).made = TRUE /\ Prepared(d, h).live = FALSE /\ Prepared(d, h).db = d /\ Prepared(d, h).owner = h
         /\ Prepared(d, h).held = FALSE /\ Prepared(d, h).gone = FALSE /\ Prepared(d, h).guard = 0
<1> DEFINE b == <<0, 0>>
           q == [made |-> FALSE, live |-> FALSE, db |-> "null", owner |-> "null", at |-> "start",
                 guard |-> 0, bound |-> b, held |-> FALSE, gone |-> FALSE]
<1>1. b \in [1..2 -> Nat]
  OBVIOUS
<1> HIDE DEF b
<1>2. q \in StatementRecord /\ q.live = FALSE /\ q.held = FALSE /\ q.gone = FALSE /\ q.guard = 0
  BY <1>1 DEF StatementRecord
<1>3. fresh_statement = q
  BY DEF fresh_statement, b
<1> HIDE DEF q
<1> QED
  BY <1>2, <1>3 DEF StatementRecord, Prepared

LEMMA PrepareStatement ==
  ASSUME SqlInv, prepare_statement
  PROVE  SqlInv'
<1>1. /\ frames # << >> /\ TopFrame.stage = "made"
      /\ UNCHANGED <<conn, handler, msg, sqlCalls, now, gaveUp>>
  BY DEF prepare_statement, AtStage
<1>2. TopFrame \in Frame /\ CallOK(TopFrame) /\ SqlTypes /\ Lives
  BY <1>1, TopIs DEF SqlInv
<1>3. CASE ~checked_handle(TopFrame.h)
  <2>1. frames' = Pop /\ handles' = handles /\ stmts' = stmts
    BY <1>3 DEF prepare_statement
  <2> QED
    BY <1>1, <1>2, <2>1, Steady, SteadyStatements, CallEndsSteady
<1>4. CASE checked_handle(TopFrame.h)
  <2>1. PICK h \in Handles : h = TopFrame.h
    BY <1>1, <1>2 DEF CallOK
  <2>2. PICK s \in Stmts : s = TopFrame.s
    BY <1>1, <1>2 DEF CallOK
  <2>3. PICK f \in Frame : f = [TopFrame EXCEPT !.stage = "sqlite"]
    BY <1>2, Restaged DEF FrameStages
  <2>4. /\ f.stage = "sqlite" /\ f.n = TopFrame.n /\ f.op = "prepare" /\ f.h = h /\ f.s = s
        /\ f.result = TopFrame.result /\ f.guard = TopFrame.guard /\ f.met = TopFrame.met
        /\ f.interrupted = TopFrame.interrupted
    BY <1>1, <1>2, <2>1, <2>2, <2>3, RestagedFields DEF CallOK
  <2> DEFINE r == [fresh_statement EXCEPT !.made = TRUE, !.db = handles[h].db, !.owner = h]
  <2>5. /\ frames' = [frames EXCEPT ![Len(frames)] = f] /\ handles[h].db # "null"
        /\ handles' = [handles EXCEPT ![h] = begin_wait(h)]
        /\ stmts' = [stmts EXCEPT ![s] = r]
    BY <1>4, <2>1, <2>2, <2>3 DEF prepare_statement, Goes, checked_handle
  <2>6. HandlesSteady /\ WaitFresh(HomeOf(h)) /\ handles[h].db = HomeOf(h) /\ handles[h].made
    BY <1>1, <1>2, <2>1, <2>4, <2>5, FreshWait DEF Lives, HandleOK, CallOK
  <2>7. /\ r \in StatementRecord /\ r.made = TRUE /\ r.live = FALSE /\ r.db = HomeOf(h) /\ r.owner = h
        /\ r.held = FALSE /\ r.gone = FALSE /\ r.guard = 0
    <3>1. handles[h].db \in Conns \cup {"null"}
      BY <2>6 DEF HomeOf, Conns
    <3>2. PICK d \in Conns \cup {"null"} : d = handles[h].db
      BY <3>1
    <3>3. r = Prepared(d, h)
      BY <3>2 DEF Prepared
    <3> HIDE DEF r
    <3>4. /\ r \in StatementRecord /\ r.made = TRUE /\ r.live = FALSE /\ r.db = d /\ r.owner = h
          /\ r.held = FALSE /\ r.gone = FALSE /\ r.guard = 0
      BY <3>3, FreshStatement
    <3> QED
      BY <2>6, <3>2, <3>4
  <2> HIDE DEF r
  <2>8. /\ stmts' \in [Stmts -> StatementRecord] /\ stmts'[s] = r
        /\ \A t \in Stmts : t # s => stmts'[t] = stmts[t]
    BY <1>2, <2>5, <2>7 DEF SqlTypes
  <2>9. CallOK(f)'
    <3>1. f.met < 0 /\ (f.result => f.guard \in 1..sqlCalls') /\ (~f.result => f.guard = 0) /\ ~f.interrupted
      BY <1>1, <1>2, <2>4 DEF CallOK
    <3>2. f.n \in 1..sqlCalls' /\ handles'[h].made
      BY <1>1, <1>2, <2>4, <2>6 DEF CallOK, HandlesSteady
    <3> QED
      BY <2>4, <3>1, <3>2 DEF CallOK
  <2>10. InSqlite(f)'
    <3>1. f.met \in Int /\ f.met < 0 /\ ~f.interrupted /\ f.interrupted \in BOOLEAN
      BY <1>1, <1>2, <2>4 DEF CallOK, Frame
    <3>2. ConnOf(f)' = HomeOf(h) /\ handles'[f.h].db # "null"
      BY <2>4, <2>5, <2>6 DEF ConnOf, HandlesSteady
    <3>3. ~(f.met >= 0) /\ f.interrupted = FALSE
      BY <3>1
    <3> QED
      BY <2>4, <2>6, <2>7, <2>8, <3>2, <3>3 DEF InSqlite, WaitFresh
  <2>11. Lives'
    <3>1. \A k \in Handles : HandleOK(k)'
      BY <1>1, <1>2, <2>6 DEF Lives, HandleOK, HandlesSteady, HomeOf
    <3>2. ASSUME NEW t \in Stmts PROVE StatementOK(t)'
      <4>1. CASE t = s
        BY <2>6, <2>7, <2>8, <4>1 DEF StatementOK, HandlesSteady, HomeOf
      <4>2. CASE t # s
        <5>1. StatementOK(t) /\ stmts[t] \in StatementRecord /\ stmts'[t] = stmts[t] /\ conn' = conn
          BY <1>1, <1>2, <2>8, <4>2 DEF Lives, SqlTypes
        <5> QED
          BY <2>6, <5>1 DEF StatementOK, HandlesSteady, HomeOf, StatementRecord
      <4> QED
        BY <4>1, <4>2
    <3>3. \A c \in Conns : HandlerOK(c)'
      BY <1>1, <1>2, <2>6 DEF Lives, HandlerOK, HandlesSteady, Handles
    <3> QED
      BY <1>1, <1>2, <3>1, <3>2, <3>3 DEF Lives
  <2>12. \A t \in Stmts : f.guard # 0 => stmts[t].guard # f.guard
    BY <1>1, <2>4, GuardItsOwn
  <2>13. now' \in Nat /\ gaveUp' \in [met : Int, at : Int, budget : Int] /\ gaveUp'.at - gaveUp'.met = gaveUp'.budget
    BY <1>1, <1>2, GaveUpWhole DEF SqlTypes
  <2>14. \A t \in Stmts : stmts'[t].guard \in {stmts[t].guard, 0}
    BY <2>7, <2>8
  <2>15. \A t \in Stmts : stmts[t].made => stmts'[t].made
    BY <2>7, <2>8
  <2> QED
    BY <1>1, <2>4, <2>5, <2>6, <2>8, <2>9, <2>10, <2>11, <2>12, <2>13, <2>14, <2>15, CallGoesOn, ZenonT(30) DEF HandlesSteady
<1> QED
  BY <1>3, <1>4

(* What SQLite's own call answers, and whether a signal ended its wait.    *)
LEMMA TellsTrue ==
  ASSUME SqlInv, frames # << >>, TopFrame.stage \in {"sqlite", "busy"},
         NEW k \in Handles, ConnOf(TopFrame) = HomeOf(k)
  PROVE  (TopFrame.stage = "busy" /\ handles[k].cancelled) = TopFrame.interrupted
<1>1. TopFrame \in Frame /\ CallOK(TopFrame) /\ InSqlite(TopFrame) /\ Lives /\ handles[k] \in HandleRecord
  BY TopIs DEF SqlInv, SqlTypes
<1>2. TopFrame.interrupted \in BOOLEAN /\ handles[k].cancelled \in BOOLEAN
  BY <1>1 DEF Frame, HandleRecord
<1>3. CASE TopFrame.stage = "sqlite"
  BY <1>1, <1>2, <1>3 DEF CallOK
<1>4. CASE TopFrame.stage = "busy"
  <2>1. handler[HomeOf(k)] # "none" /\ handles[HomeOf(k)].cancelled = TopFrame.interrupted
    BY <1>1, <1>4 DEF InSqlite
  <2>2. HomeOf(k) \in Conns
    BY DEF HomeOf, Conns
  <2>3. HomeOf(k) \in Own
    BY <1>1, <2>1, <2>2 DEF Lives, HandlerOK
  <2>4. HomeOf(k) = k
    BY <2>3, SqliteAssumption DEF HomeOf
  <2> QED
    BY <1>2, <1>4, <2>1, <2>4
<1> QED
  BY <1>3, <1>4

LEMMA CallFails ==
  ASSUME SqlInv, frames # << >>, TopFrame.stage # "telling",
         Failed(TopFrame, TopFrame.interrupted), UNCHANGED <<conn, handler, handles, sqlCalls, now, gaveUp>>,
         stmts' \in [Stmts -> StatementRecord], \A t \in Stmts : stmts[t].made => stmts'[t].made, Lives',
         \A t \in Stmts : stmts'[t].guard = stmts[t].guard \/ (stmts'[t].guard = 0 /\ TopFrame.result),
         TopFrame.result => \A t \in Stmts : stmts'[t].guard # TopFrame.guard
  PROVE  SqlInv'
<1>1. /\ SqlTypes /\ UnderWay /\ handles \in [Handles -> HandleRecord]
      /\ conn' = conn /\ handler' = handler /\ handles' = handles /\ sqlCalls' = sqlCalls /\ now' = now /\ gaveUp' = gaveUp
  BY DEF SqlInv, SqlTypes
<1>2. TopFrame \in Frame /\ CallOK(TopFrame) /\ TopFrame.result \in BOOLEAN
  BY <1>1, TopIs DEF SqlInv, Frame
<1>3. CASE TopFrame.result = FALSE
  <2>1. frames' = Pop /\ msg' = msg
    BY <1>3 DEF Failed
  <2>2. GuardsStay
    BY <1>3 DEF GuardsStay
  <2> QED
    BY <1>1, <1>3, <2>1, <2>2, CallEnds
<1>4. CASE TopFrame.result = TRUE
  <2>1. /\ frames' = [frames EXCEPT ![Len(frames)] = [TopFrame EXCEPT !.stage = "telling"]]
        /\ msg' = [msg EXCEPT ![TopFrame.guard] = capture(TopFrame, TopFrame.interrupted)]
    BY <1>4 DEF Failed, Goes
  <2>2. PICK f \in Frame : f = [TopFrame EXCEPT !.stage = "telling"]
    BY <1>2, Restaged DEF FrameStages
  <2>3. frames' \in Seq(Frame) /\ Len(frames) \in 1..2 /\ Len(frames') = Len(frames)
    BY <1>1, <2>1, <2>2, Gone
  <2>4. capture(TopFrame, TopFrame.interrupted) \in [call : Nat, cancelled : BOOLEAN]
    BY <1>2 DEF Frame, capture
  <2>5. msg' \in [1..MaxSqlCalls -> [call : Nat, cancelled : BOOLEAN]]
    BY <1>1, <2>1, <2>4 DEF SqlTypes
  <2>6. Len(frames') <= 2
    <3>1. PICK n \in 1..2 : n = Len(frames')
      BY <2>3
    <3>2. n <= 2
      OBVIOUS
    <3> QED
      BY <3>1, <3>2
  <2>7. SqlTypes'
    BY <1>1, <2>3, <2>5, <2>6 DEF SqlTypes
  <2>8. Grows
    BY <1>1 DEF Grows, SqlTypes
  <2>9. UnderWay' /\ GuardsApart' /\ OutcomeItsOwn'
    BY <1>1, <1>4, <2>1, <2>7, <2>8, Tells
  <2> QED
    BY <2>7, <2>9 DEF SqlInv
<1> QED
  BY <1>2, <1>3, <1>4

LEMMA ExecutedStep ==
  ASSUME SqlInv, NEW ok \in BOOLEAN, Executed(ok)
  PROVE  SqlInv'
<1>1. /\ frames # << >> /\ TopFrame.op \in {"exec", "prepare"} /\ TopFrame.stage \in {"sqlite", "busy"}
      /\ UNCHANGED <<conn, handler, handles, sqlCalls, now, gaveUp>>
      /\ stmts' = IF TopFrame.op = "prepare"
                  THEN [stmts EXCEPT ![TopFrame.s].live = ok, ![TopFrame.s].held = ok] ELSE stmts
  BY DEF Executed
<1>2. /\ TopFrame \in Frame /\ CallOK(TopFrame) /\ InSqlite(TopFrame) /\ SqlTypes /\ Lives
      /\ handles \in [Handles -> HandleRecord] /\ stmts \in [Stmts -> StatementRecord]
  BY <1>1, TopIs DEF SqlInv, SqlTypes
<1>3. PICK h \in Handles : h = TopFrame.h
  BY <1>1, <1>2 DEF CallOK
<1>4. handles[h].made /\ handles[h].db # "null" /\ HandleOK(h)
  BY <1>1, <1>2, <1>3 DEF CallOK, InSqlite, Lives
<1>5. handles[h].db = HomeOf(h) /\ ~handles[h].gone /\ conn[HomeOf(h)] = "open"
  <2>1. handles[h].gone \in BOOLEAN
    BY <1>2 DEF HandleRecord
  <2> QED
    BY <1>2, <1>4, <2>1 DEF HandleOK, HomeOf, Lives
<1>6. /\ stmts' \in [Stmts -> StatementRecord] /\ GuardsStay /\ Lives'
      /\ \A t \in Stmts : stmts[t].made => stmts'[t].made
  <2>1. CASE TopFrame.op = "exec"
    <3>1. stmts' = stmts
      BY <1>1, <2>1
    <3> QED
      BY <1>1, <1>2, <3>1, Steady, SteadyStatements, LivesStay
  <2>2. CASE TopFrame.op = "prepare"
    <3>1. PICK s \in Stmts : s = TopFrame.s
      BY <1>2, <2>2 DEF CallOK
    <3>2. stmts[s].made /\ stmts[s].owner = h /\ ~stmts[s].gone /\ StatementOK(s)
      BY <1>1, <1>2, <1>3, <2>2, <3>1 DEF InSqlite, Lives
    <3> DEFINE r == [stmts[s] EXCEPT !.live = ok, !.held = ok]
    <3>3. stmts' = [stmts EXCEPT ![s] = r]
      BY <1>1, <1>2, <2>2, <3>1 DEF StatementRecord
    <3>4. /\ r \in StatementRecord /\ r.made = stmts[s].made /\ r.live = ok /\ r.db = stmts[s].db
          /\ r.owner = h /\ r.gone = stmts[s].gone /\ r.guard = stmts[s].guard
      BY <1>2, <3>2 DEF StatementRecord
    <3> HIDE DEF r
    <3>5. stmts' \in [Stmts -> StatementRecord] /\ stmts'[s] = r /\ \A t \in Stmts : t # s => stmts'[t] = stmts[t]
      BY <1>2, <3>3, <3>4
    <3>6. ASSUME NEW t \in Stmts PROVE StatementOK(t)'
      <4>1. CASE t = s
        BY <1>1, <1>4, <1>5, <3>2, <3>4, <3>5, <4>1 DEF StatementOK, HomeOf
      <4>2. CASE t # s
        <5>1. StatementOK(t) /\ stmts'[t] = stmts[t] /\ conn' = conn /\ handles' = handles
          BY <1>1, <1>2, <3>5, <4>2 DEF Lives
        <5> QED
          BY <5>1 DEF StatementOK, HomeOf
      <4> QED
        BY <4>1, <4>2
    <3>7. Lives'
      BY <1>1, <1>2, <3>6 DEF Lives, HandleOK, HandlerOK
    <3> QED
      BY <3>2, <3>4, <3>5, <3>7 DEF GuardsStay
  <2> QED
    BY <1>1, <2>1, <2>2
<1>7. CASE ok
  <2>1. frames' = Pop /\ msg' = msg
    BY <1>7 DEF Executed
  <2>2. TopFrame.stage # "telling"
    BY <1>1
  <2> QED
    BY <1>1, <1>2, <1>6, <2>1, <2>2, CallEnds
<1>8. CASE ~ok
  <2>1. Failed(TopFrame, TopFrame.stage = "busy" /\ handles[TopFrame.h].cancelled)
    BY <1>8 DEF Executed
  <2>2. ConnOf(TopFrame) = HomeOf(h)
    BY <1>1, <1>2, <1>3, <1>5 DEF ConnOf, CallOK
  <2>3. (TopFrame.stage = "busy" /\ handles[h].cancelled) = TopFrame.interrupted
    BY <1>1, <2>2, TellsTrue
  <2>4. Failed(TopFrame, TopFrame.interrupted)
    BY <1>3, <2>1, <2>3
  <2>5. TopFrame.result => \A t \in Stmts : stmts'[t].guard # TopFrame.guard
    <3>1. TopFrame.result => TopFrame.guard # 0
      BY <1>2 DEF CallOK, SqlTypes
    <3>2. Len(frames) \in 1..2 /\ TopFrame = frames[Len(frames)] /\ GuardsApart
      BY <1>1, TopIs DEF SqlInv
    <3>3. Len(frames) \in 1..Len(frames)
      BY <3>2
    <3> QED
      BY <1>1, <1>6, <3>1, <3>2, <3>3 DEF GuardsApart, GuardsStay
  <2>6. TopFrame.stage # "telling"
    BY <1>1
  <2> QED
    BY <1>1, <1>6, <2>4, <2>5, <2>6, CallFails DEF GuardsStay
<1> QED
  BY <1>7, <1>8

(* A statement's guard is kept across rows, and taken from it as a failure *)
(* is told.                                                                *)
LEMMA StatementKeeps ==
  ASSUME SqlInv, NEW s \in Stmts, NEW g \in Nat, NEW at \in {"start", "row", "done", "bad"},
         stmts' = [stmts EXCEPT ![s] = [stmts[s] EXCEPT !.at = at, !.guard = g]]
  PROVE  StatementsSteady /\ stmts'[s].guard = g /\ \A t \in Stmts : t # s => stmts'[t] = stmts[t]
<1>1. stmts \in [Stmts -> StatementRecord] /\ stmts[s] \in StatementRecord
  BY DEF SqlInv, SqlTypes
<1> DEFINE r == [stmts[s] EXCEPT !.at = at, !.guard = g]
<1>2. /\ r \in StatementRecord /\ r.made = stmts[s].made /\ r.live = stmts[s].live /\ r.db = stmts[s].db
      /\ r.owner = stmts[s].owner /\ r.held = stmts[s].held /\ r.gone = stmts[s].gone /\ r.guard = g
  BY <1>1 DEF StatementRecord
<1>3. stmts' = [stmts EXCEPT ![s] = r]
  OBVIOUS
<1> HIDE DEF r
<1> QED
  BY <1>1, <1>2, <1>3 DEF StatementsSteady

LEMMA StepOver ==
  ASSUME SqlInv, NEW ended \in {"row", "done", "bad"}, step_over(ended)
  PROVE  SqlInv'
<1>1. /\ frames # << >> /\ TopFrame.op = "step" /\ TopFrame.stage \in {"sqlite", "busy"}
      /\ statement_stepped(TopFrame, ended) /\ UNCHANGED <<conn, handler, handles, sqlCalls, now, gaveUp>>
  BY DEF step_over
<1>2. /\ TopFrame \in Frame /\ CallOK(TopFrame) /\ InSqlite(TopFrame) /\ SqlTypes /\ Lives
      /\ handles \in [Handles -> HandleRecord] /\ stmts \in [Stmts -> StatementRecord]
  BY <1>1, TopIs DEF SqlInv, SqlTypes
<1>3. PICK s \in Stmts : s = TopFrame.s
  BY <1>1, <1>2 DEF CallOK
<1>4. stmts[s] \in StatementRecord /\ stmts[s].live /\ StatementOK(s) /\ stmts[s].made
  BY <1>1, <1>2, <1>3 DEF InSqlite, Lives, CallOK
<1>5. HandlesSteady /\ TopFrame.stage # "telling"
  BY <1>1, <1>2, Steady
<1>6. CASE ended \in {"row", "done"}
  <2>1. frames' = Pop /\ msg' = msg /\ stmts' = [stmts EXCEPT ![s].at = ended]
    BY <1>1, <1>3, <1>6 DEF statement_stepped
  <2>2. PICK g \in Nat : g = stmts[s].guard
    BY <1>4 DEF StatementRecord
  <2>3. stmts' = [stmts EXCEPT ![s] = [stmts[s] EXCEPT !.at = ended, !.guard = g]]
    BY <1>2, <1>4, <2>1, <2>2 DEF StatementRecord
  <2>4. ended \in {"start", "row", "done", "bad"}
    OBVIOUS
  <2>5. StatementsSteady /\ stmts'[s].guard = g /\ \A t \in Stmts : t # s => stmts'[t] = stmts[t]
    BY <2>3, <2>4, StatementKeeps
  <2>6. GuardsStay
    BY <2>2, <2>5 DEF GuardsStay
  <2> QED
    BY <1>1, <1>5, <2>1, <2>5, <2>6, CallEndsSteady
<1>7. CASE ended = "bad"
  <2>1. /\ stmts' = [stmts EXCEPT ![s].at = "bad", ![s].guard = IF TopFrame.result THEN 0 ELSE @]
        /\ Failed(TopFrame, TopFrame.stage = "busy" /\ handles[stmts[s].owner].cancelled)
    BY <1>1, <1>3, <1>7 DEF statement_stepped
  <2>2. PICK g \in Nat : g = IF TopFrame.result THEN 0 ELSE stmts[s].guard
    BY <1>4 DEF StatementRecord
  <2>3. stmts' = [stmts EXCEPT ![s] = [stmts[s] EXCEPT !.at = "bad", !.guard = g]]
    BY <1>2, <1>4, <2>1, <2>2 DEF StatementRecord
  <2>4. StatementsSteady /\ stmts'[s].guard = g /\ \A t \in Stmts : t # s => stmts'[t] = stmts[t]
    BY <2>3, StatementKeeps
  <2>5. Lives'
    BY <1>1, <1>5, <2>4, LivesStay
  <2>6. PICK k \in Handles : k = stmts[s].owner
    BY <1>4 DEF StatementOK
  <2>7. ConnOf(TopFrame) = HomeOf(k)
    <3>1. s # "none"
      BY SqliteAssumption
    <3> QED
      BY <1>1, <1>3, <1>4, <2>6, <3>1 DEF ConnOf, StatementOK
  <2>8. (TopFrame.stage = "busy" /\ handles[k].cancelled) = TopFrame.interrupted
    BY <1>1, <2>7, TellsTrue
  <2>9. Failed(TopFrame, TopFrame.interrupted)
    BY <2>1, <2>6, <2>8
  <2>10. TopFrame.result => \A t \in Stmts : stmts'[t].guard # TopFrame.guard
    <3>1. TopFrame.result => TopFrame.guard # 0
      BY <1>2 DEF CallOK, SqlTypes
    <3>2. Len(frames) \in 1..2 /\ TopFrame = frames[Len(frames)] /\ GuardsApart
      BY <1>1, TopIs DEF SqlInv
    <3>3. Len(frames) \in 1..Len(frames)
      BY <3>2
    <3>4. \A t \in Stmts : t # s /\ TopFrame.guard # 0 => stmts[t].guard # TopFrame.guard
      BY <1>3, <3>2, <3>3 DEF GuardsApart
    <3> QED
      BY <2>2, <2>4, <3>1, <3>4
  <2>11. \A t \in Stmts : stmts'[t].guard = stmts[t].guard \/ (stmts'[t].guard = 0 /\ TopFrame.result)
    BY <2>2, <2>4
  <2> QED
    BY <1>1, <1>5, <2>4, <2>5, <2>9, <2>10, <2>11, CallFails DEF StatementsSteady
<1> QED
  BY <1>6, <1>7

LEMMA StepGuarded ==
  ASSUME SqlInv, step_guarded
  PROVE  SqlInv'
<1>1. /\ frames # << >> /\ TopFrame.stage = "guarded" /\ TopFrame.op = "step"
      /\ stmts' = [stmts EXCEPT ![TopFrame.s].guard = TopFrame.guard]
      /\ UNCHANGED <<conn, handler, msg, sqlCalls, now, gaveUp>>
  BY DEF step_guarded, AtStage
<1>2. /\ TopFrame \in Frame /\ CallOK(TopFrame) /\ SqlTypes /\ Lives /\ UnderWay /\ GuardsApart /\ OutcomeItsOwn
      /\ handles \in [Handles -> HandleRecord] /\ stmts \in [Stmts -> StatementRecord]
  BY <1>1, TopIs DEF SqlInv, SqlTypes
<1>3. PICK s \in Stmts : s = TopFrame.s
  BY <1>1, <1>2 DEF CallOK
<1>4. stmts[s] \in StatementRecord /\ stmts[s].made /\ StatementOK(s)
  BY <1>1, <1>2, <1>3 DEF Lives, CallOK
<1>5. PICK g \in Nat : g = TopFrame.guard
  BY <1>2 DEF Frame
<1>6. StatementsSteady /\ stmts'[s].guard = g /\ \A t \in Stmts : t # s => stmts'[t] = stmts[t]
  <2>1. PICK at \in {"start", "row", "done", "bad"} : at = stmts[s].at
    BY <1>4 DEF StatementRecord
  <2>2. stmts' = [stmts EXCEPT ![s] = [stmts[s] EXCEPT !.at = at, !.guard = g]]
    BY <1>1, <1>2, <1>3, <1>4, <1>5, <2>1 DEF StatementRecord
  <2> QED
    BY <2>2, StatementKeeps
<1>7. g # 0 => \A t \in Stmts : stmts[t].guard # g
  BY <1>1, <1>5, GuardItsOwn
<1>8. CASE checked_statement(s)
  <2>1. PICK f \in Frame : f = [TopFrame EXCEPT !.stage = "sqlite"]
    BY <1>2, Restaged DEF FrameStages
  <2>2. /\ f.stage = "sqlite" /\ f.n = TopFrame.n /\ f.op = "step" /\ f.s = s
        /\ f.result = TopFrame.result /\ f.guard = g /\ f.met = TopFrame.met
        /\ f.interrupted = TopFrame.interrupted
    BY <1>1, <1>2, <1>3, <1>5, <2>1, RestagedFields
  <2>3. /\ frames' = [frames EXCEPT ![Len(frames)] = f] /\ stmts[s].live
        /\ handles' = [handles EXCEPT ![stmts[s].owner] = begin_wait(stmts[s].owner)]
    BY <1>3, <1>8, <2>1 DEF step_guarded, Goes, checked_statement
  <2>4. HandlesSteady /\ WaitFresh(stmts[s].db)
    BY <1>1, <2>3, StatementWait
  <2>5. Lives'
    BY <1>1, <1>6, <2>4, LivesStay
  <2>6. CallOK(f)'
    <3>1. f.met < 0 /\ (f.result => f.guard \in 1..sqlCalls') /\ (~f.result => f.guard = 0) /\ ~f.interrupted
          /\ f.n \in 1..sqlCalls'
      BY <1>1, <1>2, <1>5, <2>2 DEF CallOK
    <3> QED
      BY <1>4, <1>6, <2>2, <3>1 DEF CallOK, StatementsSteady
  <2>7. InSqlite(f)'
    <3>1. f.met \in Int /\ f.met < 0 /\ ~f.interrupted /\ f.interrupted \in BOOLEAN /\ s # "none"
      BY <1>1, <1>2, <2>2, SqliteAssumption DEF CallOK, Frame
    <3>2. ConnOf(f)' = stmts[s].db /\ stmts'[s].live
      BY <1>6, <2>2, <2>3, <3>1 DEF ConnOf, StatementsSteady
    <3>3. ~(f.met >= 0) /\ f.interrupted = FALSE
      BY <3>1
    <3> QED
      BY <2>2, <2>4, <3>2, <3>3 DEF InSqlite, WaitFresh
  <2>8. now' \in Nat /\ gaveUp' \in [met : Int, at : Int, budget : Int] /\ gaveUp'.at - gaveUp'.met = gaveUp'.budget
    BY <1>1, <1>2, GaveUpWhole DEF SqlTypes
  <2>9. TopFrame.stage # "telling" /\ f.stage # "telling" /\ f.guard = TopFrame.guard
    BY <1>1, <1>5, <2>2
  <2>10. \A t \in Stmts : \/ stmts'[t].guard \in {stmts[t].guard, 0}
                          \/ t = f.s /\ stmts'[t].guard = f.guard /\ f.guard # 0
                             /\ TopFrame.stage = "guarded" /\ f.op = "step" /\ f.stage = "sqlite"
    BY <1>1, <1>6, <2>2
  <2>11. \A t \in Stmts : stmts[t].guard = f.guard /\ f.guard # 0 =>
             f.op = "step" /\ f.s = t /\ f.stage \in {"sqlite", "busy"}
    BY <1>7, <2>2
  <2>12. /\ handles' \in [Handles -> HandleRecord] /\ stmts' \in [Stmts -> StatementRecord]
         /\ \A k \in Handles : handles[k].made => handles'[k].made
         /\ \A t \in Stmts : stmts[t].made => stmts'[t].made
    BY <1>6, <2>4 DEF HandlesSteady, StatementsSteady
  <2>13. UNCHANGED <<conn, handler, msg, sqlCalls>>
    BY <1>1
  <2> QED
    BY <1>1, <2>3, <2>5, <2>6, <2>7, <2>8, <2>9, <2>10, <2>11, <2>12, <2>13, CallGoesOn
<1>9. CASE ~checked_statement(s)
  <2>1. frames' = Pop /\ handles' = handles
    BY <1>3, <1>9 DEF step_guarded
  <2>2. HandlesSteady
    BY <1>2, <2>1, Steady
  <2>3. Lives'
    BY <1>1, <1>6, <2>2, LivesStay
  <2>4. /\ frames' \in Seq(Frame) /\ Len(frames) \in 1..2 /\ Len(frames') = Len(frames) - 1
        /\ TopFrame = frames[Len(frames)]
        /\ \A i \in 1..Len(frames') : /\ i \in 1..Len(frames) /\ i # Len(frames)
                                      /\ frames'[i] = frames[i] /\ frames[i].stage \in Allocating
    BY <1>1, <1>2, <2>1, Popped
  <2>5. Len(frames) \in 1..Len(frames) /\ Len(frames') # 2
    BY <2>4
  <2>6. SqlTypes'
    <3>1. PICK n \in 1..2 : n = Len(frames)
      BY <2>4
    <3>2. Len(frames') = n - 1
      BY <2>4, <3>1
    <3>3. n - 1 <= 2
      OBVIOUS
    <3>4. Len(frames') <= 2
      BY <3>2, <3>3
    <3> QED
      BY <1>1, <1>2, <1>6, <2>1, <2>4, <3>4 DEF SqlTypes, StatementsSteady
  <2>7. UnderWay'
    <3>1. ASSUME NEW i \in 1..Len(frames') PROVE CallOK(frames[i])' /\ InSqlite(frames[i])'
      <4>1. /\ CallOK(frames[i]) /\ frames'[i] = frames[i] /\ frames[i].stage \notin {"sqlite", "busy"}
        BY <1>2, <2>4, <3>1 DEF UnderWay, Allocating
      <4>2. CallOK(frames[i])'
        BY <1>1, <1>6, <2>1, <4>1 DEF CallOK, StatementsSteady
      <4>3. InSqlite(frames[i])'
        BY <4>1 DEF InSqlite
      <4> QED
        BY <4>2, <4>3
    <3> QED
      BY <2>5, <3>1 DEF UnderWay
  <2>8. \A i \in 1..Len(frames') : g # 0 => frames'[i].guard # g
    BY <1>2, <1>5, <2>4, <2>5 DEF GuardsApart
  <2>9. GuardsApart'
    <3>1. g \in 0..sqlCalls /\ sqlCalls' = sqlCalls
      <4>1. TopFrame.result \in BOOLEAN /\ sqlCalls \in Nat
        BY <1>2 DEF Frame, SqlTypes
      <4> QED
        BY <1>1, <1>2, <1>5, <4>1 DEF CallOK
    <3>2. \A t \in Stmts : stmts'[t].guard \in 0..sqlCalls'
      BY <1>2, <1>6, <3>1 DEF GuardsApart
    <3>3. \A t, u \in Stmts : t # u /\ stmts'[t].guard = stmts'[u].guard => stmts'[t].guard = 0
      BY <1>2, <1>6, <1>7 DEF GuardsApart
    <3>4. ASSUME NEW i \in 1..Len(frames'), NEW t \in Stmts, frames'[i].guard = stmts'[t].guard, frames'[i].guard # 0
          PROVE  frames'[i].op = "step" /\ frames'[i].s = t /\ frames'[i].stage \in {"sqlite", "busy"}
      <4>1. t # s
        BY <1>6, <2>8, <3>4
      <4>2. i \in 1..Len(frames) /\ frames'[i] = frames[i] /\ stmts'[t] = stmts[t]
        BY <1>6, <2>4, <4>1
      <4> QED
        BY <1>2, <3>4, <4>2 DEF GuardsApart
    <3>5. \A i, j \in 1..Len(frames') : i # j /\ frames'[i].guard = frames'[j].guard => frames'[i].guard = 0
      BY <1>2, <2>4 DEF GuardsApart
    <3> QED
      BY <3>2, <3>3, <3>4, <3>5 DEF GuardsApart
  <2>10. OutcomeItsOwn'
    <3>1. msg' = msg /\ gaveUp' = gaveUp
      BY <1>1
    <3>2. ASSUME NEW m \in DOMAIN msg', msg'[m] # NoMessage
          PROVE  /\ \E i \in 1..Len(frames') : frames'[i].stage = "telling" /\ frames'[i].guard = m
                 /\ \A t \in Stmts : stmts'[t].guard # m
      <4>1. PICK i \in 1..Len(frames) : frames[i].stage = "telling" /\ frames[i].guard = m
        BY <1>2, <3>1, <3>2 DEF OutcomeItsOwn
      <4>2. i # Len(frames)
        BY <1>1, <2>4, <4>1
      <4>3. i \in 1..Len(frames')
        BY <2>4, <4>2
      <4>4. frames'[i].stage = "telling" /\ frames'[i].guard = m
        BY <2>4, <4>1, <4>3
      <4>5. m # 0 /\ \A t \in Stmts : stmts[t].guard # m
        BY <1>2, <3>1, <3>2 DEF OutcomeItsOwn, SqlTypes
      <4>6. m # g
        BY <2>8, <4>3, <4>4, <4>5
      <4> QED
        BY <1>6, <4>3, <4>4, <4>5, <4>6
    <3>3. \A i \in 1..Len(frames') : frames'[i].stage = "telling" =>
            msg'[frames'[i].guard] = [call |-> frames'[i].n, cancelled |-> frames'[i].interrupted]
      BY <1>2, <2>4, <3>1, SMTT(30) DEF OutcomeItsOwn
    <3> QED
      BY <1>2, <3>1, <3>2, <3>3 DEF OutcomeItsOwn
  <2> QED
    BY <2>3, <2>6, <2>7, <2>9, <2>10 DEF SqlInv
<1> QED
  BY <1>8, <1>9

(* Binding goes on to the next value that waits for room, or ends.         *)
LEMMA ListLength ==
  ASSUME NEW v \in ValueLists
  PROVE  Len(v) \in 0..2
<1>1. PICK k \in 0..2 : v \in [1..k -> value_kind]
  BY DEF ValueLists
<1>2. v \in Seq(value_kind)
  BY <1>1
<1>3. DOMAIN v = 1..Len(v) /\ DOMAIN v = 1..k /\ Len(v) \in Nat
  BY <1>1, <1>2, LenProperties
<1> DEFINE n == Len(v)
<1> HIDE DEF n
<1>4. n \in Nat /\ 1..n = 1..k
  BY <1>3 DEF n
<1>5. n = k
  BY <1>1, <1>4
<1> QED
  BY <1>1, <1>5 DEF n

LEMMA StopsInList ==
  ASSUME NEW f \in Frame, NEW i \in 1..3, StopAt(f, i) <= Len(f.values)
  PROVE  StopAt(f, i) \in 0..2
<1> DEFINE n == Len(f.values)
           S == Stops(f, i)
<1>1. n \in 0..2
  BY ListLength DEF Frame
<1>2. S \subseteq i..n
  BY DEF Stops
<1> HIDE DEF n
<1>3. S \subseteq 1..2
  BY <1>1, <1>2
<1>4. CASE S = {}
  <2>1. StopAt(f, i) = n + 1
    BY <1>4 DEF StopAt, n
  <2>2. n + 1 <= n
    BY <2>1 DEF n
  <2> QED
    BY <1>1, <2>2
<1>5. CASE S # {}
  <2>1. \E j \in S : \A k \in S : j <= k
    <3>1. CASE 1 \in S
      BY <1>3, <3>1
    <3>2. CASE 1 \notin S
      <4>1. S = {2}
        BY <1>3, <1>5, <3>2
      <4> QED
        BY <4>1
    <3> QED
      BY <3>1, <3>2
  <2>2. StopAt(f, i) = CHOOSE j \in S : \A k \in S : j <= k
    BY <1>5 DEF StopAt
  <2> HIDE DEF S
  <2>3. PICK m \in S : StopAt(f, i) = m
    BY <2>1, <2>2
  <2>4. m \in 1..2
    BY <1>3
  <2> QED
    BY <2>3, <2>4
<1> QED
  BY <1>4, <1>5

LEMMA OnwardStep ==
  ASSUME SqlInv, frames # << >>, TopFrame.stage \in {"guarded", "binding"}, TopFrame.op \in {"list", "values"},
         NEW r \in StatementRecord, NEW i \in 1..3, Onward(TopFrame, r, i),
         LET q == stmts[TopFrame.s]
         IN  /\ r.made = q.made /\ r.live = q.live /\ r.db = q.db /\ r.owner = q.owner
             /\ r.held = q.held /\ r.gone = q.gone /\ r.guard = q.guard,
         UNCHANGED <<conn, handler, handles, sqlCalls, now, gaveUp>>
  PROVE  SqlInv'
<1>1. /\ TopFrame \in Frame /\ CallOK(TopFrame) /\ SqlTypes
      /\ handles \in [Handles -> HandleRecord] /\ stmts \in [Stmts -> StatementRecord]
  BY TopIs DEF SqlInv, SqlTypes
<1>2. PICK s \in Stmts : s = TopFrame.s
  BY <1>1 DEF CallOK
<1> DEFINE stop == StopAt(TopFrame, i)
           b == [j \in 1..2 |-> IF j \in i..(stop - 1) /\ r.live THEN TopFrame.n ELSE r.bound[j]]
           q == [r EXCEPT !.bound = b]
<1>3. b \in [1..2 -> Nat]
  <2>1. TopFrame.n \in Nat /\ r.bound \in [1..2 -> Nat]
    BY <1>1 DEF Frame, StatementRecord
  <2> QED
    BY <2>1
<1>4. stmts' = [stmts EXCEPT ![s] = q]
  BY <1>2 DEF Onward
<1> HIDE DEF b
<1>5. /\ q \in StatementRecord /\ q.made = r.made /\ q.live = r.live /\ q.db = r.db /\ q.owner = r.owner
      /\ q.held = r.held /\ q.gone = r.gone /\ q.guard = r.guard
  BY <1>3 DEF StatementRecord
<1> HIDE DEF q
<1>6. StatementsSteady /\ GuardsStay
  BY <1>1, <1>2, <1>4, <1>5 DEF StatementsSteady, GuardsStay
<1>7. HandlesSteady
  BY <1>1, Steady
<1>8. Lives'
  BY <1>6, <1>7, LivesStay
<1>9. TopFrame.stage # "telling" /\ TopFrame.interrupted = FALSE
  BY <1>1 DEF CallOK, Frame
<1>10. CASE frames' = Pop /\ UNCHANGED msg
  BY <1>6, <1>7, <1>9, <1>10, CallEndsSteady
<1>11. CASE /\ stop <= Len(TopFrame.values) /\ UNCHANGED msg
            /\ Goes([TopFrame EXCEPT !.stage = "binding", !.at = stop])
  <2>1. PICK at \in 0..2 : at = stop
    BY <1>1, <1>11, StopsInList
  <2> HIDE DEF stop
  <2> DEFINE f == [TopFrame EXCEPT !.stage = "binding", !.at = at]
  <2>2. /\ f \in Frame /\ f.stage = "binding" /\ f.n = TopFrame.n /\ f.op = TopFrame.op /\ f.h = TopFrame.h
        /\ f.s = TopFrame.s /\ f.result = TopFrame.result /\ f.guard = TopFrame.guard /\ f.met = TopFrame.met
        /\ f.interrupted = TopFrame.interrupted
    BY <1>1 DEF Frame, FrameStages
  <2>3. frames' = [frames EXCEPT ![Len(frames)] = f]
    BY <1>11, <2>1 DEF Goes
  <2> HIDE DEF f
  <2>4. PICK g \in Frame : g = f
    BY <2>2
  <2>5. CallOK(g)'
    BY <1>1, <2>2, <2>4 DEF CallOK
  <2>6. InSqlite(g)'
    BY <2>2, <2>4 DEF InSqlite
  <2>7. \A t \in Stmts : g.guard # 0 => stmts[t].guard # g.guard
    BY <2>2, <2>4, GuardItsOwn
  <2>8. now' \in Nat /\ gaveUp' \in [met : Int, at : Int, budget : Int] /\ gaveUp'.at - gaveUp'.met = gaveUp'.budget
    BY <1>1, GaveUpWhole DEF SqlTypes
  <2>9. /\ handles' \in [Handles -> HandleRecord] /\ stmts' \in [Stmts -> StatementRecord]
        /\ \A k \in Handles : handles[k].made => handles'[k].made
        /\ \A t \in Stmts : stmts[t].made => stmts'[t].made
        /\ \A t \in Stmts : stmts'[t].guard = stmts[t].guard
    BY <1>6, <1>7 DEF HandlesSteady, StatementsSteady, GuardsStay
  <2>10. g.stage # "telling" /\ g.guard = TopFrame.guard /\ frames' = [frames EXCEPT ![Len(frames)] = g]
    BY <2>2, <2>3, <2>4
  <2>11. UNCHANGED <<conn, handler, msg, sqlCalls>>
    BY <1>11
  <2> QED
    BY <1>8, <1>9, <2>5, <2>6, <2>7, <2>8, <2>9, <2>10, <2>11, CallGoesOn
<1>12. CASE /\ TopFrame.result /\ Goes([TopFrame EXCEPT !.stage = "telling"])
            /\ msg' = [msg EXCEPT ![TopFrame.guard] = capture(TopFrame, FALSE)]
  <2>1. Failed(TopFrame, TopFrame.interrupted)
    BY <1>9, <1>12 DEF Failed
  <2>2. TopFrame.guard # 0
    BY <1>1, <1>12 DEF CallOK, SqlTypes
  <2>3. \A t \in Stmts : stmts'[t].guard # TopFrame.guard
    BY <1>6, <2>2, GuardItsOwn DEF GuardsStay
  <2> QED
    BY <1>6, <1>8, <1>9, <2>1, <2>3, CallFails DEF StatementsSteady, GuardsStay
<1> QED
  BY <1>10, <1>11, <1>12 DEF Onward

LEMMA ValuesGuarded ==
  ASSUME SqlInv, values_guarded
  PROVE  SqlInv'
<1>1. /\ frames # << >> /\ TopFrame.stage = "guarded" /\ TopFrame.op = "values"
      /\ UNCHANGED <<conn, handler, handles, sqlCalls, now, gaveUp>>
  BY DEF values_guarded, AtStage
<1>2. /\ TopFrame \in Frame /\ CallOK(TopFrame) /\ SqlTypes
      /\ handles \in [Handles -> HandleRecord] /\ stmts \in [Stmts -> StatementRecord]
  BY <1>1, TopIs DEF SqlInv, SqlTypes
<1>3. TopFrame.stage # "telling" /\ TopFrame.interrupted = FALSE /\ HandlesSteady
  BY <1>1, <1>2, Steady DEF CallOK, Frame
<1>4. CASE frames' = Pop /\ UNCHANGED <<stmts, msg>>
  BY <1>1, <1>2, <1>3, <1>4, SteadyStatements, CallEndsSteady
<1>5. CASE Failed(TopFrame, FALSE) /\ UNCHANGED stmts
  <2>1. StatementsSteady /\ GuardsStay
    BY <1>2, <1>5, SteadyStatements
  <2>2. Lives'
    BY <1>1, <1>3, <2>1, LivesStay
  <2>3. TopFrame.result => TopFrame.guard # 0
    BY <1>2 DEF CallOK, SqlTypes
  <2>4. TopFrame.result => \A t \in Stmts : stmts'[t].guard # TopFrame.guard
    BY <1>1, <2>1, <2>3, GuardItsOwn DEF GuardsStay
  <2>5. Failed(TopFrame, TopFrame.interrupted)
    BY <1>3, <1>5
  <2> QED
    BY <1>1, <1>3, <2>1, <2>2, <2>4, <2>5, CallFails DEF StatementsSteady, GuardsStay
<1>6. CASE Onward(TopFrame, stmts[TopFrame.s], 1)
  <2>1. PICK r \in StatementRecord : r = stmts[TopFrame.s]
    BY <1>1, <1>2 DEF CallOK
  <2>2. Onward(TopFrame, r, 1)
    BY <1>6, <2>1
  <2> QED
    BY <1>1, <2>1, <2>2, OnwardStep
<1> QED
  BY <1>4, <1>5, <1>6 DEF values_guarded

LEMMA BindArray ==
  ASSUME SqlInv, NEW ok \in BOOLEAN, bind_array(ok)
  PROVE  SqlInv'
<1>1. /\ frames # << >> /\ TopFrame.stage = "binding"
      /\ UNCHANGED <<conn, handler, handles, sqlCalls, now, gaveUp>>
  BY DEF bind_array, AtStage
<1>2. /\ TopFrame \in Frame /\ CallOK(TopFrame) /\ SqlTypes
      /\ handles \in [Handles -> HandleRecord] /\ stmts \in [Stmts -> StatementRecord]
  BY <1>1, TopIs DEF SqlInv, SqlTypes
<1>3. /\ TopFrame.stage # "telling" /\ TopFrame.interrupted = FALSE /\ HandlesSteady
      /\ TopFrame.op \in {"list", "values"} /\ TopFrame.s \in Stmts /\ TopFrame.n \in Nat /\ TopFrame.at \in 0..2
  BY <1>1, <1>2, Steady DEF CallOK, Frame
<1>4. CASE Failed(TopFrame, FALSE) /\ UNCHANGED stmts
  <2>1. StatementsSteady /\ GuardsStay
    BY <1>2, <1>4, SteadyStatements
  <2>2. Lives'
    BY <1>1, <1>3, <2>1, LivesStay
  <2>3. TopFrame.result => TopFrame.guard # 0
    BY <1>2 DEF CallOK, SqlTypes
  <2>4. TopFrame.result => \A t \in Stmts : stmts'[t].guard # TopFrame.guard
    BY <1>1, <2>1, <2>3, GuardItsOwn DEF GuardsStay
  <2>5. Failed(TopFrame, TopFrame.interrupted)
    BY <1>3, <1>4
  <2> QED
    BY <1>1, <1>3, <2>1, <2>2, <2>4, <2>5, CallFails DEF StatementsSteady, GuardsStay
<1> DEFINE q == stmts[TopFrame.s]
<1>5. ASSUME NEW r \in {q, [q EXCEPT !.bound[TopFrame.at] = TopFrame.n]}, Onward(TopFrame, r, TopFrame.at + 1)
      PROVE  SqlInv'
  <2>1. q \in StatementRecord /\ q.bound \in [1..2 -> Nat]
    BY <1>2, <1>3 DEF StatementRecord
  <2>2. [q.bound EXCEPT ![TopFrame.at] = TopFrame.n] \in [1..2 -> Nat]
    BY <1>3, <2>1
  <2>3. /\ r \in StatementRecord /\ r.made = q.made /\ r.live = q.live /\ r.db = q.db /\ r.owner = q.owner
        /\ r.held = q.held /\ r.gone = q.gone /\ r.guard = q.guard
    <3> DEFINE b == [q.bound EXCEPT ![TopFrame.at] = TopFrame.n]
    <3>1. r = q \/ r = [q EXCEPT !.bound = b]
      BY <1>5
    <3>2. b \in [1..2 -> Nat]
      BY <2>2
    <3> HIDE DEF b, q
    <3> QED
      BY <2>1, <3>1, <3>2 DEF StatementRecord
  <2>4. PICK i \in 1..3 : i = TopFrame.at + 1
    BY <1>3
  <2>5. Onward(TopFrame, r, i)
    BY <1>5, <2>4
  <2> QED
    BY <1>1, <1>3, <2>3, <2>5, OnwardStep
<1> QED
  BY <1>4, <1>5 DEF bind_array

(* A frame that has met a lock, and whose wait is over.                    *)
LEMMA LockMet ==
  ASSUME NEW f \in Frame, NEW m \in Nat, NEW g, g = [f EXCEPT !.met = m]
  PROVE  /\ g \in Frame /\ g.n = f.n /\ g.op = f.op /\ g.h = f.h /\ g.s = f.s /\ g.result = f.result
         /\ g.guard = f.guard /\ g.met = m /\ g.stage = f.stage /\ g.interrupted = f.interrupted
BY DEF Frame

Over(f, m, b) == [f EXCEPT !.met = m, !.interrupted = b, !.stage = "busy"]

LEMMA WaitOver ==
  ASSUME NEW f \in Frame, NEW m \in Nat, NEW b \in BOOLEAN
  PROVE  LET g == Over(f, m, b)
         IN  /\ g \in Frame /\ g.n = f.n /\ g.op = f.op /\ g.h = f.h /\ g.s = f.s /\ g.result = f.result
             /\ g.guard = f.guard /\ g.met = m /\ g.stage = "busy" /\ g.interrupted = b
<1> DEFINE x == [f EXCEPT !.met = m]
           y == [x EXCEPT !.interrupted = b]
           g == Over(f, m, b)
<1>1. /\ x \in Frame /\ x.n = f.n /\ x.op = f.op /\ x.h = f.h /\ x.s = f.s /\ x.result = f.result
      /\ x.guard = f.guard /\ x.met = m
  BY LockMet
<1>2. g = [y EXCEPT !.stage = "busy"]
  BY DEF Over
<1> HIDE DEF x
<1>3. /\ y \in Frame /\ y.n = f.n /\ y.op = f.op /\ y.h = f.h /\ y.s = f.s /\ y.result = f.result
      /\ y.guard = f.guard /\ y.met = m /\ y.interrupted = b
  BY <1>1 DEF Frame
<1> HIDE DEF y, g
<1>4. g \in Frame /\ g.stage = "busy"
  BY <1>2, <1>3 DEF Frame, FrameStages
<1>5. /\ g \in Frame /\ g.n = f.n /\ g.op = f.op /\ g.h = f.h /\ g.s = f.s /\ g.result = f.result
      /\ g.guard = f.guard /\ g.met = m /\ g.stage = "busy" /\ g.interrupted = b
  BY <1>2, <1>3, <1>4, RestagedFields
<1> QED
  BY <1>5 DEF g

(* A wait for a lock: the handle the handler is given is the connection's  *)
(* own, its deadline the budget after the first lock met.                  *)
LEMMA WaitBusy ==
  ASSUME SqlInv, NEW signal \in BOOLEAN, wait_busy(signal)
  PROVE  SqlInv'
<1>1. /\ frames # << >> /\ TopFrame.stage = "sqlite" /\ ConnOf(TopFrame) \in Conns
      /\ handler[ConnOf(TopFrame)] # "none" /\ TopFrame.op \in {"exec", "prepare", "step"}
      /\ UNCHANGED <<conn, handler, stmts, msg, sqlCalls>>
  BY DEF wait_busy, AtStage
<1>2. /\ TopFrame \in Frame /\ CallOK(TopFrame) /\ InSqlite(TopFrame) /\ SqlTypes /\ Lives
      /\ handles \in [Handles -> HandleRecord] /\ stmts \in [Stmts -> StatementRecord] /\ now \in Nat
  BY <1>1, TopIs DEF SqlInv, SqlTypes
<1>3. PICK c \in Conns : c = ConnOf(TopFrame)
  BY <1>1
<1>4. c \in Own /\ c \in Handles /\ handler[c] = c /\ handles[c].made /\ handles[c].busy >= 0
  BY <1>1, <1>2, <1>3 DEF Lives, HandlerOK, Handles
<1>5. /\ handles[c].deadline \in Int /\ handles[c].busy \in Int /\ handles[c].cancelled \in BOOLEAN
      /\ handles[c] \in HandleRecord /\ TopFrame.met \in Int /\ TopFrame.interrupted = FALSE
  BY <1>1, <1>2, <1>4 DEF HandleRecord, Frame, CallOK
<1> DEFINE dd == IF handles[c].deadline < 0 THEN now + handles[c].busy ELSE handles[c].deadline
           mm == IF TopFrame.met < 0 THEN now ELSE TopFrame.met
<1>6. /\ dd \in Int /\ mm \in Nat /\ dd = mm + handles[c].busy /\ now <= dd
      /\ handles[c].cancelled = FALSE
  <2>1. /\ handles[c].cancelled = TopFrame.interrupted
        /\ TopFrame.met < 0 => handles[c].deadline < 0
        /\ TopFrame.met >= 0 => handles[c].deadline = TopFrame.met + handles[c].busy /\ now <= handles[c].deadline
    BY <1>1, <1>2, <1>3 DEF InSqlite
  <2> QED
    BY <1>2, <1>4, <1>5, <2>1
<1>7. PICK d \in Int : d = dd
  BY <1>6
<1>8. PICK m \in Nat : m = mm
  BY <1>6
<1>9. /\ handles' = [handles EXCEPT ![c].deadline = d, ![c].cancelled = @ \/ signal]
      /\ IF signal
         THEN Goes([TopFrame EXCEPT !.met = m, !.interrupted = TRUE, !.stage = "busy"]) /\ UNCHANGED <<now, gaveUp>>
         ELSE IF now >= d
         THEN /\ Goes([TopFrame EXCEPT !.met = m, !.stage = "busy"])
              /\ gaveUp' = [met |-> m, at |-> now, budget |-> handles[c].busy]
              /\ UNCHANGED now
         ELSE /\ now < MaxTime /\ now' = now + 1
              /\ Goes([TopFrame EXCEPT !.met = m])
              /\ UNCHANGED gaveUp
  BY <1>3, <1>4, <1>7, <1>8 DEF wait_busy
<1>10. d = m + handles[c].busy /\ now <= d /\ d >= 0
  BY <1>4, <1>5, <1>6, <1>7, <1>8
<1> HIDE DEF dd, mm
<1> DEFINE x == [handles[c] EXCEPT !.deadline = d, !.cancelled = @ \/ signal]
<1>11. /\ x \in HandleRecord /\ x.deadline = d /\ x.cancelled = signal
       /\ x.made = handles[c].made /\ x.db = handles[c].db /\ x.borrowed = handles[c].borrowed
       /\ x.busy = handles[c].busy /\ x.held = handles[c].held /\ x.gone = handles[c].gone
  <2>1. [handles[c] EXCEPT !.deadline = d, !.cancelled = signal] = x
    BY <1>5, <1>6 DEF HandleRecord
  <2>2. x \in HandleRecord
    BY <1>5, <2>1, WaitOf
  <2> QED
    BY <1>5, <2>1, <2>2 DEF HandleRecord
<1>12. handles' = [handles EXCEPT ![c] = x]
  BY <1>2, <1>4, <1>9
<1> HIDE DEF x
<1>13. HandlesSteady /\ handles'[c].deadline = d /\ handles'[c].cancelled = signal /\ handles'[c].busy = handles[c].busy
  BY <1>2, <1>4, <1>11, <1>12 DEF HandlesSteady
<1>14. StatementsSteady
  BY <1>1, <1>2, SteadyStatements
<1>15. Lives'
  BY <1>1, <1>13, <1>14, LivesStay DEF SqlInv
<1>16. ASSUME NEW f \in Frame, frames' = [frames EXCEPT ![Len(frames)] = f],
              f.n = TopFrame.n, f.op = TopFrame.op, f.h = TopFrame.h, f.s = TopFrame.s,
              f.result = TopFrame.result, f.guard = TopFrame.guard, f.met = m,
              f.stage \in {"sqlite", "busy"}, f.interrupted = signal, f.stage = "sqlite" => ~signal /\ now' <= d,
              now' \in Nat, gaveUp' \in [met : Int, at : Int, budget : Int], gaveUp'.at - gaveUp'.met = gaveUp'.budget
       PROVE  SqlInv'
  <2>1. CallOK(f)'
    <3>1. \A k \in Handles : handles'[k].made = handles[k].made
      BY <1>13 DEF HandlesSteady
    <3>2. f.interrupted => f.stage = "busy"
      BY <1>16
    <3> QED
      BY <1>1, <1>2, <1>16, <3>1, <3>2 DEF CallOK
  <2>2. InSqlite(f)'
    <3>1. /\ \A k \in Handles : handles'[k].db = handles[k].db
          /\ stmts' = stmts /\ handler' = handler
      BY <1>1, <1>13 DEF HandlesSteady
    <3>2. /\ f.op \in {"exec", "prepare"} => f.h \in Handles /\ handles'[f.h].db # "null"
          /\ f.op = "prepare" => stmts'[f.s].made /\ stmts'[f.s].owner = f.h /\ ~stmts'[f.s].gone
          /\ f.op = "step" => stmts'[f.s].live
      BY <1>1, <1>2, <1>16, <3>1 DEF InSqlite, CallOK
    <3>3. ConnOf(f)' = c
      <4>1. c = IF TopFrame.s # "none" /\ TopFrame.op # "prepare" THEN stmts[TopFrame.s].db ELSE handles[TopFrame.h].db
        BY <1>3 DEF ConnOf
      <4>2. TopFrame.op = "step" \/ TopFrame.h \in Handles
        BY <1>1, <1>2 DEF CallOK
      <4>3. TopFrame.op = "step" => TopFrame.s # "none"
        BY <1>2, SqliteAssumption DEF CallOK
      <4>4. TopFrame.op = "exec" => TopFrame.s = "none"
        BY <1>2 DEF CallOK
      <4> QED
        BY <1>1, <1>16, <3>1, <4>1, <4>2, <4>3, <4>4 DEF ConnOf
    <3>4. handler'[c] # "none"
      BY <1>1, <1>3
    <3>5. /\ handles'[c].cancelled = f.interrupted
          /\ ~(f.met < 0)
          /\ f.stage = "sqlite" => handles'[c].deadline = f.met + handles'[c].busy /\ now' <= handles'[c].deadline
      BY <1>10, <1>13, <1>16
    <3> QED
      BY <3>2, <3>3, <3>4, <3>5 DEF InSqlite
  <2>3. \A t \in Stmts : stmts[t].guard = f.guard /\ f.guard # 0 =>
             f.op = "step" /\ f.s = t /\ f.stage \in {"sqlite", "busy"}
    <3>1. Len(frames) \in 1..Len(frames) /\ TopFrame = frames[Len(frames)]
      BY <1>1, TopIs DEF SqlInv
    <3>2. \A t \in Stmts : TopFrame.guard = stmts[t].guard /\ TopFrame.guard # 0 => TopFrame.op = "step" /\ TopFrame.s = t
      BY <3>1 DEF SqlInv, GuardsApart
    <3> QED
      BY <1>16, <3>2
  <2>4. /\ handles' \in [Handles -> HandleRecord] /\ stmts' \in [Stmts -> StatementRecord]
        /\ \A k \in Handles : handles[k].made => handles'[k].made
        /\ \A t \in Stmts : stmts[t].made => stmts'[t].made
        /\ \A t \in Stmts : stmts'[t].guard = stmts[t].guard
    BY <1>1, <1>2, <1>13 DEF HandlesSteady
  <2>5. TopFrame.stage # "telling" /\ f.stage # "telling"
    BY <1>1, <1>16
  <2> QED
    BY <1>1, <1>15, <1>16, <2>1, <2>2, <2>3, <2>4, <2>5, CallGoesOn
<1>17. CASE signal
  <2> DEFINE f == [TopFrame EXCEPT !.met = m, !.interrupted = TRUE, !.stage = "busy"]
  <2>1. /\ f \in Frame /\ f.n = TopFrame.n /\ f.op = TopFrame.op /\ f.h = TopFrame.h /\ f.s = TopFrame.s
        /\ f.result = TopFrame.result /\ f.guard = TopFrame.guard /\ f.met = m
        /\ f.stage = "busy" /\ f.interrupted = TRUE
    <3>1. PICK b \in BOOLEAN : b = TRUE
      OBVIOUS
    <3>2. f = Over(TopFrame, m, b)
      BY <3>1 DEF Over
    <3>3. TopFrame \in Frame
      BY <1>2
    <3> HIDE DEF f
    <3> QED
      BY <3>1, <3>2, <3>3, WaitOver
  <2>2. frames' = [frames EXCEPT ![Len(frames)] = f] /\ now' = now /\ gaveUp' = gaveUp
    BY <1>9, <1>17 DEF Goes
  <2> HIDE DEF f
  <2> QED
    BY <1>2, <1>16, <1>17, <2>1, <2>2, GaveUpWhole
<1>18. CASE ~signal /\ now >= d
  <2> DEFINE f == [TopFrame EXCEPT !.met = m, !.stage = "busy"]
  <2>1. /\ f \in Frame /\ f.n = TopFrame.n /\ f.op = TopFrame.op /\ f.h = TopFrame.h /\ f.s = TopFrame.s
        /\ f.result = TopFrame.result /\ f.guard = TopFrame.guard /\ f.met = m
        /\ f.stage = "busy" /\ f.interrupted = FALSE
    <3>1. PICK b \in BOOLEAN : b = FALSE
      OBVIOUS
    <3>2. f = Over(TopFrame, m, b)
      BY <1>2, <1>5, <3>1 DEF Frame, Over
    <3>3. TopFrame \in Frame
      BY <1>2
    <3> HIDE DEF f
    <3> QED
      BY <3>1, <3>2, <3>3, WaitOver
  <2>2. /\ frames' = [frames EXCEPT ![Len(frames)] = f] /\ now' = now
        /\ gaveUp' = [met |-> m, at |-> now, budget |-> handles[c].busy]
    BY <1>9, <1>18 DEF Goes
  <2> HIDE DEF f
  <2>3. now = m + handles[c].busy
    BY <1>2, <1>5, <1>10, <1>18
  <2>4. gaveUp' \in [met : Int, at : Int, budget : Int] /\ gaveUp'.at - gaveUp'.met = gaveUp'.budget
    BY <1>2, <1>5, <2>2, <2>3
  <2> QED
    BY <1>2, <1>16, <1>18, <2>1, <2>2, <2>4
<1>19. CASE ~signal /\ ~(now >= d)
  <2> DEFINE f == [TopFrame EXCEPT !.met = m]
  <2>1. /\ f \in Frame /\ f.n = TopFrame.n /\ f.op = TopFrame.op /\ f.h = TopFrame.h /\ f.s = TopFrame.s
        /\ f.result = TopFrame.result /\ f.guard = TopFrame.guard /\ f.met = m
        /\ f.stage = "sqlite" /\ f.interrupted = FALSE
    BY <1>1, <1>2, <1>5, LockMet
  <2>2. frames' = [frames EXCEPT ![Len(frames)] = f] /\ now' = now + 1 /\ gaveUp' = gaveUp
    BY <1>9, <1>19 DEF Goes
  <2> HIDE DEF f
  <2>3. now' \in Nat /\ now' <= d
    BY <1>2, <1>19, <2>2
  <2> QED
    BY <1>16, <1>19, <2>1, <2>2, <2>3, GaveUpWhole
<1> QED
  BY <1>17, <1>18, <1>19

-----------------------------------------------------------------------------
LEMMA SqlInit ==
  ASSUME SqliteInit
  PROVE  SqlInv
<1>1. Handles = Own \cup Borrowed /\ Conns = Own \cup {"store"} /\ "store" \in Conns
  BY DEF Handles, Conns
<1>2. frames = << >> /\ Len(frames) = 0
  BY DEF SqliteInit
<1>3. SqlTypes
  <2>1. fresh_handle \in HandleRecord
    BY DEF fresh_handle, HandleRecord
  <2>2. fresh_statement \in StatementRecord
    <3>1. <<0, 0>> \in [1..2 -> Nat]
      OBVIOUS
    <3> QED
      BY <3>1 DEF fresh_statement, StatementRecord
  <2>3. frames \in Seq(Frame) /\ Len(frames) <= 2
    BY <1>2
  <2>4. conn \in [Conns -> {"unused", "open", "zombie", "closed"}] /\ handler \in [Conns -> Handles \cup {"none"}]
    BY DEF SqliteInit
  <2>5. handles \in [Handles -> HandleRecord] /\ stmts \in [Stmts -> StatementRecord]
    BY <2>1, <2>2 DEF SqliteInit
  <2>6. msg \in [1..MaxSqlCalls -> [call : Nat, cancelled : BOOLEAN]]
    BY DEF SqliteInit, NoMessage
  <2>7. sqlCalls \in 0..MaxSqlCalls /\ now \in Nat /\ gaveUp \in [met : Int, at : Int, budget : Int]
    BY SqliteAssumption DEF SqliteInit
  <2> QED
    BY <2>3, <2>4, <2>5, <2>6, <2>7 DEF SqlTypes
<1>4. Lives
  <2>1. conn["store"] = "open" /\ \A h \in Own : conn[h] = "unused"
    BY <1>1, SqliteAssumption DEF SqliteInit
  <2>2. \A h \in Handles : handles[h] = fresh_handle
    BY DEF SqliteInit
  <2>3. \A s \in Stmts : stmts[s] = fresh_statement
    BY DEF SqliteInit
  <2>4. ASSUME NEW h \in Handles
        PROVE  HandleOK(h)
    <3>1. /\ handles[h].made = FALSE /\ handles[h].held = FALSE /\ handles[h].gone = FALSE
          /\ handles[h].db = "null"
      BY <2>2 DEF fresh_handle
    <3> QED
      BY <2>1, <3>1 DEF HandleOK
  <2>5. \A s \in Stmts : StatementOK(s)
    BY <2>3 DEF StatementOK, fresh_statement
  <2>6. \A c \in Conns : HandlerOK(c)
    BY DEF HandlerOK, SqliteInit
  <2> QED
    BY <2>1, <2>4, <2>5, <2>6 DEF Lives
<1>5. UnderWay
  BY <1>2 DEF UnderWay
<1>6. GuardsApart
  <2>1. \A s \in Stmts : stmts[s].guard = 0
    BY DEF SqliteInit, fresh_statement
  <2>2. sqlCalls = 0
    BY DEF SqliteInit
  <2> QED
    BY <1>2, <2>1, <2>2 DEF GuardsApart
<1>7. OutcomeItsOwn
  <2>1. \A g \in DOMAIN msg : msg[g] = NoMessage
    BY DEF SqliteInit
  <2>2. gaveUp.at - gaveUp.met = gaveUp.budget
    BY DEF SqliteInit
  <2> QED
    BY <1>2, <2>1, <2>2 DEF OutcomeItsOwn
<1> QED
  BY <1>3, <1>4, <1>5, <1>6, <1>7 DEF SqlInv

LEMMA SqlStutters ==
  ASSUME SqlInv, UNCHANGED sqliteVars
  PROVE  SqlInv'
<1>1. /\ conn' = conn /\ handler' = handler /\ handles' = handles /\ stmts' = stmts /\ msg' = msg
      /\ frames' = frames /\ sqlCalls' = sqlCalls /\ now' = now /\ gaveUp' = gaveUp
  BY DEF sqliteVars
<1>2. SqlTypes' /\ Lives'
  BY <1>1 DEF SqlInv, SqlTypes, Lives, HandleOK, StatementOK, HandlerOK
<1>3. UnderWay'
  <2>1. UnderWay
    BY DEF SqlInv
  <2>2. \A i \in 1..Len(frames) : CallOK(frames[i])' /\ InSqlite(frames[i])'
    <3> TAKE i \in 1..Len(frames)
    <3>1. CallOK(frames[i]) /\ InSqlite(frames[i])
      BY ONLY <2>1, i \in 1..Len(frames) DEF UnderWay
    <3>2. CallOK(frames[i])'
      BY ONLY <1>1, <3>1, SMTT(30) DEF CallOK
    <3>3. InSqlite(frames[i])'
      BY ONLY <1>1, <3>1 DEF InSqlite, ConnOf
    <3> QED BY ONLY <3>2, <3>3
  <2> QED BY ONLY <1>1, <2>1, <2>2 DEF UnderWay
<1>4. GuardsApart'
  BY <1>1 DEF SqlInv, GuardsApart
<1>5. OutcomeItsOwn'
  BY <1>1 DEF SqlInv, OutcomeItsOwn
<1> QED
  BY <1>2, <1>3, <1>4, <1>5 DEF SqlInv

LEMMA SqlNext ==
  ASSUME SqlInv, [SqliteNext]_sqliteVars
  PROVE  SqlInv'
<1>1. ASSUME NEW h \in Own, NEW fails \in BOOLEAN, open_database(h, fails)
      PROVE  SqlInv'
  BY <1>1, OpenDatabase
<1>2. ASSUME NEW h \in Borrowed, cosmic_sqlite_push_borrowed(h)
      PROVE  SqlInv'
  BY <1>2, PushBorrowed
<1>3. ASSUME NEW h \in Handles,
             handle_exec(h) \/ handle_exec_result(h) \/ handle_close(h) \/ handle_gc(h) \/ handle_changes(h)
      PROVE  SqlInv'
  <2>1. CASE handle_changes(h)
    BY <2>1, OnlyRead DEF handle_changes
  <2> QED
    BY <1>3, <2>1, HandleExec, HandleExecResult, HandleClose, HandleGc
<1>4. ASSUME NEW h \in Handles, NEW ms \in Budgets, handle_busy_timeout(h, ms)
      PROVE  SqlInv'
  BY <1>4, BusyTimeout
<1>5. ASSUME NEW h \in Handles, NEW s \in Stmts, NEW result \in BOOLEAN, handle_prepare(h, s, result)
      PROVE  SqlInv'
  BY <1>5, HandlePrepare
<1>6. CASE execute \/ prepare_statement \/ push_outcome \/ Raises \/ Later \/ LetGo \/ step_guarded \/ values_guarded
  BY <1>6, Executes, PrepareStatement, Told, RaisesStep, TimePasses, LetsGo, StepGuarded, ValuesGuarded
<1>7. ASSUME NEW b \in BOOLEAN, wait_busy(b) \/ Executed(b) \/ bind_array(b)
      PROVE  SqlInv'
  BY <1>7, WaitBusy, ExecutedStep, BindArray
<1>8. ASSUME NEW s \in Stmts,
             \/ statement_step(s) \/ statement_step_result(s) \/ statement_finalize(s) \/ statement_gc(s)
             \/ statement_bytes(s)
      PROVE  SqlInv'
  <2>1. CASE statement_bytes(s)
    BY <2>1, OnlyRead DEF statement_bytes
  <2> QED
    BY <1>8, <2>1, StatementStep, StatementStepResult, StatementFinalize, StatementGc
<1>9. ASSUME NEW ended \in {"row", "done", "bad"}, step_over(ended)
      PROVE  SqlInv'
  BY <1>9, StepOver
<1>10. ASSUME NEW s \in Stmts, NEW i \in 1..2, bound(s, i) \/ bind_list(s, i)
       PROVE  SqlInv'
  BY <1>10, Bound, BindList
<1>11. ASSUME NEW s \in Stmts, NEW v \in value_kind \X value_kind, statement_bind_values_result(s, v)
       PROVE  SqlInv'
  BY <1>11, BindValues
<1>12. ASSUME NEW s \in Stmts, NEW clear \in BOOLEAN, rewound(s, clear)
       PROVE  SqlInv'
  BY <1>12, Rewound
<1>13. CASE UNCHANGED sqliteVars
  BY <1>13, SqlStutters
<1> QED
  BY <1>1, <1>2, <1>3, <1>4, <1>5, <1>6, <1>7, <1>8, <1>9, <1>10, <1>11, <1>12, <1>13 DEF SqliteNext

(* However the program's calls, its finalizers' and the collector's are    *)
(* interleaved, handles, statements and connections are as each other say, *)
(* and guards are held by one at a time.                                   *)
THEOREM SqliteInvariance == SqliteSpec => []SqlInv
BY SqlInit, SqlNext, PTL DEF SqliteSpec

(* A call tells what its own SQLite call answered, and a wait that ran out *)
(* had its whole budget (capture, begin_wait, wait_busy,                   *)
(* statement_step_result).                                                 *)
THEOREM OutcomesOwn == SqliteSpec => []OutcomeItsOwn
<1>1. SqlInv => OutcomeItsOwn
  BY DEF SqlInv
<1> QED
  BY <1>1, SqliteInvariance, PTL

(* A live statement's connection is open and its owner there, a busy       *)
(* handler's handle not collected, and no SQLite call made on what is      *)
(* closed (prepare_statement, handle_busy_timeout, handle_close,           *)
(* handle_gc).                                                             *)
THEOREM LifetimesKept == SqliteSpec => []LifetimesHold
<1>1. ASSUME SqlInv
      PROVE  LifetimesHold
  <2>1. SqlTypes /\ Lives /\ UnderWay
    BY <1>1 DEF SqlInv
  <2>2. \A s \in Stmts : stmts[s].live =>
          conn[stmts[s].db] = "open" /\ ~stmts[s].gone /\ ~handles[stmts[s].owner].gone
    BY <2>1 DEF Lives, StatementOK
  <2>3. ASSUME NEW c \in Conns, conn[c] \in {"open", "zombie"}, handler[c] # "none"
        PROVE  ~handles[handler[c]].gone
    <3>1. c \in Own /\ c \in Handles /\ handler[c] = c /\ handles[c].made /\ HandleOK(c)
      BY <2>1, <2>3 DEF Lives, HandlerOK, Handles
    <3>2. handles[c].db # "null"
      BY <2>3, <3>1 DEF HandleOK
    <3> QED
      BY <3>1, <3>2 DEF HandleOK
  <2>4. ASSUME NEW i \in 1..Len(frames), frames[i].stage = "sqlite"
        PROVE  /\ ConnOf(frames[i]) # "null" /\ conn[ConnOf(frames[i])] = "open"
               /\ (frames[i].op = "step" => stmts[frames[i].s].live)
    <3>1. PICK f \in Frame : f = frames[i]
      BY <2>1 DEF SqlTypes
    <3>2. CallOK(f) /\ InSqlite(f) /\ f.op \in CallKinds /\ f.stage = "sqlite"
      BY <2>1, <2>4, <3>1 DEF UnderWay, Frame
    <3>3. CASE f.op = "step"
      <4>1. f.s \in Stmts /\ f.s # "none" /\ stmts[f.s].live /\ StatementOK(f.s)
        BY <2>1, <3>2, <3>3, SqliteAssumption DEF CallOK, InSqlite, Lives
      <4>2. stmts[f.s].made /\ stmts[f.s].owner \in Handles /\ stmts[f.s].db = HomeOf(stmts[f.s].owner)
        BY <2>1, <4>1 DEF StatementOK, SqlTypes, StatementRecord
      <4>3. stmts[f.s].db # "null" /\ ConnOf(f) = stmts[f.s].db
        BY <3>3, <4>1, <4>2, SqliteAssumption DEF HomeOf, Handles, ConnOf
      <4> QED
        BY <3>1, <4>1, <4>3 DEF StatementOK
    <3>4. CASE f.op \in {"exec", "prepare"}
      <4>1. f.h \in Handles /\ handles[f.h].made /\ handles[f.h].db # "null" /\ HandleOK(f.h)
        BY <2>1, <3>2, <3>4 DEF CallOK, InSqlite, Lives
      <4>2. ConnOf(f) = handles[f.h].db
        BY <3>2, <3>4 DEF CallOK, ConnOf
      <4>3. conn[handles[f.h].db] = "open"
        BY <2>1, <4>1 DEF HandleOK, HomeOf, Lives
      <4> QED
        BY <3>1, <3>4, <4>1, <4>2, <4>3
    <3> QED
      BY <3>2, <3>3, <3>4 DEF CallOK, CallKinds
  <2> QED
    BY <2>2, <2>3, <2>4 DEF LifetimesHold
<1> QED
  BY <1>1, SqliteInvariance, PTL

(***************************************************************************)
(* Artifact.  The decoder trusts no field: each sum it makes stays below   *)
(* the file's length, itself below half of a word, so none wraps (Fitted), *)
(* and each core lies between the shell and the manifest (EntriesSited).   *)
(* That the cores and their padding leave nothing out is the loop of       *)
(* decode_portable: below where a turn of it ends every byte is a core's,  *)
(* or a zero within the alignment of the core after it (Behind), which is  *)
(* shown turn by turn, for any number of entries.  What was accepted is    *)
(* kept (Tiled), and the door is of its database (DoorRight).              *)
(***************************************************************************)
Sited(e, from, to) == from <= e.offset /\ e.stored > 0 /\ e.offset + e.stored <= to

Inside(g, e) == e.offset <= g /\ g < e.offset + e.stored

\* A byte no core has, that is zero and shortly before what follows it.
Padding(g, es, end, dirt) ==
  /\ g # dirt
  /\ \E s \in Nat : /\ g < s /\ s < g + Alignment
                    /\ s = end \/ \E i \in 1 .. Len(es) : s = es[i].offset

Apart(d, e) == d.offset + d.stored <= e.offset \/ e.offset + e.stored <= d.offset

ArtifactEntry == [target : Targets, kind : {"core", "stub"}, raw : BOOLEAN, offset : Nat, stored : Nat]

ArtifactTypes ==
  art \in [stage : {"trailer", "manifest", "entries", "layout", "accepted", "registered", "rejected"},
           format : {"host", "portable", "none"}, size : Nat, dirt : Int, manifest : Nat, database : Nat,
           length : Nat, count : Nat, entries : Seq(ArtifactEntry), selected : Nat]

\* The trailer's sums, none of which wrapped.
Fitted ==
  /\ art.stage # "rejected" => art.format \in {"host", "portable"}
  /\ 2 * art.size < Word
  /\ art.stage \in {"manifest", "entries", "layout", "accepted", "registered"} =>
        /\ first_core <= art.manifest
        /\ art.manifest + ManifestLength = art.database
        /\ art.database + art.length = art.size - TrailerLength

EntriesSited ==
  /\ art.stage \in {"trailer", "manifest", "rejected"} => art.entries = << >>
  /\ \A i \in 1 .. Len(art.entries) : Sited(art.entries[i], first_core, art.manifest)

Tiled ==
  art.stage \in {"accepted", "registered"} =>
    /\ \A i, j \in 1 .. Len(art.entries) : i # j => Apart(art.entries[i], art.entries[j])
    /\ \A g \in Nat : first_core <= g /\ g < art.manifest =>
          \/ \E i \in 1 .. Len(art.entries) : Inside(g, art.entries[i])
          \/ Padding(g, art.entries, art.manifest, art.dirt)
    /\ Selected = {art.selected}

DoorRight ==
  /\ door \in [open : BOOLEAN, offset : Nat, length : Nat, files : Nat]
  /\ bytesRead \in [from : Nat, to : Nat]
  /\ art.stage # "registered" => door = Shut /\ bytesRead = [from |-> 0, to |-> 0]
  /\ art.stage = "registered" =>
        /\ door.offset = art.database /\ door.length = art.length
        /\ door.files <= 1 /\ (door.open => door.files = 0)
        /\ bytesRead.to > bytesRead.from =>
              bytesRead.from >= art.database /\ bytesRead.to <= art.database + art.length

ArtifactInv == ArtifactTypes /\ Fitted /\ EntriesSited /\ Tiled /\ DoorRight

LEMMA LengthsKnown ==
  /\ Shell \in Nat /\ Alignment \in Nat /\ Alignment > 0 /\ ManifestLength \in Nat /\ ManifestLength > 0
  /\ HeaderLength \in Nat /\ TrailerLength \in Nat /\ TrailerLength > 0 /\ MaxEntries \in Nat
  /\ Word \in Nat /\ Word > 0
BY ArtifactAssumption

\* No sum wraps that stays below a word.
LEMMA PlusExact ==
  ASSUME NEW a \in Nat, NEW b \in Nat, a + b < Word
  PROVE  Plus(a, b) = a + b
BY LengthsKnown DEF Plus

\* What is aligned is at or after, by less than the alignment.
LEMMA AlignedNear ==
  ASSUME NEW v \in Nat, align_core(v) # -1
  PROVE  align_core(v) \in Nat /\ v <= align_core(v) /\ align_core(v) < v + Alignment
<1> DEFINE p == (Alignment - (v % Alignment)) % Alignment
<1>1. v % Alignment \in 0 .. (Alignment - 1)
  BY LengthsKnown
<1>2. \A x \in Int : x % Alignment \in 0 .. (Alignment - 1)
  BY LengthsKnown
<1>3. p \in Nat /\ p < Alignment
  <2>1. Alignment - (v % Alignment) \in Int
    BY <1>1, LengthsKnown
  <2> QED
    BY <1>2, <2>1, LengthsKnown
<1>4. align_core(v) = v + p
  BY DEF align_core
<1> HIDE DEF p
<1> QED
  BY <1>3, <1>4, LengthsKnown

(***************************************************************************)
(* How far the cores are packed.                                           *)
(***************************************************************************)
\* Below where the packing has come, every byte is a core's or shortly before
\* one.
Behind(es, after) ==
  \A g \in Nat : Shell <= g /\ g < after =>
     \/ \E i \in 1 .. Len(es) : Inside(g, es[i])
     \/ g # art.dirt /\ \E i \in 1 .. Len(es) : g < es[i].offset /\ es[i].offset < g + Alignment

PackedTo(es, after) == after # -1 => after \in Nat /\ Shell <= after /\ Behind(es, after)

LEMMA PackedNextTo ==
  ASSUME ArtifactTypes, NEW es \in Seq(ArtifactEntry), NEW end \in Nat, end < Word,
         \A i \in 1 .. Len(es) : Sited(es[i], Shell, end), NEW after, PackedTo(es, after)
  PROVE  PackedTo(es, PackedNext(es, after))
<1> DEFINE later == {i \in 1 .. Len(es) : es[i].offset >= after}
           next == CHOOSE i \in later : \A j \in later : es[i].offset <= es[j].offset
           e == es[next]
           to == PackedNext(es, after)
<1> SUFFICES ASSUME to # -1 PROVE to \in Nat /\ Shell <= to /\ Behind(es, to)
  BY SMTT(30) DEF PackedTo
<1>1. /\ after # -1 /\ later # {} /\ e.offset = align_core(after) /\ zero_range(after, e.offset - after)
      /\ to = Plus(e.offset, e.stored)
  BY DEF PackedNext
<1>2. after \in Nat /\ Shell <= after /\ Behind(es, after)
  BY <1>1 DEF PackedTo
<1>3. \A i \in 1 .. Len(es) : es[i].offset \in Nat /\ es[i].stored \in Nat
  <2>1. \A i \in 1 .. Len(es) : es[i] \in ArtifactEntry
    BY ElementOfSeq
  <2> QED
    BY <2>1 DEF ArtifactEntry
<1>4. next \in later
  <2> DEFINE O == {es[i].offset : i \in later}
  <2>1. O \subseteq Nat /\ O # {}
    BY <1>1, <1>3
  <2>2. PICK k \in O : \A j \in O : k <= j
    <3> HIDE DEF O
    <3> QED
      BY <2>1, LeastOf
  <2>3. PICK i \in later : k = es[i].offset
    BY <2>2
  <2>4. \A j \in later : es[i].offset <= es[j].offset
    BY <2>2, <2>3
  <2> HIDE DEF later
  <2> QED
    BY <2>3, <2>4
<1>5. next \in 1 .. Len(es)
  BY <1>4
<1> HIDE DEF next, later
<1>6. /\ e.offset \in Nat /\ e.stored \in Nat /\ Shell <= e.offset /\ e.stored > 0 /\ e.offset + e.stored <= end
  BY <1>3, <1>5 DEF Sited
<1>7. after <= e.offset /\ e.offset < after + Alignment
  <2>1. align_core(after) # -1
    BY <1>1, <1>6
  <2> QED
    BY <1>1, <1>2, <2>1, AlignedNear
<1>8. to = e.offset + e.stored
  BY <1>1, <1>6, PlusExact, LengthsKnown
<1>9. to \in Nat /\ Shell <= to
  BY <1>6, <1>8, LengthsKnown, SMTT(30)
<1>10. art.dirt \in Int
  BY DEF ArtifactTypes
<1> HIDE DEF to
<1>11. ASSUME NEW g \in Nat, Shell <= g, g < to
       PROVE  \/ \E i \in 1 .. Len(es) : Inside(g, es[i])
              \/ g # art.dirt /\ \E i \in 1 .. Len(es) : g < es[i].offset /\ es[i].offset < g + Alignment
  <2>1. CASE g < after
    BY <1>2, <1>11, <2>1 DEF Behind
  <2>2. CASE after <= g /\ g < e.offset
    <3>1. g # art.dirt
      BY <1>1, <1>2, <1>6, <1>7, <1>10, <2>2 DEF zero_range
    <3>2. g < es[next].offset /\ es[next].offset < g + Alignment
      BY <1>2, <1>6, <1>7, <2>2, LengthsKnown
    <3> QED
      BY <1>5, <3>1, <3>2
  <2>3. CASE e.offset <= g
    <3>1. Inside(g, es[next])
      BY <1>8, <1>11, <2>3 DEF Inside
    <3> QED
      BY <1>5, <3>1
  <2> QED
    BY <1>2, <1>6, <2>1, <2>2, <2>3
<1>12. Behind(es, to)
  BY <1>11 DEF Behind
<1> QED
  BY <1>9, <1>12

\* The loop over the entries, n turns of it.
Packs(f, es, n) == f = [k \in 0 .. n |-> IF k = 0 THEN Shell ELSE PackedNext(es, f[k - 1])]

LEMMA PacksExists ==
  ASSUME NEW es, Len(es) \in Nat
  PROVE  \E f : Packs(f, es, Len(es))
<1> DEFINE T == {n \in Nat : \E f : Packs(f, es, n)}
<1>1. 0 \in T
  <2>1. Packs([k \in 0 .. 0 |-> Shell], es, 0)
    BY DEF Packs
  <2> QED
    BY <2>1
<1>2. ASSUME NEW n \in Nat, n \in T PROVE n + 1 \in T
  <2>1. PICK f : Packs(f, es, n)
    BY <1>2
  <2> DEFINE g == [k \in 0 .. (n + 1) |-> IF k = n + 1 THEN PackedNext(es, f[n]) ELSE f[k]]
  <2>2. \A k \in 0 .. n : f[k] = IF k = 0 THEN Shell ELSE PackedNext(es, f[k - 1])
    BY <2>1 DEF Packs
  <2>3. \A k \in 0 .. n : g[k] = f[k]
    OBVIOUS
  <2>4. g[n + 1] = PackedNext(es, f[n])
    OBVIOUS
  <2>5. g = [k \in 0 .. (n + 1) |-> g[k]]
    OBVIOUS
  <2> HIDE DEF g
  <2>6. ASSUME NEW k \in 0 .. (n + 1)
        PROVE  g[k] = IF k = 0 THEN Shell ELSE PackedNext(es, g[k - 1])
    <3>1. CASE k = n + 1
      <4>1. k # 0 /\ k - 1 = n /\ n \in 0 .. n
        BY <3>1
      <4> QED
        BY <2>3, <2>4, <3>1, <4>1
    <3>2. CASE k = 0
      BY <2>2, <2>3, <3>2
    <3>3. CASE k \in 0 .. n /\ k # 0
      <4>1. k - 1 \in 0 .. n
        BY <3>3
      <4> QED
        BY <2>2, <2>3, <3>3, <4>1
    <3> QED
      BY <3>1, <3>2, <3>3
  <2>7. Packs(g, es, n + 1)
    BY <2>5, <2>6 DEF Packs
  <2> QED
    BY <2>7
<1>3. \A n \in Nat : n \in T
  <2> HIDE DEF T
  <2> QED
    BY <1>1, <1>2, SetInduction
<1> QED
  BY <1>3

LEMMA PackedReaches ==
  ASSUME ArtifactTypes, NEW es \in Seq(ArtifactEntry), NEW end \in Nat, end < Word,
         \A i \in 1 .. Len(es) : Sited(es[i], Shell, end)
  PROVE  PackedTo(es, Packed(es))
<1> DEFINE f == CHOOSE g : Packs(g, es, Len(es))
           T == {n \in Nat : n <= Len(es) => PackedTo(es, f[n])}
<1>1. Len(es) \in Nat
  BY LenProperties
<1>2. Packed(es) = f[Len(es)]
  BY DEF Packed, Packs
<1>3. Packs(f, es, Len(es))
  BY <1>1, PacksExists
<1> HIDE DEF f
<1>4. f[0] = Shell /\ \A n \in 1 .. Len(es) : f[n] = PackedNext(es, f[n - 1])
  BY <1>1, <1>3 DEF Packs
<1>5. 0 \in T
  <2>1. Behind(es, Shell)
    BY LengthsKnown DEF Behind
  <2> QED
    BY <1>4, <2>1, LengthsKnown DEF PackedTo
<1>6. ASSUME NEW n \in Nat, n \in T PROVE n + 1 \in T
  <2> SUFFICES ASSUME n + 1 <= Len(es) PROVE PackedTo(es, f[n + 1])
    OBVIOUS
  <2>1. PackedTo(es, f[n]) /\ n + 1 \in 1 .. Len(es) /\ (n + 1) - 1 = n
    BY <1>1, <1>6
  <2> QED
    BY <1>4, <2>1, PackedNextTo
<1>7. \A n \in Nat : n \in T
  <2> HIDE DEF T
  <2> QED
    BY <1>5, <1>6, SetInduction
<1> QED
  BY <1>1, <1>2, <1>7

(***************************************************************************)
(* What is accepted is tiled.                                              *)
(***************************************************************************)
LEMMA EntryKnown ==
  ASSUME ArtifactTypes, EntriesSited, NEW i \in 1 .. Len(art.entries)
  PROVE  /\ art.entries[i] \in ArtifactEntry /\ art.entries[i].offset \in Nat /\ art.entries[i].stored \in Nat
         /\ Sited(art.entries[i], first_core, art.manifest)
<1>1. art.entries \in Seq(ArtifactEntry)
  BY DEF ArtifactTypes
<1>2. art.entries[i] \in ArtifactEntry
  BY <1>1, ElementOfSeq
<1> QED
  BY <1>2 DEF ArtifactEntry, EntriesSited

LEMMA PortableTiled ==
  ASSUME ArtifactTypes, Fitted, EntriesSited, art.stage = "layout", art.format # "host", decode_portable_ok
  PROVE  /\ \A i, j \in 1 .. Len(art.entries) : i # j => Apart(art.entries[i], art.entries[j])
         /\ \A g \in Nat : first_core <= g /\ g < art.manifest =>
               \/ \E i \in 1 .. Len(art.entries) : Inside(g, art.entries[i])
               \/ Padding(g, art.entries, art.manifest, art.dirt)
         /\ \A i, j \in Selected : i = j
<1> DEFINE es == art.entries
           after == Packed(es)
<1>1. /\ art.manifest \in Nat /\ art.manifest < Word /\ art.dirt \in Int /\ first_core = Shell
      /\ es \in Seq(ArtifactEntry) /\ Len(es) \in Nat
  <2>1. art.manifest \in Nat /\ art.size \in Nat /\ art.dirt \in Int /\ es \in Seq(ArtifactEntry) /\ art.length \in Nat
    BY DEF ArtifactTypes
  <2>2. Len(es) \in Nat
    BY <2>1, LenProperties
  <2>3. art.manifest + ManifestLength + art.length = art.size - TrailerLength /\ 2 * art.size < Word
    BY DEF Fitted
  <2> QED
    BY <2>1, <2>2, <2>3, LengthsKnown DEF first_core
<1>2. \A i \in 1 .. Len(es) : es[i].offset \in Nat /\ es[i].stored \in Nat /\ Sited(es[i], Shell, art.manifest)
  BY <1>1, EntryKnown
<1>3. ASSUME NEW i \in 1 .. Len(es), NEW j \in 1 .. Len(es), i # j
      PROVE  Apart(es[i], es[j]) /\ <<es[i].target, es[i].kind>> # <<es[j].target, es[j].kind>>
  <2>1. /\ <<es[i].target, es[i].kind>> # <<es[j].target, es[j].kind>>
        /\ ~(es[i].offset < Plus(es[j].offset, es[j].stored) /\ es[j].offset < Plus(es[i].offset, es[i].stored))
    BY <1>3 DEF decode_portable_ok
  <2>2. \A k \in 1 .. Len(es) : Plus(es[k].offset, es[k].stored) = es[k].offset + es[k].stored
    <3> SUFFICES ASSUME NEW k \in 1 .. Len(es)
                 PROVE  Plus(es[k].offset, es[k].stored) = es[k].offset + es[k].stored
      OBVIOUS
    <3>1. es[k].offset \in Nat /\ es[k].stored \in Nat /\ es[k].offset + es[k].stored <= art.manifest
      BY <1>2 DEF Sited
    <3>2. es[k].offset + es[k].stored < Word
      BY <1>1, <3>1, LengthsKnown
    <3> QED
      BY <3>1, <3>2, PlusExact
  <2>3. ~(es[i].offset < es[j].offset + es[j].stored /\ es[j].offset < es[i].offset + es[i].stored)
    BY <2>1, <2>2
  <2> HIDE DEF es
  <2> QED
    BY <1>2, <2>1, <2>3 DEF Apart
<1>4. /\ after # -1 /\ align_core(after) = art.manifest /\ zero_range(after, art.manifest - after)
  BY DEF decode_portable_ok
<1>5. after \in Nat /\ Behind(es, after)
  <2>1. PackedTo(es, after)
    BY <1>1, <1>2, PackedReaches
  <2> QED
    BY <1>4, <2>1 DEF PackedTo
<1>6. after <= art.manifest /\ art.manifest < after + Alignment
  <2>1. align_core(after) # -1
    BY <1>1, <1>4
  <2> QED
    BY <1>4, <1>5, <2>1, AlignedNear
<1> HIDE DEF after
<1>7. ASSUME NEW g \in Nat, first_core <= g, g < art.manifest
      PROVE  \/ \E i \in 1 .. Len(es) : Inside(g, es[i])
             \/ Padding(g, es, art.manifest, art.dirt)
  <2>1. CASE g < after
    <3>1. \/ \E i \in 1 .. Len(es) : Inside(g, es[i])
          \/ g # art.dirt /\ \E i \in 1 .. Len(es) : g < es[i].offset /\ es[i].offset < g + Alignment
      BY <1>1, <1>5, <1>7, <2>1 DEF Behind
    <3> HIDE DEF es
    <3> QED
      BY <1>2, <3>1 DEF Padding
  <2>2. CASE after <= g
    <3>1. g # art.dirt
      BY <1>1, <1>4, <1>5, <1>7, <2>2 DEF zero_range
    <3>2. art.manifest < g + Alignment
      BY <1>1, <1>5, <1>6, <2>2, LengthsKnown
    <3> QED
      BY <1>1, <1>7, <3>1, <3>2 DEF Padding
  <2> QED
    BY <1>5, <2>1, <2>2
<1>8. \A i, j \in Selected : i = j
  BY <1>3 DEF Selected, Cores
<1> QED
  BY <1>3, <1>7, <1>8

LEMMA HostTiled ==
  ASSUME ArtifactTypes, Fitted, EntriesSited, art.stage = "layout", art.format = "host", decode_host_ok
  PROVE  /\ \A i, j \in 1 .. Len(art.entries) : i # j => Apart(art.entries[i], art.entries[j])
         /\ \A g \in Nat : first_core <= g /\ g < art.manifest =>
               \/ \E i \in 1 .. Len(art.entries) : Inside(g, art.entries[i])
               \/ Padding(g, art.entries, art.manifest, art.dirt)
         /\ \A i, j \in Selected : i = j
<1> DEFINE es == art.entries
           e == es[1]
<1>1. /\ Len(es) = 1 /\ e.offset = 0 /\ align_core(e.stored) = art.manifest
      /\ zero_range(e.stored, art.manifest - e.stored)
  BY DEF decode_host_ok
<1>2. art.manifest \in Nat /\ art.dirt \in Int
  BY DEF ArtifactTypes
<1>3. 1 \in 1 .. Len(es) /\ \A i \in 1 .. Len(es) : i = 1
  BY <1>1
<1>4. e.offset \in Nat /\ e.stored \in Nat
  BY <1>3, EntryKnown
<1>5. e.stored <= art.manifest /\ art.manifest < e.stored + Alignment
  <2>1. align_core(e.stored) # -1
    BY <1>1, <1>2
  <2> QED
    BY <1>1, <1>4, <2>1, AlignedNear
<1> HIDE DEF e
<1>6. ASSUME NEW g \in Nat, g < art.manifest
      PROVE  Inside(g, e) \/ Padding(g, es, art.manifest, art.dirt)
  <2>1. CASE g < e.stored
    BY <1>1, <1>4, <2>1 DEF Inside
  <2>2. CASE e.stored <= g
    <3>1. g # art.dirt
      BY <1>1, <1>2, <1>4, <1>6, <2>2 DEF zero_range
    <3>2. art.manifest < g + Alignment
      BY <1>2, <1>4, <1>5, <2>2, LengthsKnown
    <3> QED
      BY <1>2, <1>6, <3>1, <3>2 DEF Padding
  <2> QED
    BY <1>4, <2>1, <2>2
<1>7. \A i, j \in Selected : i = j
  BY <1>3 DEF Selected, Cores
<1> QED
  BY <1>3, <1>6, <1>7 DEF e

LEMMA ArtifactInitInv == ArtifactInit => ArtifactInv
<1> SUFFICES ASSUME ArtifactInit PROVE ArtifactInv
  OBVIOUS
<1>1. PICK format \in {"host", "portable"}, size \in FileSizes, dirt \in Dirt :
         art = [Rejected EXCEPT !.stage = "trailer", !.format = format, !.size = size, !.dirt = dirt]
  BY DEF ArtifactInit
<1>2. size \in Nat /\ 2 * size < Word /\ dirt \in Int
  BY <1>1, ArtifactAssumption
<1>3. << >> \in Seq(ArtifactEntry) /\ Len(<< >>) = 0
  OBVIOUS
<1>4. ArtifactTypes /\ art.entries = << >> /\ art.stage = "trailer" /\ art.size = size /\ art.format = format
  BY <1>1, <1>2, <1>3 DEF ArtifactTypes, Rejected
<1>5. Fitted /\ EntriesSited /\ Tiled
  BY <1>1, <1>2, <1>3, <1>4 DEF Fitted, EntriesSited, Tiled
<1>6. DoorRight
  BY <1>4 DEF ArtifactInit, DoorRight, Shut
<1> QED
  BY <1>4, <1>5, <1>6 DEF ArtifactInv

\* What is rejected keeps nothing it read.
LEMMA RejectedInv ==
  ASSUME ArtifactInv, art.stage # "registered", Keep(Rejected)
  PROVE  ArtifactInv'
<1>1. art' = Rejected /\ door' = door /\ bytesRead' = bytesRead
  BY DEF Keep
<1>2. << >> \in Seq(ArtifactEntry) /\ Len(<< >>) = 0
  OBVIOUS
<1>3. ArtifactTypes' /\ art'.entries = << >> /\ art'.stage = "rejected" /\ art'.size = 0
  BY <1>1, <1>2 DEF ArtifactTypes, Rejected
<1>4. Fitted' /\ EntriesSited' /\ Tiled'
  BY <1>2, <1>3, LengthsKnown DEF Fitted, EntriesSited, Tiled
<1>5. DoorRight'
  BY <1>1, <1>3 DEF ArtifactInv, DoorRight, Shut
<1> QED
  BY <1>3, <1>4, <1>5 DEF ArtifactInv

LEMMA TrailerInv ==
  ASSUME ArtifactInv, decode_trailer
  PROVE  ArtifactInv'
<1>1. PICK manifest \in Fields, database \in Fields, length \in Fields :
         Keep(IF /\ art.size >= first_core + ManifestLength + HeaderLength + TrailerLength
                 /\ range_ends_at_or_before(manifest, ManifestLength, TrailerAt)
                 /\ Plus(manifest, ManifestLength) = database
                 /\ range_ends_at_or_before(database, length, TrailerAt)
                 /\ Plus(database, length) = TrailerAt
                 /\ manifest >= first_core /\ manifest % Alignment = 0
                 /\ length >= HeaderLength
              THEN [art EXCEPT !.stage = "manifest", !.manifest = manifest, !.database = database, !.length = length]
              ELSE Rejected)
  BY DEF decode_trailer
<1>2. art.stage = "trailer" /\ art.entries = << >>
  BY DEF decode_trailer, ArtifactInv, EntriesSited
<1>3. CASE Keep(Rejected)
  BY <1>2, <1>3, RejectedInv
<1>4. CASE /\ art.size >= first_core + ManifestLength + HeaderLength + TrailerLength
           /\ range_ends_at_or_before(manifest, ManifestLength, TrailerAt)
           /\ Plus(manifest, ManifestLength) = database
           /\ range_ends_at_or_before(database, length, TrailerAt)
           /\ Plus(database, length) = TrailerAt
           /\ manifest >= first_core
           /\ Keep([art EXCEPT !.stage = "manifest", !.manifest = manifest, !.database = database, !.length = length])
  <2>1. manifest \in Nat /\ database \in Nat /\ length \in Nat
    BY <1>1, ArtifactAssumption, LengthsKnown
  <2>2. /\ art.size \in Nat /\ art.format \in {"host", "portable"} /\ 2 * art.size < Word
        /\ first_core \in Nat
    BY <1>2, LengthsKnown DEF ArtifactInv, ArtifactTypes, Fitted, first_core
  <2>3. TrailerAt \in Nat /\ TrailerAt < Word /\ TrailerAt = art.size - TrailerLength
    BY <1>4, <2>2, LengthsKnown DEF TrailerAt
  <2>4. manifest + ManifestLength < Word /\ database + length < Word
    BY <1>4, <2>1, <2>3, LengthsKnown DEF range_ends_at_or_before
  <2>5. manifest + ManifestLength = database /\ database + length = art.size - TrailerLength
    BY <1>4, <2>1, <2>3, <2>4, PlusExact, LengthsKnown
  <2>6. /\ art' = [art EXCEPT !.stage = "manifest", !.manifest = manifest, !.database = database, !.length = length]
        /\ door' = door /\ bytesRead' = bytesRead
    BY <1>4 DEF Keep
  <2>7. ArtifactTypes'
    BY <2>1, <2>6 DEF ArtifactInv, ArtifactTypes
  <2>8. /\ art'.stage = "manifest" /\ art'.manifest = manifest /\ art'.database = database /\ art'.length = length
        /\ art'.size = art.size /\ art'.format = art.format /\ art'.entries = << >>
    BY <1>2, <2>6 DEF ArtifactInv, ArtifactTypes
  <2>9. first_core' = first_core
    BY <2>8 DEF first_core
  <2>10. Fitted'
    BY <1>4, <2>2, <2>5, <2>8, <2>9 DEF Fitted
  <2>11. EntriesSited' /\ Tiled'
    BY <2>8 DEF EntriesSited, Tiled
  <2>12. DoorRight'
    BY <1>2, <2>6, <2>8 DEF ArtifactInv, DoorRight
  <2> QED
    BY <2>7, <2>10, <2>11, <2>12 DEF ArtifactInv
<1> QED
  BY <1>1, <1>3, <1>4

LEMMA ManifestInv ==
  ASSUME ArtifactInv, decode_manifest
  PROVE  ArtifactInv'
<1>1. PICK sound \in BOOLEAN, prefix \in Fields, count \in 0 .. MaxEntries + 1 :
         Keep(IF sound /\ prefix = art.database /\ count > 0 /\ count <= MaxEntries
              THEN [art EXCEPT !.stage = "entries", !.count = count] ELSE Rejected)
  BY DEF decode_manifest
<1>2. art.stage = "manifest" /\ art.entries = << >>
  BY DEF decode_manifest, ArtifactInv, EntriesSited
<1>3. CASE Keep(Rejected)
  BY <1>2, <1>3, RejectedInv
<1>4. CASE Keep([art EXCEPT !.stage = "entries", !.count = count])
  <2>1. art' = [art EXCEPT !.stage = "entries", !.count = count] /\ door' = door /\ bytesRead' = bytesRead
    BY <1>4 DEF Keep
  <2>2. ArtifactTypes'
    <3>1. count \in Nat
      BY <1>1, LengthsKnown
    <3> QED
      BY <2>1, <3>1 DEF ArtifactInv, ArtifactTypes
  <2>3. /\ art'.stage = "entries" /\ art'.manifest = art.manifest /\ art'.database = art.database
        /\ art'.length = art.length /\ art'.size = art.size /\ art'.format = art.format /\ art'.entries = << >>
    BY <1>2, <2>1 DEF ArtifactInv, ArtifactTypes
  <2>4. first_core' = first_core
    BY <2>3 DEF first_core
  <2>5. Fitted'
    BY <1>2, <2>3, <2>4 DEF ArtifactInv, Fitted
  <2>6. EntriesSited' /\ Tiled'
    BY <2>3 DEF EntriesSited, Tiled
  <2>7. DoorRight'
    BY <1>2, <2>1, <2>3 DEF ArtifactInv, DoorRight
  <2> QED
    BY <2>2, <2>5, <2>6, <2>7 DEF ArtifactInv
<1> QED
  BY <1>1, <1>3, <1>4

LEMMA EntryInv ==
  ASSUME ArtifactInv, decode_entry
  PROVE  ArtifactInv'
<1>1. PICK sound \in BOOLEAN, target \in Targets, kind \in {"core", "stub"}, raw \in BOOLEAN, offset \in Fields, stored \in Fields :
         Keep(IF /\ sound /\ target # 0 /\ (kind = "stub" => raw)
                 /\ offset >= first_core /\ offset % Alignment = 0 /\ stored > 0
                 /\ range_ends_at_or_before(offset, stored, art.manifest)
              THEN [art EXCEPT !.entries = Append(@, [target |-> target, kind |-> kind, raw |-> raw,
                                                      offset |-> offset, stored |-> stored]),
                               !.stage = IF Len(art.entries) + 1 = art.count THEN "layout" ELSE "entries"]
              ELSE Rejected)
  BY DEF decode_entry
<1> DEFINE e == [target |-> target, kind |-> kind, raw |-> raw, offset |-> offset, stored |-> stored]
           st == IF Len(art.entries) + 1 = art.count THEN "layout" ELSE "entries"
<1>2. art.stage = "entries"
  BY DEF decode_entry
<1>3. CASE Keep(Rejected)
  BY <1>2, <1>3, RejectedInv
<1>4. CASE /\ offset >= first_core /\ stored > 0 /\ range_ends_at_or_before(offset, stored, art.manifest)
           /\ Keep([art EXCEPT !.entries = Append(@, e), !.stage = st])
  <2>1. offset \in Nat /\ stored \in Nat
    BY <1>1, ArtifactAssumption, LengthsKnown
  <2>2. e \in ArtifactEntry
    BY <1>1, <2>1 DEF ArtifactEntry
  <2>3. art.manifest \in Nat /\ art.entries \in Seq(ArtifactEntry) /\ first_core \in Nat
    BY LengthsKnown DEF ArtifactInv, ArtifactTypes, first_core
  <2>4. Sited(e, first_core, art.manifest)
    BY <1>4, <2>1, <2>3 DEF Sited, range_ends_at_or_before
  <2> HIDE DEF e
  <2>5. st \in {"layout", "entries"}
    OBVIOUS
  <2> HIDE DEF st
  <2>6. art' = [art EXCEPT !.entries = Append(@, e), !.stage = st] /\ door' = door /\ bytesRead' = bytesRead
    BY <1>4 DEF Keep
  <2>7. Append(art.entries, e) \in Seq(ArtifactEntry)
    BY <2>2, <2>3
  <2>8. ArtifactTypes'
    BY <2>5, <2>6, <2>7 DEF ArtifactInv, ArtifactTypes
  <2>9. /\ art'.stage = st /\ art'.manifest = art.manifest /\ art'.database = art.database
        /\ art'.length = art.length /\ art'.size = art.size /\ art'.format = art.format
        /\ art'.entries = Append(art.entries, e)
    BY <2>6 DEF ArtifactInv, ArtifactTypes
  <2>10. first_core' = first_core
    BY <2>9 DEF first_core
  <2>11. Fitted'
    BY <1>2, <2>5, <2>9, <2>10 DEF ArtifactInv, Fitted
  <2>12. EntriesSited'
    <3>1. ASSUME NEW i \in 1 .. Len(Append(art.entries, e))
          PROVE  Sited(Append(art.entries, e)[i], first_core, art.manifest)
      <4>1. Len(art.entries) \in Nat /\ Len(Append(art.entries, e)) = Len(art.entries) + 1
        BY <2>2, <2>3, LenProperties
      <4>2. CASE i \in 1 .. Len(art.entries)
        <5>1. Append(art.entries, e)[i] = art.entries[i]
          BY <2>2, <2>3, <4>2
        <5> QED
          BY <4>2, <5>1 DEF ArtifactInv, EntriesSited
      <4>3. CASE i = Len(art.entries) + 1
        <5>1. Append(art.entries, e)[i] = e
          BY <2>2, <2>3, <4>3
        <5> QED
          BY <2>4, <5>1
      <4> QED
        BY <4>1, <4>2, <4>3
    <3> QED
      BY <2>5, <2>9, <2>10, <3>1 DEF EntriesSited
  <2>13. Tiled'
    BY <2>5, <2>9 DEF Tiled
  <2>14. DoorRight'
    BY <1>2, <2>5, <2>6, <2>9 DEF ArtifactInv, DoorRight
  <2> QED
    BY <2>8, <2>11, <2>12, <2>13, <2>14 DEF ArtifactInv
<1> QED
  BY <1>1, <1>3, <1>4

LEMMA DecodeInv ==
  ASSUME ArtifactInv, cosmic_artifact_decode
  PROVE  ArtifactInv'
<1> DEFINE one == CHOOSE i \in Selected : \A j \in Selected : j <= i
<1>1. art.stage = "layout"
  BY DEF cosmic_artifact_decode
<1>2. CASE Keep(Rejected)
  BY <1>1, <1>2, RejectedInv
<1>3. CASE /\ IF art.format = "host" THEN decode_host_ok ELSE decode_portable_ok
           /\ Selected # {} /\ Keep([art EXCEPT !.stage = "accepted", !.selected = one])
  <2>1. /\ \A i, j \in 1 .. Len(art.entries) : i # j => Apart(art.entries[i], art.entries[j])
        /\ \A g \in Nat : first_core <= g /\ g < art.manifest =>
              \/ \E i \in 1 .. Len(art.entries) : Inside(g, art.entries[i])
              \/ Padding(g, art.entries, art.manifest, art.dirt)
        /\ \A i, j \in Selected : i = j
    <3>1. CASE art.format = "host"
      BY <1>1, <1>3, <3>1, HostTiled DEF ArtifactInv
    <3>2. CASE art.format # "host"
      BY <1>1, <1>3, <3>2, PortableTiled DEF ArtifactInv
    <3> QED
      BY <3>1, <3>2
  <2>2. Selected \subseteq Nat
    BY DEF Selected, Cores
  <2>3. one \in Selected /\ Selected = {one}
    <3>1. PICK i \in Selected : TRUE
      BY <1>3
    <3>2. Selected = {i}
      BY <2>1, <3>1
    <3>3. \A j \in Selected : j <= i
      BY <2>2, <3>2
    <3>4. one \in Selected
      BY <3>1, <3>3
    <3> HIDE DEF one
    <3> QED
      BY <3>2, <3>4
  <2>4. one \in Nat
    BY <2>2, <2>3
  <2> HIDE DEF one
  <2>5. art' = [art EXCEPT !.stage = "accepted", !.selected = one] /\ door' = door /\ bytesRead' = bytesRead
    BY <1>3 DEF Keep
  <2>6. ArtifactTypes'
    BY <2>4, <2>5 DEF ArtifactInv, ArtifactTypes
  <2>7. /\ art'.stage = "accepted" /\ art'.manifest = art.manifest /\ art'.database = art.database
        /\ art'.length = art.length /\ art'.size = art.size /\ art'.format = art.format
        /\ art'.entries = art.entries /\ art'.selected = one /\ art'.dirt = art.dirt
    BY <2>5 DEF ArtifactInv, ArtifactTypes
  <2>8. first_core' = first_core /\ Selected' = Selected
    BY <2>7 DEF first_core, Selected, Cores
  <2>9. Fitted'
    BY <1>1, <2>7, <2>8 DEF ArtifactInv, Fitted
  <2>10. EntriesSited'
    BY <1>1, <2>7, <2>8 DEF ArtifactInv, EntriesSited
  <2>11. Tiled'
    BY <2>1, <2>3, <2>7, <2>8 DEF Tiled
  <2>12. DoorRight'
    BY <1>1, <2>5, <2>7 DEF ArtifactInv, DoorRight
  <2> QED
    BY <2>6, <2>9, <2>10, <2>11, <2>12 DEF ArtifactInv
<1> QED
  BY <1>2, <1>3 DEF cosmic_artifact_decode

LEMMA RegisterInv ==
  ASSUME ArtifactInv, cosmic_vfs_register
  PROVE  ArtifactInv'
<1>1. /\ art.stage = "accepted" /\ art' = [art EXCEPT !.stage = "registered"] /\ bytesRead' = bytesRead
      /\ door' = [open |-> TRUE, offset |-> art.database, length |-> art.length, files |-> 0]
  BY DEF cosmic_vfs_register
<1>2. ArtifactTypes'
  BY <1>1 DEF ArtifactInv, ArtifactTypes
<1>3. /\ art'.stage = "registered" /\ art'.manifest = art.manifest /\ art'.database = art.database
      /\ art'.length = art.length /\ art'.size = art.size /\ art'.format = art.format
      /\ art'.entries = art.entries /\ art'.selected = art.selected /\ art'.dirt = art.dirt
      /\ art.database \in Nat /\ art.length \in Nat
  BY <1>1 DEF ArtifactInv, ArtifactTypes
<1>4. first_core' = first_core /\ Selected' = Selected
  BY <1>3 DEF first_core, Selected, Cores
<1>5. Fitted'
  BY <1>1, <1>3, <1>4 DEF ArtifactInv, Fitted
<1>6. EntriesSited'
  BY <1>1, <1>3, <1>4 DEF ArtifactInv, EntriesSited
<1>7. Tiled'
  <2>1. Tiled
    BY DEF ArtifactInv
  <2> QED
    BY <1>1, <1>3, <1>4, <2>1 DEF Tiled
<1>8. DoorRight'
  <2>1. bytesRead = [from |-> 0, to |-> 0]
    BY <1>1 DEF ArtifactInv, DoorRight
  <2> QED
    BY <1>1, <1>3, <2>1 DEF DoorRight
<1> QED
  BY <1>2, <1>5, <1>6, <1>7, <1>8 DEF ArtifactInv

\* What is opened and read changes nothing of the file's parts.
LEMMA ArtStays ==
  ASSUME ArtifactInv, UNCHANGED art, DoorRight'
  PROVE  ArtifactInv'
BY DEF ArtifactInv, ArtifactTypes, Fitted, EntriesSited, Tiled, first_core, Selected, Cores

LEMMA DoorOpenInv ==
  ASSUME ArtifactInv, vfs_open
  PROVE  ArtifactInv'
<1>1. /\ art.stage = "registered" /\ door.open /\ door' = [door EXCEPT !.open = FALSE, !.files = @ + 1]
      /\ UNCHANGED art /\ bytesRead' = bytesRead
  BY DEF vfs_open
<1>2. /\ door \in [open : BOOLEAN, offset : Nat, length : Nat, files : Nat] /\ door.files = 0
  BY <1>1 DEF ArtifactInv, DoorRight
<1>3. /\ door' \in [open : BOOLEAN, offset : Nat, length : Nat, files : Nat]
      /\ door'.offset = door.offset /\ door'.length = door.length /\ door'.files = 1 /\ ~door'.open
  <2>1. door.files + 1 = 1 /\ 1 \in Nat
    BY <1>2
  <2>2. door' = [door EXCEPT !.open = FALSE, !.files = 1]
    BY <1>1, <2>1
  <2> QED
    BY <1>2, <2>1, <2>2, Zenon
<1>4. DoorRight'
  BY <1>1, <1>3 DEF ArtifactInv, DoorRight
<1> QED
  BY <1>1, <1>4, ArtStays

LEMMA DoorReadInv ==
  ASSUME ArtifactInv, NEW at \in Fields, NEW amount \in Amounts, file_read(at, amount)
  PROVE  ArtifactInv'
<1> DEFINE room == door.length - at
           n == IF room < amount THEN room ELSE amount
<1>1. /\ door.files > 0 /\ UNCHANGED <<art, door>>
      /\ bytesRead' = IF at > door.length THEN [from |-> 0, to |-> 0]
                      ELSE [from |-> door.offset + at, to |-> door.offset + at + n]
  BY DEF file_read
<1>2. at \in Nat /\ amount \in Nat
  BY ArtifactAssumption, LengthsKnown
<1>3. art.stage = "registered"
  BY <1>1 DEF ArtifactInv, DoorRight, Shut
<1>4. /\ door.offset = art.database /\ door.length = art.length /\ door.offset \in Nat /\ door.length \in Nat
  BY <1>3 DEF ArtifactInv, DoorRight
<1>5. /\ bytesRead' \in [from : Nat, to : Nat]
      /\ bytesRead'.to > bytesRead'.from =>
            bytesRead'.from >= art.database /\ bytesRead'.to <= art.database + art.length
  <2>1. CASE at > door.length
    BY <1>1, <2>1
  <2>2. CASE ~(at > door.length)
    <3>1. n \in Nat /\ at + n <= door.length
      BY <1>2, <1>4, <2>2
    <3> HIDE DEF n
    <3>2. bytesRead' = [from |-> door.offset + at, to |-> door.offset + at + n]
      BY <1>1, <2>2
    <3> QED
      BY <1>2, <1>4, <3>1, <3>2
  <2> QED
    BY <2>1, <2>2
<1>6. DoorRight'
  BY <1>1, <1>3, <1>5 DEF ArtifactInv, DoorRight
<1> QED
  BY <1>1, <1>6, ArtStays

LEMMA ArtifactStep == ArtifactInv /\ [ArtifactNext]_artifactVars => ArtifactInv'
<1> SUFFICES ASSUME ArtifactInv, [ArtifactNext]_artifactVars PROVE ArtifactInv'
  OBVIOUS
<1>1. CASE UNCHANGED artifactVars
  <2>1. UNCHANGED art /\ DoorRight'
    BY <1>1 DEF artifactVars, ArtifactInv, DoorRight
  <2> QED
    BY <2>1, ArtStays
<1>2. CASE \E at \in Fields, amount \in Amounts : file_read(at, amount)
  BY <1>2, DoorReadInv
<1> QED
  BY <1>1, <1>2, TrailerInv, ManifestInv, EntryInv, DecodeInv, RegisterInv, DoorOpenInv DEF ArtifactNext

(***************************************************************************)
(* The parts cover the file once each.                                     *)
(***************************************************************************)
LEMMA ArtifactShown == ArtifactInv => ArtifactReads
<1> SUFFICES ASSUME ArtifactInv PROVE PartsTileFile /\ DoorInside
  BY DEF ArtifactReads
<1>1. DoorInside
  BY DEF ArtifactInv, DoorRight, DoorInside, Shut
<1>2. PartsTileFile
  <2> SUFFICES ASSUME art.stage \in {"accepted", "registered"} PROVE PartsTileFile
    BY DEF PartsTileFile
  <2> DEFINE es == art.entries
             l == Len(es)
             Run(a, n) == a .. (a + n - 1)
             parts == [i \in 0 .. Len(es) + 3 |->
                         CASE i = 0 -> Run(0, first_core)
                           [] i \in 1 .. Len(es) -> Run(es[i].offset, es[i].stored)
                           [] i = Len(es) + 1 -> Run(art.manifest, ManifestLength)
                           [] i = Len(es) + 2 -> Run(art.database, art.length)
                           [] i = Len(es) + 3 -> Run(TrailerAt, TrailerLength)]
             gaps == (0 .. art.size - 1) \ UNION {parts[i] : i \in DOMAIN parts}
  <2>1. /\ art.manifest \in Nat /\ art.database \in Nat /\ art.length \in Nat /\ art.size \in Nat
        /\ art.dirt \in Int /\ first_core \in Nat /\ first_core <= art.manifest
        /\ art.manifest + ManifestLength = art.database /\ art.database + art.length = TrailerAt
        /\ TrailerAt + TrailerLength = art.size /\ TrailerAt \in Nat
    <3>1. /\ art.manifest \in Nat /\ art.database \in Nat /\ art.length \in Nat /\ art.size \in Nat
          /\ art.dirt \in Int
      BY DEF ArtifactInv, ArtifactTypes
    <3>2. first_core \in Nat
      BY LengthsKnown DEF first_core
    <3>3. /\ first_core <= art.manifest /\ art.manifest + ManifestLength = art.database
          /\ art.database + art.length = art.size - TrailerLength
      BY DEF ArtifactInv, Fitted
    <3> QED
      BY <3>1, <3>2, <3>3, LengthsKnown, SMTT(30) DEF TrailerAt
  <2>2. l \in Nat
    BY LenProperties DEF ArtifactInv, ArtifactTypes
  <2>3. \A i \in 1 .. l : /\ es[i].offset \in Nat /\ es[i].stored \in Nat /\ first_core <= es[i].offset
                           /\ es[i].stored > 0 /\ es[i].offset + es[i].stored <= art.manifest
    BY EntryKnown DEF ArtifactInv, Sited
  <2>4. /\ \A i, j \in 1 .. l : i # j => Apart(es[i], es[j])
        /\ \A g \in Nat : first_core <= g /\ g < art.manifest =>
              \/ \E i \in 1 .. l : Inside(g, es[i])
              \/ Padding(g, es, art.manifest, art.dirt)
        /\ Selected = {art.selected}
    BY DEF ArtifactInv, Tiled
  <2>5. /\ DOMAIN parts = 0 .. l + 3
        /\ parts[0] = Run(0, first_core)
        /\ \A i \in 1 .. l : parts[i] = Run(es[i].offset, es[i].stored)
        /\ parts[l + 1] = Run(art.manifest, ManifestLength)
        /\ parts[l + 2] = Run(art.database, art.length)
        /\ parts[l + 3] = Run(TrailerAt, TrailerLength)
    <3> HIDE DEF l, es
    <3>1. Len(es) = l
      BY DEF l
    <3>2. DOMAIN parts = 0 .. l + 3
      BY <3>1
    <3>3. \A i \in 0 .. l + 3 : parts[i] = CASE i = 0 -> Run(0, first_core)
                           [] i \in 1 .. l -> Run(es[i].offset, es[i].stored)
                           [] i = l + 1 -> Run(art.manifest, ManifestLength)
                           [] i = l + 2 -> Run(art.database, art.length)
                           [] i = l + 3 -> Run(TrailerAt, TrailerLength)
      BY <3>1
    <3> HIDE DEF parts, Run
    <3>4. parts[0] = Run(0, first_core)
      BY <2>2, <3>3
    <3>5. \A i \in 1 .. l : parts[i] = Run(es[i].offset, es[i].stored)
      BY <2>2, <3>3
    <3>6. parts[l + 1] = Run(art.manifest, ManifestLength)
      BY <2>2, <3>3
    <3>7. parts[l + 2] = Run(art.database, art.length)
      BY <2>2, <3>3
    <3>8. parts[l + 3] = Run(TrailerAt, TrailerLength)
      BY <2>2, <3>3
    <3> QED
      BY <3>2, <3>4, <3>5, <3>6, <3>7, <3>8
  <2>6. PartsTileFile = (/\ \A i, j \in DOMAIN parts : i # j => parts[i] \cap parts[j] = {}
                         /\ \A i \in DOMAIN parts : parts[i] \subseteq 0 .. art.size - 1
                         /\ \A g \in gaps : g # art.dirt /\ ~(Run(g, Alignment) \subseteq gaps)
                         /\ Selected = {art.selected})
    BY DEF PartsTileFile
  <2> HIDE DEF parts, es, l
  <2>7. ASSUME NEW x \in Int
        PROVE  /\ x \in parts[0] <=> (0 <= x /\ x < first_core)
               /\ x \in parts[l + 1] <=> (art.manifest <= x /\ x < art.database)
               /\ x \in parts[l + 2] <=> (art.database <= x /\ x < TrailerAt)
               /\ x \in parts[l + 3] <=> (TrailerAt <= x /\ x < art.size)
    <3>1. \A a, n \in Int : x \in Run(a, n) <=> (a <= x /\ x < a + n)
      OBVIOUS
    <3> HIDE DEF Run
    <3>2. x \in parts[0] <=> (0 <= x /\ x < first_core)
      BY <2>1, <2>5, <3>1, SMTT(30)
    <3>3. x \in parts[l + 1] <=> (art.manifest <= x /\ x < art.database)
      BY <2>1, <2>5, <3>1, LengthsKnown, SMTT(30)
    <3>4. x \in parts[l + 2] <=> (art.database <= x /\ x < TrailerAt)
      BY <2>1, <2>5, <3>1, SMTT(30)
    <3>5. x \in parts[l + 3] <=> (TrailerAt <= x /\ x < art.size)
      BY <2>1, <2>5, <3>1, LengthsKnown, SMTT(30)
    <3> QED
      BY <3>2, <3>3, <3>4, <3>5
  <2>8. ASSUME NEW i \in 1 .. l, NEW x \in Int
        PROVE  x \in parts[i] <=> (es[i].offset <= x /\ x < es[i].offset + es[i].stored)
    <3>1. PICK a \in Nat, n \in Nat : a = es[i].offset /\ n = es[i].stored
      BY <2>3
    <3>2. parts[i] = a .. (a + n - 1)
      BY <2>5, <3>1
    <3>3. x \in a .. (a + n - 1) <=> (a <= x /\ x < a + n)
      OBVIOUS
    <3> QED
      BY <3>1, <3>2, <3>3
  <2>9. \A i \in 0 .. l + 3 : parts[i] \subseteq Int
    <3>1. \A i \in 0 .. l + 3 : i = 0 \/ i \in 1 .. l \/ i = l + 1 \/ i = l + 2 \/ i = l + 3
      BY <2>2
    <3>2. \A a, n : Run(a, n) \subseteq Int
      OBVIOUS
    <3> HIDE DEF Run
    <3> QED
      BY <2>5, <3>1, <3>2
  <2> HIDE DEF Run
  <2>10. \A i \in 0 .. l + 3 : i = 0 \/ i \in 1 .. l \/ i = l + 1 \/ i = l + 2 \/ i = l + 3
    BY <2>2
  <2>11. ASSUME NEW i \in 0 .. l + 3, NEW j \in 0 .. l + 3, NEW x \in Int, x \in parts[i], x \in parts[j]
         PROVE  i = j
    <3>1. CASE i \in 1 .. l /\ j \in 1 .. l
      <4>1. es[i].offset <= x /\ x < es[i].offset + es[i].stored /\ es[j].offset <= x /\ x < es[j].offset + es[j].stored
        BY <2>8, <2>11, <3>1
      <4> QED
        BY <2>3, <2>4, <3>1, <4>1 DEF Apart
    <3>2. CASE i \in 1 .. l /\ j \notin 1 .. l
      <4>1. first_core <= x /\ x < art.manifest
        BY <2>1, <2>3, <2>8, <2>11, <3>2
      <4> QED
        BY <2>1, <2>7, <2>10, <2>11, <3>2, <4>1, LengthsKnown
    <3>3. CASE j \in 1 .. l /\ i \notin 1 .. l
      <4>1. first_core <= x /\ x < art.manifest
        BY <2>1, <2>3, <2>8, <2>11, <3>3
      <4> QED
        BY <2>1, <2>7, <2>10, <2>11, <3>3, <4>1, LengthsKnown
    <3>4. CASE i \notin 1 .. l /\ j \notin 1 .. l
      BY <2>1, <2>2, <2>7, <2>10, <2>11, <3>4, LengthsKnown
    <3> QED
      BY <3>1, <3>2, <3>3, <3>4
  <2>12. \A i, j \in DOMAIN parts : i # j => parts[i] \cap parts[j] = {}
    BY <2>5, <2>9, <2>11
  <2>13. ASSUME NEW i \in 0 .. l + 3, NEW x \in parts[i] PROVE x \in 0 .. art.size - 1
    <3>1. x \in Int
      BY <2>9
    <3>2. CASE i \in 1 .. l
      BY <2>1, <2>3, <2>8, <3>1, <3>2, LengthsKnown
    <3>3. CASE i \notin 1 .. l
      BY <2>1, <2>7, <2>10, <3>1, <3>3, LengthsKnown
    <3> QED
      BY <3>2, <3>3
  <2>14. ASSUME NEW g \in gaps PROVE g # art.dirt /\ ~(Run(g, Alignment) \subseteq gaps)
    <3>1. g \in Nat /\ g < art.size /\ \A i \in 0 .. l + 3 : g \notin parts[i]
      <4>1. g \in 0 .. art.size - 1 /\ \A i \in DOMAIN parts : g \notin parts[i]
        BY <2>14, Zenon
      <4>2. DOMAIN parts = 0 .. l + 3
        BY <2>5
      <4>3. g \in Nat /\ g < art.size
        BY <2>1, <4>1
      <4> QED
        BY <4>1, <4>2, <4>3
    <3>2. first_core <= g /\ g < art.manifest
      <4>1. 0 \in 0 .. l + 3 /\ l + 1 \in 0 .. l + 3 /\ l + 2 \in 0 .. l + 3 /\ l + 3 \in 0 .. l + 3
        BY <2>2
      <4> QED
        BY <2>1, <2>7, <3>1, <4>1
    <3>3. \A i \in 1 .. l : ~Inside(g, es[i])
      <4>1. 1 .. l \subseteq 0 .. l + 3
        BY <2>2
      <4> QED
        BY <2>8, <3>1, <4>1 DEF Inside
    <3>4. Padding(g, es, art.manifest, art.dirt)
      BY <2>4, <3>1, <3>2, <3>3
    <3>5. PICK s \in Nat : /\ g < s /\ s < g + Alignment
                           /\ s = art.manifest \/ \E i \in 1 .. l : s = es[i].offset
      BY <3>4 DEF Padding, l
    <3>6. s \in Run(g, Alignment)
      BY <3>1, <3>5, LengthsKnown DEF Run
    <3>7. s \notin gaps
      <4>1. CASE s = art.manifest
        <5>1. s \in parts[l + 1] /\ l + 1 \in DOMAIN parts
          <6>1. s \in parts[l + 1]
            BY <2>1, <2>7, <4>1, LengthsKnown
          <6>2. l + 1 \in 0 .. l + 3
            BY <2>2
          <6> QED
            BY <2>5, <6>1, <6>2
        <5> QED
          BY <5>1
      <4>2. CASE \E i \in 1 .. l : s = es[i].offset
        <5>1. PICK i \in 1 .. l : s = es[i].offset
          BY <4>2
        <5>2. s \in parts[i]
          BY <2>3, <2>8, <5>1
        <5>3. i \in DOMAIN parts
          BY <2>2, <2>5
        <5> QED
          BY <5>2, <5>3
      <4> QED
        BY <3>5, <4>1, <4>2
    <3>8. g # art.dirt
      BY <3>4 DEF Padding
    <3> HIDE DEF gaps
    <3> QED
      BY <3>6, <3>7, <3>8
  <2> HIDE DEF gaps
  <2> QED
    BY <2>4, <2>5, <2>6, <2>12, <2>13, <2>14
<1> QED
  BY <1>1, <1>2

(* The decoder's and the door's state is always as described above: no sum *)
(* wrapped, cores within their bounds, and what was accepted tiled         *)
(* (decode_blocks, decode_host, decode_portable, cosmic_vfs_register).     *)
THEOREM ArtifactInvariance == ArtifactSpec => []ArtifactInv
BY ArtifactInitInv, ArtifactStep, PTL DEF ArtifactSpec

(* Whatever the fields of a file hold, one that is accepted is its shell,  *)
(* cores, manifest, database and trailer, each byte in one of them or a    *)
(* zero of a padding shorter than the alignment; the core selected is the  *)
(* one of the compiled identity; and the database is opened once and read  *)
(* inside its range (decode_portable, decode_host, vfs_open, file_read).   *)
THEOREM AcceptedFilesAreTheirParts == ArtifactSpec => []ArtifactReads
<1>1. ArtifactSpec => []ArtifactInv
  BY ArtifactInvariance
<1> QED
  BY <1>1, ArtifactShown, PTL
=============================================================================
