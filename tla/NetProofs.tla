------------------------------ MODULE NetProofs ------------------------------
(***************************************************************************)
(* Proofs about sockets, connections, the server, lookups and the HTTP     *)
(* client, for any number of listeners, inodes, messages, tasks,           *)
(* connections, servers, certificates and transfers.                       *)
(***************************************************************************)
EXTENDS Sockets, Connection, NetServe, Lookup, Http, FiniteSetTheorems, SequenceLemmas, TLAPS

(***************************************************************************)
(* A listener's file (module Sockets).  A listener knows its file by the   *)
(* inode alone, which another file may have later: but not while its own   *)
(* socket is bound, and that is closed last (Bound).  Between the bind and *)
(* the look that reads the inode back, and between the last look and the   *)
(* removal, only the name says whose the file is, and it does while nobody *)
(* else changes it (Sure).                                                 *)
(***************************************************************************)
Places == {"new", "directory", "socket", "bound", "stranded", "made", "listening", "release", "unlink", "close", "gone"}
Begun == {"new", "directory", "socket"}
ListenTypes ==
  /\ entry \in [ino : Nat, kind : {"none", "socket", "file"}, maker : Listeners \cup {"none", "stranger"}]
  /\ owned \in [Listeners -> [at : Places, fd : BOOLEAN, directory : BOOLEAN, made : BOOLEAN, ino : Nat]]
  /\ bound \in [Listeners -> Nat]
  /\ raced \subseteq Listeners /\ excused \subseteq Listeners
  /\ wronged \in BOOLEAN
  /\ entry.ino = 0 => entry.maker = "none"

\* While a listener's socket is bound, its inode is of the file it made.
Bound(l) ==
  /\ owned[l].at \in Begun => bound[l] = 0 /\ ~owned[l].made /\ entry.maker # l
  /\ owned[l].at \in {"bound", "stranded"} => bound[l] # 0
  /\ bound[l] # 0 /\ entry.ino = bound[l] => entry.maker = l
  /\ entry.maker = l => entry.kind = "socket" /\ (bound[l] = entry.ino \/ owned[l].at = "gone")

\* A listener whose name nobody changed while it looked at it.
Sure(l) ==
  /\ owned[l].at \in {"bound", "stranded", "unlink"} => entry.maker = l
  /\ owned[l].at \in {"made", "listening", "release", "unlink"} /\ owned[l].made =>
       owned[l].ino = bound[l] /\ bound[l] # 0
  /\ l \notin excused /\ entry.maker = l =>
       /\ owned[l].at \notin {"close", "gone"}
       /\ owned[l].at \in {"made", "listening", "release", "unlink"} => owned[l].made

ListenInv ==
  /\ ListenTypes /\ ~wronged
  /\ \A l \in Listeners : Bound(l) /\ (l \notin raced => Sure(l))

\* Only l's record, file and standing are touched.
OthersStay(l) ==
  /\ \A k \in Listeners \ {l} : owned'[k] = owned[k] /\ bound'[k] = bound[k]
  /\ \A k \in Listeners \ {l} : (k \in excused <=> k \in excused') /\ (k \in raced => k \in raced')

(* A step of one listener that leaves the name as it is.                   *)
LEMMA Alone ==
  ASSUME ListenInv, ListenTypes', NEW l \in Listeners, OthersStay(l), entry' = entry, wronged' = wronged,
         Bound(l)', l \notin raced' => Sure(l)'
  PROVE  ListenInv'
<1>1. ASSUME NEW k \in Listeners \ {l}
      PROVE  Bound(k)' /\ (k \notin raced' => Sure(k)')
  <2>1. /\ owned'[k] = owned[k] /\ bound'[k] = bound[k] /\ entry' = entry
        /\ (k \in excused <=> k \in excused') /\ (k \in raced => k \in raced')
    BY DEF OthersStay
  <2>2. Bound(k) /\ (k \notin raced => Sure(k))
    BY DEF ListenInv
  <2>3. Bound(k)'
    BY <2>1, <2>2 DEF Bound
  <2>4. k \notin raced' => Sure(k)'
    BY <2>1, <2>2 DEF Sure
  <2> QED
    BY <2>3, <2>4
<1> QED
  BY <1>1 DEF ListenInv

LEMMA ListenInits == SocketInit => ListenInv
<1> SUFFICES ASSUME SocketInit
             PROVE  ListenInv
  OBVIOUS
<1>1. ListenTypes /\ ~wronged
  BY DEF SocketInit, ListenTypes, NoEntry, owner_push, Places
<1>2. ASSUME NEW l \in Listeners
      PROVE  Bound(l) /\ Sure(l)
  BY SocketsAssumption DEF SocketInit, Bound, Sure, NoEntry, owner_push, Begun
<1> QED
  BY <1>1, <1>2 DEF ListenInv

(* The steps before a listener has a file, and after it let go.            *)
LEMMA Quiet ==
  ASSUME ListenInv, NEW l \in Listeners, NEW ok \in BOOLEAN,
         \/ unix_owner_push(l, ok) \/ new_socket(l, ok) \/ listen(l, ok) \/ socket_close(l) \/ released(l)
  PROVE  ListenInv'
<1>1. /\ ListenTypes /\ ~wronged /\ Bound(l) /\ (l \notin raced => Sure(l))
      /\ UNCHANGED <<entry, bound, raced, excused, wronged>>
  BY DEF ListenInv, unix_owner_push, new_socket, listen, socket_close, released
<1>2. ListenTypes'
  BY <1>1 DEF ListenTypes, unix_owner_push, new_socket, listen, socket_close, released, At, Places
<1>3. OthersStay(l)
  BY <1>1 DEF ListenTypes, OthersStay, unix_owner_push, new_socket, listen, socket_close, released, At
<1>4. Bound(l)'
  BY <1>1 DEF ListenTypes, Bound, Begun, unix_owner_push, new_socket, listen, socket_close, released, At
<1>5. l \notin raced' => Sure(l)'
  <2>1. CASE unix_owner_push(l, ok) \/ new_socket(l, ok)
    BY <1>1, <2>1 DEF ListenTypes, Bound, Sure, Begun, unix_owner_push, new_socket
  <2>2. CASE listen(l, ok) \/ socket_close(l)
    BY <1>1, <2>2 DEF ListenTypes, Sure, listen, socket_close, At
  <2>3. CASE released(l)
    BY <1>1, <2>3 DEF ListenTypes, Sure, Bound, released, At
  <2> QED
    BY <2>1, <2>2, <2>3
<1> QED
  BY <1>1, <1>2, <1>3, <1>4, <1>5, Alone

LEMMA Binds ==
  ASSUME ListenInv, NEW l \in Listeners, NEW stranded \in BOOLEAN, reach_from(l, stranded)
  PROVE  ListenInv'
<1>1. /\ ListenTypes /\ ~wronged /\ Bound(l) /\ (l \notin raced => Sure(l)) /\ owned[l].at = "socket"
      /\ UNCHANGED <<raced, excused, wronged>>
  BY DEF ListenInv, reach_from
<1>2. CASE entry # NoEntry
  <2>1. owned' = [owned EXCEPT ![l].at = "release"] /\ UNCHANGED <<entry, bound>>
    BY <1>2 DEF reach_from, At
  <2>2. ListenTypes' /\ OthersStay(l)
    BY <1>1, <2>1 DEF ListenTypes, OthersStay, Places
  <2>3. Bound(l)' /\ (l \notin raced' => Sure(l)')
    BY <1>1, <2>1 DEF ListenTypes, Bound, Sure, Begun
  <2> QED
    BY <1>1, <2>1, <2>2, <2>3, Alone
<1>3. CASE entry = NoEntry
  <2>1. PICK ino \in Inodes : /\ ino \notin Held /\ entry' = [ino |-> ino, kind |-> "socket", maker |-> l]
                              /\ bound' = [bound EXCEPT ![l] = ino]
    BY <1>3 DEF reach_from, NewFile
  <2>2. owned' = [owned EXCEPT ![l].at = IF stranded THEN "stranded" ELSE "bound"]
    BY <1>3 DEF reach_from, At
  <2>3. ino \in Nat /\ ino # 0 /\ \A k \in Listeners : bound[k] # ino
    BY <2>1, SocketsAssumption DEF Held
  <2>4. ListenTypes'
    BY <1>1, <2>1, <2>2, <2>3 DEF ListenTypes, Places
  <2>5. entry'.ino = ino /\ entry'.maker = l /\ entry'.kind = "socket" /\ entry.maker = "none" /\ entry.ino = 0
    BY <1>3, <2>1 DEF NoEntry
  <2>6. ASSUME NEW k \in Listeners \ {l}
        PROVE  Bound(k)' /\ (k \notin raced' => Sure(k)')
    <3>1. owned'[k] = owned[k] /\ bound'[k] = bound[k] /\ bound[k] # ino /\ k # "none" /\ excused' = excused /\ raced' = raced
      BY <1>1, <2>1, <2>2, <2>3, SocketsAssumption DEF ListenTypes
    <3>2. Bound(k) /\ (k \notin raced => Sure(k))
      BY DEF ListenInv
    <3>3. Bound(k)'
      BY <2>5, <3>1, <3>2 DEF Bound
    <3>4. k \notin raced' => Sure(k)'
      BY <2>5, <3>1, <3>2 DEF Sure
    <3> QED
      BY <3>3, <3>4
  <2>7. Bound(l)' /\ Sure(l)'
    <3>1. owned'[l].at \in {"bound", "stranded"} /\ bound'[l] = ino
      BY <1>1, <2>1, <2>2 DEF ListenTypes
    <3> QED
      BY <2>3, <2>5, <3>1 DEF Bound, Sure, Begun
  <2> QED
    BY <1>1, <2>4, <2>6, <2>7 DEF ListenInv
<1> QED
  BY <1>2, <1>3

LEMMA ReadsBack ==
  ASSUME ListenInv, NEW l \in Listeners, NEW ok \in BOOLEAN, ReadBack(l, ok)
  PROVE  ListenInv'
<1>1. /\ ListenTypes /\ ~wronged /\ Bound(l) /\ (l \notin raced => Sure(l))
      /\ owned[l].at \in {"bound", "stranded"} /\ UNCHANGED <<entry, bound, raced, wronged>>
      /\ excused' = IF ok THEN excused ELSE excused \cup {l}
  BY DEF ListenInv, ReadBack
<1> DEFINE mine == ok /\ entry.kind = "socket"
<1>2. /\ owned' = [owned EXCEPT ![l].made = mine, ![l].ino = IF mine THEN entry.ino ELSE 0,
                                ![l].at = IF mine /\ owned[l].at = "bound" THEN "made" ELSE "release"]
      /\ mine \in BOOLEAN
  BY DEF ReadBack
<1> HIDE DEF mine
<1>3. /\ owned' \in [Listeners -> [at : Places, fd : BOOLEAN, directory : BOOLEAN, made : BOOLEAN, ino : Nat]]
      /\ owned'[l].made = mine /\ owned'[l].ino = (IF mine THEN entry.ino ELSE 0)
      /\ owned'[l].at \in {"made", "release"}
      /\ \A k \in Listeners \ {l} : owned'[k] = owned[k]
  BY <1>1, <1>2 DEF ListenTypes, Places
<1>4. ListenTypes' /\ OthersStay(l)
  BY <1>1, <1>3 DEF ListenTypes, OthersStay
<1>5. Bound(l)'
  BY <1>1, <1>3 DEF Bound, Begun
<1>6. l \notin raced' => Sure(l)'
  <2> SUFFICES ASSUME l \notin raced
               PROVE  Sure(l)'
    BY <1>1
  <2>1. entry.maker = l /\ entry.kind = "socket" /\ bound[l] = entry.ino /\ bound[l] # 0
    BY <1>1 DEF Bound, Sure
  <2>2. ok => mine = TRUE
    BY <2>1 DEF mine
  <2>3. l \notin excused' => ok
    BY <1>1
  <2> QED
    BY <1>1, <1>3, <2>1, <2>2, <2>3 DEF Sure
<1> QED
  BY <1>1, <1>4, <1>5, <1>6, Alone

(* A removal: whoever was looking at the name meanwhile is not sure of it. *)
LEMMA Removes ==
  ASSUME ListenInv, NEW l \in Listeners, NEW ok \in BOOLEAN, Unlink(l, ok)
  PROVE  ListenInv'
<1>1. /\ ListenTypes /\ ~wronged /\ Bound(l) /\ (l \notin raced => Sure(l)) /\ owned[l].at = "unlink"
      /\ bound' = bound /\ owned' = [owned EXCEPT ![l].at = "close"]
      /\ entry' = (IF ok THEN NoEntry ELSE entry)
      /\ wronged' = (wronged \/ (ok /\ entry.maker \notin {l, "none"} /\ l \notin raced))
      /\ excused' = (IF ok THEN excused ELSE excused \cup {l})
      /\ raced' = (IF ok THEN raced \cup (AtTheName \ {l}) ELSE raced)
  BY DEF ListenInv, Unlink
<1>2. wronged' = FALSE
  BY <1>1 DEF Sure, ListenTypes
<1>3. ListenTypes'
  BY <1>1, <1>2 DEF ListenTypes, Places, NoEntry, AtTheName
<1>4. CASE ~ok
  <2>1. OthersStay(l) /\ entry' = entry /\ wronged' = wronged
    BY <1>1, <1>2, <1>4 DEF OthersStay, ListenTypes
  <2>2. Bound(l)' /\ (l \notin raced' => Sure(l)')
    BY <1>1, <1>4 DEF ListenTypes, Bound, Sure, Begun
  <2> QED
    BY <1>3, <2>1, <2>2, Alone
<1>5. CASE ok
  <2>1. entry'.ino = 0 /\ entry'.maker = "none" /\ bound' = bound /\ excused' = excused
    BY <1>1, <1>5 DEF NoEntry
  <2>2. ASSUME NEW k \in Listeners
        PROVE  Bound(k)' /\ (k \notin raced' => Sure(k)')
    <3>1. Bound(k) /\ (k \notin raced => Sure(k)) /\ k # "none" /\ bound[k] \in Nat
      BY <1>1, SocketsAssumption DEF ListenInv, ListenTypes
    <3>2. owned'[k].made = owned[k].made /\ owned'[k].ino = owned[k].ino
          /\ (owned'[k].at = owned[k].at \/ (k = l /\ owned'[k].at = "close"))
      BY <1>1 DEF ListenTypes
    <3>3. Bound(k)'
      BY <1>1, <2>1, <3>1, <3>2 DEF Bound, Begun
    <3>4. k \notin raced' => k \notin raced /\ owned'[k].at \notin {"bound", "stranded", "unlink"}
      <4>1. CASE k = l
        BY <1>1, <1>5, <4>1 DEF ListenTypes
      <4>2. CASE k # l
        <5>1. owned'[k].at = owned[k].at /\ (k \in AtTheName => k \in raced') /\ (k \in raced => k \in raced')
          BY <1>1, <1>5, <3>2, <4>2
        <5> QED
          BY <5>1 DEF AtTheName
      <4> QED
        BY <4>1, <4>2
    <3>5. k \notin raced' => Sure(k)'
      BY <1>1, <2>1, <3>1, <3>2, <3>4 DEF Sure
    <3> QED
      BY <3>3, <3>5
  <2> QED
    BY <1>2, <1>3, <2>2 DEF ListenInv
<1> QED
  BY <1>4, <1>5

LEMMA LetsAllGo ==
  ASSUME ListenInv, NEW l \in Listeners, ClosedAll(l)
  PROVE  ListenInv'
<1>1. /\ ListenTypes /\ ~wronged /\ Bound(l) /\ (l \notin raced => Sure(l)) /\ owned[l].at = "close"
      /\ UNCHANGED <<entry, raced, excused, wronged>> /\ bound' = [bound EXCEPT ![l] = 0]
      /\ owned' = [owned EXCEPT ![l] = [owner_push EXCEPT !.at = "gone"]]
  BY DEF ListenInv, ClosedAll
<1>2. /\ [owner_push EXCEPT !.at = "gone"] \in [at : Places, fd : BOOLEAN, directory : BOOLEAN, made : BOOLEAN, ino : Nat]
      /\ [owner_push EXCEPT !.at = "gone"].at = "gone"
  BY DEF owner_push, Places
<1>3. ListenTypes' /\ OthersStay(l) /\ owned'[l].at = "gone" /\ bound'[l] = 0
  BY <1>1, <1>2 DEF ListenTypes, OthersStay
<1>4. Bound(l)' /\ (l \notin raced' => Sure(l)')
  BY <1>1, <1>3 DEF Bound, Sure, Begun
<1> QED
  BY <1>1, <1>3, <1>4, Alone

LEMMA StrangerActs ==
  ASSUME ListenInv, NEW kind \in {"none", "socket", "file"}, Stranger(kind)
  PROVE  ListenInv'
<1>1. /\ ListenTypes /\ ~wronged /\ raced' = raced \cup AtTheName /\ UNCHANGED <<owned, bound, excused, wronged>>
  BY DEF ListenInv, Stranger
<1>2. entry' = NoEntry \/ \E ino \in Inodes \ Held : entry' = [ino |-> ino, kind |-> kind, maker |-> "stranger"]
  BY DEF Stranger, NewFile
<1>3. /\ entry'.ino \in Nat /\ entry' \in [ino : Nat, kind : {"none", "socket", "file"}, maker : Listeners \cup {"none", "stranger"}]
      /\ entry'.maker \in {"none", "stranger"} /\ (entry'.ino = 0 => entry'.maker = "none")
      /\ \A k \in Listeners : bound[k] # 0 => entry'.ino # bound[k]
  <2>1. CASE entry' = NoEntry
    BY <2>1 DEF NoEntry
  <2>2. ASSUME NEW ino \in Inodes \ Held, entry' = [ino |-> ino, kind |-> kind, maker |-> "stranger"]
        PROVE  /\ entry'.ino = ino /\ ino \in Nat /\ ino # 0 /\ entry'.maker = "stranger"
               /\ entry' \in [ino : Nat, kind : {"none", "socket", "file"}, maker : Listeners \cup {"none", "stranger"}]
               /\ \A k \in Listeners : ino # bound[k]
    BY <2>2, SocketsAssumption DEF Held
  <2> QED
    BY <1>2, <2>1, <2>2
<1>4. ListenTypes'
  BY <1>1, <1>3 DEF ListenTypes, AtTheName
<1>5. ASSUME NEW k \in Listeners
      PROVE  Bound(k)' /\ (k \notin raced' => Sure(k)')
  <2>1. Bound(k) /\ (k \notin raced => Sure(k)) /\ entry'.maker # k
    BY <1>3, SocketsAssumption DEF ListenInv
  <2>2. Bound(k)'
    BY <1>1, <1>3, <2>1 DEF Bound
  <2>3. k \notin raced' => k \notin raced /\ owned[k].at \notin {"bound", "stranded", "unlink"}
    BY <1>1 DEF AtTheName
  <2>4. k \notin raced' => Sure(k)'
    BY <1>1, <2>1, <2>3 DEF Sure
  <2> QED
    BY <2>2, <2>4
<1> QED
  BY <1>1, <1>4, <1>5 DEF ListenInv

LEMMA ListenSteps == ListenInv /\ ListenNext => ListenInv'
BY Quiet, Binds, ReadsBack, Removes, LetsAllGo, StrangerActs DEF ListenNext

(***************************************************************************)
(* The descriptors of a message: each header scanned moves its own from    *)
(* what is open and unguarded to the guard, or closes it (Unscanned).      *)
(***************************************************************************)
Unscanned == UNION {Brought(i) : i \in rcv.part .. Len(msg.parts)}

RightsInv ==
  /\ msg \in Messages
  /\ rcv \in [at : {"start", "scan", "end", "done"}, part : Nat \ {0}, malformed : BOOLEAN,
              open : SUBSET (Nat \X Nat), guard : SUBSET (Nat \X Nat), owners : SUBSET (Nat \X Nat)]
  /\ rcv.at = "start" => rcv.part = 1 /\ rcv.open = {} /\ rcv.guard = {}
  /\ rcv.at \in {"start", "scan"} => rcv.owners = {} /\ got = "none"
  /\ \A d \in rcv.guard : d[1] < rcv.part
  /\ rcv.at = "scan" => rcv.open = rcv.guard \cup Unscanned
  /\ rcv.at = "end" => rcv.open = rcv.guard \cup rcv.owners
  /\ rcv.at = "done" => rcv.open = rcv.owners /\ rcv.guard = {}
  /\ rcv.owners \cap rcv.guard = {}
  /\ got = "sockets" => Cardinality(rcv.owners) = Wanted

LEMMA Brings ==
  ASSUME msg \in Messages, NEW i \in 1 .. Len(msg.parts)
  PROVE  Brought(i) \subseteq Nat \X Nat /\ \A d \in Brought(i) : d[1] = i
<1>1. msg.parts \in Seq([rights : BOOLEAN, n : Nat])
  BY SocketsAssumption
<1>2. msg.parts[i] \in [rights : BOOLEAN, n : Nat] /\ i \in Nat
  <2> DEFINE q == msg.parts
             R == [rights : BOOLEAN, n : Nat]
  <2>1. q \in Seq(R) /\ i \in 1 .. Len(q)
    BY <1>1
  <2> HIDE DEF q, R
  <2>2. q[i] \in R /\ i \in Nat
    BY <2>1
  <2> QED
    BY <2>2 DEF q, R
<1>3. msg.parts[i].n \in Nat
  BY <1>2
<1> QED
  BY <1>2, <1>3 DEF Brought

LEMMA RightsInits == SocketInit => RightsInv
BY DEF SocketInit, RightsInv, NoRights

LEMMA Arrives ==
  ASSUME RightsInv, recvmsg
  PROVE  RightsInv'
<1> DEFINE all == UNION {Brought(i) : i \in 1 .. Len(msg.parts)}
<1>1. /\ rcv.at = "start" /\ rcv' = [rcv EXCEPT !.open = all, !.at = "scan"] /\ msg' = msg /\ got' = got
      /\ msg \in Messages
  BY DEF recvmsg, RightsInv
<1>2. all \subseteq Nat \X Nat
  BY <1>1, Brings
<1>3. rcv.part = 1 /\ all = Unscanned
  BY <1>1 DEF RightsInv, Unscanned
<1> HIDE DEF all
<1>4. /\ rcv'.at = "scan" /\ rcv'.part = 1 /\ rcv'.open = all /\ rcv'.guard = {} /\ rcv'.owners = {}
      /\ rcv' \in [at : {"start", "scan", "end", "done"}, part : Nat \ {0}, malformed : BOOLEAN,
                   open : SUBSET (Nat \X Nat), guard : SUBSET (Nat \X Nat), owners : SUBSET (Nat \X Nat)]
  BY <1>1, <1>2, <1>3 DEF RightsInv
<1>5. Unscanned' = all
  <2>1. msg' = msg /\ rcv'.part = rcv.part
    BY <1>1, <1>3, <1>4
  <2>2. Unscanned' = Unscanned
    BY <2>1 DEF Unscanned, Brought
  <2> QED
    BY <1>3, <2>2
<1> QED
  BY <1>1, <1>4, <1>5 DEF RightsInv

LEMMA Scans ==
  ASSUME RightsInv, ScanPart
  PROVE  RightsInv'
<1> DEFINE here == Brought(rcv.part)
           room == {d \in here : Cardinality(rcv.guard) + d[2] <= ReceiveMax}
           later == UNION {Brought(i) : i \in rcv.part + 1 .. Len(msg.parts)}
           bad == rcv.malformed \/ ~msg.parts[rcv.part].rights \/ room # here
<1>1. /\ rcv.at = "scan" /\ rcv.part \in 1 .. Len(msg.parts) /\ msg' = msg /\ got' = got /\ msg \in Messages
      /\ rcv' = [rcv EXCEPT !.part = rcv.part + 1, !.guard = rcv.guard \cup room, !.open = rcv.open \ (here \ room),
                            !.malformed = bad]
      /\ rcv.part \in Nat /\ bad \in BOOLEAN
  <2>1. msg.parts \in Seq([rights : BOOLEAN, n : Nat])
    BY SocketsAssumption DEF RightsInv
  <2>2. Len(msg.parts) \in Nat
    BY <2>1
  <2> QED
    BY <2>2 DEF ScanPart, RightsInv
<1>2. here \subseteq Nat \X Nat /\ room \subseteq here /\ \A d \in here : d[1] = rcv.part
  BY <1>1, Brings
<1>3. \A d \in later : d[1] > rcv.part
  <2> SUFFICES ASSUME NEW i \in rcv.part + 1 .. Len(msg.parts), NEW d \in Brought(i)
               PROVE  d[1] > rcv.part
    OBVIOUS
  <2>1. i \in 1 .. Len(msg.parts) /\ i > rcv.part
    BY <1>1
  <2> QED
    BY <1>1, <2>1, Brings
<1>4. Unscanned = here \cup later
  <2>1. rcv.part .. Len(msg.parts) = {rcv.part} \cup (rcv.part + 1 .. Len(msg.parts))
    BY <1>1
  <2> QED
    BY <2>1 DEF Unscanned
<1>5. rcv.open = rcv.guard \cup here \cup later /\ \A d \in rcv.guard : d[1] < rcv.part
  BY <1>1, <1>4 DEF RightsInv
<1>6. Unscanned' = UNION {Brought(i) : i \in rcv'.part .. Len(msg.parts)}
  BY <1>1 DEF Unscanned, Brought
<1> HIDE DEF here, room, later, bad
<1>7. rcv.open \ (here \ room) = rcv.guard \cup room \cup later
  <2>1. \A d \in here \ room : d \notin rcv.guard /\ d \notin later
    BY <1>1, <1>2, <1>3, <1>5
  <2> QED
    BY <1>2, <1>5, <2>1
<1>8. /\ rcv'.at = "scan" /\ rcv'.part = rcv.part + 1 /\ rcv'.guard = rcv.guard \cup room
      /\ rcv'.open = rcv.open \ (here \ room) /\ rcv'.owners = rcv.owners
      /\ rcv' \in [at : {"start", "scan", "end", "done"}, part : Nat \ {0}, malformed : BOOLEAN,
                   open : SUBSET (Nat \X Nat), guard : SUBSET (Nat \X Nat), owners : SUBSET (Nat \X Nat)]
  <2> DEFINE g == rcv.guard \cup room
             o == rcv.open \ (here \ room)
             n == rcv.part + 1
  <2>1. g \in SUBSET (Nat \X Nat) /\ o \in SUBSET (Nat \X Nat) /\ n \in Nat \ {0}
    BY <1>1, <1>2 DEF RightsInv
  <2>2. rcv' = [rcv EXCEPT !.part = n, !.guard = g, !.open = o, !.malformed = bad]
    BY <1>1
  <2> HIDE DEF g, o, n
  <2>3. /\ rcv'.at = "scan" /\ rcv'.part = n /\ rcv'.guard = g /\ rcv'.open = o /\ rcv'.owners = rcv.owners
        /\ rcv' \in [at : {"start", "scan", "end", "done"}, part : Nat \ {0}, malformed : BOOLEAN,
                     open : SUBSET (Nat \X Nat), guard : SUBSET (Nat \X Nat), owners : SUBSET (Nat \X Nat)]
    BY <1>1, <2>1, <2>2 DEF RightsInv
  <2> QED
    BY <2>3 DEF g, o, n
<1>9. Unscanned' = later
  BY <1>6, <1>8 DEF later
<1>10. \A d \in rcv'.guard : d[1] < rcv'.part
  <2> SUFFICES ASSUME NEW d \in rcv.guard \cup room
               PROVE  d[1] < rcv.part + 1
    BY <1>8
  <2>1. d \in Nat \X Nat
    BY <1>2 DEF RightsInv
  <2>2. d[1] \in Nat
    BY <2>1
  <2> QED
    BY <1>1, <1>2, <1>5, <2>2
<1> QED
  BY <1>1, <1>7, <1>8, <1>9, <1>10 DEF RightsInv

LEMMA HandsOver ==
  ASSUME RightsInv, NEW ok \in BOOLEAN, HandOver(ok)
  PROVE  RightsInv'
<1>1. rcv.at = "scan" /\ rcv.part > Len(msg.parts) /\ msg' = msg /\ msg \in Messages /\ rcv.part \in Nat
  BY DEF HandOver, RightsInv
<1>2. Unscanned = {}
  <2>1. Len(msg.parts) \in Nat
    BY <1>1, SocketsAssumption
  <2>2. rcv.part .. Len(msg.parts) = {}
    BY <1>1, <2>1
  <2> QED
    BY <2>2 DEF Unscanned
<1>3. rcv.open = rcv.guard /\ rcv.owners = {}
  BY <1>1, <1>2 DEF RightsInv
<1>4. CASE got' = "failed" /\ rcv' = [rcv EXCEPT !.at = "end"]
  BY <1>1, <1>3, <1>4 DEF RightsInv
<1>5. CASE /\ Cardinality(rcv.guard) = Wanted
           /\ got' = "sockets" /\ rcv' = [rcv EXCEPT !.at = "end", !.owners = rcv.guard, !.guard = {}]
  <2>1. /\ rcv'.at = "end" /\ rcv'.part = rcv.part /\ rcv'.open = rcv.open /\ rcv'.guard = {} /\ rcv'.owners = rcv.guard
        /\ rcv' \in [at : {"start", "scan", "end", "done"}, part : Nat \ {0}, malformed : BOOLEAN,
                     open : SUBSET (Nat \X Nat), guard : SUBSET (Nat \X Nat), owners : SUBSET (Nat \X Nat)]
    BY <1>5 DEF RightsInv
  <2> QED
    BY <1>1, <1>3, <1>5, <2>1 DEF RightsInv
<1> QED
  BY <1>4, <1>5 DEF HandOver

LEMMA Releases ==
  ASSUME RightsInv, rights_release
  PROVE  RightsInv'
<1>1. /\ rcv.at = "end" /\ msg' = msg /\ got' = got
      /\ rcv' = [rcv EXCEPT !.at = "done", !.open = rcv.open \ rcv.guard, !.guard = {}]
  BY DEF rights_release, RightsInv
<1>2. /\ rcv'.at = "done" /\ rcv'.part = rcv.part /\ rcv'.open = rcv.open \ rcv.guard
      /\ rcv'.guard = {} /\ rcv'.owners = rcv.owners
      /\ rcv' \in [at : {"start", "scan", "end", "done"}, part : Nat \ {0}, malformed : BOOLEAN,
                   open : SUBSET (Nat \X Nat), guard : SUBSET (Nat \X Nat), owners : SUBSET (Nat \X Nat)]
  BY <1>1 DEF RightsInv
<1>3. rcv.open \ rcv.guard = rcv.owners
  BY <1>1 DEF RightsInv
<1> QED
  BY <1>1, <1>2, <1>3 DEF RightsInv

LEMMA RightsStay ==
  ASSUME RightsInv, UNCHANGED rightsVars
  PROVE  RightsInv'
BY DEF RightsInv, Unscanned, Brought, rightsVars

LEMMA ListenStays ==
  ASSUME ListenInv, UNCHANGED listenVars
  PROVE  ListenInv'
BY DEF ListenInv, ListenTypes, Bound, Sure, listenVars

(* However listeners, strangers at their path and messages are interleaved *)
(* the two invariants hold.                                                *)
THEOREM SocketsInvariance == SocketsSpec => [](ListenInv /\ RightsInv)
<1>1. SocketInit => ListenInv /\ RightsInv
  BY ListenInits, RightsInits
<1>2. ListenInv /\ RightsInv /\ [ListenNext \/ RightsNext]_socketVars => (ListenInv /\ RightsInv)'
  <2> SUFFICES ASSUME ListenInv, RightsInv, [ListenNext \/ RightsNext]_socketVars
               PROVE  ListenInv' /\ RightsInv'
    OBVIOUS
  <2>1. CASE ListenNext
    <3>1. UNCHANGED rightsVars
      BY <2>1 DEF ListenNext, unix_owner_push, new_socket, reach_from, ReadBack, listen, socket_close, released,
                  Unlink, ClosedAll, Stranger
    <3> QED
      BY <2>1, <3>1, ListenSteps, RightsStay, SMTT(30)
  <2>2. CASE RightsNext
    <3>1. UNCHANGED listenVars
      BY <2>2 DEF RightsNext, recvmsg, ScanPart, HandOver, rights_release
    <3>2. RightsInv'
      BY <2>2, Arrives, Scans, HandsOver, Releases DEF RightsNext
    <3> QED
      BY <3>1, <3>2, ListenStays
  <2>3. CASE UNCHANGED socketVars
    BY <2>3, RightsStay, ListenStays DEF socketVars, rightsVars, listenVars
  <2> QED
    BY <2>1, <2>2, <2>3
<1> QED
  BY <1>1, <1>2, PTL DEF SocketsSpec

(* A listener removes no file but its own and leaves its own only where a  *)
(* call on it failed, unless another changed the name in the moment it     *)
(* looked; and a received descriptor has one owner until it is closed      *)
(* (listen, released, recvfds, rights_release).                            *)
THEOREM SocketsAreOwned == SocketsSpec => []SocketsOwned
<1>1. ListenInv => FileItsOwn
  BY DEF ListenInv, FileItsOwn, Sure
<1>2. RightsInv => RightsOwned
  BY DEF RightsInv, RightsOwned
<1>3. ListenInv /\ RightsInv => SocketsOwned
  BY <1>1, <1>2 DEF SocketsOwned
<1> QED
  BY <1>3, SocketsInvariance, PTL

-----------------------------------------------------------------------------
(***************************************************************************)
(* A connection (module Connection).  A call keeps the descriptor's number *)
(* across its waits, and the number may be another connection's by then:   *)
(* but then its own is not open, and the number of one that is open is its *)
(* own (Linked).  What is left unsaid by the bytes themselves is where a   *)
(* write that waits has got to, and that no two calls are one write        *)
(* (Writing, WritesApart).                                                 *)
(***************************************************************************)
Byte == [of : Nat, at : Nat]
Arrival == [of : Conns, at : Nat]
Outs == {"", "ok", "failed", "closed"}
WriteRecord == [conn : Conns, out : Outs, spoiled : BOOLEAN]
ConnRecord == [made : BOOLEAN, open : BOOLEAN, fd : Nat, read_failure : BOOLEAN, write_failure : BOOLEAN]
UserRecord == [pc : {"idle", "reading", "writing"}, conn : Conns \cup {""}, fd : Nat, write : Nat, from : Nat,
               wait : {"", "parked", "ok", "ended"}]

ConnTypes ==
  /\ conn \in [Conns -> ConnRecord]
  /\ holder \in [{Number} -> Conns \cup {""}]
  /\ peer \in [Conns -> {"up", "ended", "reset"}]
  /\ arrived \in [Conns -> Seq(Arrival)] /\ answered \in [Conns -> Seq(Arrival)]
  /\ sent \in [Conns -> Seq(Byte)] /\ untaken \in [Conns -> 0 .. SendRoom]
  /\ writes \in Seq(WriteRecord)
  /\ user \in [Users -> UserRecord]

Linked ==
  /\ \A c \in Conns : conn[c].open <=> holder[Number] = c
  /\ \A c \in Conns : conn[c].open => conn[c].made /\ conn[c].fd = Number
  /\ \A u \in Users : user[u].pc # "idle" => user[u].conn \in Conns /\ user[u].fd = Number
  /\ \A u \in Users : user[u].wait = "parked" => user[u].pc # "idle" /\ conn[user[u].conn].open

ReadsInv ==
  \A c \in Conns :
    /\ \A i \in 1 .. Len(answered[c]) : answered[c][i] = [of |-> c, at |-> i]
    /\ \A i \in 1 .. Len(arrived[c]) : arrived[c][i] = [of |-> c, at |-> Len(answered[c]) + i]

\* A write that waits has sent what is before `from`.
Writing(u) ==
  user[u].pc = "writing" =>
    /\ user[u].write \in 1 .. Len(writes) /\ user[u].from \in 1 .. WriteSize
    /\ writes[user[u].write].conn = user[u].conn /\ writes[user[u].write].out = ""
    /\ \A k \in Nat : Sent(sent[user[u].conn], user[u].write, k) <=> k \in 1 .. user[u].from - 1

WritesApart ==
  \A u, v \in Users : u # v /\ user[u].pc = "writing" /\ user[v].pc = "writing" => user[u].write # user[v].write

\* The bytes of a connection are of its writes.
Whose(q, c, ws) ==
  \A i \in 1 .. Len(q) : q[i].of \in 1 .. Len(ws) /\ ws[q[i].of].conn = c /\ q[i].at \in 1 .. WriteSize

WritesInv ==
  /\ \A c \in Conns : InOrder(sent[c]) /\ Whose(sent[c], c, writes)
  /\ \A w \in 1 .. Len(writes) : /\ ~writes[w].spoiled /\ conn[writes[w].conn].made
                                 /\ writes[w].out = "failed" => conn[writes[w].conn].write_failure
                                 /\ writes[w].out = "ok" => \A k \in 1 .. WriteSize : Sent(sent[writes[w].conn], w, k)
  /\ \A u \in Users : Writing(u)
  /\ WritesApart

ConnInv == ConnTypes /\ Linked /\ ReadsInv /\ WritesInv

(* A function on 1 .. n is a sequence of that length.                      *)
LEMMA Listed ==
  ASSUME NEW S, NEW n \in Nat, NEW b \in [1 .. n -> S]
  PROVE  b \in Seq(S) /\ Len(b) = n
<1>1. b \in Seq(S)
  OBVIOUS
<1>2. Len(b) \in Nat /\ DOMAIN b = 1 .. Len(b) /\ DOMAIN b = 1 .. n
  BY <1>1, LenProperties
<1> DEFINE m == Len(b)
<1>3. m \in Nat /\ 1 .. m = 1 .. n
  BY <1>2
<1> HIDE DEF m
<1>4. m = n
  BY <1>3
<1> QED
  BY <1>1, <1>4 DEF m

(* What a send appends.                                                    *)
Run(w, from, n) == [i \in 1 .. n |-> [of |-> w, at |-> from + i - 1]]

Follows(r, q, w, from, n) ==
  /\ r \in Seq(Byte) /\ Len(q) \in Nat /\ Len(r) = Len(q) + n
  /\ \A i \in 1 .. Len(q) : r[i] = q[i]
  /\ \A i \in 1 .. Len(r) : i > Len(q) => r[i] = [of |-> w, at |-> from + (i - Len(q)) - 1]

LEMMA Appended ==
  ASSUME NEW q \in Seq(Byte), NEW w \in Nat, NEW from \in Nat, NEW n \in Nat, from >= 1
  PROVE  Follows(q \o Run(w, from, n), q, w, from, n)
<1> DEFINE b == Run(w, from, n)
           r == q \o b
<1>1. \A i \in 1 .. n : [of |-> w, at |-> from + i - 1] \in Byte
  BY DEF Byte
<1>2. b \in [1 .. n -> Byte] /\ \A i \in 1 .. n : b[i] = [of |-> w, at |-> from + i - 1]
  BY <1>1 DEF Run
<1>3. b \in Seq(Byte) /\ Len(b) = n
  BY <1>2, Listed
<1>4. Len(q) \in Nat
  OBVIOUS
<1> HIDE DEF b
<1>5. /\ r \in Seq(Byte) /\ Len(r) = Len(q) + Len(b)
      /\ \A i \in 1 .. Len(q) + Len(b) : r[i] = IF i <= Len(q) THEN q[i] ELSE b[i - Len(q)]
  BY <1>3, ConcatProperties
<1> HIDE DEF r
<1>6. /\ r \in Seq(Byte) /\ Len(r) = Len(q) + n
      /\ \A i \in 1 .. Len(r) : r[i] = IF i <= Len(q) THEN q[i] ELSE b[i - Len(q)]
  BY <1>3, <1>4, <1>5
<1>7. ASSUME NEW i \in 1 .. Len(r), i > Len(q)
      PROVE  r[i] = [of |-> w, at |-> from + (i - Len(q)) - 1]
  <2>1. i - Len(q) \in 1 .. n /\ ~(i <= Len(q))
    BY <1>4, <1>6, <1>7
  <2> QED
    BY <1>2, <1>6, <2>1
<1>8. \A i \in 1 .. Len(q) : r[i] = q[i]
  BY <1>4, <1>6
<1>9. Follows(r, q, w, from, n)
  BY <1>4, <1>6, <1>7, <1>8 DEF Follows
<1> QED
  BY <1>9 DEF r, b

LEMMA SentOn ==
  ASSUME NEW q \in Seq(Byte), NEW w \in Nat, NEW from \in Nat, NEW n \in Nat, from >= 1, NEW r,
         Follows(r, q, w, from, n),
         \A k \in Nat : Sent(q, w, k) <=> k \in 1 .. from - 1
  PROVE  /\ \A k \in Nat : Sent(r, w, k) <=> k \in 1 .. (from + n) - 1
         /\ \A v, k : v # w => (Sent(r, v, k) <=> Sent(q, v, k))
<1>1. /\ r \in Seq(Byte) /\ Len(q) \in Nat /\ Len(r) = Len(q) + n
      /\ \A i \in 1 .. Len(q) : r[i] = q[i]
      /\ \A i \in 1 .. Len(r) : i > Len(q) => r[i] = [of |-> w, at |-> from + (i - Len(q)) - 1]
  BY DEF Follows
<1>2. ASSUME NEW k \in Nat
      PROVE  Sent(r, w, k) <=> k \in 1 .. (from + n) - 1
  <2>1. ASSUME NEW i \in 1 .. Len(r), r[i] = [of |-> w, at |-> k]
        PROVE  k \in 1 .. (from + n) - 1
    <3>1. CASE i <= Len(q)
      <4>1. i \in 1 .. Len(q)
        BY <1>1, <3>1
      <4>2. Sent(q, w, k)
        BY <1>1, <2>1, <4>1 DEF Sent
      <4> QED
        BY <4>2
    <3>2. CASE i > Len(q)
      <4>1. [of |-> w, at |-> k] = [of |-> w, at |-> from + (i - Len(q)) - 1]
        BY <1>1, <2>1, <3>2
      <4>2. k = from + (i - Len(q)) - 1
        BY <4>1
      <4> QED
        BY <1>1, <3>2, <4>2
    <3> QED
      BY <1>1, <3>1, <3>2
  <2>2. ASSUME k \in 1 .. from - 1
        PROVE  Sent(r, w, k)
    <3>1. PICK i \in 1 .. Len(q) : q[i] = [of |-> w, at |-> k]
      BY <2>2 DEF Sent
    <3>2. i \in 1 .. Len(r) /\ r[i] = [of |-> w, at |-> k]
      BY <1>1, <3>1
    <3> QED
      BY <3>2 DEF Sent
  <2>3. ASSUME k \in from .. (from + n) - 1
        PROVE  Sent(r, w, k)
    <3>1. PICK i \in Nat : i = Len(q) + (k - from) + 1
      <4>1. Len(q) + (k - from) + 1 \in Nat
        BY <1>1, <2>3
      <4> QED
        BY <4>1
    <3>2. i \in 1 .. Len(r) /\ i > Len(q) /\ from + (i - Len(q)) - 1 = k
      BY <1>1, <2>3, <3>1
    <3>3. r[i] = [of |-> w, at |-> k]
      BY <1>1, <3>2
    <3> QED
      BY <3>2, <3>3 DEF Sent
  <2>4. Sent(r, w, k) => k \in 1 .. (from + n) - 1
    BY <2>1 DEF Sent
  <2>5. k \in 1 .. (from + n) - 1 => k \in 1 .. from - 1 \/ k \in from .. (from + n) - 1
    OBVIOUS
  <2> QED
    BY <2>2, <2>3, <2>4, <2>5
<1>3. ASSUME NEW v, NEW k, v # w
      PROVE  Sent(r, v, k) <=> Sent(q, v, k)
  <2>1. ASSUME NEW i \in 1 .. Len(r), r[i] = [of |-> v, at |-> k]
        PROVE  i \in 1 .. Len(q) /\ q[i] = [of |-> v, at |-> k]
    <3>1. CASE i > Len(q)
      <4>1. [of |-> v, at |-> k] = [of |-> w, at |-> from + (i - Len(q)) - 1]
        BY <1>1, <2>1, <3>1
      <4>2. v = w
        BY <4>1
      <4> QED
        BY <1>3, <4>2
    <3>2. CASE ~(i > Len(q))
      BY <1>1, <2>1, <3>2
    <3> QED
      BY <3>1, <3>2
  <2>2. \A i \in 1 .. Len(q) : i \in 1 .. Len(r) /\ r[i] = q[i]
    BY <1>1
  <2> QED
    BY <2>1, <2>2 DEF Sent
<1> QED
  BY <1>2, <1>3

LEMMA OrderKept ==
  ASSUME NEW q \in Seq(Byte), NEW w \in Nat, NEW from \in Nat, NEW n \in Nat, from >= 1, NEW r,
         Follows(r, q, w, from, n),
         \A k \in Nat : Sent(q, w, k) <=> k \in 1 .. from - 1, InOrder(q)
  PROVE  InOrder(r)
<1>1. /\ r \in Seq(Byte) /\ Len(q) \in Nat /\ Len(r) = Len(q) + n
      /\ \A i \in 1 .. Len(q) : r[i] = q[i]
      /\ \A i \in 1 .. Len(r) : i > Len(q) => r[i] = [of |-> w, at |-> from + (i - Len(q)) - 1]
  BY DEF Follows
<1> SUFFICES ASSUME NEW i \in 1 .. Len(r)
             PROVE  /\ r[i].at = 1 \/ \E j \in 1 .. i - 1 : r[j] = [of |-> r[i].of, at |-> r[i].at - 1]
                    /\ \A j \in 1 .. i - 1 : r[j] # r[i]
  BY DEF InOrder
<1>2. CASE i <= Len(q)
  <2>1. i \in 1 .. Len(q) /\ \A j \in 1 .. i - 1 : j \in 1 .. Len(q)
    BY <1>1, <1>2
  <2>2. r[i] = q[i] /\ \A j \in 1 .. i - 1 : r[j] = q[j]
    BY <1>1, <2>1
  <2> QED
    BY <2>1, <2>2 DEF InOrder
<1>3. CASE i > Len(q)
  <2> DEFINE a == from + (i - Len(q)) - 1
  <2>1. r[i] = [of |-> w, at |-> a] /\ a \in Nat /\ a >= from
    BY <1>1, <1>3
  <2>2. r[i].at = 1 \/ \E j \in 1 .. i - 1 : r[j] = [of |-> w, at |-> a - 1]
    <3>1. CASE i - 1 > Len(q)
      <4>1. i - 1 \in 1 .. Len(r) /\ i - 1 \in 1 .. i - 1 /\ from + ((i - 1) - Len(q)) - 1 = a - 1
        BY <1>1, <3>1
      <4> QED
        BY <1>1, <3>1, <4>1
    <3>2. CASE i - 1 = Len(q) /\ from = 1
      BY <1>1, <2>1, <3>2
    <3>3. CASE i - 1 = Len(q) /\ from # 1
      <4>1. a = from /\ a - 1 \in 1 .. from - 1 /\ a - 1 \in Nat
        BY <1>1, <3>3
      <4>2. Sent(q, w, a - 1)
        BY <4>1
      <4>3. PICK j \in 1 .. Len(q) : q[j] = [of |-> w, at |-> a - 1]
        BY <4>2 DEF Sent
      <4> QED
        BY <1>1, <3>3, <4>3
    <3>4. i - 1 > Len(q) \/ i - 1 = Len(q)
      <4>1. i \in Int /\ Len(q) \in Int
        BY <1>1
      <4> QED
        BY <1>3, <4>1
    <3> QED
      BY <3>1, <3>2, <3>3, <3>4
  <2>3. ASSUME NEW j \in 1 .. i - 1
        PROVE  r[j] # r[i]
    <3>1. CASE j <= Len(q)
      <4>1. j \in 1 .. Len(q) /\ r[j] = q[j]
        BY <1>1, <3>1
      <4>2. ~Sent(q, w, a)
        BY <2>1
      <4> QED
        BY <2>1, <4>1, <4>2 DEF Sent
    <3>2. CASE j > Len(q)
      <4>1. j \in 1 .. Len(r) /\ from + (j - Len(q)) - 1 # a
        BY <1>1, <3>2
      <4>2. r[j] = [of |-> w, at |-> from + (j - Len(q)) - 1]
        BY <1>1, <3>2, <4>1
      <4> QED
        BY <2>1, <4>1, <4>2
    <3> QED
      BY <1>1, <3>1, <3>2
  <2>4. r[i].of = w /\ r[i].at = a
    BY <2>1
  <2> QED
    BY <2>2, <2>3, <2>4
<1>4. i <= Len(q) \/ i > Len(q)
  BY <1>1
<1> QED
  BY <1>2, <1>3, <1>4

Answering(ws, w, o) == [ws EXCEPT ![w].out = o]

Answers(r, ws, w, o) ==
  /\ r \in Seq(WriteRecord) /\ Len(r) = Len(ws) /\ r[w].out = o
  /\ \A i \in 1 .. Len(ws) : r[i].conn = ws[i].conn /\ r[i].spoiled = ws[i].spoiled /\ (i # w => r[i] = ws[i])

LEMMA OutIs ==
  ASSUME NEW ws \in Seq(WriteRecord), NEW w, w \in 1 .. Len(ws), NEW o, o \in Outs
  PROVE  Answers(Answering(ws, w, o), ws, w, o)
<1> DEFINE r == Answering(ws, w, o)
           x == [ws[w] EXCEPT !.out = o]
<1>1. ws[w] \in WriteRecord
  BY ElementOfSeq
<1>2. x \in WriteRecord /\ x.out = o /\ x.conn = ws[w].conn /\ x.spoiled = ws[w].spoiled
  BY <1>1 DEF WriteRecord
<1>3. r = [ws EXCEPT ![w] = x]
  BY DEF Answering
<1> HIDE DEF x, r
<1>4. r \in Seq(WriteRecord) /\ Len(r) = Len(ws) /\ r[w] = x /\ \A i \in 1 .. Len(ws) : i # w => r[i] = ws[i]
  <2>1. x \in WriteRecord
    BY <1>2
  <2>2. ws \in [1 .. Len(ws) -> WriteRecord] /\ Len(ws) \in Nat
    BY LenProperties
  <2>3. r \in [1 .. Len(ws) -> WriteRecord] /\ r[w] = x /\ \A i \in 1 .. Len(ws) : i # w => r[i] = ws[i]
    BY <1>3, <2>1, <2>2
  <2> QED
    BY <2>2, <2>3, Listed
<1>5. Answers(r, ws, w, o)
  BY <1>2, <1>4 DEF Answers
<1> QED
  BY <1>5 DEF r

LEMMA Counted ==
  ASSUME NEW l \in Nat, NEW i \in 1 .. l
  PROVE  i \in Nat /\ i >= 1
OBVIOUS

LEMMA Within ==
  ASSUME NEW m \in Nat, NEW f \in 1 .. m + 1, NEW n \in Nat, n <= m + 1 - f
  PROVE  /\ f \in Nat /\ f >= 1 /\ f + n \in Nat /\ f + n <= m + 1
         /\ (f + n > m => f + n = m + 1) /\ (~(f + n > m) => f + n <= m)
OBVIOUS

(* A step that sends nothing and settles no write leaves what was written, *)
(* and one that moves no bytes in leaves what was read.                    *)
LEMMA WritesStay ==
  ASSUME ConnTypes, WritesInv, sent' = sent, writes' = writes,
         \A c \in Conns : conn[c].made => conn'[c].made /\ (conn[c].write_failure => conn'[c].write_failure),
         \A u \in Users : user'[u].pc = "writing" =>
            /\ user[u].pc = "writing" /\ user'[u].conn = user[u].conn
            /\ user'[u].write = user[u].write /\ user'[u].from = user[u].from
  PROVE  WritesInv'
<1>1. \A c \in Conns : InOrder(sent'[c]) /\ Whose(sent'[c], c, writes')
  BY DEF WritesInv
<1>2. ASSUME NEW w \in 1 .. Len(writes)
      PROVE  /\ ~writes'[w].spoiled /\ conn'[writes'[w].conn].made
             /\ writes'[w].out = "failed" => conn'[writes'[w].conn].write_failure
             /\ writes'[w].out = "ok" => \A k \in 1 .. WriteSize : Sent(sent'[writes'[w].conn], w, k)
  <2>1. writes[w] \in WriteRecord
    BY ElementOfSeq DEF ConnTypes
  <2>2. writes[w].conn \in Conns
    BY <2>1 DEF WriteRecord
  <2> QED
    BY <2>2 DEF WritesInv
<1>3. \A u \in Users : Writing(u)'
  BY DEF WritesInv, Writing
<1>4. WritesApart'
  BY DEF WritesInv, WritesApart
<1> QED
  BY <1>1, <1>2, <1>3, <1>4 DEF WritesInv

LEMMA ReadsStay ==
  ASSUME ReadsInv, arrived' = arrived, answered' = answered
  PROVE  ReadsInv'
BY DEF ReadsInv

LEMMA ConnInits == ConnectionInit => ConnInv
<1> SUFFICES ASSUME ConnectionInit
             PROVE  ConnInv
  OBVIOUS
<1>1. IdleUser \in UserRecord /\ NotMade \in ConnRecord /\ new(Number) \in ConnRecord
      /\ new(Number).made /\ new(Number).open /\ new(Number).fd = Number /\ ~NotMade.open
  BY DEF IdleUser, NotMade, new, Number, UserRecord, ConnRecord
<1>2. ConnTypes
  BY <1>1, ConnectionAssumption DEF ConnectionInit, ConnTypes, Conns
<1>3. Linked
  BY <1>1 DEF ConnectionInit, Linked, Conns, IdleUser
<1>4. ReadsInv
  BY DEF ConnectionInit, ReadsInv
<1>5. WritesInv
  <2>1. /\ \A c \in Conns : sent[c] = <<>>
        /\ writes = <<>> /\ \A u \in Users : user[u].pc = "idle"
    BY DEF ConnectionInit, IdleUser
  <2>2. Len(<<>>) = 0 /\ 1 .. 0 = {}
    OBVIOUS
  <2>3. \A c \in Conns : InOrder(sent[c]) /\ Whose(sent[c], c, writes)
    BY <2>1, <2>2 DEF InOrder, Whose
  <2>4. Len(writes) = 0
    BY <2>1, <2>2
  <2>5. (\A u \in Users : Writing(u)) /\ WritesApart
    BY <2>1 DEF Writing, WritesApart
  <2> QED
    BY <2>2, <2>3, <2>4, <2>5 DEF WritesInv
<1> QED
  BY <1>2, <1>3, <1>4, <1>5 DEF ConnInv

LEMMA MakesStep ==
  ASSUME ConnInv, Makes
  PROVE  ConnInv'
<1>1. /\ new(Number) \in ConnRecord /\ new(Number).made /\ new(Number).open /\ new(Number).fd = Number
  BY DEF NotMade, new, Number, ConnRecord
<1>2. /\ ~conn["second"].made /\ holder[Number] = "" /\ conn' = [conn EXCEPT !["second"] = new(Number)]
      /\ holder' = [holder EXCEPT ![Number] = "second"] /\ "second" \in Conns /\ "" \notin Conns
      /\ peer' = peer /\ arrived' = arrived /\ answered' = answered /\ sent' = sent /\ untaken' = untaken
      /\ writes' = writes /\ user' = user
  BY DEF Makes, Conns, kernel
<1>3. ConnTypes'
  BY <1>1, <1>2 DEF ConnInv, ConnTypes
<1>4. Linked'
  <2>1. /\ holder'[Number] = "second" /\ conn'["second"] = new(Number)
        /\ \A c \in Conns : c # "second" => conn'[c] = conn[c]
    BY <1>2 DEF ConnInv, ConnTypes
  <2>2. \A c \in Conns : ~conn[c].open
    BY <1>2 DEF ConnInv, Linked
  <2>3. \A u \in Users : /\ user[u].wait # "parked"
                         /\ user[u].pc # "idle" => user[u].conn \in Conns /\ user[u].fd = Number
    BY <2>2 DEF ConnInv, Linked
  <2>4. \A c \in Conns : (conn'[c].open <=> holder'[Number] = c) /\ (conn'[c].open => conn'[c].made /\ conn'[c].fd = Number)
    BY <1>1, <2>1, <2>2
  <2> QED
    BY <1>2, <2>3, <2>4 DEF Linked
<1>5. WritesInv'
  <2>1. \A c \in Conns : conn[c].made => conn'[c] = conn[c]
    BY <1>2 DEF ConnInv, ConnTypes
  <2> QED
    BY <1>2, <2>1, WritesStay DEF ConnInv
<1> QED
  BY <1>2, <1>3, <1>4, <1>5, ReadsStay DEF ConnInv

LEMMA PeerStep ==
  ASSUME ConnInv, NEW c \in Conns, PeerMoves(c)
  PROVE  ConnInv'
<1>1. /\ conn' = conn /\ holder' = holder /\ answered' = answered /\ sent' = sent /\ writes' = writes /\ user' = user
      /\ ConnTypes /\ Linked /\ ReadsInv /\ WritesInv
  BY DEF PeerMoves, ConnInv
<1>2. Linked' /\ WritesInv'
  BY <1>1, WritesStay DEF Linked
<1>3. CASE /\ arrived' = [arrived EXCEPT ![c] = Append(@, [of |-> c, at |-> Len(@) + Len(answered[c]) + 1])]
           /\ peer' = peer /\ untaken' = untaken
  <2> DEFINE b == [of |-> c, at |-> Len(arrived[c]) + Len(answered[c]) + 1]
  <2>0. arrived[c] \in Seq(Arrival) /\ answered[c] \in Seq(Arrival)
    BY <1>1 DEF ConnTypes
  <2>1. arrived[c] \in Seq(Arrival) /\ Len(arrived[c]) \in Nat /\ Len(answered[c]) \in Nat
    BY <2>0, LenProperties
  <2>2. b \in Arrival
    <3>1. \A m, n \in Nat : m + n + 1 \in Nat
      OBVIOUS
    <3>2. PICK k \in Nat : k = Len(arrived[c]) + Len(answered[c]) + 1
      BY <2>1, <3>1
    <3> QED
      BY <3>2 DEF Arrival
  <2>3. arrived'[c] = Append(arrived[c], b) /\ \A d \in Conns : d # c => arrived'[d] = arrived[d]
    BY <1>1, <1>3 DEF ConnTypes
  <2>4. /\ arrived'[c] \in Seq(Arrival) /\ Len(arrived'[c]) = Len(arrived[c]) + 1
        /\ \A i \in 1 .. Len(arrived[c]) : arrived'[c][i] = arrived[c][i]
        /\ arrived'[c][Len(arrived[c]) + 1] = b
    BY <2>1, <2>2, <2>3, AppendProperties
  <2>5. ConnTypes'
    BY <1>1, <1>3, <2>3, <2>4 DEF ConnTypes
  <2>6. ASSUME NEW i \in 1 .. Len(arrived'[c])
        PROVE  arrived'[c][i] = [of |-> c, at |-> Len(answered[c]) + i]
    <3>1. CASE i \in 1 .. Len(arrived[c])
      BY <1>1, <2>4, <3>1 DEF ReadsInv
    <3>2. CASE i = Len(arrived[c]) + 1
      <4>0. \A m, n \in Nat : m + n + 1 = n + (m + 1)
        OBVIOUS
      <4>1. Len(arrived[c]) + Len(answered[c]) + 1 = Len(answered[c]) + i
        BY <2>1, <3>2, <4>0
      <4>2. arrived'[c][i] = b
        BY <2>4, <3>2
      <4> QED
        BY <4>1, <4>2
    <3> QED
      BY <2>1, <2>4, <3>1, <3>2
  <2>7. ReadsInv'
    <3>1. ASSUME NEW d \in Conns
          PROVE  /\ \A i \in 1 .. Len(answered'[d]) : answered'[d][i] = [of |-> d, at |-> i]
                 /\ \A i \in 1 .. Len(arrived'[d]) : arrived'[d][i] = [of |-> d, at |-> Len(answered'[d]) + i]
      <4>1. answered'[d] = answered[d] /\ \A i \in 1 .. Len(answered[d]) : answered[d][i] = [of |-> d, at |-> i]
        BY <1>1 DEF ReadsInv
      <4>2. CASE d = c
        BY <2>6, <4>1, <4>2
      <4>3. CASE d # c
        <5>1. arrived'[d] = arrived[d] /\ \A i \in 1 .. Len(arrived[d]) : arrived[d][i] = [of |-> d, at |-> Len(answered[d]) + i]
          BY <1>1, <2>3, <4>3 DEF ReadsInv
        <5> QED
          BY <4>1, <5>1
      <4> QED
        BY <4>2, <4>3
    <3> QED
      BY <3>1 DEF ReadsInv
  <2> QED
    BY <1>2, <2>5, <2>7 DEF ConnInv
<1>4. CASE untaken[c] > 0 /\ untaken' = [untaken EXCEPT ![c] = @ - 1] /\ peer' = peer /\ arrived' = arrived
  <2>1. untaken[c] \in 0 .. SendRoom
    BY <1>1 DEF ConnTypes
  <2>2. untaken[c] - 1 \in 0 .. SendRoom
    BY <1>4, <2>1, ConnectionAssumption
  <2>3. ConnTypes'
    BY <1>1, <1>4, <2>2 DEF ConnTypes
  <2> QED
    BY <1>1, <1>2, <1>4, <2>3, ReadsStay DEF ConnInv
<1>5. CASE /\ \E why \in {"ended", "reset"} : peer' = [peer EXCEPT ![c] = why]
           /\ arrived' = arrived /\ untaken' = untaken
  <2>1. ConnTypes'
    BY <1>1, <1>5 DEF ConnTypes
  <2> QED
    BY <1>1, <1>2, <1>5, <2>1, ReadsStay DEF ConnInv
<1> QED
  BY <1>3, <1>4, <1>5 DEF PeerMoves

(* A task's record, replaced by an idle one or by one that waits elsewhere. *)
LEMMA IdleIs ==
  /\ IdleUser \in UserRecord /\ IdleUser.pc = "idle" /\ IdleUser.wait = ""
BY DEF IdleUser, UserRecord

LEMMA AnsweredStep ==
  ASSUME ConnInv, NEW u \in Users, WaitAnswered(u)
  PROVE  ConnInv'
<1>1. /\ conn' = conn /\ holder' = holder /\ answered' = answered /\ sent' = sent /\ writes' = writes
      /\ peer' = peer /\ arrived' = arrived /\ untaken' = untaken
      /\ ConnTypes /\ Linked /\ ReadsInv /\ WritesInv
  BY DEF WaitAnswered, ConnInv, kernel
<1>2. PICK x \in {"ok", "ended"} : user' = [user EXCEPT ![u].wait = x]
  BY DEF WaitAnswered
<1>3. /\ user' \in [Users -> UserRecord] /\ user'[u].wait = x /\ user'[u].pc = user[u].pc /\ user'[u].conn = user[u].conn
      /\ user'[u].fd = user[u].fd /\ user'[u].write = user[u].write /\ user'[u].from = user[u].from
      /\ \A v \in Users : v # u => user'[v] = user[v]
  BY <1>1, <1>2 DEF ConnTypes, UserRecord
<1>4. ConnTypes'
  BY <1>1, <1>3 DEF ConnTypes
<1>5. Linked'
  BY <1>1, <1>3 DEF Linked
<1>6. WritesInv'
  BY <1>1, <1>3, WritesStay
<1> QED
  BY <1>1, <1>4, <1>5, <1>6, ReadsStay DEF ConnInv

LEMMA KilledStep ==
  ASSUME ConnInv, NEW u \in Users, UserKilled(u)
  PROVE  ConnInv'
<1>1. /\ conn' = conn /\ holder' = holder /\ answered' = answered /\ sent' = sent /\ writes' = writes
      /\ peer' = peer /\ arrived' = arrived /\ untaken' = untaken /\ user' = [user EXCEPT ![u] = IdleUser]
      /\ ConnTypes /\ Linked /\ ReadsInv /\ WritesInv
  BY DEF UserKilled, ConnInv, kernel, Leaves
<1>2. /\ user' \in [Users -> UserRecord] /\ user'[u].wait = "" /\ user'[u].pc = "idle"
      /\ \A v \in Users : v # u => user'[v] = user[v]
  BY <1>1, IdleIs DEF ConnTypes
<1>3. ConnTypes' /\ Linked'
  BY <1>1, <1>2 DEF ConnTypes, Linked
<1>4. WritesInv'
  BY <1>1, <1>2, WritesStay
<1> QED
  BY <1>1, <1>3, <1>4, ReadsStay DEF ConnInv

LEMMA CloseStep ==
  ASSUME ConnInv, NEW c \in Conns, close(c)
  PROVE  ConnInv'
<1>1. /\ conn[c].open /\ conn' = [conn EXCEPT ![c].open = FALSE] /\ answered' = answered /\ sent' = sent
      /\ writes' = writes /\ peer' = peer /\ arrived' = arrived /\ untaken' = untaken
      /\ user' = [u \in Users |-> IF user[u].wait = "parked" /\ user[u].fd = conn[c].fd
                                  THEN [user[u] EXCEPT !.wait = "ok"] ELSE user[u]]
      /\ holder' = [holder EXCEPT ![conn[c].fd] = ""]
      /\ ConnTypes /\ Linked /\ ReadsInv /\ WritesInv
  BY DEF close, ConnInv, kernel
<1>2. conn[c].fd = Number /\ holder[Number] = c /\ "" \notin Conns
  BY <1>1 DEF Linked, Conns
<1>3. /\ conn' \in [Conns -> ConnRecord] /\ conn'[c].open = FALSE /\ conn'[c].made = conn[c].made
      /\ conn'[c].write_failure = conn[c].write_failure
      /\ \A d \in Conns : d # c => conn'[d] = conn[d]
  BY <1>1 DEF ConnTypes, ConnRecord
<1>4. holder' \in [{Number} -> Conns \cup {""}] /\ holder'[Number] = ""
  BY <1>1, <1>2 DEF ConnTypes
<1>5. ASSUME NEW u \in Users
      PROVE  /\ user'[u] \in UserRecord /\ user'[u].wait # "parked" /\ user'[u].pc = user[u].pc
             /\ user'[u].conn = user[u].conn /\ user'[u].fd = user[u].fd /\ user'[u].write = user[u].write
             /\ user'[u].from = user[u].from
  <2>1. user[u] \in UserRecord /\ (user[u].wait = "parked" => user[u].fd = Number)
    BY <1>1 DEF ConnTypes, Linked
  <2>2. CASE user[u].wait = "parked"
    <3>1. user'[u] = [user[u] EXCEPT !.wait = "ok"]
      BY <1>1, <1>2, <2>1, <2>2
    <3> QED
      BY <2>1, <3>1 DEF UserRecord
  <2>3. CASE user[u].wait # "parked"
    <3>1. user'[u] = user[u]
      BY <1>1, <2>3
    <3> QED
      BY <2>1, <2>3, <3>1
  <2> QED
    BY <2>2, <2>3
<1>6. user' \in [Users -> UserRecord]
  BY <1>1, <1>5
<1>7. ConnTypes'
  BY <1>1, <1>3, <1>4, <1>6 DEF ConnTypes
<1>8. Linked'
  <2>1. \A d \in Conns : ~conn'[d].open
    BY <1>1, <1>2, <1>3 DEF Linked
  <2>2. \A d \in Conns : holder'[Number] # d
    BY <1>2, <1>4
  <2>3. \A u \in Users : user[u].pc # "idle" => user[u].conn \in Conns /\ user[u].fd = Number
    BY <1>1 DEF Linked
  <2>4. \A u \in Users : /\ user'[u].pc # "idle" => user'[u].conn \in Conns /\ user'[u].fd = Number
                         /\ user'[u].wait # "parked"
    BY <1>5, <2>3
  <2> QED
    BY <2>1, <2>2, <2>4 DEF Linked
<1>9. WritesInv'
  <2>1. \A d \in Conns : conn'[d].made = conn[d].made /\ conn'[d].write_failure = conn[d].write_failure
    BY <1>3
  <2> QED
    BY <1>1, <1>5, <2>1, WritesStay
<1> QED
  BY <1>1, <1>7, <1>8, <1>9, ReadsStay DEF ConnInv

(* Reading takes the first of what arrived to the end of what was answered. *)
InTurn(a, q, c) ==
  /\ \A i \in 1 .. Len(a) : a[i] = [of |-> c, at |-> i]
  /\ \A i \in 1 .. Len(q) : q[i] = [of |-> c, at |-> Len(a) + i]

LEMMA Taken ==
  ASSUME NEW c \in Conns, NEW a \in Seq(Arrival), NEW q \in Seq(Arrival), NEW n \in 1 .. Len(q), InTurn(a, q, c)
  PROVE  /\ a \o SubSeq(q, 1, n) \in Seq(Arrival) /\ SubSeq(q, n + 1, Len(q)) \in Seq(Arrival)
         /\ InTurn(a \o SubSeq(q, 1, n), SubSeq(q, n + 1, Len(q)), c)
<1>1. PICK l \in Nat : l = Len(q)
  BY LenProperties
<1>2. PICK m \in Nat : m = Len(a)
  BY LenProperties
<1>3. n \in 1 .. l /\ n \in Nat /\ \A i \in 1 .. l : q[i] \in Arrival
  BY <1>1, ElementOfSeq
<1> DEFINE x == SubSeq(q, 1, n)
           y == SubSeq(q, n + 1, l)
           r == a \o x
<1>4. x \in Seq(Arrival) /\ Len(x) = n /\ \A i \in 1 .. n : x[i] = q[i]
  <2>1. \A i \in 1 .. n : q[i] \in Arrival
    BY <1>3
  <2>2. /\ x \in Seq(Arrival) /\ Len(x) = IF 1 <= n THEN n - 1 + 1 ELSE 0
        /\ \A i \in 1 .. n - 1 + 1 : x[i] = q[1 + i - 1]
    BY <1>3, <2>1, SubSeqProperties
  <2>3. (IF 1 <= n THEN n - 1 + 1 ELSE 0) = n /\ n - 1 + 1 = n /\ \A i \in 1 .. n : 1 + i - 1 = i
    BY <1>3
  <2> HIDE DEF x
  <2> QED
    BY <2>2, <2>3
<1>5. y \in Seq(Arrival) /\ Len(y) = l - n /\ \A i \in 1 .. l - n : y[i] = q[n + i]
  <2>1. (\A i \in n + 1 .. l : q[i] \in Arrival) /\ n + 1 \in Int /\ l \in Int
    BY <1>3
  <2>2. /\ y \in Seq(Arrival) /\ Len(y) = IF n + 1 <= l THEN l - (n + 1) + 1 ELSE 0
        /\ \A i \in 1 .. l - (n + 1) + 1 : y[i] = q[(n + 1) + i - 1]
    BY <2>1, SubSeqProperties
  <2>3. /\ (IF n + 1 <= l THEN l - (n + 1) + 1 ELSE 0) = l - n /\ l - (n + 1) + 1 = l - n
        /\ \A i \in 1 .. l - n : (n + 1) + i - 1 = n + i
    BY <1>3
  <2> HIDE DEF y
  <2> QED
    BY <2>2, <2>3
<1> HIDE DEF x, y
<1>6. /\ r \in Seq(Arrival) /\ Len(r) = m + n
      /\ \A i \in 1 .. m + n : r[i] = IF i <= m THEN a[i] ELSE x[i - m]
  BY <1>2, <1>4, ConcatProperties
<1> HIDE DEF r
<1>7. (\A i \in 1 .. m : a[i] = [of |-> c, at |-> i]) /\ \A i \in 1 .. l : q[i] = [of |-> c, at |-> m + i]
  BY <1>1, <1>2 DEF InTurn
<1>8. ASSUME NEW i \in 1 .. m + n
      PROVE  r[i] = [of |-> c, at |-> i]
  <2>1. CASE i <= m
    <3>1. i \in 1 .. m /\ r[i] = a[i]
      BY <1>6, <2>1
    <3> QED
      BY <1>7, <3>1
  <2>2. CASE ~(i <= m)
    <3>1. i - m \in 1 .. n /\ i - m \in 1 .. l /\ m + (i - m) = i
      BY <1>3, <2>2
    <3>2. r[i] = q[i - m]
      BY <1>4, <1>6, <2>2, <3>1
    <3> QED
      BY <1>7, <3>1, <3>2
  <2> QED
    BY <2>1, <2>2
<1>9. ASSUME NEW i \in 1 .. l - n
      PROVE  y[i] = [of |-> c, at |-> (m + n) + i]
  <2>1. n + i \in 1 .. l /\ m + (n + i) = (m + n) + i
    BY <1>3
  <2> QED
    BY <1>5, <1>7, <2>1
<1>10. InTurn(r, y, c)
  BY <1>5, <1>6, <1>8, <1>9 DEF InTurn
<1> QED
  BY <1>1, <1>5, <1>6, <1>10 DEF r, x, y

LEMMA Waits ==
  ASSUME NEW c \in Conns, NEW r, r = [IdleUser EXCEPT !.pc = "reading", !.conn = c, !.fd = Number, !.wait = "parked"]
  PROVE  r \in UserRecord /\ r.pc = "reading" /\ r.conn = c /\ r.fd = Number
BY DEF IdleUser, UserRecord, Number

(* A task that leaves its call, or begins to wait in one.                  *)
LEMMA UserMoves ==
  ASSUME ConnTypes, Linked, NEW u \in Users, NEW r \in UserRecord, user' = [user EXCEPT ![u] = r],
         holder' = holder, \A c \in Conns : /\ conn'[c].open = conn[c].open /\ conn'[c].made = conn[c].made
                                            /\ conn'[c].fd = conn[c].fd,
         r.pc # "idle" => r.conn \in Conns /\ r.fd = Number /\ conn[r.conn].open,
         r.wait = "parked" => r.pc # "idle"
  PROVE  /\ user' \in [Users -> UserRecord] /\ user'[u] = r /\ \A v \in Users : v # u => user'[v] = user[v]
         /\ Linked'
<1>1. /\ user' \in [Users -> UserRecord] /\ user'[u] = r /\ \A v \in Users : v # u => user'[v] = user[v]
  BY DEF ConnTypes
<1>2. /\ \A c \in Conns : conn'[c].open <=> holder'[Number] = c
      /\ \A c \in Conns : conn'[c].open => conn'[c].made /\ conn'[c].fd = Number
  BY DEF Linked
<1>3. ASSUME NEW v \in Users
      PROVE  /\ user'[v].pc # "idle" => user'[v].conn \in Conns /\ user'[v].fd = Number
             /\ user'[v].wait = "parked" => user'[v].pc # "idle" /\ conn'[user'[v].conn].open
  <2>1. CASE v = u
    BY <1>1, <2>1
  <2>2. CASE v # u
    BY <1>1, <2>2 DEF Linked
  <2> QED
    BY <2>1, <2>2
<1> QED
  BY <1>1, <1>2, <1>3 DEF Linked

LEMMA Fails ==
  ASSUME ConnTypes, NEW c \in Conns,
         conn' = [conn EXCEPT ![c].read_failure = TRUE] \/ conn' = [conn EXCEPT ![c].write_failure = TRUE]
  PROVE  /\ conn' \in [Conns -> ConnRecord]
         /\ \A d \in Conns : /\ conn'[d].open = conn[d].open /\ conn'[d].made = conn[d].made /\ conn'[d].fd = conn[d].fd
                             /\ conn[d].write_failure => conn'[d].write_failure
<1> DEFINE x == [conn[c] EXCEPT !.read_failure = TRUE]
           y == [conn[c] EXCEPT !.write_failure = TRUE]
<1>1. conn[c] \in ConnRecord /\ conn \in [Conns -> ConnRecord]
  BY DEF ConnTypes
<1>2. x \in ConnRecord /\ x.open = conn[c].open /\ x.made = conn[c].made /\ x.fd = conn[c].fd
      /\ x.write_failure = conn[c].write_failure
  BY <1>1 DEF ConnRecord
<1>3. y \in ConnRecord /\ y.open = conn[c].open /\ y.made = conn[c].made /\ y.fd = conn[c].fd
      /\ y.write_failure = TRUE
  BY <1>1 DEF ConnRecord
<1>4. PICK z \in {x, y} : conn' = [conn EXCEPT ![c] = z]
  OBVIOUS
<1> HIDE DEF x, y
<1>5. /\ z \in ConnRecord /\ z.open = conn[c].open /\ z.made = conn[c].made /\ z.fd = conn[c].fd
      /\ conn[c].write_failure => z.write_failure
  <2>1. CASE z = x
    BY <1>2, <2>1
  <2>2. CASE z = y
    BY <1>3, <2>2
  <2> QED
    BY <1>4, <2>1, <2>2
<1>6. conn' \in [Conns -> ConnRecord] /\ conn'[c] = z /\ \A d \in Conns : d # c => conn'[d] = conn[d]
  BY <1>1, <1>4, <1>5
<1> QED
  BY <1>5, <1>6

LEMMA ReadOnceStep ==
  ASSUME ConnInv, NEW u \in Users, NEW c \in Conns, conn[c].open, ReadOnce(u, c, Number),
         UNCHANGED <<holder, peer, sent, untaken, writes>>
  PROVE  ConnInv'
<1>1. /\ ConnTypes /\ Linked /\ ReadsInv /\ WritesInv /\ holder[Number] = c
      /\ holder' = holder /\ peer' = peer /\ sent' = sent /\ untaken' = untaken /\ writes' = writes
  BY DEF ConnInv, Linked
<1>2. ASSUME NEW r \in UserRecord, user' = [user EXCEPT ![u] = r], r.pc # "writing",
             r.pc # "idle" => r.conn \in Conns /\ r.fd = Number /\ conn[r.conn].open,
             r.wait = "parked" => r.pc # "idle",
             conn' = conn \/ conn' = [conn EXCEPT ![c].read_failure = TRUE],
             arrived' \in [Conns -> Seq(Arrival)], answered' \in [Conns -> Seq(Arrival)], ReadsInv'
      PROVE  ConnInv'
  <2>1. /\ conn' \in [Conns -> ConnRecord]
        /\ \A d \in Conns : /\ conn'[d].open = conn[d].open /\ conn'[d].made = conn[d].made /\ conn'[d].fd = conn[d].fd
                            /\ conn[d].write_failure => conn'[d].write_failure
    <3>1. CASE conn' = conn
      BY <1>1, <3>1 DEF ConnTypes
    <3>2. CASE conn' = [conn EXCEPT ![c].read_failure = TRUE]
      BY <1>1, <3>2, Fails
    <3> QED
      BY <1>2, <3>1, <3>2
  <2>2. /\ user' \in [Users -> UserRecord] /\ user'[u] = r /\ \A v \in Users : v # u => user'[v] = user[v]
        /\ Linked'
    BY <1>1, <1>2, <2>1, UserMoves
  <2>3. ConnTypes'
    BY <1>1, <1>2, <2>1, <2>2 DEF ConnTypes
  <2>4. WritesInv'
    BY <1>1, <1>2, <2>1, <2>2, WritesStay
  <2> QED
    BY <1>2, <2>2, <2>3, <2>4 DEF ConnInv
<1>3. CASE /\ \E n \in 1 .. Len(arrived[c]) :
                /\ answered' = [answered EXCEPT ![c] = @ \o SubSeq(arrived[c], 1, n)]
                /\ arrived' = [arrived EXCEPT ![c] = SubSeq(@, n + 1, Len(@))]
           /\ Leaves(u) /\ UNCHANGED conn
  <2>1. PICK n \in 1 .. Len(arrived[c]) :
           /\ answered' = [answered EXCEPT ![c] = @ \o SubSeq(arrived[c], 1, n)]
           /\ arrived' = [arrived EXCEPT ![c] = SubSeq(@, n + 1, Len(@))]
    BY <1>3
  <2> DEFINE a == answered[c]
             q == arrived[c]
             a2 == a \o SubSeq(q, 1, n)
             q2 == SubSeq(q, n + 1, Len(q))
  <2>2. a \in Seq(Arrival) /\ q \in Seq(Arrival) /\ InTurn(a, q, c)
    BY <1>1 DEF ConnTypes, ReadsInv, InTurn
  <2> HIDE DEF a, q
  <2>3. n \in 1 .. Len(q)
    BY <2>1 DEF q
  <2>4. a2 \in Seq(Arrival) /\ q2 \in Seq(Arrival) /\ InTurn(a2, q2, c)
    BY <2>2, <2>3, Taken
  <2>5. answered' = [answered EXCEPT ![c] = a2] /\ arrived' = [arrived EXCEPT ![c] = q2]
    BY <2>1 DEF a, q
  <2> HIDE DEF a2, q2
  <2>6. /\ arrived' \in [Conns -> Seq(Arrival)] /\ answered' \in [Conns -> Seq(Arrival)]
        /\ arrived'[c] = q2 /\ answered'[c] = a2
        /\ \A d \in Conns : d # c => arrived'[d] = arrived[d] /\ answered'[d] = answered[d]
    BY <1>1, <2>4, <2>5 DEF ConnTypes
  <2>7. \A d \in Conns : InTurn(answered'[d], arrived'[d], d)
    <3>1. \A d \in Conns : InTurn(answered[d], arrived[d], d)
      BY <1>1 DEF ReadsInv, InTurn
    <3> QED
      BY <2>4, <2>6, <3>1
  <2>8. ReadsInv'
    BY <2>7 DEF ReadsInv, InTurn
  <2>9. user' = [user EXCEPT ![u] = IdleUser] /\ conn' = conn
    BY <1>3 DEF Leaves
  <2> QED
    BY <1>2, <2>6, <2>8, <2>9, IdleIs
<1>4. CASE Leaves(u) /\ (conn' = conn \/ conn' = [conn EXCEPT ![c].read_failure = TRUE]) /\ UNCHANGED <<answered, arrived>>
  <2>1. /\ user' = [user EXCEPT ![u] = IdleUser] /\ arrived' = arrived /\ answered' = answered
        /\ arrived \in [Conns -> Seq(Arrival)] /\ answered \in [Conns -> Seq(Arrival)]
    BY <1>1, <1>4 DEF Leaves, ConnTypes
  <2> QED
    BY <1>1, <1>2, <1>4, <2>1, IdleIs, ReadsStay
<1>5. CASE /\ user' = [user EXCEPT ![u] = [IdleUser EXCEPT !.pc = "reading", !.conn = c, !.fd = Number, !.wait = "parked"]]
           /\ UNCHANGED <<conn, answered, arrived>>
  <2>1. PICK r : r = [IdleUser EXCEPT !.pc = "reading", !.conn = c, !.fd = Number, !.wait = "parked"]
    OBVIOUS
  <2>2. r \in UserRecord /\ r.pc = "reading" /\ r.conn = c /\ r.fd = Number
    BY <2>1, Waits
  <2>3. /\ user' = [user EXCEPT ![u] = r] /\ arrived' = arrived /\ answered' = answered /\ conn' = conn
        /\ arrived \in [Conns -> Seq(Arrival)] /\ answered \in [Conns -> Seq(Arrival)]
    BY <1>1, <1>5, <2>1 DEF ConnTypes
  <2> QED
    BY <1>1, <1>2, <2>2, <2>3, ReadsStay
<1> QED
  BY <1>1, <1>3, <1>4, <1>5 DEF ReadOnce

LEMMA ReadStep ==
  ASSUME ConnInv, NEW u \in Users, NEW c \in Conns, read(u, c)
  PROVE  ConnInv'
<1>1. conn[c].open /\ conn[c].fd = Number
  BY DEF read, ConnInv, Linked
<1>2. ReadOnce(u, c, Number) /\ UNCHANGED <<holder, peer, sent, untaken, writes>>
  BY <1>1 DEF read
<1> QED
  BY <1>1, <1>2, ReadOnceStep

LEMMA ReadResumes ==
  ASSUME ConnInv, NEW u \in Users, read_resumes(u)
  PROVE  ConnInv'
<1>1. /\ user[u].pc = "reading" /\ user[u].conn \in Conns /\ user[u].fd = Number
      /\ UNCHANGED <<holder, peer, sent, untaken, writes>>
  BY DEF read_resumes, ConnInv, Linked
<1>2. PICK c \in Conns : c = user[u].conn
  BY <1>1
<1>3. CASE conn[c].open /\ ReadOnce(u, c, Number)
  BY <1>1, <1>3, ReadOnceStep
<1>4. CASE Leaves(u) /\ UNCHANGED <<conn, arrived, answered>>
  <2>1. /\ user' = [user EXCEPT ![u] = IdleUser] /\ arrived' = arrived /\ answered' = answered /\ conn' = conn
        /\ holder' = holder /\ peer' = peer /\ sent' = sent /\ untaken' = untaken /\ writes' = writes
        /\ ConnTypes /\ Linked /\ ReadsInv /\ WritesInv
    BY <1>1, <1>4 DEF Leaves, ConnInv
  <2>2. /\ user' \in [Users -> UserRecord] /\ user'[u] = IdleUser /\ \A v \in Users : v # u => user'[v] = user[v]
        /\ Linked'
    BY <2>1, IdleIs, UserMoves
  <2>3. ConnTypes'
    BY <2>1, <2>2 DEF ConnTypes
  <2>4. WritesInv'
    BY <2>1, <2>2, IdleIs, WritesStay
  <2> QED
    BY <2>1, <2>2, <2>3, <2>4, ReadsStay DEF ConnInv
<1> QED
  BY <1>1, <1>2, <1>3, <1>4 DEF read_resumes

(* A write that sends some, none or the last of its bytes, `ws` being what *)
(* is known of the writes after.                                           *)
Known(ws, w, c) ==
  /\ \A i \in 1 .. Len(ws) : i # w => i \in 1 .. Len(writes) /\ ws[i] = writes[i]
  /\ \A i \in 1 .. Len(writes) : i \in 1 .. Len(ws) /\ ws[i].conn = writes[i].conn
  /\ ws[w].conn = c /\ ~ws[w].spoiled

\* What is before `from` is sent, and no other call is this write.
SentSoFar(u, c, w, from) ==
  /\ \A k \in Nat : Sent(sent[c], w, k) <=> k \in 1 .. from - 1
  /\ \A v \in Users : v # u /\ user[v].pc = "writing" => user[v].write # w

Ends(u, c, ws, w, to) ==
  /\ writes' = ws
  /\ ws[w].out = "failed" => conn'[c].write_failure
  /\ ws[w].out = "ok" => to = WriteSize + 1
  /\ \A d \in Conns : /\ conn[d].made => conn'[d].made
                      /\ conn[d].write_failure => conn'[d].write_failure
  /\ \A v \in Users : v # u => user'[v] = user[v]
  /\ user'[u].pc = "writing" => /\ user'[u].conn = c /\ user'[u].write = w /\ user'[u].from = to
                                /\ to <= WriteSize /\ ws[w].out = ""

LEMMA WritesGo ==
  ASSUME ConnTypes, WritesInv, NEW u \in Users, NEW c \in Conns, conn[c].made,
         NEW ws \in Seq(WriteRecord), NEW w \in 1 .. Len(ws), Known(ws, w, c),
         NEW from \in 1 .. WriteSize + 1, NEW n \in Nat, from + n <= WriteSize + 1,
         SentSoFar(u, c, w, from),
         NEW r, Follows(r, sent[c], w, from, n), sent' = [sent EXCEPT ![c] = r],
         Ends(u, c, ws, w, from + n)
  PROVE  sent' \in [Conns -> Seq(Byte)] /\ WritesInv'
<1>1. sent[c] \in Seq(Byte) /\ from \in Nat /\ from >= 1 /\ w \in Nat /\ Len(ws) \in Nat /\ WriteSize \in Nat
  <2>1. sent[c] \in Seq(Byte)
    BY DEF ConnTypes
  <2>2. Len(ws) \in Nat
    BY LenProperties
  <2> QED
    BY <2>1, <2>2, ConnectionAssumption
<1>2. r \in Seq(Byte)
  BY DEF Follows
<1>3. sent' \in [Conns -> Seq(Byte)] /\ sent'[c] = r /\ \A d \in Conns : d # c => sent'[d] = sent[d]
  BY <1>2 DEF ConnTypes
<1>4. /\ \A k \in Nat : Sent(r, w, k) <=> k \in 1 .. (from + n) - 1
      /\ \A v, k : v # w => (Sent(r, v, k) <=> Sent(sent[c], v, k))
  BY <1>1, SentOn DEF SentSoFar
<1>5. \A d \in Conns : \A v, k : v # w => (Sent(sent'[d], v, k) <=> Sent(sent[d], v, k))
  BY <1>3, <1>4
<1>6. InOrder(r)
  <2>1. InOrder(sent[c])
    BY DEF WritesInv
  <2> QED
    BY <1>1, <2>1, OrderKept DEF SentSoFar
<1>7. Whose(r, c, ws)
  <2>1. /\ Len(sent[c]) \in Nat /\ Len(r) = Len(sent[c]) + n
        /\ \A i \in 1 .. Len(sent[c]) : r[i] = sent[c][i]
        /\ \A i \in 1 .. Len(r) : i > Len(sent[c]) => r[i] = [of |-> w, at |-> from + (i - Len(sent[c])) - 1]
    BY DEF Follows
  <2>2. \A i \in 1 .. Len(sent[c]) : /\ sent[c][i].of \in 1 .. Len(writes) /\ writes[sent[c][i].of].conn = c
                                     /\ sent[c][i].at \in 1 .. WriteSize
    BY DEF WritesInv, Whose
  <2>3. ASSUME NEW i \in 1 .. Len(r)
        PROVE  r[i].of \in 1 .. Len(ws) /\ ws[r[i].of].conn = c /\ r[i].at \in 1 .. WriteSize
    <3>1. CASE i \in 1 .. Len(sent[c])
      <4>1. r[i] = sent[c][i]
        BY <2>1, <3>1
      <4>2. sent[c][i].of \in 1 .. Len(writes) /\ writes[sent[c][i].of].conn = c /\ sent[c][i].at \in 1 .. WriteSize
        BY <2>2, <3>1
      <4>3. r[i].of \in 1 .. Len(ws) /\ ws[r[i].of].conn = writes[r[i].of].conn
        BY <4>1, <4>2 DEF Known
      <4> QED
        BY <4>1, <4>2, <4>3
    <3>2. CASE i > Len(sent[c])
      <4>0. PICK l \in Nat : l = Len(sent[c])
        BY <2>1
      <4>1. r[i] = [of |-> w, at |-> from + (i - l) - 1]
        BY <2>1, <3>2, <4>0
      <4>2. i \in 1 .. l + n /\ i > l
        BY <2>1, <3>2, <4>0
      <4>3. PICK a \in 1 .. WriteSize : a = from + (i - l) - 1
        <5>1. from + (i - l) - 1 \in 1 .. WriteSize
          BY <1>1, <4>2
        <5> QED
          BY <5>1
      <4>4. r[i].of = w /\ r[i].at = a
        BY <4>1, <4>3
      <4> QED
        BY <4>3, <4>4 DEF Known
    <3> QED
      BY <2>1, <3>1, <3>2
  <2> QED
    BY <2>3 DEF Whose
<1>8. ASSUME NEW d \in Conns
      PROVE  InOrder(sent'[d]) /\ Whose(sent'[d], d, ws)
  <2>1. CASE d = c
    BY <1>3, <1>6, <1>7, <2>1
  <2>2. CASE d # c
    <3>1. InOrder(sent[d]) /\ Whose(sent[d], d, writes)
      BY DEF WritesInv
    <3>2. Whose(sent[d], d, ws)
      BY <3>1 DEF Whose, Known
    <3> QED
      BY <1>3, <2>2, <3>1, <3>2
  <2> QED
    BY <2>1, <2>2
<1>9. ASSUME NEW i \in 1 .. Len(ws)
      PROVE  /\ ~ws[i].spoiled /\ conn'[ws[i].conn].made
             /\ ws[i].out = "failed" => conn'[ws[i].conn].write_failure
             /\ ws[i].out = "ok" => \A k \in 1 .. WriteSize : Sent(sent'[ws[i].conn], i, k)
  <2>1. CASE i = w
    <3>1. ws[i].out = "ok" => \A k \in 1 .. WriteSize : Sent(r, w, k)
      <4>1. ASSUME ws[i].out = "ok", NEW k \in 1 .. WriteSize
            PROVE  k \in Nat /\ k \in 1 .. (from + n) - 1
        BY <1>1, <2>1, <4>1 DEF Ends
      <4> QED
        BY <1>4, <4>1
    <3> QED
      BY <1>3, <2>1, <3>1 DEF Ends, Known
  <2>2. CASE i # w
    <3>1. i \in 1 .. Len(writes) /\ ws[i] = writes[i]
      BY <2>2 DEF Known
    <3>2. writes[i] \in WriteRecord
      BY <3>1, ElementOfSeq DEF ConnTypes
    <3>3. /\ ~writes[i].spoiled /\ conn[writes[i].conn].made /\ writes[i].conn \in Conns
          /\ writes[i].out = "failed" => conn[writes[i].conn].write_failure
          /\ writes[i].out = "ok" => \A k \in 1 .. WriteSize : Sent(sent[writes[i].conn], i, k)
      BY <3>1, <3>2 DEF WritesInv, WriteRecord
    <3> QED
      BY <1>5, <2>2, <3>1, <3>3 DEF Ends
  <2> QED
    BY <2>1, <2>2
<1>10. ASSUME NEW v \in Users
       PROVE  Writing(v)'
  <2> SUFFICES ASSUME user'[v].pc = "writing"
               PROVE  /\ user'[v].write \in 1 .. Len(ws) /\ user'[v].from \in 1 .. WriteSize
                      /\ ws[user'[v].write].conn = user'[v].conn /\ ws[user'[v].write].out = ""
                      /\ \A k \in Nat : Sent(sent'[user'[v].conn], user'[v].write, k) <=> k \in 1 .. user'[v].from - 1
    BY DEF Writing, Ends
  <2>1. CASE v = u
    <3>1. /\ user'[u].conn = c /\ user'[u].write = w /\ user'[u].from = from + n
          /\ from + n <= WriteSize /\ ws[w].out = "" /\ ws[w].conn = c
      BY <2>1 DEF Ends, Known
    <3>2. from + n \in 1 .. WriteSize
      <4>1. \A t \in Nat : t >= 1 /\ t <= WriteSize => t \in 1 .. WriteSize
        BY <1>1
      <4>2. from + n \in Nat /\ from + n >= 1
        BY <1>1
      <4> QED
        BY <3>1, <4>1, <4>2
    <3> QED
      BY <1>3, <1>4, <2>1, <3>1, <3>2
  <2>2. CASE v # u
    <3>1. /\ user'[v] = user[v] /\ user[v].pc = "writing" /\ user[v].write # w
      BY <2>2 DEF Ends, SentSoFar
    <3>2. /\ user[v].write \in 1 .. Len(writes) /\ user[v].from \in 1 .. WriteSize
          /\ writes[user[v].write].conn = user[v].conn /\ writes[user[v].write].out = ""
          /\ \A k \in Nat : Sent(sent[user[v].conn], user[v].write, k) <=> k \in 1 .. user[v].from - 1
      BY <3>1 DEF WritesInv, Writing
    <3>3. user[v].conn \in Conns
      <4>1. writes[user[v].write] \in WriteRecord
        BY <3>2, ElementOfSeq DEF ConnTypes
      <4> QED
        BY <3>2, <4>1 DEF WriteRecord
    <3>4. user[v].write \in 1 .. Len(ws) /\ ws[user[v].write] = writes[user[v].write]
      BY <3>1, <3>2 DEF Known
    <3>5. \A k \in Nat : Sent(sent'[user[v].conn], user[v].write, k) <=> Sent(sent[user[v].conn], user[v].write, k)
      BY <1>5, <3>1, <3>3
    <3> QED
      BY <3>1, <3>2, <3>4, <3>5
  <2> QED
    BY <2>1, <2>2
<1>11. WritesApart'
  <2> SUFFICES ASSUME NEW x \in Users, NEW y \in Users, x # y, user'[x].pc = "writing", user'[y].pc = "writing"
               PROVE  user'[x].write # user'[y].write
    BY DEF WritesApart
  <2>1. CASE x # u /\ y # u
    <3>1. user'[x] = user[x] /\ user'[y] = user[y]
      BY <2>1 DEF Ends
    <3>2. WritesApart
      BY DEF WritesInv
    <3> QED
      BY <3>1, <3>2 DEF WritesApart
  <2>2. CASE x = u
    BY <2>2 DEF Ends, SentSoFar
  <2>3. CASE y = u
    BY <2>3 DEF Ends, SentSoFar
  <2> QED
    BY <2>1, <2>2, <2>3
<1> QED
  BY <1>3, <1>8, <1>9, <1>10, <1>11 DEF WritesInv, Ends

LEMMA FollowsNone ==
  ASSUME NEW q \in Seq(Byte), NEW w, NEW from
  PROVE  Follows(q, q, w, from, 0)
<1>1. Len(q) \in Nat
  BY LenProperties
<1>2. PICK l \in Nat : l = Len(q)
  BY <1>1
<1>3. l = l + 0 /\ \A i \in 1 .. l : ~(i > l)
  OBVIOUS
<1> QED
  BY <1>2, <1>3 DEF Follows

LEMMA KnownOn ==
  ASSUME NEW ws \in Seq(WriteRecord), NEW w, w \in 1 .. Len(ws), NEW c, Known(ws, w, c), NEW o, o \in Outs,
         NEW z, Answers(z, ws, w, o)
  PROVE  z \in Seq(WriteRecord) /\ w \in 1 .. Len(z) /\ z[w].out = o /\ Known(z, w, c)
BY DEF Answers, Known

(* A write that leaves with nothing more sent.                             *)
LEMMA EndStep ==
  ASSUME ConnInv, NEW u \in Users, NEW c \in Conns, conn[c].made,
         NEW ws \in Seq(WriteRecord), NEW w \in 1 .. Len(ws), Known(ws, w, c),
         NEW from \in 1 .. WriteSize + 1, SentSoFar(u, c, w, from),
         NEW o \in {"failed", "closed"}, writes' = Answering(ws, w, o), Leaves(u),
         \/ o = "failed" /\ conn' = [conn EXCEPT ![c].write_failure = TRUE]
         \/ o = "closed" /\ conn' = conn,
         UNCHANGED <<sent, untaken, holder, peer, arrived, answered>>
  PROVE  ConnInv'
<1>1. /\ ConnTypes /\ Linked /\ ReadsInv /\ WritesInv /\ holder' = holder /\ peer' = peer /\ sent' = sent
      /\ untaken' = untaken /\ arrived' = arrived /\ answered' = answered /\ user' = [user EXCEPT ![u] = IdleUser]
  BY DEF ConnInv, Leaves
<1>2. PICK z : z = Answering(ws, w, o)
  OBVIOUS
<1>3. z \in Seq(WriteRecord) /\ w \in 1 .. Len(z) /\ z[w].out = o /\ Known(z, w, c)
  <2>1. o \in Outs
    BY DEF Outs
  <2>2. Answers(z, ws, w, o)
    BY <1>2, <2>1, OutIs
  <2> QED
    BY <2>1, <2>2, KnownOn
<1>4. /\ conn' \in [Conns -> ConnRecord]
      /\ \A d \in Conns : /\ conn'[d].open = conn[d].open /\ conn'[d].made = conn[d].made /\ conn'[d].fd = conn[d].fd
                          /\ conn[d].write_failure => conn'[d].write_failure
      /\ o = "failed" => conn'[c].write_failure
  <2>1. CASE conn' = conn /\ o = "closed"
    BY <1>1, <2>1 DEF ConnTypes
  <2>2. CASE conn' = [conn EXCEPT ![c].write_failure = TRUE]
    <3>1. conn'[c].write_failure
      BY <1>1, <2>2 DEF ConnTypes, ConnRecord
    <3> QED
      BY <1>1, <2>2, <3>1, Fails
  <2> QED
    BY <2>1, <2>2
<1>5. /\ user' \in [Users -> UserRecord] /\ user'[u] = IdleUser /\ \A v \in Users : v # u => user'[v] = user[v]
      /\ Linked'
  BY <1>1, <1>4, IdleIs, UserMoves
<1>6. Ends(u, c, z, w, from + 0)
  <2>1. user'[u].pc # "writing" /\ z[w].out # "ok"
    BY <1>3, <1>5, IdleIs
  <2> QED
    BY <1>2, <1>3, <1>4, <1>5, <2>1 DEF Ends
<1>7. sent[c] \in Seq(Byte) /\ sent' = [sent EXCEPT ![c] = sent[c]]
  BY <1>1 DEF ConnTypes
<1>8. PICK r : r = sent[c]
  OBVIOUS
<1>9. Follows(r, sent[c], w, from, 0) /\ sent' = [sent EXCEPT ![c] = r]
  BY <1>7, <1>8, FollowsNone
<1>10. from + 0 <= WriteSize + 1 /\ 0 \in Nat
  BY ConnectionAssumption
<1>11. WritesInv'
  BY <1>1, <1>3, <1>6, <1>9, <1>10, WritesGo
<1>12. ConnTypes'
  BY <1>1, <1>2, <1>3, <1>4, <1>5 DEF ConnTypes
<1> QED
  BY <1>1, <1>5, <1>11, <1>12, ReadsStay DEF ConnInv

(* The bytes a write sends at once fit the socket and the write.           *)
LEMMA RoomFor ==
  ASSUME ConnTypes, NEW c \in Conns, NEW w, NEW from \in 1 .. WriteSize + 1
  PROVE  \E n \in Nat : /\ n <= WriteSize + 1 - from /\ untaken[c] + n \in 0 .. SendRoom
                        /\ Sends(c, w, from) = [bytes |-> Run(w, from, n), from |-> from + n]
<1> DEFINE n == IF WriteSize + 1 - from < SendRoom - untaken[c] THEN WriteSize + 1 - from ELSE SendRoom - untaken[c]
<1>1. untaken[c] \in 0 .. SendRoom
  BY DEF ConnTypes
<1>2. n \in Nat /\ n <= WriteSize + 1 - from /\ untaken[c] + n \in 0 .. SendRoom
  BY <1>1, ConnectionAssumption
<1>3. Sends(c, w, from) = [bytes |-> Run(w, from, n), from |-> from + n]
  BY DEF Sends, Run
<1> QED
  BY <1>2, <1>3

LEMMA RunLength ==
  ASSUME NEW w \in Nat, NEW from \in Nat, from >= 1, NEW n \in Nat
  PROVE  Len(Run(w, from, n)) = n
<1>1. \A i \in 1 .. n : [of |-> w, at |-> from + i - 1] \in Byte
  BY DEF Byte
<1>2. Run(w, from, n) \in [1 .. n -> Byte]
  BY <1>1 DEF Run
<1> QED
  BY <1>2, Listed

(* A write that goes on while its connection is open.                      *)
LEMMA LoopStep ==
  ASSUME ConnInv, NEW u \in Users, NEW c \in Conns, conn[c].open,
         NEW ws \in Seq(WriteRecord), NEW w \in 1 .. Len(ws), Known(ws, w, c), ws[w].out = "",
         NEW from \in 1 .. WriteSize + 1, SentSoFar(u, c, w, from),
         WriteLoop(u, c, Number, ws, w, from), UNCHANGED <<holder, peer, arrived, answered>>
  PROVE  ConnInv'
<1>1. /\ ConnTypes /\ Linked /\ ReadsInv /\ WritesInv /\ holder[Number] = c /\ c # "" /\ conn[c].made
      /\ holder' = holder /\ peer' = peer /\ arrived' = arrived /\ answered' = answered
  BY DEF ConnInv, Linked, Conns
<1>2. CASE WriteFails(u, c, ws, w)
  <2>1. PICK o \in {"failed", "closed"} : o = "failed"
    OBVIOUS
  <2>2. /\ writes' = Answering(ws, w, o) /\ Leaves(u) /\ conn' = [conn EXCEPT ![c].write_failure = TRUE]
        /\ UNCHANGED <<sent, untaken, holder, peer, arrived, answered>>
    BY <1>1, <1>2, <2>1 DEF WriteFails, Answering
  <2> QED
    BY <1>1, <2>1, <2>2, EndStep
<1>3. CASE ~(holder[Number] = "" \/ peer[holder[Number]] = "reset")
  <2>1. PICK n \in Nat : /\ n <= WriteSize + 1 - from /\ untaken[c] + n \in 0 .. SendRoom
                         /\ Sends(c, w, from) = [bytes |-> Run(w, from, n), from |-> from + n]
    BY <1>1, RoomFor
  <2>2. /\ w \in Nat /\ from \in Nat /\ from >= 1 /\ WriteSize \in Nat /\ sent[c] \in Seq(Byte)
        /\ from + n \in Nat /\ from + n <= WriteSize + 1
    <3>1. sent[c] \in Seq(Byte)
      BY <1>1 DEF ConnTypes
    <3>2. Len(ws) \in Nat
      BY LenProperties
    <3>3. /\ w \in Nat /\ from \in Nat /\ from >= 1 /\ WriteSize \in Nat
      <4>1. WriteSize \in Nat
        BY ConnectionAssumption
      <4>2. PICK l \in Nat : l = Len(ws)
        BY <3>2
      <4>3. w \in 1 .. l
        BY <4>2
      <4>4. w \in Nat
        BY <4>3, Counted
      <4>5. from \in Nat /\ from >= 1
        BY <2>1, <4>1, Within
      <4> QED
        BY <4>1, <4>4, <4>5
    <3>4. from + n \in Nat /\ from + n <= WriteSize + 1
      BY <2>1, <3>3, Within
    <3> QED
      BY <3>1, <3>3, <3>4
  <2> DEFINE b == Run(w, from, n)
             s == Sends(c, w, from)
  <2> HIDE DEF b
  <2>3. s.bytes = b /\ s.from = from + n
    <3>1. s = [bytes |-> b, from |-> from + n]
      BY <2>1 DEF b
    <3> HIDE DEF s
    <3> QED
      BY <3>1
  <2> HIDE DEF s
  <2>4. Len(b) = n
    BY <2>2, RunLength DEF b
  <2>5. PICK r : r = sent[c] \o b
    OBVIOUS
  <2>6. Follows(r, sent[c], w, from, n)
    BY <2>2, <2>5, Appended DEF b
  <2>7. /\ sent' = [sent EXCEPT ![c] = @ \o s.bytes] /\ untaken' = [untaken EXCEPT ![c] = @ + Len(s.bytes)]
        /\ IF s.from > WriteSize
             THEN writes' = [ws EXCEPT ![w].out = "ok"] /\ Leaves(u)
             ELSE /\ writes' = ws
                  /\ user' = [user EXCEPT ![u] = [pc |-> "writing", conn |-> c, fd |-> Number,
                                                  write |-> w, from |-> s.from, wait |-> "parked"]]
        /\ conn' = conn
    BY <1>1, <1>3 DEF WriteLoop, s
  <2>8. sent' = [sent EXCEPT ![c] = r] /\ untaken' = [untaken EXCEPT ![c] = untaken[c] + n]
    BY <2>3, <2>4, <2>5, <2>7
  <2>9. untaken' \in [Conns -> 0 .. SendRoom] /\ conn' \in [Conns -> ConnRecord]
    <3>1. conn \in [Conns -> ConnRecord] /\ untaken \in [Conns -> 0 .. SendRoom] /\ untaken[c] + n \in 0 .. SendRoom
      BY <1>1, <2>1 DEF ConnTypes
    <3> QED
      BY <2>7, <2>8, <3>1
  <2>10. ASSUME NEW z \in Seq(WriteRecord), w \in 1 .. Len(z), Known(z, w, c), writes' = z,
                z[w].out \in {"", "ok"}, z[w].out = "ok" => from + n = WriteSize + 1,
                NEW x \in UserRecord, user' = [user EXCEPT ![u] = x], x.wait = "parked" => x.pc # "idle",
                x.pc # "idle" => /\ x.conn = c /\ x.fd = Number /\ x.write = w /\ x.from = from + n
                                 /\ from + n <= WriteSize /\ z[w].out = ""
         PROVE  ConnInv'
    <3>1. /\ user' \in [Users -> UserRecord] /\ user'[u] = x /\ \A v \in Users : v # u => user'[v] = user[v]
          /\ Linked'
      BY <1>1, <2>7, <2>10, UserMoves
    <3>2. Ends(u, c, z, w, from + n)
      BY <2>7, <2>10, <3>1 DEF Ends
    <3>3. sent' \in [Conns -> Seq(Byte)] /\ WritesInv'
      BY <1>1, <2>2, <2>6, <2>8, <2>10, <3>2, WritesGo
    <3>4. ConnTypes'
      BY <1>1, <2>9, <2>10, <3>1, <3>3 DEF ConnTypes
    <3> QED
      BY <1>1, <3>1, <3>3, <3>4, ReadsStay DEF ConnInv
  <2>11. CASE s.from > WriteSize
    <3>1. from + n = WriteSize + 1
      <4>1. from + n > WriteSize
        BY <2>3, <2>11
      <4> QED
        BY <2>1, <2>2, <4>1, Within
    <3>2. PICK z : z = Answering(ws, w, "ok")
      OBVIOUS
    <3>3. z \in Seq(WriteRecord) /\ w \in 1 .. Len(z) /\ z[w].out = "ok" /\ Known(z, w, c)
      <4>1. "ok" \in Outs
        BY DEF Outs
      <4>2. Answers(z, ws, w, "ok")
        BY <3>2, <4>1, OutIs
      <4> QED
        BY <4>1, <4>2, KnownOn
    <3>4. writes' = z /\ user' = [user EXCEPT ![u] = IdleUser]
      BY <2>7, <2>11, <3>2 DEF Leaves, Answering
    <3> QED
      BY <2>10, <3>1, <3>3, <3>4, IdleIs
  <2>12. CASE ~(s.from > WriteSize)
    <3>1. from + n <= WriteSize
      <4>1. ~(from + n > WriteSize)
        BY <2>3, <2>12
      <4> QED
        BY <2>1, <2>2, <4>1, Within
    <3>2. PICK x : x = [pc |-> "writing", conn |-> c, fd |-> Number, write |-> w, from |-> from + n, wait |-> "parked"]
      OBVIOUS
    <3>3. /\ x \in UserRecord /\ x.pc = "writing" /\ x.conn = c /\ x.fd = Number /\ x.write = w /\ x.from = from + n
      BY <2>2, <3>2 DEF UserRecord, Number
    <3>4. writes' = ws /\ user' = [user EXCEPT ![u] = x]
      BY <2>3, <2>7, <2>12, <3>2
    <3> QED
      BY <2>10, <3>1, <3>3, <3>4
  <2> QED
    BY <2>11, <2>12
<1> QED
  BY <1>2, <1>3 DEF WriteLoop

LEMMA WriteStep ==
  ASSUME ConnInv, NEW u \in Users, NEW c \in Conns, write(u, c)
  PROVE  ConnInv'
<1>1. /\ ConnTypes /\ Linked /\ WritesInv /\ conn[c].open /\ conn[c].fd = Number /\ ~conn[c].write_failure
      /\ UNCHANGED <<holder, peer, arrived, answered>> /\ writes \in Seq(WriteRecord)
  BY DEF write, ConnInv, Linked, ConnTypes
<1>2. ~\E i \in 1 .. Len(writes) : writes[i].conn = c /\ writes[i].out = "failed"
  BY <1>1 DEF WritesInv
<1>3. PICK new_w : new_w = [conn |-> c, out |-> "", spoiled |-> FALSE]
  OBVIOUS
<1>4. new_w \in WriteRecord /\ new_w.conn = c /\ new_w.out = "" /\ ~new_w.spoiled
  BY <1>3 DEF WriteRecord, Outs
<1>5. PICK ws : ws = Append(writes, new_w)
  OBVIOUS
<1>6. PICK l \in Nat : l = Len(writes)
  BY <1>1, LenProperties
<1>7. ws \in Seq(WriteRecord) /\ Len(ws) = l + 1 /\ (\A i \in 1 .. l : ws[i] = writes[i]) /\ ws[l + 1] = new_w
  <2>1. writes \in Seq(WriteRecord) /\ new_w \in WriteRecord
    BY <1>1, <1>4
  <2>2. /\ ws \in Seq(WriteRecord) /\ Len(ws) = Len(writes) + 1
        /\ \A i \in 1 .. Len(writes) : ws[i] = writes[i]
        /\ ws[Len(writes) + 1] = new_w
    BY <1>5, <2>1, AppendProperties
  <2> QED
    BY <1>6, <2>2
<1>8. PICK w \in Nat : w = l + 1
  OBVIOUS
<1>9. WriteLoop(u, c, Number, ws, w, 1)
  <2>1. PICK b \in BOOLEAN : b = \E i \in 1 .. Len(writes) : writes[i].conn = c /\ writes[i].out = "failed"
    OBVIOUS
  <2>2. b = FALSE
    BY <1>2, <2>1
  <2>3. WriteLoop(u, c, conn[c].fd, Append(writes, [conn |-> c, out |-> "", spoiled |-> b]),
                  Len(Append(writes, [conn |-> c, out |-> "", spoiled |-> b])), 1)
    BY <2>1 DEF write
  <2>4. Append(writes, [conn |-> c, out |-> "", spoiled |-> b]) = ws /\ Len(ws) = w
    BY <1>3, <1>5, <1>7, <1>8, <2>2
  <2> QED
    BY <1>1, <2>3, <2>4
<1>10. /\ \A i \in 1 .. l + 1 : i # l + 1 => i \in 1 .. l
       /\ \A i \in 1 .. l : i \in 1 .. l + 1
       /\ l + 1 \in 1 .. l + 1 /\ l + 1 \notin 1 .. l
  OBVIOUS
<1>11. w \in 1 .. Len(ws) /\ Known(ws, w, c) /\ ws[w].out = ""
  <2>1. ws[w] = new_w /\ w \in 1 .. Len(ws)
    BY <1>7, <1>8, <1>10
  <2>2. \A i \in 1 .. Len(ws) : i # w => i \in 1 .. Len(writes) /\ ws[i] = writes[i]
    BY <1>6, <1>7, <1>8, <1>10
  <2>3. \A i \in 1 .. Len(writes) : i \in 1 .. Len(ws) /\ ws[i].conn = writes[i].conn
    BY <1>6, <1>7, <1>10
  <2> QED
    BY <1>4, <2>1, <2>2, <2>3 DEF Known
<1>12. SentSoFar(u, c, w, 1)
  <2>1. \A k \in Nat : ~Sent(sent[c], w, k)
    <3> SUFFICES ASSUME NEW k \in Nat, NEW i \in 1 .. Len(sent[c]), sent[c][i] = [of |-> w, at |-> k]
                 PROVE  FALSE
      BY DEF Sent
    <3>1. sent[c][i].of = w
      OBVIOUS
    <3>2. sent[c][i].of \in 1 .. Len(writes)
      BY <1>1 DEF WritesInv, Whose
    <3> QED
      BY <1>6, <1>8, <1>10, <3>1, <3>2
  <2>2. \A k \in Nat : k \notin 1 .. 1 - 1
    OBVIOUS
  <2>3. \A v \in Users : user[v].pc = "writing" => user[v].write \in 1 .. Len(writes)
    BY <1>1 DEF WritesInv, Writing
  <2>4. \A v \in Users : user[v].pc = "writing" => user[v].write # w
    BY <1>6, <1>8, <1>10, <2>3
  <2> QED
    BY <2>1, <2>2, <2>4 DEF SentSoFar
<1>13. 1 \in 1 .. WriteSize + 1
  BY ConnectionAssumption
<1> QED
  BY <1>1, <1>7, <1>9, <1>11, <1>12, <1>13, LoopStep

LEMMA WriteResumes ==
  ASSUME ConnInv, NEW u \in Users, write_resumes(u)
  PROVE  ConnInv'
<1>1. /\ ConnTypes /\ Linked /\ WritesInv /\ user[u].pc = "writing" /\ user[u].wait \in {"ok", "ended"}
      /\ user[u].fd = Number /\ user[u].conn \in Conns
      /\ UNCHANGED <<holder, peer, arrived, answered>> /\ writes \in Seq(WriteRecord)
  BY DEF write_resumes, ConnInv, Linked, ConnTypes
<1>2. PICK c \in Conns : c = user[u].conn
  BY <1>1
<1>3. PICK w, from, ws : w = user[u].write /\ from = user[u].from /\ ws = writes
  OBVIOUS
<1>4. /\ w \in 1 .. Len(ws) /\ from \in 1 .. WriteSize /\ ws[w].conn = c /\ ws[w].out = ""
      /\ \A k \in Nat : Sent(sent[c], w, k) <=> k \in 1 .. from - 1
  BY <1>1, <1>2, <1>3 DEF WritesInv, Writing
<1>5. from \in 1 .. WriteSize + 1
  <2>1. from \in 1 .. WriteSize /\ WriteSize \in Nat
    BY <1>4, ConnectionAssumption
  <2>2. \A m \in Nat : 1 .. m \subseteq 1 .. m + 1
    OBVIOUS
  <2> QED
    BY <2>1, <2>2
<1>6. SentSoFar(u, c, w, from)
  <2>1. \A v \in Users : v # u /\ user[v].pc = "writing" => user[v].write # w
    BY <1>1, <1>3 DEF WritesInv, WritesApart
  <2> QED
    BY <1>4, <2>1 DEF SentSoFar
<1>7. ~ws[w].spoiled /\ conn[c].made
  BY <1>1, <1>3, <1>4 DEF WritesInv
<1>8. Known(ws, w, c)
  BY <1>3, <1>4, <1>7 DEF Known
<1>9. ws \in Seq(WriteRecord)
  BY <1>1, <1>3
<1>10. CASE user[u].wait = "ended"
  <2>1. PICK o \in {"failed", "closed"} : o = "failed"
    OBVIOUS
  <2>2. WriteFails(u, c, ws, w)
    BY <1>2, <1>3, <1>10 DEF write_resumes
  <2>3. /\ writes' = Answering(ws, w, o) /\ Leaves(u) /\ conn' = [conn EXCEPT ![c].write_failure = TRUE]
        /\ UNCHANGED <<sent, untaken, holder, peer, arrived, answered>>
    BY <1>1, <2>1, <2>2 DEF WriteFails, Answering
  <2> QED
    BY <1>4, <1>5, <1>6, <1>7, <1>8, <1>9, <2>1, <2>3, EndStep
<1>11. CASE user[u].wait # "ended" /\ conn[c].open
  <2>1. WriteLoop(u, c, Number, ws, w, from)
    BY <1>1, <1>2, <1>3, <1>11 DEF write_resumes
  <2> QED
    BY <1>1, <1>4, <1>5, <1>6, <1>8, <1>9, <1>11, <2>1, LoopStep
<1>12. CASE user[u].wait # "ended" /\ ~conn[c].open
  <2>1. PICK o \in {"failed", "closed"} : o = "closed"
    OBVIOUS
  <2>2. /\ writes' = Answering(ws, w, o) /\ Leaves(u) /\ conn' = conn
        /\ UNCHANGED <<sent, untaken, holder, peer, arrived, answered>>
    BY <1>1, <1>2, <1>3, <1>12, <2>1 DEF write_resumes, Answering
  <2> QED
    BY <1>4, <1>5, <1>6, <1>7, <1>8, <1>9, <2>1, <2>2, EndStep
<1> QED
  BY <1>10, <1>11, <1>12

LEMMA ConnNext == ConnInv /\ [ConnectionNext]_connVars => ConnInv'
<1> SUFFICES ASSUME ConnInv, [ConnectionNext]_connVars
             PROVE  ConnInv'
  OBVIOUS
<1>1. CASE Makes
  BY <1>1, MakesStep
<1>2. ASSUME NEW c \in Conns, PeerMoves(c) \/ close(c)
      PROVE  ConnInv'
  BY <1>2, PeerStep, CloseStep
<1>3. ASSUME NEW u \in Users, WaitAnswered(u) \/ read_resumes(u) \/ write_resumes(u) \/ UserKilled(u)
      PROVE  ConnInv'
  BY <1>3, AnsweredStep, ReadResumes, WriteResumes, KilledStep
<1>4. ASSUME NEW u \in Users, NEW c \in Conns, read(u, c) \/ write(u, c)
      PROVE  ConnInv'
  BY <1>4, ReadStep, WriteStep
<1>5. CASE UNCHANGED connVars
  <2>1. /\ conn' = conn /\ holder' = holder /\ peer' = peer /\ arrived' = arrived /\ answered' = answered
        /\ sent' = sent /\ untaken' = untaken /\ writes' = writes /\ user' = user
        /\ ConnTypes /\ Linked /\ ReadsInv /\ WritesInv
    BY <1>5 DEF connVars, ConnInv
  <2>2. ConnTypes' /\ Linked'
    BY <2>1 DEF ConnTypes, Linked
  <2> QED
    BY <2>1, <2>2, ReadsStay, WritesStay DEF ConnInv
<1> QED
  BY <1>1, <1>2, <1>3, <1>4, <1>5 DEF ConnectionNext

(* The invariant of reads and writes above: which connection the number is *)
(* of, what each peer was sent and where each write that waits has got to. *)
THEOREM ConnectionInvariance == ConnectionSpec => []ConnInv
BY ConnInits, ConnNext, PTL DEF ConnectionSpec

(* Whichever tasks read, write and close a connection between the halves   *)
(* of each other's calls, and though its number goes to another: reads     *)
(* answer their own connection's bytes in order, each once; a write's      *)
(* bytes go to its own peer, in order, each once, all of them if it        *)
(* answers true and none after one that failed; and nobody is left waiting *)
(* on a closed connection (read, write and close of                        *)
(* cosmic/internal/connection.tl).                                         *)
THEOREM ConnectionIsExact == ConnectionSpec => []ConnectionExact
<1>1. ConnInv => ConnectionExact
  <2> SUFFICES ASSUME ConnInv
               PROVE  ConnectionExact
    OBVIOUS
  <2>1. ConnTypes /\ Linked /\ ReadsInv /\ WritesInv
    BY DEF ConnInv
  <2>2. ASSUME NEW c \in Conns, NEW i \in 1 .. Len(answered[c] \o arrived[c])
        PROVE  (answered[c] \o arrived[c])[i] = [of |-> c, at |-> i]
    <3> DEFINE a == answered[c]
               q == arrived[c]
    <3>1. a \in Seq(Arrival) /\ q \in Seq(Arrival)
      BY <2>1 DEF ConnTypes
    <3>2. /\ \A j \in 1 .. Len(a) : a[j] = [of |-> c, at |-> j]
          /\ \A j \in 1 .. Len(q) : q[j] = [of |-> c, at |-> Len(a) + j]
      BY <2>1 DEF ReadsInv
    <3>3. i \in 1 .. Len(a \o q)
      BY <2>2
    <3> HIDE DEF a, q
    <3>4. PICK m \in Nat : m = Len(a)
      BY <3>1, LenProperties
    <3>5. PICK n \in Nat : n = Len(q)
      BY <3>1, LenProperties
    <3>6. i \in 1 .. m + n /\ (a \o q)[i] = IF i <= m THEN a[i] ELSE q[i - m]
      BY <3>1, <3>3, <3>4, <3>5, ConcatProperties
    <3>7. (a \o q)[i] = [of |-> c, at |-> i]
      <4>1. CASE i <= m
        <5>1. i \in 1 .. m
          BY <3>6, <4>1
        <5> QED
          BY <3>2, <3>4, <3>6, <4>1, <5>1
      <4>2. CASE ~(i <= m)
        <5>1. i - m \in 1 .. n /\ m + (i - m) = i
          BY <3>6, <4>2
        <5>2. q[i - m] = [of |-> c, at |-> m + (i - m)]
          BY <3>2, <3>4, <3>5, <5>1
        <5> QED
          BY <3>6, <4>2, <5>1, <5>2
      <4> QED
        BY <4>1, <4>2
    <3> QED
      BY <3>7 DEF a, q
  <2>3. ASSUME NEW c \in Conns
        PROVE  /\ InOrder(sent[c])
               /\ \A i \in 1 .. Len(sent[c]) :
                    /\ writes[sent[c][i].of].conn = c /\ ~ writes[sent[c][i].of].spoiled
                    /\ sent[c][i].at \in 1 .. WriteSize
    BY <2>1 DEF WritesInv, Whose
  <2>4. \A w \in 1 .. Len(writes) : writes[w].out = "ok" =>
          \A at \in 1 .. WriteSize : Sent(sent[writes[w].conn], w, at)
    BY <2>1 DEF WritesInv
  <2>5. \A u \in Users : user[u].wait = "parked" => conn[user[u].conn].open
    BY <2>1 DEF Linked
  <2> QED
    BY <2>2, <2>3, <2>4, <2>5 DEF ConnectionExact
<1> QED
  BY <1>1, ConnectionInvariance, PTL

-----------------------------------------------------------------------------
(***************************************************************************)
(* The server (module NetServe): the inductive invariant.                  *)
(***************************************************************************)
(* A connection in a backlog was never accepted, is in that backlog only,  *)
(* and its listener is open.                                               *)
Backlog ==
  \A l \in Listener : \A c \in pending[l] :
     /\ task[c] = "unused"
     /\ run = "on" => l \in listening
     /\ \A k \in Listener : k # l => c \notin pending[k]

(* Between its steps too, a server under its limit has every accept task.  *)
AllAccept ==
  run = "on" /\ ~stopping /\ open < Most => \A l \in Listener : acc[l] # "none"

(* The order of a stop: who is in it, what it has closed, and what waits   *)
(* for it to be over.                                                      *)
StopOrder ==
  /\ thread # "none" => run = "on"
  /\ thread = "main" => main = "kills"
  /\ thread = "stop" \/ by # "none" => stopping /\ waiter = "waits"
  /\ stopping /\ run # "raised" => listening \subseteq unstopped
  /\ waiter # "waits" => stopping /\ unstopped = {}
  /\ main \notin {"on_ready", "waiter"} => waiter = "ended"

ServeInv == ServeTypeOK /\ BooksBalance /\ Backlog /\ AllAccept /\ StopOrder /\ ReturnsClean

LEMMA ServeInitInv == ServeInit => ServeInv
<1> SUFFICES ASSUME ServeInit PROVE ServeInv
  OBVIOUS
<1> USE ServeAssumption DEF ServeInit
<1>1. ServeTypeOK
  <2>1. graced \in BOOLEAN
    OBVIOUS
  <2>2. signals \in 0 .. MaxSignals /\ caught \in Nat /\ open \in Nat
    OBVIOUS
  <2>3. stopping \in BOOLEAN /\ hurried \in BOOLEAN /\ signalled \in BOOLEAN /\ graceCut \in BOOLEAN
    OBVIOUS
  <2>4. task \in [Conn -> {"unused", "new", "serving", "reporting", "ended"}]
    OBVIOUS
  <2> QED
    BY <2>1, <2>2, <2>3, <2>4 DEF ServeTypeOK
<1>2. BooksBalance
  BY FS_EmptySet DEF BooksBalance
<1>3. Backlog /\ AllAccept /\ StopOrder /\ ReturnsClean
  BY DEF Backlog, AllAccept, StopOrder, ReturnsClean
<1> QED
  BY <1>1, <1>2, <1>3 DEF ServeInv

(* A connection taken into the books, or out of them.                      *)
LEMMA TasksCounted ==
  ASSUME ServeInv, NEW c \in Conn
  PROVE  /\ IsFiniteSet(conns) /\ Cardinality(conns) \in Nat
         /\ c \notin conns => Cardinality(conns \cup {c}) = Cardinality(conns) + 1
         /\ c \in conns => /\ Cardinality(conns \ {c}) = Cardinality(conns) - 1
                           /\ Cardinality(conns) >= 1
<1>1. IsFiniteSet(conns)
  BY ServeAssumption, FS_Subset DEF ServeInv, ServeTypeOK
<1>2. Cardinality(conns) \in Nat
  BY <1>1, FS_CardinalityType
<1>3. c \notin conns => Cardinality(conns \cup {c}) = Cardinality(conns) + 1
  BY <1>1, FS_AddElement
<1>4. c \in conns => Cardinality(conns \ {c}) = Cardinality(conns) - 1
  BY <1>1, FS_RemoveElement
<1>5. c \in conns => Cardinality(conns) # 0
  BY <1>1, FS_EmptySet
<1> QED
  BY <1>1, <1>2, <1>3, <1>4, <1>5

(* serve_conn enters the connection it accepts in the books: it was not    *)
(* there, and there was room.                                              *)
LEMMA AcceptOneStep ==
  ASSUME ServeInv, NEW l \in Listener, NEW c \in Conn, AcceptOne(l, c)
  PROVE  ServeInv'
<1> USE ServeAssumption DEF AcceptOne, Accepts, flags, stops, drains, guarded
<1>1. run = "on" /\ task[c] = "unused" /\ c \notin conns
  BY DEF ServeInv, ServeTypeOK, BooksBalance, Backlog, StopOrder
<1>2. Cardinality(conns') = Cardinality(conns) + 1
  BY <1>1, TasksCounted
<1>3. ServeTypeOK'
  BY DEF ServeInv, ServeTypeOK
<1>4. BooksBalance'
  BY <1>1, <1>2 DEF ServeInv, ServeTypeOK, BooksBalance
<1>5. Backlog'
  BY DEF ServeInv, ServeTypeOK, Backlog
<1>6. AllAccept' /\ StopOrder' /\ ReturnsClean'
  BY <1>1 DEF ServeInv, ServeTypeOK, AllAccept, StopOrder, ReturnsClean
<1> QED
  BY <1>3, <1>4, <1>5, <1>6 DEF ServeInv

(* A protocol that is done leaves the books, and every listener with an    *)
(* accept task unless the server stops.                                    *)
LEMMA ConnLeavesStep ==
  ASSUME ServeInv, NEW c \in Conn, NEW how \in {"ended", "reporting"}, ConnLeaves(c, how)
  PROVE  ServeInv'
<1> USE ServeAssumption DEF ConnLeaves, Idle, InProtocol, resume_accepting,
                            flags, stops, drains, guarded
<1>1. run = "on" /\ c \in conns
  BY DEF ServeInv, BooksBalance
<1>2. Cardinality(conns') = Cardinality(conns) - 1 /\ Cardinality(conns) >= 1
  BY <1>1, TasksCounted
<1>3. ServeTypeOK'
  BY <1>1, <1>2 DEF ServeInv, ServeTypeOK, BooksBalance
<1>4. BooksBalance'
  BY <1>1, <1>2 DEF ServeInv, ServeTypeOK, BooksBalance
<1>5. Backlog'
  BY DEF ServeInv, ServeTypeOK, Backlog
<1>6. AllAccept' /\ StopOrder' /\ ReturnsClean'
  BY <1>1 DEF ServeInv, ServeTypeOK, AllAccept, StopOrder, ReturnsClean
<1> QED
  BY <1>3, <1>4, <1>5, <1>6 DEF ServeInv

(* A task killed in the drain leaves the books.                            *)
LEMMA KillOneStep ==
  ASSUME ServeInv, NEW c \in Conn, KillOne(c)
  PROVE  ServeInv'
<1> USE ServeAssumption DEF flags, accepts, stops, drains, guarded
<1>1. CASE Killed(c) /\ thread' \in {thread, "none"}
           /\ UNCHANGED <<run, main, flags, accepts, stops, grace, graceCut, guarded>>
  <2>1. run = "on" /\ c \in conns /\ stopping
    BY <1>1 DEF Killed, ServeInv, StopOrder
  <2>2. Cardinality(conns') = Cardinality(conns) - 1 /\ Cardinality(conns) >= 1
    BY <1>1, <2>1, TasksCounted DEF Killed
  <2>3. ServeTypeOK'
    BY <1>1, <2>1, <2>2 DEF Killed, ServeInv, ServeTypeOK, BooksBalance
  <2>4. BooksBalance'
    BY <1>1, <2>1, <2>2 DEF Killed, ServeInv, ServeTypeOK, BooksBalance
  <2>5. Backlog'
    BY <1>1, <2>1 DEF Killed, ServeInv, ServeTypeOK, Backlog, BooksBalance
  <2>6. AllAccept' /\ StopOrder' /\ ReturnsClean'
    BY <1>1, <2>1 DEF Killed, ServeInv, ServeTypeOK, AllAccept, StopOrder, ReturnsClean
  <2> QED
    BY <2>3, <2>4, <2>5, <2>6 DEF ServeInv
<1>2. CASE RunRaises
  BY <1>2 DEF RunRaises, serving, ServeInv, ServeTypeOK, BooksBalance, Backlog,
              AllAccept, StopOrder, ReturnsClean
<1> QED
  BY <1>1, <1>2 DEF KillOne

(* Every step keeps the invariant.                                         *)
LEMMA ServeNextInv == ServeInv /\ [ServeNext]_serveVars => ServeInv'
<1> SUFFICES ASSUME ServeInv, [ServeNext]_serveVars PROVE ServeInv'
  OBVIOUS
<1> USE ServeAssumption DEF flags, serving, accepts, stops, drains, guarded
<1>1. CASE \E l \in Listener, c \in Conn : Arrive(l, c)
  BY <1>1 DEF Arrive, ServeInv, ServeTypeOK, BooksBalance, Backlog,
     AllAccept, StopOrder, ReturnsClean
<1>2. CASE Signal
  BY <1>2 DEF Signal, ServeInv, ServeTypeOK, BooksBalance, Backlog,
     AllAccept, StopOrder, ReturnsClean
<1>3. CASE \E l \in Listener : AcceptResumes(l)
  BY <1>3 DEF AcceptResumes, Idle, ServeInv, ServeTypeOK, BooksBalance,
     Backlog, AllAccept, StopOrder, ReturnsClean
<1>4. CASE \E l \in Listener : AcceptWaits(l)
  BY <1>4 DEF AcceptWaits, Accepts, ServeInv, ServeTypeOK, BooksBalance,
     Backlog, AllAccept, StopOrder, ReturnsClean
<1>5. CASE \E l \in Listener : AcceptFails(l)
  <2> PICK l \in Listener : AcceptFails(l)
    BY <1>5
  <2>1. CASE RunRaises
    BY <2>1 DEF RunRaises, ServeInv, ServeTypeOK, BooksBalance, Backlog, AllAccept,
                StopOrder, ReturnsClean
  <2>2. CASE ~RunRaises
    <3>1. /\ Accepts(l) /\ failing' = failing \cup {l}
          /\ acc' = [acc EXCEPT ![l] = "pause"] /\ thread' = "none"
          /\ UNCHANGED <<run, main, flags, serving, pending, listening, stops, drains, guarded>>
      BY <2>2 DEF AcceptFails
    <3> QED
      BY <3>1 DEF Accepts, ServeInv, ServeTypeOK, BooksBalance, Backlog, AllAccept,
                  StopOrder, ReturnsClean
  <2> QED
    BY <2>1, <2>2
<1>6. CASE \E l \in Listener : AcceptEnds(l)
  BY <1>6 DEF AcceptEnds, ServeInv, ServeTypeOK, BooksBalance, Backlog,
     AllAccept, StopOrder, ReturnsClean
<1>7. CASE \E c \in Conn : ConnStarts(c)
  BY <1>7 DEF ConnStarts, Idle, ServeInv, ServeTypeOK, BooksBalance,
     Backlog, AllAccept, StopOrder, ReturnsClean
<1>8. CASE \E c \in Conn : ConnReported(c)
  BY <1>8 DEF ConnReported, Idle, ServeInv, ServeTypeOK, BooksBalance,
     Backlog, AllAccept, StopOrder, ReturnsClean
<1>9. CASE stop
  BY <1>9 DEF stop, StopBegins, Idle, InProtocol, ServeInv, ServeTypeOK,
     BooksBalance, Backlog, AllAccept, StopOrder, ReturnsClean
<1>10. CASE \E l \in Listener : StopOne(l)
  BY <1>10 DEF StopOne, Closing, ServeInv, ServeTypeOK, BooksBalance,
     Backlog, AllAccept, StopOrder, ReturnsClean
<1>11. CASE \E l \in Listener : StopRaises(l)
  BY <1>11 DEF StopRaises, Closing, RunRaises, ServeInv, ServeTypeOK,
     BooksBalance, Backlog, AllAccept, StopOrder, ReturnsClean
<1>12. CASE StopReported
  BY <1>12 DEF StopReported, Idle, ServeInv, ServeTypeOK, BooksBalance,
     Backlog, AllAccept, StopOrder, ReturnsClean
<1>13. CASE StopEnds
  BY <1>13 DEF StopEnds, ServeInv, ServeTypeOK, BooksBalance, Backlog,
     AllAccept, StopOrder, ReturnsClean
<1>14. CASE WaiterEnds
  BY <1>14 DEF WaiterEnds, Idle, ServeInv, ServeTypeOK, BooksBalance,
     Backlog, AllAccept, StopOrder, ReturnsClean
<1>15. ASSUME NEW state \in {"on_stop", "waits", "ended"}, StopperGoes(state) PROVE ServeInv'
  BY <1>15 DEF StopperGoes, Idle, ServeInv, ServeTypeOK, BooksBalance,
     Backlog, AllAccept, StopOrder, ReturnsClean
<1>16. CASE StopperRuns \/ StopperWaits \/ StopperResumes \/ StopperEnds
  <2>1. CASE RunRaises /\ Idle
    <3>1. ServeTypeOK'
      BY <2>1 DEF RunRaises, ServeInv, ServeTypeOK
    <3>2. BooksBalance' /\ Backlog' /\ AllAccept'
      BY <2>1 DEF RunRaises, ServeInv, ServeTypeOK, BooksBalance, Backlog, AllAccept
    <3>3. StopOrder' /\ ReturnsClean'
      BY <2>1 DEF Idle, RunRaises, ServeInv, ServeTypeOK, StopOrder, ReturnsClean
    <3> QED
      BY <3>1, <3>2, <3>3 DEF ServeInv
  <2> QED
    BY <1>15, <1>16, <2>1 DEF StopperRuns, StopperWaits, StopperResumes, StopperEnds
<1>17. CASE WatcherStops
  BY <1>17 DEF WatcherStops, Takes, StopBegins, Idle, ServeInv,
     ServeTypeOK, BooksBalance, Backlog, AllAccept, StopOrder,
     ReturnsClean
<1>18. CASE WatcherHurries
  BY <1>18 DEF WatcherHurries, Takes, Idle, ServeInv, ServeTypeOK,
     BooksBalance, Backlog, AllAccept, StopOrder, ReturnsClean
<1>19. CASE MainReady
  BY <1>19 DEF MainReady, Idle, ServeInv, ServeTypeOK, BooksBalance,
     Backlog, AllAccept, StopOrder, ReturnsClean
<1>20. CASE MainStopped
  BY <1>20 DEF MainStopped, Idle, ServeInv, ServeTypeOK, BooksBalance,
     Backlog, AllAccept, StopOrder, ReturnsClean
<1>21. CASE MainDrains
  BY <1>21 DEF MainDrains, Lists, Idle, ServeInv, ServeTypeOK,
     BooksBalance, Backlog, AllAccept, StopOrder, ReturnsClean
<1>22. CASE GracePicks
  BY <1>22 DEF GracePicks, Idle, ServeInv, ServeTypeOK, BooksBalance,
     Backlog, AllAccept, StopOrder, ReturnsClean
<1>23. CASE GraceEnds
  BY <1>23 DEF GraceEnds, Idle, ServeInv, ServeTypeOK, BooksBalance,
     Backlog, AllAccept, StopOrder, ReturnsClean
<1>24. CASE MainGraced
  BY <1>24 DEF MainGraced, Lists, Idle, ServeInv, ServeTypeOK,
     BooksBalance, Backlog, AllAccept, StopOrder, ReturnsClean
<1>25. CASE KillReported
  BY <1>25 DEF KillReported, Idle, ServeInv, ServeTypeOK, BooksBalance,
     Backlog, AllAccept, StopOrder, ReturnsClean
<1>26. CASE \E c \in Conn : KillAsserts(c)
  BY <1>26 DEF KillAsserts, RunRaises, ServeInv, ServeTypeOK,
     BooksBalance, Backlog, AllAccept, StopOrder, ReturnsClean
<1>27. CASE MainEnds
  BY <1>27 DEF MainEnds, ServeInv, ServeTypeOK, BooksBalance, Backlog,
     AllAccept, StopOrder, ReturnsClean
<1>28. CASE RunReturns
  <2>1. ReturnsClean'
    <3>1. listening = {} /\ stopping
      BY <1>28 DEF RunReturns, Idle, ServeInv, ServeTypeOK, StopOrder
    <3>2. conns = {} /\ open = 0
      BY <1>28, FS_EmptySet DEF RunReturns, Idle, ServeInv, ServeTypeOK, BooksBalance
    <3> QED
      BY <1>28, <3>1, <3>2 DEF RunReturns, ReturnsClean
  <2> QED
    BY <1>28, <2>1 DEF RunReturns, Idle, ServeInv, ServeTypeOK, BooksBalance, Backlog,
                AllAccept, StopOrder
<1>29. CASE \E l \in Listener, c \in Conn : AcceptOne(l, c)
  BY <1>29, AcceptOneStep
<1>30. CASE \E c \in Conn : ConnReturns(c) \/ ConnRaises(c)
  <2> PICK c \in Conn : ConnReturns(c) \/ ConnRaises(c)
    BY <1>30
  <2>1. CASE ConnLeaves(c, "ended") \/ ConnLeaves(c, "reporting")
    BY <2>1, ConnLeavesStep
  <2>2. CASE RunRaises
    BY <2>2 DEF RunRaises, ServeInv, ServeTypeOK, BooksBalance, Backlog, AllAccept,
                StopOrder, ReturnsClean
  <2> QED
    BY <2>1, <2>2 DEF ConnReturns, ConnRaises
<1>31. CASE \E c \in Conn : KillOne(c)
  BY <1>31, KillOneStep
<1>32. CASE UNCHANGED serveVars
  BY <1>32 DEF serveVars, ServeInv, ServeTypeOK, BooksBalance, Backlog, AllAccept,
             StopOrder, ReturnsClean
<1> QED
  BY <1>1, <1>2, <1>3, <1>4, <1>5, <1>6, <1>7, <1>8, <1>9, <1>10, <1>11,
     <1>12, <1>13, <1>14, <1>15, <1>16, <1>17, <1>18, <1>19, <1>20, <1>21,
     <1>22, <1>23, <1>24, <1>25, <1>26, <1>27, <1>28, <1>29, <1>30, <1>31,
     <1>32 DEF ServeNext, Accepting, Stopping, MainResumes, Draining, Served

-----------------------------------------------------------------------------
(* The inductive invariant holds of every server.                          *)
THEOREM ServeInvariance == ServeSpec => []ServeInv
  BY ServeInitInv, ServeNextInv, PTL DEF ServeSpec

(* The server's books are right in every state: the count and the list of  *)
(* connections agree, no listener is forgotten, and Net.serve returns with *)
(* nothing left open.                                                      *)
THEOREM BooksKept == ServeSpec => []ServerBooks
<1>1. ServeInv => ServerBooks
  BY DEF ServeInv, ServerBooks, AllAccept, NoListenerForgotten, Idle
<1> QED
  BY <1>1, ServeInvariance, PTL

(* Only an accept on a listener still open, of a server that does not      *)
(* stop, opens a connection; and every step leaves the books right.        *)
THEOREM StopIsFinal == ServeSpec => ServerKeeps
<1>1. ServeInv /\ [ServeNext]_serveVars /\ open' > open =>
        ~stopping /\ \E l \in listening : thread = l
  <2> SUFFICES ASSUME ServeInv, [ServeNext]_serveVars, open' > open
               PROVE  ~stopping /\ \E l \in listening : thread = l
    OBVIOUS
  <2>1. \E l \in Listener, c \in Conn : AcceptOne(l, c)
    BY DEF ServeNext, Arrive, Signal, Accepting, AcceptResumes, AcceptWaits, AcceptEnds,
           AcceptFails, RunRaises, ConnStarts, ConnReturns, ConnRaises, ConnLeaves,
           ConnReported, stop, Stopping, StopOne, StopRaises, StopReported, StopEnds,
           WaiterEnds, StopperRuns, StopperWaits, StopperResumes, StopperEnds, StopperGoes,
           WatcherStops, WatcherHurries, Draining,
           MainResumes, MainReady, MainStopped, MainDrains, MainGraced, KillReported,
           RunReturns, GracePicks, GraceEnds, KillOne, Killed, KillAsserts, MainEnds,
           Served, serveVars, serving, ServeInv, ServeTypeOK
  <2> QED
    BY <2>1, ServeAssumption DEF AcceptOne, Accepts, ServeInv, Backlog, StopOrder
<1>2. ServeInv /\ [ServeNext]_serveVars => [ServerBooks' /\ NoneAcceptedLate]_serveVars
  <2> SUFFICES ASSUME ServeInv, [ServeNext]_serveVars
               PROVE  ServerBooks' /\ NoneAcceptedLate
    OBVIOUS
  <2>1. ServeInv'
    BY ServeNextInv
  <2>2. ServerBooks'
    BY <2>1 DEF ServeInv, ServerBooks, AllAccept, NoListenerForgotten, Idle
  <2> QED
    BY <2>2, <1>1 DEF NoneAcceptedLate
<1> QED
  BY <1>2, ServeInvariance, PTL DEF ServeSpec, ServerKeeps
-----------------------------------------------------------------------------
(* A lookup through a connector: Lookup.                                   *)

Statuses == {"", "refused", "found", "notfound", "timeout"}
Outcomes == [done : BOOLEAN, status : Statuses, late : BOOLEAN]
Parking == [id : Nat, fd : Int, server : ServerNames \cup {""}, asked : BOOLEAN]
Reached == [fdTable : [Numbers -> {"free", "other", "standin"} \cup ServerNames],
            sock : [fd : Int, server : ServerNames \cup {""}], untried : 0 .. Len(Servers),
            parked : [1 .. Slots -> Parking], lastId : Nat,
            watched : SUBSET Numbers, outcome : Outcomes, starved : BOOLEAN]

(* The socket c-ares holds is open as itself, and nothing else is.         *)
SockIs(r) ==
  /\ r.sock # NoSock => /\ r.sock.fd \in Numbers /\ r.sock.server \in ServerNames
                        /\ r.fdTable[r.sock.fd] \in {"standin", r.sock.server}
  /\ \A f \in Numbers : r.fdTable[f] \notin {"free", "other"} => f = r.sock.fd

(* A parked connect is of that socket, and has a number of its own.        *)
ParkedIs(r) ==
  \A k \in 1 .. Slots : r.parked[k].id # 0 =>
     /\ r.sock # NoSock /\ r.parked[k].fd = r.sock.fd /\ r.parked[k].server = r.sock.server
     /\ r.parked[k].id <= r.lastId
     /\ \A j \in 1 .. Slots : r.parked[j].id = r.parked[k].id => j = k

(* Time that ran out shows in the outcome.                                 *)
Told(r) == r.starved => r.outcome.late \/ (r.outcome.done /\ r.outcome.status # "refused")

OthersIn(r) == {f \in Numbers : r.fdTable[f] = "other"}

Placed(r) == r \in Reached /\ SockIs(r) /\ ParkedIs(r)

(* What the caller was told of is as it was parked.                        *)
WantsTrue ==
  \A w \in wants :
     /\ w \in Parking /\ w.id # 0 /\ w.id <= lastId
     /\ \A k \in 1 .. Slots : parked[k].id = w.id => parked[k].server = w.server
     /\ asker = "wants" => \E k \in 1 .. Slots : parked[k].id = w.id
     /\ \A v \in wants : v.id = w.id => v = w

Ended ==
  /\ asker \in {"ended", "released"} \/ Told(State)
  /\ (asker = "ended" /\ reply = "refused") => ~starved

LookupInv ==
  /\ Placed(State)
  /\ WantsTrue /\ Ended
  /\ Cardinality(OthersIn(State)) = others
  /\ passed \in BOOLEAN /\ found \subseteq Numbers /\ others \in Nat
  /\ asker \in {"step", "wants", "wait", "result", "ended", "released"}
  /\ (asker = "result" => outcome.done)

(* What a callback keeps: the descriptors of other tasks above all.        *)
CameFrom(q, r) ==
  Placed(q) /\ OthersIn(q) = OthersIn(r)

LEMMA NamesApart ==
  /\ NoSock \in [fd : Int, server : ServerNames \cup {""}] /\ NoSock.fd = -1 /\ -1 \notin Numbers
  /\ Empty \in Parking /\ Empty.id = 0
  /\ \A s \in ServerNames : s \notin {"free", "other", "standin", "failed", "timeout"}
  /\ \A i \in 1 .. Len(Servers) : Servers[i] \in ServerNames
  /\ Len(Servers) \in Nat /\ Slots \in Nat
<1>1. NoSock \in [fd : Int, server : ServerNames \cup {""}] /\ NoSock.fd = -1
  BY DEF NoSock
<1>2. -1 \notin Numbers
  BY LookupAssumption
<1>3. Empty \in Parking /\ Empty.id = 0
  BY DEF Empty, Parking
<1>4. Len(Servers) \in Nat
  BY LookupAssumption, LenProperties
<1>5. \A i \in 1 .. Len(Servers) : Servers[i] \in ServerNames
  BY LookupAssumption, ElementOfSeq
<1>6. Slots \in Nat
  BY LookupAssumption
<1> QED BY <1>1, <1>2, <1>3, <1>4, <1>5, <1>6, LookupAssumption

LEMMA SlotsCount == Slots \in Nat
BY LookupAssumption

LEMMA NoSockFd == NoSock.fd = -1
BY DEF NoSock

LEMMA NumbersInt == \A f \in Numbers : f \in Int /\ f # -1
BY LookupAssumption

LEMMA WatchKeeps ==
  ASSUME NEW r \in Reached, NEW f \in Numbers, NEW ev \in BOOLEAN
  PROVE  /\ socket_state(r, f, ev) \in Reached
         /\ socket_state(r, f, ev).sock = r.sock /\ socket_state(r, f, ev).parked = r.parked
         /\ socket_state(r, f, ev).outcome = r.outcome /\ socket_state(r, f, ev).starved = r.starved
         /\ socket_state(r, f, ev).fdTable = r.fdTable /\ socket_state(r, f, ev).untried = r.untried
         /\ socket_state(r, f, ev).lastId = r.lastId
BY DEF socket_state, Reached

(* through_close frees the socket's number and no other, and nothing stays *)
(* parked.                                                                 *)
LEMMA Closed ==
  ASSUME NEW r, Placed(r), r.sock # NoSock
  PROVE  /\ CameFrom(through_close(r), r)
         /\ through_close(r).sock = NoSock
         /\ through_close(r).outcome = r.outcome /\ through_close(r).starved = r.starved
         /\ through_close(r).lastId = r.lastId
         /\ \A k \in 1 .. Slots : through_close(r).parked[k].id = 0
<1> DEFINE u == socket_state(r, r.sock.fd, FALSE)
<1>0. r.sock.fd \in Numbers
  BY DEF Placed, SockIs
<1>1. /\ u \in Reached /\ u.sock = r.sock /\ u.parked = r.parked /\ u.outcome = r.outcome
      /\ u.starved = r.starved /\ u.fdTable = r.fdTable /\ u.untried = r.untried /\ u.lastId = r.lastId
  BY <1>0, WatchKeeps DEF Placed
<1> HIDE DEF u
<1> DEFINE q == [u EXCEPT !.fdTable[r.sock.fd] = "free", !.sock = NoSock,
              !.parked = [k \in 1 .. Slots |-> IF k \in parked_for_fd(r, r.sock.fd) THEN Empty ELSE @[k]]]
<1>2. through_close(r) = q
  BY DEF through_close, u
<1>3. \A k \in 1 .. Slots : k \notin parked_for_fd(r, r.sock.fd) => r.parked[k].id = 0
  BY DEF Placed, ParkedIs, parked_for_fd
<1>4. /\ q \in Reached
      /\ q.fdTable = [r.fdTable EXCEPT ![r.sock.fd] = "free"]
      /\ q.sock = NoSock /\ q.outcome = r.outcome /\ q.starved = r.starved /\ q.lastId = r.lastId
      /\ \A k \in 1 .. Slots : q.parked[k] \in {Empty, r.parked[k]}
      /\ \A k \in 1 .. Slots : k \in parked_for_fd(r, r.sock.fd) => q.parked[k] = Empty
  BY <1>1, NamesApart DEF Placed, Reached
<1> HIDE DEF q
<1>5. \A k \in 1 .. Slots : q.parked[k].id = 0
  BY <1>3, <1>4, NamesApart
<1>6. r.fdTable \in [Numbers -> {"free", "other", "standin"} \cup ServerNames] /\ r.fdTable[r.sock.fd] # "other"
  BY <1>0, NamesApart DEF Placed, SockIs, Reached
<1>7. SockIs(q)
  BY <1>4, <1>6, <1>0 DEF SockIs, Placed
<1>8. ParkedIs(q)
  BY <1>5 DEF ParkedIs
<1>9. OthersIn(q) = OthersIn(r)
  BY <1>4, <1>6, <1>0 DEF OthersIn
<1> QED BY <1>2, <1>4, <1>5, <1>7, <1>8, <1>9 DEF CameFrom, Placed

LEMMA ResolvedKeeps ==
  ASSUME NEW r, Placed(r), NEW s \in Statuses
  PROVE  /\ CameFrom(resolved(r, s), r)
         /\ resolved(r, s).sock = r.sock /\ resolved(r, s).parked = r.parked
         /\ resolved(r, s).starved = r.starved /\ resolved(r, s).lastId = r.lastId
         /\ resolved(r, s).outcome.late = r.outcome.late
         /\ resolved(r, s).outcome.done
         /\ ~r.outcome.done => resolved(r, s).outcome.status = s
         /\ r.outcome.done => resolved(r, s) = r
<1> DEFINE q == resolved(r, s)
<1>1. /\ q \in Reached /\ q.sock = r.sock /\ q.parked = r.parked /\ q.starved = r.starved
      /\ q.fdTable = r.fdTable /\ q.untried = r.untried /\ q.lastId = r.lastId
      /\ q.outcome.late = r.outcome.late /\ q.outcome.done
      /\ ~r.outcome.done => q.outcome.status = s
      /\ r.outcome.done => q = r
  BY DEF resolved, Placed, Reached, Outcomes
<1> HIDE DEF q
<1>2. CameFrom(q, r)
  BY <1>1 DEF CameFrom, Placed, SockIs, ParkedIs, OthersIn
<1> QED BY <1>1, <1>2 DEF q

LEMMA FirstSlot ==
  ASSUME NEW S, S \subseteq 1 .. Slots, S # {}
  PROVE  (CHOOSE k \in S : \A j \in S : k <= j) \in 1 .. Slots
<1>1. S \subseteq Nat
  BY SlotsCount
<1>2. \E k \in S : \A j \in S : k <= j
  BY <1>1, LeastOf
<1>3. (CHOOSE k \in S : \A j \in S : k <= j) \in S
  BY <1>2
<1> QED BY <1>3

ParkedOn(r, slot, f, s) ==
  [r EXCEPT !.lastId = @ + 1, !.parked[slot] = [id |-> r.lastId + 1, fd |-> f, server |-> s, asked |-> FALSE]]

LEMMA ParksIt ==
  ASSUME NEW r \in Reached, NEW slot \in 1 .. Slots, NEW f \in Numbers, NEW s \in ServerNames
  PROVE  LET on == ParkedOn(r, slot, f, s)
         IN  /\ on \in Reached
             /\ on.fdTable = r.fdTable /\ on.sock = r.sock /\ on.untried = r.untried
             /\ on.outcome = r.outcome /\ on.starved = r.starved /\ on.watched = r.watched
             /\ on.parked[slot].id # 0 /\ on.parked[slot].id <= on.lastId
             /\ on.parked[slot].fd = f /\ on.parked[slot].server = s
             /\ \A j \in 1 .. Slots : j # slot => on.parked[j] = r.parked[j]
<1> DEFINE p == [id |-> r.lastId + 1, fd |-> f, server |-> s, asked |-> FALSE]
           on == ParkedOn(r, slot, f, s)
<1>0. r.lastId \in Nat
  BY DEF Reached
<1>10. \A i \in Nat : i + 1 \in Nat /\ i + 1 # 0
  OBVIOUS
<1>11. f \in Int
  BY NumbersInt
<1>12. s \in ServerNames \cup {""}
  OBVIOUS
<1>1. r.lastId + 1 \in Nat /\ r.lastId + 1 # 0 /\ f \in Int /\ s \in ServerNames \cup {""}
  BY <1>0, <1>10, <1>11, <1>12
<1>2. p \in Parking /\ p.id # 0 /\ p.id = r.lastId + 1 /\ p.fd = f /\ p.server = s
  BY <1>1 DEF Parking
<1>3. on = [r EXCEPT !.lastId = @ + 1, !.parked[slot] = p]
  BY DEF ParkedOn
<1> HIDE DEF p
<1>4. r.parked \in [1 .. Slots -> Parking]
  BY DEF Reached
<1>8. [r.parked EXCEPT ![slot] = p] \in [1 .. Slots -> Parking]
  BY <1>4, <1>2
<1>5. /\ on \in Reached
      /\ on.fdTable = r.fdTable /\ on.sock = r.sock /\ on.untried = r.untried
      /\ on.parked = [r.parked EXCEPT ![slot] = p]
      /\ on.outcome = r.outcome /\ on.starved = r.starved /\ on.lastId = r.lastId + 1 /\ on.watched = r.watched
  BY <1>1, <1>3, <1>8 DEF Reached
<1> HIDE DEF on
<1>6. on.parked[slot] = p /\ \A j \in 1 .. Slots : j # slot => on.parked[j] = r.parked[j]
  BY <1>5 DEF Reached
<1>7. on.parked[slot].id # 0 /\ on.parked[slot].id <= on.lastId /\ on.parked[slot].fd = f /\ on.parked[slot].server = s
  <2>1. \A i \in Nat : i <= i
    OBVIOUS
  <2> QED BY <2>1, <1>1, <1>2, <1>5, <1>6
<1> QED BY <1>5, <1>6, <1>7 DEF on

(* Parks the connect of a new socket f, or says why it does not.           *)
LEMMA Connected ==
  ASSUME NEW r, Placed(r), passed \in BOOLEAN, NEW f \in Numbers, NEW s \in ServerNames,
         \A k \in 1 .. Slots : r.parked[k].id = 0, Told(r)
  PROVE  LET c == through_connect(r, f, s)
         IN  /\ c.late.fdTable = r.fdTable /\ c.late.sock = r.sock /\ c.late.untried = r.untried
             /\ c.late.outcome \in Outcomes /\ c.late.starved \in BOOLEAN /\ c.late.lastId \in Nat
             /\ c.late.watched = r.watched /\ c.late.parked \in [1 .. Slots -> Parking]
             /\ c.late \in Reached
             /\ c.late.outcome.done = r.outcome.done /\ c.late.outcome.status = r.outcome.status
             /\ c.ok \in BOOLEAN
             /\ ~c.ok => c.late.parked = r.parked
             /\ c.ok => \E k \in 1 .. Slots :
                  /\ c.late.parked[k].id # 0 /\ c.late.parked[k].id <= c.late.lastId
                  /\ c.late.parked[k].fd = f /\ c.late.parked[k].server = s
                  /\ \A j \in 1 .. Slots : j # k => c.late.parked[j].id = 0
             /\ Told(c.late)
<1> DEFINE free == {k \in 1 .. Slots : r.parked[k].id = 0}
           slot == CHOOSE k \in free : \A j \in free : k <= j
           late == [r EXCEPT !.outcome.late = @ \/ passed, !.starved = @ \/ passed]
           p == [id |-> r.lastId + 1, fd |-> f, server |-> s, asked |-> FALSE]
           on == [r EXCEPT !.lastId = @ + 1, !.parked[slot] = p]
<1>1. through_connect(r, f, s) = IF passed \/ free = {} THEN [late |-> late, ok |-> FALSE] ELSE [late |-> on, ok |-> TRUE]
  BY DEF through_connect
<1>2. CASE passed \/ free = {}
  <2>1. PICK b \in BOOLEAN : b = (r.outcome.late \/ passed)
    BY DEF Placed, Reached, Outcomes
  <2>2. PICK d \in BOOLEAN : d = (r.starved \/ passed)
    BY DEF Placed, Reached
  <2> DEFINE o == [r.outcome EXCEPT !.late = b]
  <2>0. o \in Outcomes /\ o.done = r.outcome.done /\ o.status = r.outcome.status /\ o.late = b
    BY DEF Placed, Reached, Outcomes
  <2>3. late = [r EXCEPT !.outcome = o, !.starved = d]
    BY <2>1, <2>2 DEF Placed, Reached, Outcomes
  <2> HIDE DEF o
  <2>4. /\ late \in Reached
        /\ late.fdTable = r.fdTable /\ late.sock = r.sock /\ late.untried = r.untried /\ late.parked = r.parked
        /\ late.outcome \in Outcomes /\ late.starved = d /\ late.lastId = r.lastId /\ late.watched = r.watched
        /\ late.outcome.done = r.outcome.done /\ late.outcome.status = r.outcome.status
        /\ late.outcome.late = b
    BY <2>3, <2>0 DEF Placed, Reached
  <2> HIDE DEF late
  <2>5. Told(late)
    BY <2>1, <2>2, <2>4 DEF Told
  <2>6. through_connect(r, f, s) = [late |-> late, ok |-> FALSE]
    BY <1>1, <1>2
  <2>7. late.starved \in BOOLEAN /\ late.lastId \in Nat /\ late.parked \in [1 .. Slots -> Parking]
    BY <2>4 DEF Reached
  <2>8. through_connect(r, f, s).late = late /\ through_connect(r, f, s).ok = FALSE
    BY <2>6
  <2> QED BY <2>4, <2>5, <2>7, <2>8
<1>3. CASE ~(passed \/ free = {})
  <2>1. slot \in 1 .. Slots
    BY <1>3, FirstSlot
  <2>2. on = ParkedOn(r, slot, f, s)
    BY DEF ParkedOn
  <2> HIDE DEF slot
  <2>3. through_connect(r, f, s) = [late |-> on, ok |-> TRUE]
    BY <1>1, <1>3
  <2> HIDE DEF on
  <2>4. through_connect(r, f, s).late = on /\ through_connect(r, f, s).ok = TRUE
    BY <2>3
  <2>5. r \in Reached
    BY DEF Placed
  <2>6. /\ on \in Reached
        /\ on.fdTable = r.fdTable /\ on.sock = r.sock /\ on.untried = r.untried
        /\ on.outcome = r.outcome /\ on.starved = r.starved /\ on.watched = r.watched
        /\ on.parked[slot].id # 0 /\ on.parked[slot].id <= on.lastId
        /\ on.parked[slot].fd = f /\ on.parked[slot].server = s
        /\ \A j \in 1 .. Slots : j # slot => on.parked[j] = r.parked[j]
    BY <2>1, <2>2, <2>5, ParksIt
  <2>7. Told(on)
    BY <2>6 DEF Told
  <2>8. on.outcome \in Outcomes /\ on.starved \in BOOLEAN /\ on.lastId \in Nat /\ on.parked \in [1 .. Slots -> Parking]
    BY <2>6 DEF Reached
  <2>9. \A j \in 1 .. Slots : j # slot => on.parked[j].id = 0
    BY <2>6
  <2> DEFINE c == through_connect(r, f, s)
  <2>10. c.late = on /\ c.ok
    BY <2>4
  <2> HIDE DEF c
  <2>11. \E k \in 1 .. Slots :
                  /\ c.late.parked[k].id # 0 /\ c.late.parked[k].id <= c.late.lastId
                  /\ c.late.parked[k].fd = f /\ c.late.parked[k].server = s
                  /\ \A j \in 1 .. Slots : j # k => c.late.parked[j].id = 0
    BY <2>1, <2>6, <2>9, <2>10
  <2>12. c.ok \in BOOLEAN /\ Told(c.late)
    BY <2>4, <2>7 DEF c
  <2> QED BY <2>6, <2>8, <2>10, <2>11, <2>12 DEF c
<1> QED BY <1>2, <1>3

LEMMA LowestFree ==
  ASSUME NEW t, \E f \in Numbers : t[f] = "free"
  PROVE  Lowest(t) \in Numbers /\ t[Lowest(t)] = "free"
<1> DEFINE S == {f \in Numbers : t[f] = "free"}
<1>1. S \subseteq Nat /\ S # {}
  BY LookupAssumption
<1>2. \E k \in S : \A j \in S : k <= j
  <2> HIDE DEF S
  <2> QED BY <1>1, LeastOf
<1>3. \E f \in Numbers : t[f] = "free" /\ \A g \in Numbers : t[g] = "free" => f <= g
  BY <1>2
<1> QED BY <1>3 DEF Lowest

(* The next server to ask is one of the lookup's.                          *)
LEMMA NextServer ==
  ASSUME NEW n \in 0 .. Len(Servers), n # 0
  PROVE  Servers[Len(Servers) - n + 1] \in ServerNames /\ n - 1 \in 0 .. Len(Servers)
<1>1. Len(Servers) \in Nat
  BY LookupAssumption, LenProperties
<1>2. Len(Servers) - n + 1 \in 1 .. Len(Servers) /\ n - 1 \in 0 .. Len(Servers) /\ 0 \in 0 .. Len(Servers)
  BY <1>1
<1> QED BY <1>2, LookupAssumption, ElementOfSeq

StandIn(u, f, s) ==
  [u EXCEPT !.untried = @ - 1, !.fdTable[f] = "standin", !.sock = [fd |-> f, server |-> s]]

(* A stand-in takes a free number, its connect parked.                     *)
LEMMA StandsIn ==
  ASSUME NEW r, Placed(r), r.sock = NoSock, NEW f \in Numbers, r.fdTable[f] = "free",
         NEW s \in ServerNames, NEW u \in Reached,
         u.fdTable = r.fdTable, u.untried \in 0 .. Len(Servers), u.untried # 0,
         NEW k \in 1 .. Slots,
         u.parked[k].id # 0, u.parked[k].id <= u.lastId,
         u.parked[k].fd = f, u.parked[k].server = s,
         \A j \in 1 .. Slots : j # k => u.parked[j].id = 0
  PROVE  /\ CameFrom(StandIn(u, f, s), r)
         /\ StandIn(u, f, s).outcome = u.outcome /\ StandIn(u, f, s).starved = u.starved
<1> DEFINE p == [fd |-> f, server |-> s]
           q == [u EXCEPT !.untried = @ - 1, !.fdTable[f] = "standin", !.sock = p]
<1>1. f \in Int
  BY NumbersInt
<1>2. p \in [fd : Int, server : ServerNames \cup {""}] /\ p.fd = f /\ p.server = s
  BY <1>1
<1>3. p # NoSock
  BY <1>2, NumbersInt DEF NoSock
<1> HIDE DEF p
<1>4. u.untried - 1 \in 0 .. Len(Servers)
  BY NextServer
<1>5. /\ q \in Reached
      /\ q.fdTable = [r.fdTable EXCEPT ![f] = "standin"] /\ q.sock = p
      /\ q.parked = u.parked /\ q.lastId = u.lastId /\ q.outcome = u.outcome /\ q.starved = u.starved
  BY <1>2, <1>4 DEF Reached
<1> HIDE DEF q
<1>9. r.fdTable \in [Numbers -> {"free", "other", "standin"} \cup ServerNames]
  BY DEF Placed, Reached
<1>6. SockIs(q)
  <2>1. q.sock.fd \in Numbers /\ q.sock.server \in ServerNames /\ q.fdTable[q.sock.fd] = "standin"
    BY <1>2, <1>5, <1>9
  <2>2. \A g \in Numbers : q.fdTable[g] \notin {"free", "other"} => g = f
    <3>1. \A g \in Numbers : r.fdTable[g] \in {"free", "other"}
      <4>1. r.sock.fd = -1
        BY NoSockFd
      <4> QED BY <4>1, NumbersInt DEF Placed, SockIs
    <3> QED BY <3>1, <1>5, <1>9
  <2> QED BY <2>1, <2>2, <1>5, <1>2 DEF SockIs
<1>7. ParkedIs(q)
  BY <1>2, <1>3, <1>5 DEF ParkedIs
<1>8. OthersIn(q) = OthersIn(r)
  BY <1>5 DEF OthersIn, Placed, Reached
<1>10. q = StandIn(u, f, s)
  BY DEF StandIn, q, p
<1> QED BY <1>5, <1>6, <1>7, <1>8, <1>10 DEF CameFrom, Placed

(* c-ares asks for its next server, or says it was refused.                *)
LEMMA AsksNext ==
  ASSUME NEW r, Placed(r), r.sock = NoSock, passed \in BOOLEAN, Told(r), ~r.outcome.done
  PROVE  CameFrom(through_socket(r), r) /\ Told(through_socket(r))
<1> DEFINE room == \E f \in Numbers : r.fdTable[f] = "free"
           f == Lowest(r.fdTable)
           s == Servers[Len(Servers) - r.untried + 1]
           c == through_connect(r, f, s)
           tried == IF room THEN c.late ELSE r
           q == [socket_state(tried, f, TRUE) EXCEPT !.untried = @ - 1, !.fdTable[f] = "standin",
                  !.sock = [fd |-> f, server |-> s]]
           z == [tried EXCEPT !.untried = 0]
<1>1. through_socket(r) = IF r.untried = 0 THEN resolved(r, "refused")
                          ELSE IF room /\ c.ok THEN q ELSE resolved(z, "refused")
  BY DEF through_socket
<1>2. r.untried \in 0 .. Len(Servers) /\ r \in Reached
  BY DEF Placed, Reached
<1>3. "refused" \in Statuses
  BY DEF Statuses
<1>4. \A k \in 1 .. Slots : r.parked[k].id = 0
  BY DEF Placed, ParkedIs
<1>5. ASSUME NEW p, Placed(p), Told(p), ~p.outcome.done
      PROVE  Told(resolved(p, "refused"))
  <2> DEFINE w == resolved(p, "refused")
  <2>1. w.starved = p.starved /\ w.outcome.late = p.outcome.late
    BY <1>3, <1>5, ResolvedKeeps
  <2> HIDE DEF w
  <2> QED BY <1>5, <2>1 DEF Told, w
<1>6. CASE r.untried = 0
  <2>1. through_socket(r) = resolved(r, "refused")
    BY <1>1, <1>6
  <2> QED BY <2>1, <1>3, <1>5, ResolvedKeeps
<1>7. ASSUME r.untried # 0, room
      PROVE  /\ f \in Numbers /\ r.fdTable[f] = "free" /\ s \in ServerNames
             /\ c.late.fdTable = r.fdTable /\ c.late.sock = r.sock /\ c.late.untried = r.untried
             /\ c.late \in Reached
             /\ c.late.outcome.done = r.outcome.done /\ c.late.outcome.status = r.outcome.status
             /\ c.ok \in BOOLEAN
             /\ ~c.ok => c.late.parked = r.parked
             /\ c.ok => \E k \in 1 .. Slots :
                  /\ c.late.parked[k].id # 0 /\ c.late.parked[k].id <= c.late.lastId
                  /\ c.late.parked[k].fd = f /\ c.late.parked[k].server = s
                  /\ \A j \in 1 .. Slots : j # k => c.late.parked[j].id = 0
             /\ Told(c.late)
  <2>1. f \in Numbers /\ r.fdTable[f] = "free" /\ s \in ServerNames
    BY <1>2, <1>7, LowestFree, NextServer
  <2> HIDE DEF f, s
  <2> QED BY <2>1, <1>4, Connected
<1>8. CASE r.untried # 0 /\ room /\ c.ok
  <2>1. through_socket(r) = q
    BY <1>1, <1>8
  <2>2. tried = c.late
    BY <1>8
  <2> DEFINE u == socket_state(tried, f, TRUE)
  <2> HIDE DEF c, f, s
  <2>3. /\ u \in Reached /\ u.parked = c.late.parked /\ u.outcome = c.late.outcome /\ u.starved = c.late.starved
        /\ u.fdTable = r.fdTable /\ u.untried = r.untried /\ u.lastId = c.late.lastId
    <3>1. PICK y : y = tried /\ y \in Reached /\ f \in Numbers
      BY <1>7, <1>8, <2>2
    <3>2. PICK ev \in BOOLEAN : ev = TRUE
      OBVIOUS
    <3>3. u = socket_state(y, f, ev)
      BY <3>1, <3>2
    <3> HIDE DEF u
    <3>4. /\ u \in Reached /\ u.parked = y.parked /\ u.outcome = y.outcome /\ u.starved = y.starved
          /\ u.fdTable = y.fdTable /\ u.untried = y.untried /\ u.lastId = y.lastId
      BY <3>1, <3>3, WatchKeeps
    <3> QED BY <3>1, <3>4, <1>7, <1>8, <2>2
  <2>4. q = StandIn(u, f, s)
    BY DEF StandIn
  <2> HIDE DEF u, q
  <2>5. PICK k \in 1 .. Slots :
          /\ u.parked[k].id # 0 /\ u.parked[k].id <= u.lastId
          /\ u.parked[k].fd = f /\ u.parked[k].server = s
          /\ \A j \in 1 .. Slots : j # k => u.parked[j].id = 0
    BY <1>7, <1>8, <2>3
  <2>6. CameFrom(q, r) /\ q.outcome = u.outcome /\ q.starved = u.starved
    <3>1. f \in Numbers /\ r.fdTable[f] = "free" /\ s \in ServerNames
      BY <1>7, <1>8
    <3>2. CameFrom(StandIn(u, f, s), r) /\ StandIn(u, f, s).outcome = u.outcome /\ StandIn(u, f, s).starved = u.starved
      BY <1>2, <1>8, <2>3, <2>5, <3>1, StandsIn
    <3> QED BY <3>2, <2>4
  <2>7. Told(q)
    BY <2>6, <2>3, <1>7, <1>8 DEF Told
  <2> QED BY <2>1, <2>6, <2>7
<1>9. CASE r.untried # 0 /\ ~(room /\ c.ok)
  <2>1. through_socket(r) = resolved(z, "refused")
    BY <1>1, <1>9
  <2>2. /\ tried \in Reached /\ tried.fdTable = r.fdTable /\ tried.sock = r.sock /\ tried.parked = r.parked
        /\ tried.outcome.done = r.outcome.done /\ Told(tried)
    <3>1. CASE room
      BY <3>1, <1>7, <1>9
    <3>2. CASE ~room
      BY <3>2, <1>2
    <3> QED BY <3>1, <3>2
  <2> HIDE DEF tried
  <2>3. 0 \in 0 .. Len(Servers)
    <3>1. Len(Servers) \in Nat
      BY LookupAssumption, LenProperties
    <3> QED BY <3>1
  <2>4. /\ z \in Reached /\ z.fdTable = r.fdTable /\ z.sock = r.sock /\ z.parked = r.parked
        /\ z.outcome = tried.outcome /\ z.starved = tried.starved
    BY <2>2, <2>3 DEF Reached
  <2> HIDE DEF z
  <2>5. Placed(z) /\ OthersIn(z) = OthersIn(r)
    <3>1. SockIs(z)
      BY <2>4 DEF SockIs, Placed
    <3>2. ParkedIs(z)
      BY <2>4, <1>4 DEF ParkedIs
    <3>3. OthersIn(z) = OthersIn(r)
      BY <2>4 DEF OthersIn
    <3> QED BY <2>4, <3>1, <3>2, <3>3 DEF Placed
  <2>6. Told(z) /\ ~z.outcome.done
    BY <2>2, <2>4 DEF Told
  <2>7. CameFrom(resolved(z, "refused"), z)
    BY <2>5, <1>3, ResolvedKeeps
  <2> QED BY <2>1, <2>5, <2>6, <2>7, <1>5 DEF CameFrom
<1> QED BY <1>6, <1>8, <1>9

LEMMA GivesUp ==
  ASSUME NEW r, Placed(r), passed \in BOOLEAN, Told(r), ~r.outcome.done
  PROVE  CameFrom(GiveUp(r), r) /\ Told(GiveUp(r))
<1>1. CASE r.sock = NoSock
  BY <1>1, AsksNext DEF GiveUp
<1>2. CASE r.sock # NoSock
  <2> DEFINE c == through_close(r)
  <2>1. CameFrom(c, r) /\ c.sock = NoSock /\ c.outcome = r.outcome /\ c.starved = r.starved
    BY <1>2, Closed
  <2>2. GiveUp(r) = through_socket(c)
    BY <1>2 DEF GiveUp
  <2> HIDE DEF c
  <2>3. Placed(c) /\ Told(c) /\ ~c.outcome.done
    BY <2>1 DEF CameFrom, Told
  <2>4. CameFrom(through_socket(c), c) /\ Told(through_socket(c))
    BY <2>1, <2>3, AsksNext
  <2> QED BY <2>1, <2>2, <2>4 DEF CameFrom
<1> QED BY <1>1, <1>2

LEMMA Processes ==
  ASSUME NEW r, Placed(r), passed \in BOOLEAN, Told(r), NEW f \in Numbers, NEW q \in resolution_process(r, f)
  PROVE  CameFrom(q, r) /\ Told(q)
<1>0. CameFrom(r, r)
  BY DEF CameFrom
<1>1. CASE q = r
  BY <1>0, <1>1
<1>2. CASE q = GiveUp(r) /\ ~r.outcome.done
  BY <1>2, GivesUp
<1>3. ASSUME NEW s \in {"found", "notfound"}, q = resolved(through_close(r), s), ~r.outcome.done, f = r.sock.fd
      PROVE  CameFrom(q, r) /\ Told(q)
  <2> DEFINE c == through_close(r)
  <2>0. r.sock # NoSock
    BY <1>3, NoSockFd, NumbersInt
  <2>1. CameFrom(c, r) /\ c.outcome = r.outcome /\ c.starved = r.starved
    BY <2>0, Closed
  <2>2. s \in Statuses
    BY DEF Statuses
  <2> HIDE DEF c
  <2>3. CameFrom(resolved(c, s), c) /\ resolved(c, s).starved = c.starved /\ resolved(c, s).outcome.late = c.outcome.late
    BY <2>1, <2>2, ResolvedKeeps DEF CameFrom
  <2>4. q = resolved(c, s)
    BY <1>3 DEF c
  <2>5. Told(q)
    BY <2>4, <2>3, <2>1, <1>3 DEF Told
  <2> QED BY <2>1, <2>3, <2>4, <2>5 DEF CameFrom
<1> QED BY <1>1, <1>2, <1>3 DEF resolution_process

LEMMA TimersKeep ==
  ASSUME NEW r, Placed(r), passed \in BOOLEAN, Told(r), NEW q \in Timers(r)
  PROVE  CameFrom(q, r) /\ Told(q)
<1>0. CameFrom(r, r)
  BY DEF CameFrom
<1> DEFINE p == [r EXCEPT !.starved = TRUE]
<1>1. CASE q = r
  BY <1>0, <1>1
<1>2. CASE q = GiveUp(r) /\ ~r.outcome.done
  BY <1>2, GivesUp
<1>3. CASE q = resolved(through_close(p), "timeout") /\ ~r.outcome.done /\ r.sock # NoSock
  <2>1. p \in Reached /\ p.fdTable = r.fdTable /\ p.sock = r.sock /\ p.parked = r.parked /\ p.outcome = r.outcome
        /\ p.lastId = r.lastId
    BY DEF Placed, Reached
  <2> HIDE DEF p
  <2>2. CameFrom(p, r)
    BY <2>1 DEF CameFrom, Placed, SockIs, ParkedIs, OthersIn
  <2> DEFINE c == through_close(p)
  <2>3. CameFrom(c, p) /\ c.outcome = r.outcome
    BY <1>3, <2>1, <2>2, Closed DEF CameFrom
  <2>4. q = resolved(c, "timeout")
    BY <1>3
  <2> HIDE DEF c
  <2>5. "timeout" \in Statuses /\ "timeout" # "refused"
    BY DEF Statuses
  <2>6. CameFrom(resolved(c, "timeout"), c) /\ resolved(c, "timeout").outcome.done
        /\ resolved(c, "timeout").outcome.status = "timeout"
    BY <1>3, <2>3, <2>5, ResolvedKeeps DEF CameFrom
  <2>7. Told(q)
    BY <2>4, <2>5, <2>6 DEF Told
  <2> QED BY <2>2, <2>3, <2>4, <2>6, <2>7 DEF CameFrom
<1>4. q = r \/ (q = GiveUp(r) /\ ~r.outcome.done) \/ (q = resolved(through_close(p), "timeout") /\ ~r.outcome.done /\ r.sock # NoSock)
  BY DEF Timers
<1> QED BY <1>1, <1>2, <1>3, <1>4

(* The connects c-ares asked for and the caller is now told of.            *)
Asked(q) ==
  [q EXCEPT !.parked = [k \in 1 .. Slots |->
     IF k \in {j \in 1 .. Slots : q.parked[j].id # 0 /\ ~q.parked[j].asked}
     THEN [@[k] EXCEPT !.asked = TRUE] ELSE @[k]]]

LEMMA AskedKeeps ==
  ASSUME NEW q, Placed(q), Told(q)
  PROVE  /\ CameFrom(Asked(q), q) /\ Told(Asked(q))
         /\ \A k \in 1 .. Slots : /\ Asked(q).parked[k].id = q.parked[k].id
                                  /\ Asked(q).parked[k].server = q.parked[k].server
         /\ Asked(q).lastId = q.lastId /\ Asked(q).outcome = q.outcome
<1> DEFINE S == {j \in 1 .. Slots : q.parked[j].id # 0 /\ ~q.parked[j].asked}
           p == [k \in 1 .. Slots |-> IF k \in S THEN [q.parked[k] EXCEPT !.asked = TRUE] ELSE q.parked[k]]
           a == Asked(q)
<1>1. q \in Reached /\ q.parked \in [1 .. Slots -> Parking]
  BY DEF Placed, Reached
<1>2. \A k \in 1 .. Slots : [q.parked[k] EXCEPT !.asked = TRUE] \in Parking
                            /\ [q.parked[k] EXCEPT !.asked = TRUE].id = q.parked[k].id
                            /\ [q.parked[k] EXCEPT !.asked = TRUE].fd = q.parked[k].fd
                            /\ [q.parked[k] EXCEPT !.asked = TRUE].server = q.parked[k].server
  BY <1>1 DEF Parking
<1>3. /\ p \in [1 .. Slots -> Parking]
      /\ \A k \in 1 .. Slots : p[k].id = q.parked[k].id /\ p[k].fd = q.parked[k].fd /\ p[k].server = q.parked[k].server
  BY <1>1, <1>2
<1>4. a = [q EXCEPT !.parked = p]
  BY <1>1 DEF Asked, Reached
<1> HIDE DEF p, a
<1>5. a \in Reached /\ a.parked = p /\ a.fdTable = q.fdTable /\ a.sock = q.sock /\ a.outcome = q.outcome
      /\ a.starved = q.starved /\ a.lastId = q.lastId
  BY <1>1, <1>3, <1>4 DEF Reached
<1>6. SockIs(a)
  BY <1>5 DEF SockIs, Placed
<1>7. ParkedIs(a)
  BY <1>3, <1>5 DEF ParkedIs, Placed
<1>8. OthersIn(a) = OthersIn(q) /\ Told(a)
  BY <1>5 DEF OthersIn, Told
<1> QED BY <1>3, <1>5, <1>6, <1>7, <1>8 DEF CameFrom, Placed, a

LEMMA Becomes ==
  ASSUME NEW r \in Reached, Become(r)
  PROVE  State' = r
BY DEF Become, State, Reached

LEMMA LookupStarts == LookupInit => LookupInv
<1> SUFFICES ASSUME LookupInit PROVE LookupInv
  OBVIOUS
<1>1. Len(Servers) \in 0 .. Len(Servers)
  <2>1. Len(Servers) \in Nat
    BY LookupAssumption, LenProperties
  <2> QED BY <2>1
<1> DEFINE o == [done |-> FALSE, status |-> "", late |-> FALSE]
<1>2. o \in Outcomes
  BY DEF Outcomes, Statuses
<1> HIDE DEF o
<1>3. [k \in 1 .. Slots |-> Empty] \in [1 .. Slots -> Parking] /\ NoSock \in [fd : Int, server : ServerNames \cup {""}]
      /\ Empty.id = 0
  BY NamesApart
<1>4. /\ State \in Reached /\ State.sock = NoSock /\ State.starved = FALSE
      /\ State.fdTable = [f \in Numbers |-> "free"] /\ State.parked = [k \in 1 .. Slots |-> Empty]
  BY <1>1, <1>2, <1>3 DEF LookupInit, State, Reached, o
<1>5. Placed(State) /\ Told(State) /\ OthersIn(State) = {}
  BY <1>3, <1>4 DEF Placed, SockIs, ParkedIs, Told, OthersIn
<1>6. Cardinality(OthersIn(State)) = others
  BY <1>5, FS_EmptySet DEF LookupInit
<1>7. passed \in BOOLEAN /\ found \subseteq Numbers /\ others \in Nat /\ asker = "step" /\ reply = "" /\ wants = {}
  BY DEF LookupInit
<1>8. WantsTrue /\ Ended
  BY <1>5, <1>7 DEF WantsTrue, Ended
<1> QED BY <1>5, <1>6, <1>7, <1>8 DEF LookupInv

LEMMA StepKeeps == LookupInv /\ lookup_step => LookupInv'
<1> SUFFICES ASSUME LookupInv, lookup_step PROVE LookupInv'
  OBVIOUS
<1> DEFINE told(q) == {k \in 1 .. Slots : q.parked[k].id # 0 /\ ~q.parked[k].asked}
<1>0. Placed(State) /\ passed \in BOOLEAN /\ Told(State) /\ found \subseteq Numbers /\ asker = "step"
  BY DEF LookupInv, Ended, lookup_step
<1>1. PICK r \in lookup_ready(State) : \E q \in Timers(r) :
         /\ Become(Asked(q))
         /\ wants' = {q.parked[k] : k \in told(q)}
         /\ asker' = IF q.outcome.done THEN "result" ELSE IF told(q) # {} THEN "wants" ELSE "wait"
  BY DEF lookup_step, Asked
<1>2. PICK q \in Timers(r) :
         /\ Become(Asked(q))
         /\ wants' = {q.parked[k] : k \in told(q)}
         /\ asker' = IF q.outcome.done THEN "result" ELSE IF told(q) # {} THEN "wants" ELSE "wait"
  BY <1>1
<1>3. PICK st : st = State
  OBVIOUS
<1>4. Placed(st) /\ Told(st)
  BY <1>0, <1>3
<1>5. CameFrom(r, st) /\ Told(r)
  <2>1. CASE r = st
    BY <2>1, <1>4 DEF CameFrom
  <2>2. CASE found # {} /\ r \in resolution_process(State, CHOOSE g \in found : TRUE)
    <3>1. (CHOOSE g \in found : TRUE) \in Numbers
      BY <2>2, <1>0
    <3> QED BY <2>2, <3>1, <1>0, <1>3, <1>4, Processes
  <2> QED BY <2>1, <2>2, <1>1, <1>3 DEF lookup_ready
<1>6. CameFrom(q, r) /\ Told(q)
  BY <1>5, <1>0, <1>2, TimersKeep DEF CameFrom
<1> DEFINE a == Asked(q)
<1>7. /\ CameFrom(a, q) /\ Told(a)
      /\ \A k \in 1 .. Slots : a.parked[k].id = q.parked[k].id /\ a.parked[k].server = q.parked[k].server
      /\ a.lastId = q.lastId /\ a.outcome = q.outcome
  BY <1>6, AskedKeeps DEF CameFrom
<1>8. Become(a)
  BY <1>2
<1> HIDE DEF a
<1>9. Placed(a) /\ a \in Reached
  BY <1>7 DEF CameFrom, Placed
<1>10. State' = a
  BY <1>8, <1>9, Becomes
<1>11. OthersIn(State') = OthersIn(State)
  BY <1>3, <1>5, <1>6, <1>7, <1>10 DEF CameFrom
<1>12. q.parked \in [1 .. Slots -> Parking] /\ a.parked \in [1 .. Slots -> Parking] /\ ParkedIs(q)
  BY <1>6, <1>9 DEF CameFrom, Placed, Reached
<1>13. WantsTrue'
  <2>1. lastId' = a.lastId /\ parked' = a.parked
    BY <1>8 DEF Become
  <2>2. \A w \in wants' : \E k \in 1 .. Slots : w = q.parked[k] /\ w.id # 0
    BY <1>2
  <2>3. \A w \in wants' : /\ w \in Parking /\ w.id # 0 /\ w.id <= lastId'
                          /\ \E k \in 1 .. Slots : parked'[k].id = w.id
                          /\ \A k \in 1 .. Slots : parked'[k].id = w.id => parked'[k].server = w.server
                          /\ \A v \in wants' : v.id = w.id => v = w
    <3> SUFFICES ASSUME NEW w \in wants'
                 PROVE  /\ w \in Parking /\ w.id # 0 /\ w.id <= lastId'
                        /\ \E k \in 1 .. Slots : parked'[k].id = w.id
                        /\ \A k \in 1 .. Slots : parked'[k].id = w.id => parked'[k].server = w.server
                        /\ \A v \in wants' : v.id = w.id => v = w
      OBVIOUS
    <3>1. PICK k \in 1 .. Slots : w = q.parked[k] /\ w.id # 0
      BY <2>2
    <3>2. w.id <= q.lastId /\ \A j \in 1 .. Slots : q.parked[j].id = w.id => j = k
      BY <3>1, <1>12 DEF ParkedIs
    <3> QED BY <3>1, <3>2, <2>1, <2>2, <1>7, <1>12
  <2> QED BY <2>3 DEF WantsTrue
<1>14. outcome' = q.outcome
  BY <1>7, <1>8 DEF Become
<1>15. /\ asker' \in {"step", "wants", "wait", "result", "ended", "released"}
       /\ asker' = "result" => outcome'.done
       /\ asker' \notin {"ended", "released"}
  BY <1>2, <1>14
<1>16. Ended'
  BY <1>7, <1>10, <1>15 DEF Ended
<1>17. passed' = passed /\ others' = others /\ found' = {}
  BY DEF lookup_step
<1> QED BY <1>0, <1>9, <1>10, <1>11, <1>13, <1>15, <1>16, <1>17 DEF LookupInv

Hows(s) == {s, "failed", "timeout"}
Starving(r, how) == [r EXCEPT !.starved = @ \/ how = "timeout"]

(* What is supplied takes the stand-in's place and no other's.             *)
LEMMA Supplies ==
  ASSUME NEW r, Placed(r), Told(r), NEW k \in 1 .. Slots, r.parked[k].id # 0,
         NEW how, how \in Hows(r.parked[k].server)
  PROVE  LET z == Supplied(Starving(r, how), r.parked[k].id, how)
         IN  /\ CameFrom(z, r) /\ Told(z)
             /\ z.parked = [r.parked EXCEPT ![k] = Empty] /\ z.lastId = r.lastId
             /\ z.outcome.done = r.outcome.done
<1> DEFINE id == r.parked[k].id
           f == r.parked[k].fd
           p == Starving(r, how)
           z == Supplied(p, id, how)
<1>1. PICK d \in BOOLEAN : d = (r.starved \/ how = "timeout")
  BY DEF Placed, Reached
<1>2. PICK b \in BOOLEAN : b = (r.outcome.late \/ how = "timeout")
  BY DEF Placed, Reached, Outcomes
<1>3. p \in Reached /\ p.parked = r.parked /\ p.fdTable = r.fdTable /\ p.sock = r.sock /\ p.outcome = r.outcome
      /\ p.lastId = r.lastId /\ p.starved = d
  BY <1>1 DEF Placed, Reached, Starving
<1> HIDE DEF p
<1>4. {j \in 1 .. Slots : p.parked[j].id = id} = {k}
  BY <1>3, SMTT(30) DEF Placed, ParkedIs
<1> DEFINE o == [r.outcome EXCEPT !.late = b]
           t == [r.fdTable EXCEPT ![f] = IF how \in {"failed", "timeout"} THEN @ ELSE how]
<1>5. z = [p EXCEPT !.parked[k] = Empty,
                    !.fdTable[p.parked[k].fd] = IF how \in {"failed", "timeout"} THEN @ ELSE how,
                    !.outcome.late = @ \/ how = "timeout"]
  <2>1. (CHOOSE j \in {j \in 1 .. Slots : p.parked[j].id = id} : TRUE) = k
    BY <1>4
  <2> QED BY <1>4, <2>1 DEF Supplied
<1>6. f = r.sock.fd /\ r.sock # NoSock /\ r.sock.server = r.parked[k].server /\ f \in Numbers /\ r.sock.server \in ServerNames
      /\ r.fdTable[f] \in {"standin", r.sock.server}
  BY DEF Placed, ParkedIs, SockIs
<1>7. r.fdTable \in [Numbers -> {"free", "other", "standin"} \cup ServerNames]
      /\ r.parked \in [1 .. Slots -> Parking] /\ r.outcome \in Outcomes
  BY DEF Placed, Reached
<1>8. /\ t \in [Numbers -> {"free", "other", "standin"} \cup ServerNames]
      /\ t[f] \in {"standin", r.sock.server}
      /\ \A g \in Numbers : g # f => t[g] = r.fdTable[g]
  BY <1>6, <1>7 DEF Hows
<1>9. o \in Outcomes /\ o.late = b /\ o.done = r.outcome.done /\ o.status = r.outcome.status
  BY <1>7 DEF Outcomes
<1>10. z = [p EXCEPT !.parked[k] = Empty, !.fdTable = t, !.outcome = o]
  BY <1>2, <1>3, <1>5, <1>7 DEF Outcomes, Reached
<1> HIDE DEF t, o, z
<1>11. [r.parked EXCEPT ![k] = Empty] \in [1 .. Slots -> Parking] /\ Empty.id = 0
  BY <1>7, NamesApart
<1>12. /\ z \in Reached /\ z.parked = [r.parked EXCEPT ![k] = Empty] /\ z.fdTable = t /\ z.outcome = o
       /\ z.sock = r.sock /\ z.lastId = r.lastId /\ z.starved = d
  BY <1>3, <1>8, <1>9, <1>10, <1>11 DEF Reached
<1>13. SockIs(z)
  BY <1>6, <1>8, <1>12 DEF SockIs, Placed
<1>14. ParkedIs(z)
  <2>1. \A j \in 1 .. Slots : z.parked[j] = r.parked[j] \/ z.parked[j].id = 0
    BY <1>7, <1>11, <1>12
  <2> QED BY <2>1, <1>12 DEF ParkedIs, Placed
<1>15. OthersIn(z) = OthersIn(r)
  <2>1. t[f] # "other" /\ r.fdTable[f] # "other"
    BY <1>6, <1>8, NamesApart
  <2> QED BY <2>1, <1>6, <1>8, <1>12 DEF OthersIn
<1>16. Told(z)
  BY <1>1, <1>2, <1>9, <1>12 DEF Told
<1> QED BY <1>9, <1>12, <1>13, <1>14, <1>15, <1>16 DEF CameFrom, Placed, z, p

LEMMA SupplyKeeps == LookupInv /\ lookup_supply => LookupInv'
<1> SUFFICES ASSUME LookupInv, lookup_supply PROVE LookupInv'
  OBVIOUS
<1>0. Placed(State) /\ passed \in BOOLEAN /\ Told(State) /\ asker = "wants" /\ WantsTrue
  BY DEF LookupInv, Ended, lookup_supply
<1>1. PICK w \in wants : \E how \in {w.server, "failed", "timeout"} :
         /\ Become(Supplied(Starving(State, how), w.id, how))
         /\ wants' = wants \ {w}
         /\ asker' = IF wants' = {} THEN "step" ELSE "wants"
  BY DEF lookup_supply, Starving
<1>2. PICK how \in {w.server, "failed", "timeout"} :
         /\ Become(Supplied(Starving(State, how), w.id, how))
         /\ wants' = wants \ {w}
         /\ asker' = IF wants' = {} THEN "step" ELSE "wants"
  BY <1>1
<1>3. PICK st : st = State
  OBVIOUS
<1>4. Placed(st) /\ Told(st) /\ st.parked = parked /\ st.lastId = lastId /\ st.outcome = outcome
  BY <1>0, <1>3 DEF State
<1>5. PICK k \in 1 .. Slots : parked[k].id = w.id
  BY <1>0 DEF WantsTrue
<1>6. w.id # 0 /\ parked[k].server = w.server
  BY <1>0, <1>5 DEF WantsTrue
<1> DEFINE z == Supplied(Starving(st, how), st.parked[k].id, how)
<1>7. how \in Hows(st.parked[k].server) /\ st.parked[k].id # 0
  BY <1>2, <1>4, <1>5, <1>6 DEF Hows
<1>8. /\ CameFrom(z, st) /\ Told(z)
      /\ z.parked = [st.parked EXCEPT ![k] = Empty] /\ z.lastId = st.lastId
      /\ z.outcome.done = st.outcome.done
  BY <1>4, <1>7, Supplies
<1>9. Become(z)
  BY <1>2, <1>3, <1>4, <1>5
<1> HIDE DEF z
<1>10. z \in Reached /\ State' = z
  BY <1>8, <1>9, Becomes DEF CameFrom, Placed
<1>11. parked' = [parked EXCEPT ![k] = Empty] /\ lastId' = lastId
  BY <1>4, <1>8, <1>9 DEF Become
<1>12. WantsTrue'
  <2>1. parked \in [1 .. Slots -> Parking] /\ ParkedIs(st)
    BY <1>4 DEF Placed, Reached
  <2>2. \A j \in 1 .. Slots : j # k => parked'[j] = parked[j]
    BY <1>11, <2>1
  <2>3. parked'[k].id = 0
    BY <1>11, <2>1, NamesApart
  <2>4. \A v \in wants' : v \in wants /\ v.id # w.id
    BY <1>2, <1>0 DEF WantsTrue
  <2>5. \A v \in wants' : \A j \in 1 .. Slots : parked'[j].id = v.id => parked[j].id = v.id /\ parked'[j] = parked[j]
    BY <2>2, <2>3, <2>4, <1>0 DEF WantsTrue
  <2>6. \A v \in wants' : \E j \in 1 .. Slots : parked'[j].id = v.id
    BY <2>2, <2>4, <1>0, <1>5 DEF WantsTrue
  <2> QED BY <1>0, <1>11, <2>4, <2>5, <2>6 DEF WantsTrue
<1>13. asker' \in {"step", "wants"}
  BY <1>2
<1>14. Ended'
  BY <1>8, <1>10, <1>13 DEF Ended
<1>15. OthersIn(State') = OthersIn(State)
  BY <1>3, <1>8, <1>10 DEF CameFrom
<1>16. passed' = passed /\ others' = others /\ found' = found
  BY DEF lookup_supply
<1>17. Placed(State')
  BY <1>8, <1>10 DEF CameFrom
<1> QED BY <1>0, <1>12, <1>13, <1>14, <1>15, <1>16, <1>17 DEF LookupInv

(* A wait, an answer and a release: no connect is parked, and only what    *)
(* c-ares held is closed.                                                  *)
LEMMA WaitKeeps == LookupInv /\ lookup_wait => LookupInv'
<1> SUFFICES ASSUME LookupInv, lookup_wait PROVE LookupInv'
  OBVIOUS
<1>0. Placed(State) /\ Told(State) /\ asker = "wait" /\ WantsTrue /\ State \in Reached
  BY DEF LookupInv, Ended, lookup_wait, Placed
<1>1. passed' = passed /\ others' = others /\ wants' = wants
  BY DEF lookup_wait
<1>2. CASE passed
  <2> DEFINE p == [State EXCEPT !.starved = TRUE]
  <2>1. p \in Reached /\ p.fdTable = State.fdTable /\ p.sock = State.sock /\ p.parked = State.parked
        /\ p.lastId = State.lastId /\ p.outcome = State.outcome
    BY <1>0 DEF Reached
  <2>2. Become(p) /\ reply' = "timeout" /\ asker' = "ended" /\ found' = {}
    BY <1>2 DEF lookup_wait
  <2> HIDE DEF p
  <2>3. State' = p
    BY <2>1, <2>2, Becomes
  <2>4. Placed(p) /\ OthersIn(p) = OthersIn(State)
    BY <2>1, <1>0 DEF Placed, SockIs, ParkedIs, OthersIn
  <2>5. parked' = parked /\ lastId' = lastId
    BY <2>1, <2>2 DEF Become, State
  <2>6. WantsTrue'
    BY <1>0, <1>1, <2>2, <2>5 DEF WantsTrue
  <2>7. Ended'
    BY <2>2 DEF Ended
  <2> QED BY <1>1, <2>2, <2>3, <2>4, <2>6, <2>7 DEF LookupInv
<1>3. CASE ~passed
  <2>1. Become(State) /\ asker' = "step" /\ reply' = reply
        /\ \E f \in {{}} \cup {{w} : w \in {w \in watched : parked_for_fd(State, w) = {}}} : found' = f
    BY <1>3 DEF lookup_wait
  <2>2. State' = State
    BY <2>1 DEF Become, State
  <2>3. watched \subseteq Numbers
    BY <1>0 DEF Reached, State
  <2>4. found' \subseteq Numbers
    BY <2>1, <2>3
  <2>5. parked' = parked /\ lastId' = lastId
    BY <2>1 DEF Become, State
  <2>6. WantsTrue'
    BY <1>0, <1>1, <2>1, <2>5 DEF WantsTrue
  <2>7. Ended'
    BY <1>0, <2>1, <2>2 DEF Ended
  <2> QED BY <1>0, <1>1, <2>1, <2>2, <2>4, <2>6, <2>7 DEF LookupInv
<1> QED BY <1>2, <1>3 DEF LookupInv

LEMMA AnswerKeeps == LookupInv /\ Answer => LookupInv'
<1> SUFFICES ASSUME LookupInv, Answer PROVE LookupInv'
  OBVIOUS
<1>0. Placed(State) /\ Told(State) /\ WantsTrue
  BY DEF LookupInv, Ended, Answer
<1>1. State' = State /\ parked' = parked /\ lastId' = lastId /\ wants' = wants /\ asker' = "ended" /\ starved' = starved
      /\ passed' = passed /\ others' = others /\ found' = found
  BY DEF Answer, State
<1>2. WantsTrue'
  BY <1>0, <1>1 DEF WantsTrue
<1>3. reply' = "refused" => ~starved
  BY <1>0 DEF Answer, lookup_result, Told, State
<1>4. Ended'
  BY <1>1, <1>3 DEF Ended
<1> QED BY <1>0, <1>1, <1>2, <1>4 DEF LookupInv

LEMMA ReleaseKeeps == LookupInv /\ lookup_release => LookupInv'
<1> SUFFICES ASSUME LookupInv, lookup_release PROVE LookupInv'
  OBVIOUS
<1>0. Placed(State) /\ WantsTrue /\ asker' = "released" /\ wants' = wants /\ passed' = passed /\ found' = found /\ others' = others
  BY DEF LookupInv, lookup_release
<1>1. PICK st : st = State
  OBVIOUS
<1>2. st.sock = sock /\ st.parked = parked /\ st.lastId = lastId
  BY <1>1 DEF State
<1> DEFINE z == IF sock = NoSock THEN st ELSE through_close(st)
<1>3. /\ CameFrom(z, st) /\ z.lastId = st.lastId
      /\ \A k \in 1 .. Slots : z.parked[k].id = 0 \/ z.parked[k] = st.parked[k]
  <2>1. CASE sock = NoSock
    BY <2>1, <1>0, <1>1 DEF CameFrom
  <2>2. CASE sock # NoSock
    BY <2>2, <1>0, <1>1, <1>2, Closed
  <2> QED BY <2>1, <2>2
<1>4. Become(z)
  BY <1>1 DEF lookup_release
<1> HIDE DEF z
<1>5. z \in Reached /\ State' = z /\ parked' = z.parked /\ lastId' = z.lastId
  BY <1>3, <1>4, Becomes DEF CameFrom, Placed, Become
<1>6. WantsTrue'
  BY <1>0, <1>2, <1>3, <1>5 DEF WantsTrue
<1>7. Placed(State') /\ OthersIn(State') = OthersIn(State)
  BY <1>1, <1>3, <1>5 DEF CameFrom
<1>8. Ended'
  BY <1>0 DEF Ended
<1> QED BY <1>0, <1>6, <1>7, <1>8 DEF LookupInv

(* Other tasks take free numbers and give back their own.                  *)
LEMMA OthersMove ==
  ASSUME LookupInv, NEW f \in Numbers, NEW now, now \in {"free", "other"},
         fdTable[f] \in {"free", "other"}, fdTable[f] # now,
         fdTable' = [fdTable EXCEPT ![f] = now],
         UNCHANGED <<sock, untried, parked, lastId, watched, outcome, passed, asker, wants, found, reply, starved>>
  PROVE  /\ Placed(State') /\ WantsTrue' /\ Ended'
         /\ now = "other" => OthersIn(State') = OthersIn(State) \cup {f} /\ f \notin OthersIn(State)
         /\ now = "free" => OthersIn(State') = OthersIn(State) \ {f} /\ f \in OthersIn(State)
<1>0. Placed(State) /\ State \in Reached /\ fdTable \in [Numbers -> {"free", "other", "standin"} \cup ServerNames]
  BY DEF LookupInv, Placed, State, Reached
<1>1. PICK st : st = State'
  OBVIOUS
<1>2. /\ st.sock = sock /\ st.parked = parked /\ st.lastId = lastId /\ st.outcome = outcome /\ st.starved = starved
      /\ st.fdTable = [fdTable EXCEPT ![f] = now]
  BY <1>1 DEF State
<1>3. st \in Reached
  BY <1>0, <1>1 DEF State, Reached
<1>4. State.sock = sock /\ State.parked = parked /\ State.lastId = lastId /\ State.fdTable = fdTable
      /\ State.outcome = outcome /\ State.starved = starved
  BY DEF State
<1>5. /\ \A g \in Numbers : g # f => st.fdTable[g] = fdTable[g]
      /\ st.fdTable[f] = now
  BY <1>0, <1>2
<1>6. SockIs(st)
  <2>1. SockIs(State)
    BY <1>0 DEF Placed
  <2>3. sock # NoSock => sock.fd # f
    BY <2>1, <1>4, NamesApart DEF SockIs
  <2> QED BY <2>1, <2>3, <1>2, <1>4, <1>5 DEF SockIs
<1>7. ParkedIs(st)
  BY <1>0, <1>2, <1>4 DEF Placed, ParkedIs
<1>8. Placed(State')
  BY <1>1, <1>3, <1>6, <1>7 DEF Placed
<1>9. WantsTrue'
  BY DEF LookupInv, WantsTrue
<1>10. Ended'
  BY <1>1, <1>2, <1>4 DEF LookupInv, Ended, Told
<1>11. /\ now = "other" => OthersIn(st) = OthersIn(State) \cup {f} /\ f \notin OthersIn(State)
       /\ now = "free" => OthersIn(st) = OthersIn(State) \ {f} /\ f \in OthersIn(State)
  <2>1. now = "other" => fdTable[f] = "free"
    OBVIOUS
  <2>2. now = "free" => fdTable[f] = "other"
    OBVIOUS
  <2> QED BY <2>1, <2>2, <1>4, <1>5 DEF OthersIn
<1> QED BY <1>1, <1>8, <1>9, <1>10, <1>11

LEMMA OthersKeep ==
  ASSUME LookupInv, OtherOpens \/ (\E f \in Numbers : OtherCloses(f))
  PROVE  LookupInv'
<1>0. IsFiniteSet(OthersIn(State))
  BY LookupAssumption, FS_Subset DEF OthersIn
<1>00. /\ passed \in BOOLEAN /\ found \subseteq Numbers /\ others \in Nat /\ Cardinality(OthersIn(State)) = others
       /\ asker \in {"step", "wants", "wait", "result", "ended", "released"}
       /\ (asker = "result" => outcome.done)
  BY DEF LookupInv
<1>1. CASE OtherOpens
  <2> DEFINE f == Lowest(fdTable)
  <2>1. f \in Numbers /\ fdTable[f] = "free" /\ fdTable' = [fdTable EXCEPT ![f] = "other"] /\ others' = others + 1
        /\ UNCHANGED <<sock, untried, parked, lastId, watched, outcome, passed, asker, wants, found, reply, starved>>
    BY <1>1, LowestFree DEF OtherOpens
  <2> HIDE DEF f
  <2>2. /\ Placed(State') /\ WantsTrue' /\ Ended'
        /\ OthersIn(State') = OthersIn(State) \cup {f} /\ f \notin OthersIn(State)
    BY <2>1, OthersMove
  <2>3. Cardinality(OthersIn(State')) = others + 1
    BY <1>0, <1>00, <2>2, FS_AddElement
  <2> QED BY <1>00, <2>1, <2>2, <2>3 DEF LookupInv
<1>2. ASSUME NEW f \in Numbers, OtherCloses(f) PROVE LookupInv'
  <2>1. fdTable[f] = "other" /\ fdTable' = [fdTable EXCEPT ![f] = "free"] /\ others' = others - 1
        /\ UNCHANGED <<sock, untried, parked, lastId, watched, outcome, passed, asker, wants, found, reply, starved>>
    BY <1>2 DEF OtherCloses
  <2>2. /\ Placed(State') /\ WantsTrue' /\ Ended'
        /\ OthersIn(State') = OthersIn(State) \ {f} /\ f \in OthersIn(State)
    BY <2>1, OthersMove
  <2>3. Cardinality(OthersIn(State')) = others - 1 /\ IsFiniteSet(OthersIn(State'))
    BY <1>0, <1>00, <2>2, FS_RemoveElement
  <2>4. others - 1 \in Nat
    BY <2>3, FS_CardinalityType
  <2> QED BY <1>00, <2>1, <2>2, <2>3, <2>4 DEF LookupInv
<1> QED BY <1>1, <1>2

LEMMA DeadlineKeeps == LookupInv /\ Deadline => LookupInv'
<1> SUFFICES ASSUME LookupInv, Deadline PROVE LookupInv'
  OBVIOUS
<1>1. State' = State /\ WantsTrue' /\ asker' = asker /\ reply' = reply /\ starved' = starved /\ outcome' = outcome
      /\ passed' \in BOOLEAN /\ found' = found /\ others' = others
  BY DEF Deadline, State, WantsTrue, LookupInv
<1>2. Ended'
  BY <1>1 DEF LookupInv, Ended
<1> QED BY <1>1, <1>2 DEF LookupInv

(* The inductive invariant of a lookup.                                    *)
LEMMA LookupInvariance == LookupSpec => []LookupInv
<1>1. LookupInv /\ [LookupNext]_lookupVars => LookupInv'
  <2> SUFFICES ASSUME LookupInv, [LookupNext]_lookupVars PROVE LookupInv'
    OBVIOUS
  <2>1. CASE LookupNext
    BY <2>1, StepKeeps, SupplyKeeps, WaitKeeps, AnswerKeeps, ReleaseKeeps, OthersKeep, DeadlineKeeps DEF LookupNext
  <2>2. CASE UNCHANGED lookupVars
    <3>1. State' = State /\ WantsTrue' /\ asker' = asker /\ reply' = reply /\ starved' = starved /\ outcome' = outcome
          /\ passed' = passed /\ found' = found /\ others' = others
      BY <2>2 DEF lookupVars, State, WantsTrue, LookupInv
    <3>2. Ended'
      BY <3>1 DEF LookupInv, Ended
    <3> QED BY <3>1, <3>2 DEF LookupInv
  <2> QED BY <2>1, <2>2
<1> QED BY <1>1, LookupStarts, PTL DEF LookupSpec

(* A lookup asks the server it was told to, on its own socket, and says    *)
(* its servers refused it only where each was asked in time.               *)
THEOREM LookupIsHonest == LookupSpec => []LookupAnswers
<1>1. LookupInv => LookupAnswers
  <2> SUFFICES ASSUME LookupInv PROVE LookupAnswers
    OBVIOUS
  <2>1. State.sock = sock /\ State.parked = parked /\ State.fdTable = fdTable
    BY DEF State
  <2>2. SockIs(State) /\ ParkedIs(State) /\ Cardinality(OthersIn(State)) = others /\ Ended
    BY DEF LookupInv, Placed
  <2>3. OthersIn(State) = {f \in Numbers : fdTable[f] = "other"}
    BY <2>1 DEF OthersIn
  <2>4. RightServer
    BY <2>1, <2>2, <2>3 DEF RightServer, SockIs, ParkedIs
  <2>5. LateIsTimeout
    BY <2>2 DEF LateIsTimeout, Ended
  <2> QED BY <2>4, <2>5 DEF LookupAnswers
<1> QED BY <1>1, LookupInvariance, PTL

(***************************************************************************)
(* The trust store (module Http).  Rows are loaded one at a time, any load *)
(* may fail, and the one chain_root of the process outlives a chain.       *)
(***************************************************************************)
Rows == {RootRows[i] : i \in DOMAIN RootRows}
Names == {RevokedRows[i] : i \in DOMAIN RevokedRows}
Crts == UNION {{c[i] : i \in DOMAIN c} : c \in Chains}
OpenPhases == {"none", "ready", "roots", "revoked", "file", "multi", "make", "check", "pump"}
OpRecord == [who : Transfers \cup {"none"}, what : {"none", "open", "read"}, phase : OpenPhases, max : Nat]
ChainRecord == [left : Seq(Crts), flags : SUBSET {"revoked", "other"}, whole : Seq(Crts), unhashed : BOOLEAN]

Ids == {r.id : r \in Rows}
TrustRecord == [roots : Seq(Ids), distrusted : Seq(Rows), revoked : Seq(Names), row : Nat \ {0}]

TrustTypes ==
  /\ ready \in [curl : BOOLEAN, roots : BOOLEAN, multi : BOOLEAN]
  /\ trust \in TrustRecord
  /\ chain \in ChainRecord
  /\ judged \subseteq ChainRecord
  /\ op \in OpRecord

\* A root of the binary with a date.
Dated(k) == RootRows[k].reads /\ RootRows[k].after # 0

\* The dated roots of the first n rows are the ones kept.
KeptTo(n, kept) ==
  /\ \A i \in 1 .. Len(kept) : \E k \in 1 .. n : Dated(k) /\ kept[i] = RootRows[k]
  /\ \A k \in 1 .. n : Dated(k) => \E i \in 1 .. Len(kept) : kept[i] = RootRows[k]
NamedTo(n, names) == Len(names) = n /\ \A i \in 1 .. n : names[i] = RevokedRows[i]

\* What each phase of a load has of the tables.
LoadsRoots == trust.row <= Len(RootRows) + 1 /\ KeptTo(trust.row - 1, trust.distrusted) /\ trust.revoked = << >>
LoadsRevoked ==
  trust.row <= Len(RevokedRows) + 1 /\ KeptTo(Len(RootRows), trust.distrusted) /\ NamedTo(trust.row - 1, trust.revoked)
Loaded == trust.row = 1 /\ KeptTo(Len(RootRows), trust.distrusted) /\ NamedTo(Len(RevokedRows), trust.revoked)

Loads ==
  /\ ready.multi => ready.roots
  /\ op.phase \in {"roots", "revoked", "file"} => ~ready.roots
  /\ op.phase \in {"multi", "make", "check", "pump"} => ready.roots
  /\ op.phase \notin {"roots", "revoked", "file"} /\ ~ready.roots => trust = NoTrust
  /\ op.phase = "roots" => LoadsRoots
  /\ op.phase = "revoked" => LoadsRevoked
  /\ op.phase = "file" => Loaded
  /\ ready.roots => Loaded

\* A certificate a row of OneCRL names, and the dates of a root.
NamedBy(crt, unhashed, row) ==
  IF row.kind = "serial" THEN row.name = crt.issuer /\ row.value = crt.serial
  ELSE row.name = crt.subject /\ (unhashed \/ row.value = crt.key)
Revoked(crt, unhashed) == \E k \in 1 .. Len(RevokedRows) : NamedBy(crt, unhashed, RevokedRows[k])
DatesOf(crt) == {RootRows[k].after : k \in {n \in 1 .. Len(RootRows) : RootRows[n].id = crt.id /\ Dated(n)}}

\* The first n certificates of a chain, asked about: whether one is revoked,
\* and the date of the last dated root of them.
FlagsTo(c, n, unhashed, marks) ==
  "revoked" \in marks <=> \E i \in 1 .. n : Revoked(c[i], unhashed)
RootTo(c, n, root) ==
  \/ root = 0 /\ \A i \in 1 .. n : DatesOf(c[i]) = {}
  \/ \E i \in 1 .. n : /\ root \in DatesOf(c[i])
                       /\ \A k \in 1 .. n : DatesOf(c[k]) # {} => k <= i

\* The chain under way, n of it behind.
Behind(n) ==
  /\ n + Len(chain.left) = Len(chain.whole)
  /\ \A i \in 1 .. Len(chain.left) : chain.left[i] = chain.whole[n + i]
  /\ FlagsTo(chain.whole, n, chain.unhashed, chain.flags)
  /\ RootTo(chain.whole, n, chainRoot)
Verifying ==
  IF chain.left = << >> THEN chain = NoChain /\ chainRoot = 0
  ELSE ready.roots /\ chain.flags \subseteq {"revoked"} /\ \E n \in Nat : Behind(n)

\* A chain judged, by itself.
Late(c) == \E i \in 1 .. Len(c) : /\ \A k \in 1 .. Len(c) : DatesOf(c[k]) # {} => k <= i
                                  /\ \E d \in DatesOf(c[i]) : c[Len(c)].issued > d
JudgedAlone(j) ==
  /\ FlagsTo(j.whole, Len(j.whole), j.unhashed, j.flags)
  /\ "other" \in j.flags <=> Late(j.whole)
Judged == (judged # {} => ready.roots) /\ \A j \in judged : JudgedAlone(j)

TrustInv == TrustTypes /\ Loads /\ Verifying /\ Judged

(* The constants, as lists of what they hold.                              *)
LEMMA TrustLists ==
  /\ RootRows \in Seq(Rows) /\ RevokedRows \in Seq(Names)
  /\ \A c \in Chains : c \in Seq(Crts) /\ c # << >>
<1>1. RootRows \in Seq(Rows) /\ RevokedRows \in Seq(Names)
  BY HttpAssumption DEF Rows, Names
<1>2. ASSUME NEW c \in Chains PROVE c \in Seq(Crts) /\ c # << >>
  <2>1. c # << >> /\ c \in Seq({c[i] : i \in DOMAIN c})
    BY HttpAssumption
  <2>2. {c[i] : i \in DOMAIN c} \subseteq Crts
    BY DEF Crts
  <2>3. Len(c) \in Nat /\ DOMAIN c = 1 .. Len(c) /\ \A i \in 1 .. Len(c) : c[i] \in Crts
    BY <2>1, <2>2
  <2>4. c = [i \in 1 .. Len(c) |-> c[i]]
    BY <2>1
  <2> QED
    BY <2>1, <2>3, <2>4, SeqDef, LenProperties
<1> QED
  BY <1>1, <1>2

LEMMA TrustInits == HttpInit(FALSE) => TrustInv
<1> SUFFICES ASSUME HttpInit(FALSE)
             PROVE  TrustInv
  OBVIOUS
<1>1. /\ ready = [curl |-> FALSE, roots |-> FALSE, multi |-> FALSE]
      /\ trust = NoTrust /\ chain = NoChain /\ chainRoot = 0 /\ judged = {} /\ op = NoOp
  BY DEF HttpInit
<1>2. TrustTypes
  BY <1>1 DEF TrustTypes, NoTrust, NoChain, NoOp, ChainRecord, OpRecord, OpenPhases, TrustRecord
<1>3. Loads /\ Verifying /\ Judged
  BY <1>1 DEF Loads, Verifying, Judged, NoTrust, NoChain, NoOp
<1> QED
  BY <1>2, <1>3 DEF TrustInv

(* A step that leaves the chains alone, and makes no less ready.           *)
LEMMA ChainsStay ==
  ASSUME TrustInv, UNCHANGED <<chain, chainRoot, judged>>, ready.roots => ready'.roots
  PROVE  Verifying' /\ Judged'
<1>1. Verifying /\ Judged
  BY DEF TrustInv
<1>2. Verifying'
  BY <1>1 DEF Verifying, Behind
<1>3. Judged'
  BY <1>1 DEF Judged
<1> QED
  BY <1>2, <1>3

(* A request that moves on outside a load leaves the store as it is.       *)
LEMMA StoreStays ==
  ASSUME TrustInv, UNCHANGED trustVars, op' \in OpRecord,
         op.phase \notin {"roots", "revoked", "file"},
         \/ op'.phase \in {"none", "ready"}
         \/ op'.phase \in {"make", "check", "pump"} /\ ready.roots
  PROVE  TrustInv'
<1>0. UNCHANGED <<ready, trust, chain, chainRoot, judged>>
  BY DEF trustVars
<1>1. TrustTypes'
  BY <1>0 DEF TrustInv, TrustTypes, TrustRecord
<1>2. Loads'
  <2>1. Loads
    BY DEF TrustInv
  <2>2. op'.phase \notin {"roots", "revoked", "file", "multi"}
    OBVIOUS
  <2>3. Loaded => Loaded'
    BY <1>0 DEF Loaded
  <2> QED
    BY <1>0, <2>1, <2>2, <2>3 DEF Loads
<1> QED
  BY <1>0, <1>1, <1>2, ChainsStay DEF TrustInv

LEMMA OpenSteps ==
  ASSUME TrustInv, OpenNext
  PROVE  TrustInv'
<1>0. op \in OpRecord /\ NoOp \in OpRecord /\ NoOp.phase = "none" /\ Loads
  BY DEF TrustInv, TrustTypes, OpRecord, OpenPhases, NoOp, TrustRecord
<1>1. ASSUME NEW p \in OpenPhases, Phase(p)
      PROVE  op' \in OpRecord /\ op'.phase = p
  BY <1>0, <1>1 DEF Phase, OpRecord
<1>2. ASSUME http_ready PROVE TrustInv'
  <2>1. CASE ready.multi
    <3>1. UNCHANGED trustVars /\ Phase("make") /\ op.phase = "ready" /\ ready.roots
      BY <1>0, <1>2, <2>1 DEF http_ready, trustVars, Loads
    <3> QED
      BY <1>1, <3>1, StoreStays DEF OpenPhases
  <2>2. CASE ~ready.multi
    <3> DEFINE p == IF ready.roots THEN "multi" ELSE "roots"
    <3>1. /\ ready' = [ready EXCEPT !.curl = TRUE] /\ UNCHANGED <<trust, chain, chainRoot, judged>>
          /\ Phase(p) /\ op.phase = "ready"
      BY <1>2, <2>2 DEF http_ready
    <3>2. p \in OpenPhases
      BY DEF OpenPhases
    <3>3. op' \in OpRecord /\ op'.phase = p
      BY <1>1, <3>1, <3>2
    <3>4. /\ ready' \in [curl : BOOLEAN, roots : BOOLEAN, multi : BOOLEAN]
          /\ ready'.roots = ready.roots /\ ready'.multi = ready.multi
      BY <3>1 DEF TrustInv, TrustTypes, TrustRecord
    <3>5. TrustTypes'
      BY <3>1, <3>3, <3>4 DEF TrustInv, TrustTypes, TrustRecord
    <3>6. trust = NoTrust => LoadsRoots'
      BY <3>1, TrustLists DEF NoTrust, LoadsRoots, KeptTo
    <3>7. Loaded => Loaded'
      BY <3>1 DEF Loaded
    <3>8. Loads'
      BY <1>0, <3>1, <3>3, <3>4, <3>6, <3>7 DEF Loads
    <3> QED
      BY <3>1, <3>4, <3>5, <3>8, ChainsStay DEF TrustInv
  <2> QED
    BY <2>1, <2>2
<1>3. ASSUME NEW fails \in BOOLEAN, configure(fails) \/ pump_once(fails) \/ Loop(fails)
      PROVE  TrustInv'
  <2>1. /\ UNCHANGED trustVars /\ op.phase \in {"make", "pump", "check"}
        /\ op' = NoOp \/ Phase("check") \/ Phase("pump")
    BY <1>3 DEF configure, pump_once, Loop, Stop
  <2>2. ready.roots
    BY <1>0, <2>1 DEF Loads
  <2> QED
    BY <1>0, <1>1, <2>1, <2>2, StoreStays DEF OpenPhases
<1>4. ASSUME NEW t \in Transfers, NEW s \in Scripts, NEW follow \in BOOLEAN, http_open(t, s, follow)
      PROVE  TrustInv'
  <2>1. /\ UNCHANGED trustVars /\ op = NoOp
        /\ op' = [who |-> t, what |-> "open", phase |-> "ready", max |-> 0]
    BY <1>4 DEF http_open
  <2>2. op' \in OpRecord /\ op'.phase = "ready"
    BY <2>1 DEF OpRecord, OpenPhases
  <2> QED
    BY <1>0, <2>1, <2>2, StoreStays
<1> QED
  BY <1>2, <1>3, <1>4 DEF OpenNext

(* A load that fails leaves nothing behind.                                *)
LEMMA LoadFails ==
  ASSUME TrustInv, LoadTrouble, op.phase \in {"roots", "revoked", "file"}
  PROVE  TrustInv'
<1>1. /\ trust' = NoTrust /\ op' = NoOp /\ UNCHANGED <<ready, chain, chainRoot, judged>>
  BY DEF LoadTrouble, NotReady
<1>2. TrustTypes'
  BY <1>1 DEF TrustInv, TrustTypes, NoTrust, NoOp, OpRecord, OpenPhases, TrustRecord
<1>3. ~ready.roots /\ ~ready.multi
  BY DEF TrustInv, Loads, TrustTypes, TrustRecord
<1>4. Loads'
  BY <1>1, <1>3 DEF Loads, NoOp
<1> QED
  BY <1>1, <1>2, <1>4, ChainsStay DEF TrustInv

(* A load that goes on.                                                    *)
LEMMA LoadGoes ==
  ASSUME TrustInv, TrustTypes', UNCHANGED <<ready, chain, chainRoot, judged>>,
         op.phase \in {"roots", "revoked"},
         \/ op'.phase = "roots" /\ LoadsRoots'
         \/ op'.phase = "revoked" /\ LoadsRevoked'
         \/ op'.phase = "file" /\ Loaded'
  PROVE  TrustInv'
<1>1. ~ready.roots /\ ~ready.multi
  BY DEF TrustInv, Loads, TrustTypes, TrustRecord
<1>2. Loads'
  BY <1>1 DEF Loads
<1> QED
  BY <1>2, ChainsStay DEF TrustInv

(* One row more.                                                           *)
LEMMA RowMore ==
  ASSUME NEW kept \in Seq(Rows), NEW n \in 1 .. Len(RootRows), KeptTo(n - 1, kept)
  PROVE  LET row == RootRows[n]
             more == IF row.reads THEN keep_distrusted(row, kept) ELSE kept
         IN  more \in Seq(Rows) /\ KeptTo(n, more)
<1>1. Len(RootRows) \in Nat /\ RootRows[n] \in Rows /\ n \in Nat
  BY TrustLists
<1>2. CASE Dated(n)
  <2> DEFINE more == Append(kept, RootRows[n])
  <2>1. /\ more \in Seq(Rows) /\ Len(more) = Len(kept) + 1 /\ Len(kept) \in Nat
        /\ \A i \in 1 .. Len(kept) : more[i] = kept[i]
        /\ more[Len(kept) + 1] = RootRows[n]
    BY <1>1
  <2> HIDE DEF more
  <2>2. KeptTo(n, more)
    <3>1. ASSUME NEW i \in 1 .. Len(more) PROVE \E k \in 1 .. n : Dated(k) /\ more[i] = RootRows[k]
      <4>1. CASE i = Len(kept) + 1
        BY <1>1, <1>2, <2>1, <4>1
      <4>2. CASE i \in 1 .. Len(kept)
        <5>1. PICK k \in 1 .. (n - 1) : Dated(k) /\ kept[i] = RootRows[k]
          BY <4>2 DEF KeptTo
        <5> QED
          BY <1>1, <2>1, <4>2, <5>1
      <4> QED
        BY <2>1, <4>1, <4>2
    <3>2. ASSUME NEW k \in 1 .. n, Dated(k) PROVE \E i \in 1 .. Len(more) : more[i] = RootRows[k]
      <4>1. CASE k = n
        BY <2>1, <4>1
      <4>2. CASE k \in 1 .. (n - 1)
        <5>1. PICK i \in 1 .. Len(kept) : kept[i] = RootRows[k]
          BY <3>2, <4>2 DEF KeptTo
        <5> QED
          BY <2>1, <5>1
      <4> QED
        BY <1>1, <4>1, <4>2
    <3> QED
      BY <3>1, <3>2 DEF KeptTo
  <2> QED
    BY <1>2, <2>1, <2>2 DEF Dated, keep_distrusted, more
<1>3. CASE ~Dated(n)
  <2>1. KeptTo(n, kept)
    <3>1. \A k \in 1 .. n : k \in 1 .. (n - 1) \/ k = n
      BY <1>1
    <3>2. \A k \in 1 .. (n - 1) : k \in 1 .. n
      BY <1>1
    <3> QED
      BY <1>3, <3>1, <3>2 DEF KeptTo
  <2>2. (IF RootRows[n].reads THEN keep_distrusted(RootRows[n], kept) ELSE kept) = kept
    BY <1>3 DEF Dated, keep_distrusted
  <2> QED
    BY <2>1, <2>2
<1> QED
  BY <1>2, <1>3

LEMMA RootsStep ==
  ASSUME TrustInv, NEW fails \in BOOLEAN, load_roots(fails)
  PROVE  TrustInv'
<1>0. op.phase = "roots" /\ LoadsRoots /\ op \in OpRecord /\ TrustTypes
  BY DEF load_roots, TrustInv, Loads, TrustTypes, TrustRecord
<1>1. CASE fails
  BY <1>0, <1>1, LoadFails DEF load_roots
<1>2. CASE ~fails /\ trust.row <= Len(RootRows)
  <2> DEFINE row == RootRows[trust.row]
             kept == IF row.reads THEN keep_distrusted(row, trust.distrusted) ELSE trust.distrusted
             roots == IF row.reads THEN Append(trust.roots, row.id) ELSE trust.roots
  <2>1. /\ trust' = [trust EXCEPT !.row = @ + 1, !.roots = roots, !.distrusted = kept]
        /\ UNCHANGED <<op, ready, chain, chainRoot, judged>>
    BY <1>2 DEF load_roots
  <2>2. trust.row \in 1 .. Len(RootRows) /\ Len(RootRows) \in Nat /\ row \in Rows
    BY <1>0, <1>2, TrustLists DEF TrustTypes, TrustRecord
  <2>3. kept \in Seq(Rows) /\ KeptTo(trust.row, kept)
    BY <1>0, <2>2, RowMore DEF LoadsRoots, TrustTypes, TrustRecord
  <2>4. roots \in Seq(Ids)
    <3>1. row.id \in Ids /\ trust.roots \in Seq(Ids)
      BY <1>0, <2>2 DEF TrustTypes, TrustRecord, Ids
    <3> HIDE DEF row
    <3> QED
      BY <3>1
  <2> HIDE DEF roots, kept
  <2>5. /\ trust' \in TrustRecord
        /\ trust'.row = trust.row + 1 /\ trust'.distrusted = kept /\ trust'.revoked = trust.revoked
    <3>1. trust \in TrustRecord /\ trust.row + 1 \in Nat \ {0}
      BY <1>0, <2>2 DEF TrustTypes
    <3> QED
      BY <2>1, <2>3, <2>4, <3>1 DEF TrustRecord
  <2>6. TrustTypes'
    BY <1>0, <2>1, <2>5 DEF TrustTypes, TrustRecord
  <2>7. trust'.row - 1 = trust.row /\ trust'.row <= Len(RootRows) + 1
    BY <2>2, <2>5
  <2>8. LoadsRoots'
    BY <1>0, <2>3, <2>5, <2>7 DEF LoadsRoots
  <2> QED
    BY <1>0, <2>1, <2>6, <2>8, LoadGoes
<1>4. CASE ~fails /\ ~(trust.row <= Len(RootRows)) /\ trust.roots = <<>>
  BY <1>0, <1>4, LoadFails DEF load_roots
<1>3. CASE ~fails /\ ~(trust.row <= Len(RootRows)) /\ trust.roots # <<>>
  <2>1. trust' = [trust EXCEPT !.row = 1] /\ Phase("revoked") /\ UNCHANGED <<ready, chain, chainRoot, judged>>
    BY <1>3 DEF load_roots
  <2>2. op' \in OpRecord /\ op'.phase = "revoked"
    BY <1>0, <2>1 DEF Phase, OpRecord, OpenPhases
  <2>3. TrustTypes' /\ trust'.row = 1 /\ trust'.distrusted = trust.distrusted /\ trust'.revoked = trust.revoked
    BY <1>0, <2>1, <2>2, SMTT(30) DEF TrustTypes, TrustRecord
  <2>4. trust.row - 1 = Len(RootRows) /\ Len(RevokedRows) \in Nat
    BY <1>0, <1>3, TrustLists DEF LoadsRoots, TrustTypes, TrustRecord
  <2>5. LoadsRevoked'
    BY <1>0, <2>3, <2>4 DEF LoadsRoots, LoadsRevoked, NamedTo
  <2> QED
    BY <1>0, <2>1, <2>2, <2>3, <2>5, LoadGoes
<1> QED
  BY <1>1, <1>2, <1>3, <1>4

LEMMA RevokedStep ==
  ASSUME TrustInv, NEW fails \in BOOLEAN, load_revoked(fails)
  PROVE  TrustInv'
<1>0. op.phase = "revoked" /\ LoadsRevoked /\ op \in OpRecord /\ TrustTypes
  BY DEF load_revoked, TrustInv, Loads, TrustTypes, TrustRecord
<1>1. CASE fails
  BY <1>0, <1>1, LoadFails DEF load_revoked
<1>2. CASE ~fails /\ trust.row <= Len(RevokedRows)
  <2> DEFINE names == Append(trust.revoked, RevokedRows[trust.row])
  <2>1. /\ trust' = [trust EXCEPT !.row = @ + 1, !.revoked = names]
        /\ UNCHANGED <<op, ready, chain, chainRoot, judged>>
    BY <1>2 DEF load_revoked
  <2>2. trust.row \in 1 .. Len(RevokedRows) /\ Len(RevokedRows) \in Nat /\ RevokedRows[trust.row] \in Names
    BY <1>0, <1>2, TrustLists DEF TrustTypes, TrustRecord
  <2>3. /\ names \in Seq(Names) /\ Len(names) = Len(trust.revoked) + 1
        /\ \A i \in 1 .. Len(trust.revoked) : names[i] = trust.revoked[i]
        /\ names[Len(trust.revoked) + 1] = RevokedRows[trust.row]
    BY <1>0, <2>2 DEF TrustTypes, TrustRecord
  <2> HIDE DEF names
  <2>4. NamedTo(trust.row, names)
    <3>1. /\ Len(trust.revoked) = trust.row - 1 /\ trust.row \in Nat
          /\ \A i \in 1 .. (trust.row - 1) : trust.revoked[i] = RevokedRows[i]
      BY <1>0, <2>2 DEF LoadsRevoked, NamedTo
    <3>2. Len(names) = trust.row /\ names[trust.row] = RevokedRows[trust.row]
      BY <2>2, <2>3, <3>1
    <3>3. ASSUME NEW i \in 1 .. trust.row PROVE names[i] = RevokedRows[i]
      <4>1. CASE i = trust.row
        BY <3>2, <4>1
      <4>2. CASE i \in 1 .. (trust.row - 1)
        BY <2>3, <3>1, <4>2
      <4> QED
        BY <3>1, <4>1, <4>2
    <3> QED
      BY <3>2, <3>3 DEF NamedTo
  <2>5. /\ trust' \in TrustRecord
        /\ trust'.row = trust.row + 1 /\ trust'.distrusted = trust.distrusted /\ trust'.revoked = names
    <3>1. trust \in TrustRecord /\ trust.row + 1 \in Nat \ {0}
      BY <1>0, <2>2 DEF TrustTypes
    <3> QED
      BY <2>1, <2>3, <3>1 DEF TrustRecord
  <2>6. TrustTypes'
    BY <1>0, <2>1, <2>5 DEF TrustTypes, TrustRecord
  <2>7. trust'.row - 1 = trust.row /\ trust'.row <= Len(RevokedRows) + 1
    BY <2>2, <2>5
  <2>8. LoadsRevoked'
    BY <1>0, <2>4, <2>5, <2>7 DEF LoadsRevoked
  <2> QED
    BY <1>0, <2>1, <2>6, <2>8, LoadGoes
<1>3. CASE ~fails /\ ~(trust.row <= Len(RevokedRows))
  <2>1. trust' = [trust EXCEPT !.row = 1] /\ Phase("file") /\ UNCHANGED <<ready, chain, chainRoot, judged>>
    BY <1>3 DEF load_revoked
  <2>2. op' \in OpRecord /\ op'.phase = "file"
    BY <1>0, <2>1 DEF Phase, OpRecord, OpenPhases
  <2>3. TrustTypes' /\ trust'.row = 1 /\ trust'.distrusted = trust.distrusted /\ trust'.revoked = trust.revoked
    BY <1>0, <2>1, <2>2, SMTT(30) DEF TrustTypes, TrustRecord
  <2>4. trust.row - 1 = Len(RevokedRows)
    BY <1>0, <1>3, TrustLists DEF LoadsRevoked, TrustTypes, TrustRecord
  <2>5. Loaded'
    BY <1>0, <2>3, <2>4 DEF LoadsRevoked, Loaded
  <2> QED
    BY <1>0, <2>1, <2>2, <2>3, <2>5, LoadGoes
<1> QED
  BY <1>1, <1>2, <1>3

(* The user's own file, and curl's multi handle.                           *)
LEMMA ReadySteps ==
  ASSUME TrustInv, NEW fails \in BOOLEAN, add_cert_file(fails) \/ curl_multi_init(fails)
  PROVE  TrustInv'
<1>0. op \in OpRecord /\ TrustTypes /\ Loads
  BY DEF TrustInv, TrustTypes, TrustRecord
<1>1. CASE add_cert_file(fails) /\ fails
  BY <1>1, LoadFails DEF add_cert_file
<1>2. CASE curl_multi_init(fails) /\ fails
  <2>1. UNCHANGED trustVars /\ op' = NoOp /\ op.phase = "multi"
    BY <1>2 DEF curl_multi_init, NotReady, trustVars
  <2>2. NoOp \in OpRecord /\ NoOp.phase = "none"
    BY DEF NoOp, OpRecord, OpenPhases
  <2> QED
    BY <2>1, <2>2, StoreStays
<1>3. CASE ~fails
  <2>1. /\ UNCHANGED <<trust, chain, chainRoot, judged>> /\ Loaded
        /\ op'.phase \in {"multi", "make"} /\ op' \in OpRecord
        /\ ready' \in [curl : BOOLEAN, roots : BOOLEAN, multi : BOOLEAN] /\ ready'.roots
    <3>1. CASE add_cert_file(fails)
      BY <1>0, <1>3, <3>1, ZenonT(40) DEF add_cert_file, Phase, OpRecord, OpenPhases, TrustTypes, Loads, TrustRecord
    <3>2. CASE curl_multi_init(fails)
      BY <1>0, <1>3, <3>2, ZenonT(40) DEF curl_multi_init, Phase, OpRecord, OpenPhases, TrustTypes, Loads, TrustRecord
    <3> QED
      BY <3>1, <3>2
  <2>2. TrustTypes' /\ Loaded'
    BY <1>0, <2>1 DEF TrustTypes, Loaded, TrustRecord
  <2>3. Loads'
    BY <2>1, <2>2 DEF Loads
  <2> QED
    BY <2>1, <2>2, <2>3, ChainsStay DEF TrustInv
<1> QED
  BY <1>1, <1>2, <1>3

(* A root's date is one: a certificate is a row once.                      *)
LEMMA OneDate ==
  ASSUME NEW crt, NEW d \in DatesOf(crt)
  PROVE  d # 0 /\ \A e \in DatesOf(crt) : e = d
<1>1. PICK k \in 1 .. Len(RootRows) : RootRows[k].id = crt.id /\ Dated(k) /\ d = RootRows[k].after
  BY DEF DatesOf
<1>2. ASSUME NEW e \in DatesOf(crt) PROVE e = d
  <2>1. PICK m \in 1 .. Len(RootRows) : RootRows[m].id = crt.id /\ Dated(m) /\ e = RootRows[m].after
    BY <1>2 DEF DatesOf
  <2>2. k \in DOMAIN RootRows /\ m \in DOMAIN RootRows
    BY <1>1, <2>1, TrustLists
  <2>3. m = k
    BY <1>1, <2>1, <2>2, HttpAssumption
  <2> QED
    BY <1>1, <2>1, <2>3
<1> QED
  BY <1>1, <1>2 DEF Dated

(* The store, once loaded, answers as the binary's tables do.              *)
LEMMA StoreAnswers ==
  ASSUME Loaded, NEW crt, NEW unhashed
  PROVE  (is_revoked(crt, unhashed) <=> Revoked(crt, unhashed)) /\ Met(crt) = DatesOf(crt)
<1>1. is_revoked(crt, unhashed) <=> Revoked(crt, unhashed)
  BY DEF Loaded, NamedTo, is_revoked, Revoked, NamedBy
<1>2. ASSUME NEW d \in Met(crt) PROVE d \in DatesOf(crt)
  <2>1. PICK i \in 1 .. Len(trust.distrusted) : trust.distrusted[i].id = crt.id /\ d = trust.distrusted[i].after
    BY <1>2 DEF Met
  <2>2. PICK k \in 1 .. Len(RootRows) : Dated(k) /\ trust.distrusted[i] = RootRows[k]
    BY <2>1 DEF Loaded, KeptTo
  <2> QED
    BY <2>1, <2>2 DEF DatesOf
<1>3. ASSUME NEW d \in DatesOf(crt) PROVE d \in Met(crt)
  <2>1. PICK k \in 1 .. Len(RootRows) : RootRows[k].id = crt.id /\ Dated(k) /\ d = RootRows[k].after
    BY <1>3 DEF DatesOf
  <2>2. PICK i \in 1 .. Len(trust.distrusted) : trust.distrusted[i] = RootRows[k]
    BY <2>1 DEF Loaded, KeptTo
  <2> QED
    BY <2>1, <2>2 DEF Met
<1> QED
  BY <1>1, <1>2, <1>3

(* One certificate more.                                                   *)
LEMMA OneMore ==
  ASSUME NEW c, NEW n \in Nat, NEW unhashed, NEW marks, NEW root, NEW marks2, NEW root2,
         FlagsTo(c, n, unhashed, marks), RootTo(c, n, root),
         marks2 = marks \cup (IF Revoked(c[n + 1], unhashed) THEN {"revoked"} ELSE {}),
         IF DatesOf(c[n + 1]) = {} THEN root2 = root ELSE root2 \in DatesOf(c[n + 1])
  PROVE  FlagsTo(c, n + 1, unhashed, marks2) /\ RootTo(c, n + 1, root2)
<1>1. \A i \in 1 .. (n + 1) : i = n + 1 \/ i \in 1 .. n
  OBVIOUS
<1>2. n + 1 \in 1 .. (n + 1) /\ \A i \in 1 .. n : i \in 1 .. (n + 1)
  OBVIOUS
<1>3. \A i \in 1 .. (n + 1) : i <= n + 1
  OBVIOUS
<1>4. FlagsTo(c, n + 1, unhashed, marks2)
  <2>1. (\E i \in 1 .. (n + 1) : Revoked(c[i], unhashed))
          <=> (Revoked(c[n + 1], unhashed) \/ \E i \in 1 .. n : Revoked(c[i], unhashed))
    BY <1>1, <1>2
  <2> QED
    BY <2>1 DEF FlagsTo
<1>5. RootTo(c, n + 1, root2)
  <2>1. CASE DatesOf(c[n + 1]) # {}
    BY <1>2, <1>3, <2>1 DEF RootTo
  <2>2. CASE DatesOf(c[n + 1]) = {}
    BY <1>1, <1>2, <2>2 DEF RootTo
  <2> QED
    BY <2>1, <2>2
<1> QED
  BY <1>4, <1>5

(* At the server's own certificate.                                        *)
LEMMA LateOr ==
  ASSUME NEW c, Len(c) \in Nat, NEW root, RootTo(c, Len(c), root)
  PROVE  Late(c) <=> root # 0 /\ c[Len(c)].issued > root
<1>1. CASE root = 0 /\ \A i \in 1 .. Len(c) : DatesOf(c[i]) = {}
  BY <1>1 DEF Late
<1>2. CASE \E i \in 1 .. Len(c) : root \in DatesOf(c[i]) /\ \A k \in 1 .. Len(c) : DatesOf(c[k]) # {} => k <= i
  <2>1. PICK i \in 1 .. Len(c) : root \in DatesOf(c[i]) /\ \A k \in 1 .. Len(c) : DatesOf(c[k]) # {} => k <= i
    BY <1>2
  <2>2. root # 0 /\ \A e \in DatesOf(c[i]) : e = root
    BY <2>1, OneDate
  <2>3. ASSUME Late(c) PROVE c[Len(c)].issued > root
    <3>1. PICK m \in 1 .. Len(c) : /\ \A k \in 1 .. Len(c) : DatesOf(c[k]) # {} => k <= m
                                   /\ \E d \in DatesOf(c[m]) : c[Len(c)].issued > d
      BY <2>3 DEF Late
    <3>2. m <= i /\ i <= m
      BY <2>1, <3>1
    <3>3. m = i
      BY <3>2
    <3> QED
      BY <2>2, <3>1, <3>3
  <2>4. ASSUME c[Len(c)].issued > root PROVE Late(c)
    BY <2>1, <2>4 DEF Late
  <2> QED
    BY <2>2, <2>3, <2>4
<1> QED
  BY <1>1, <1>2 DEF RootTo

LEMMA HandshakeStep ==
  ASSUME TrustInv, NEW c \in Chains, NEW unhashed \in BOOLEAN, Handshake(c, unhashed)
  PROVE  TrustInv'
<1>0. TrustTypes /\ Loads /\ Verifying /\ Judged
  BY DEF TrustInv
<1>1. /\ op.phase = "pump" /\ chain = NoChain /\ UNCHANGED <<ready, trust, chainRoot, judged, op>>
      /\ chain' = [left |-> c, flags |-> {}, whole |-> c, unhashed |-> unhashed]
  BY DEF Handshake
<1>2. c \in Seq(Crts) /\ c # << >> /\ Len(c) \in Nat
  BY TrustLists
<1>3. TrustTypes'
  BY <1>0, <1>1, <1>2 DEF TrustTypes, ChainRecord
<1>4. Loads'
  <2>1. (Loaded => Loaded') /\ (LoadsRoots => LoadsRoots') /\ (LoadsRevoked => LoadsRevoked')
    BY <1>1 DEF Loaded, LoadsRoots, LoadsRevoked
  <2> QED
    BY <1>0, <1>1, <2>1 DEF Loads
<1>5. ready'.roots /\ chainRoot' = 0
  BY <1>0, <1>1 DEF Loads, Verifying, NoChain
<1>6. /\ chain'.left = c /\ chain'.flags = {} /\ chain'.whole = c
  BY <1>1
<1>7. Behind(0)'
  BY <1>2, <1>5, <1>6 DEF Behind, FlagsTo, RootTo
<1>8. Verifying'
  BY <1>2, <1>5, <1>6, <1>7 DEF Verifying
<1>9. Judged'
  BY <1>0, <1>1 DEF Judged
<1> QED
  BY <1>3, <1>4, <1>8, <1>9 DEF TrustInv

LEMMA CertificateStep ==
  ASSUME TrustInv, cosmic_tls_distrust
  PROVE  TrustInv'
<1>0. TrustTypes /\ Loads /\ Verifying /\ Judged /\ chain.left # << >> /\ chain \in ChainRecord
  BY DEF TrustInv, TrustTypes, cosmic_tls_distrust
<1>1. ready.roots /\ Loaded /\ chain.flags \subseteq {"revoked"}
  BY <1>0 DEF Verifying, Loads
<1>2. PICK n \in Nat : Behind(n)
  BY <1>0 DEF Verifying
<1> DEFINE c == chain.whole
           ahead == chain.left
           u == chain.unhashed
           crt == Head(ahead)
           marks == chain.flags \cup (IF is_revoked(crt, u) THEN {"revoked"} ELSE {})
           root == IF Met(crt) = {} THEN chainRoot ELSE CHOOSE d \in Met(crt) : TRUE
           last == marks \cup (IF root # 0 /\ crt.issued > root THEN {"other"} ELSE {})
<1>3. /\ ahead \in Seq(Crts) /\ c \in Seq(Crts) /\ Len(ahead) \in Nat /\ Len(c) \in Nat /\ Len(ahead) > 0
      /\ crt = ahead[1]
  BY <1>0 DEF ChainRecord
<1>4. n + Len(ahead) = Len(c) /\ \A i \in 1 .. Len(ahead) : ahead[i] = c[n + i]
  BY <1>2 DEF Behind
<1>5. crt = c[n + 1]
  BY <1>3, <1>4
<1>6. /\ marks = chain.flags \cup (IF Revoked(c[n + 1], u) THEN {"revoked"} ELSE {})
      /\ IF DatesOf(c[n + 1]) = {} THEN root = chainRoot ELSE root \in DatesOf(c[n + 1])
  BY <1>1, <1>5, StoreAnswers
<1>7. UNCHANGED <<ready, trust, op>>
  BY DEF cosmic_tls_distrust
<1>8. Loads'
  <2>1. (Loaded => Loaded') /\ (LoadsRoots => LoadsRoots') /\ (LoadsRevoked => LoadsRevoked')
    BY <1>7 DEF Loaded, LoadsRoots, LoadsRevoked
  <2> QED
    BY <1>0, <1>7, <2>1 DEF Loads
<1>9. /\ Len(ahead) > 1 => /\ chainRoot' = root /\ judged' = judged
                          /\ chain' = [chain EXCEPT !.left = Tail(@), !.flags = marks]
      /\ ~(Len(ahead) > 1) => /\ chainRoot' = 0 /\ chain' = NoChain
                             /\ judged' = judged \cup {[chain EXCEPT !.left = << >>, !.flags = last]}
  BY DEF cosmic_tls_distrust
<1>10. marks \subseteq {"revoked"} /\ last \subseteq {"revoked", "other"}
  BY <1>1
<1>11. FlagsTo(c, n + 1, u, marks) /\ RootTo(c, n + 1, root)
  <2> HIDE DEF marks, root
  <2>1. FlagsTo(c, n, u, chain.flags) /\ RootTo(c, n, chainRoot)
    BY <1>2 DEF Behind
  <2> QED
    BY <1>6, <2>1, OneMore
<1> HIDE DEF marks, root
<1>12. CASE Len(ahead) > 1
  <2> DEFINE rest == Tail(ahead)
  <2>1. /\ rest \in Seq(Crts) /\ Len(rest) = Len(ahead) - 1 /\ \A i \in 1 .. Len(rest) : rest[i] = ahead[i + 1]
    BY <1>3, <1>12
  <2> HIDE DEF rest
  <2>2. /\ chain' \in ChainRecord /\ chain'.left = rest /\ chain'.flags = marks
        /\ chain'.whole = c /\ chain'.unhashed = u
    BY <1>0, <1>9, <1>10, <1>12, <2>1 DEF ChainRecord, rest
  <2>3. TrustTypes'
    BY <1>0, <1>7, <1>9, <1>12, <2>2 DEF TrustTypes
  <2>4. rest # << >>
    BY <1>3, <1>12, <2>1
  <2>5. n + 1 \in Nat /\ n + 1 + Len(rest) = Len(c)
    <3>1. n + Len(ahead) = Len(c) /\ Len(rest) = Len(ahead) - 1 /\ Len(ahead) \in Nat /\ Len(c) \in Nat
      BY <1>3, <1>4, <2>1
    <3>2. PICK a \in Nat : a = Len(ahead)
      BY <3>1
    <3>3. PICK b \in Nat : b = Len(c)
      BY <3>1
    <3>4. n \in Nat /\ n + a = b /\ Len(rest) = a - 1
      BY <1>2, <3>1, <3>2, <3>3
    <3>5. n + 1 \in Nat /\ n + 1 + (a - 1) = b
      BY ONLY a \in Nat, b \in Nat, <3>4
    <3> QED
      BY <3>3, <3>4, <3>5
  <2>6. ASSUME NEW i \in 1 .. Len(rest) PROVE rest[i] = c[n + 1 + i]
    <3>1. i + 1 \in 1 .. Len(ahead) /\ n + (i + 1) = n + 1 + i
      BY <1>3, <2>1
    <3> QED
      BY <1>4, <2>1, <3>1
  <2>7. Behind(n + 1)'
    BY <1>9, <1>11, <1>12, <2>2, <2>5, <2>6 DEF Behind
  <2>8. Verifying'
    BY <1>1, <1>7, <1>10, <2>2, <2>4, <2>5, <2>7 DEF Verifying
  <2>9. Judged'
    BY <1>0, <1>7, <1>9, <1>12 DEF Judged
  <2> QED
    BY <1>8, <2>3, <2>8, <2>9 DEF TrustInv
<1>13. CASE ~(Len(ahead) > 1)
  <2> DEFINE j == [chain EXCEPT !.left = << >>, !.flags = last]
  <2>1. Len(ahead) = 1 /\ n + 1 = Len(c)
    <3>1. n + Len(ahead) = Len(c) /\ Len(ahead) \in Nat /\ Len(c) \in Nat /\ Len(ahead) > 0 /\ ~(Len(ahead) > 1)
      BY <1>3, <1>4, <1>13
    <3>2. \A k, a, b \in Nat : k + a = b /\ a > 0 /\ ~(a > 1) => a = 1 /\ k + 1 = b
      OBVIOUS
    <3>3. n \in Nat
      BY <1>2
    <3> QED
      BY <3>1, <3>2, <3>3
  <2>2. crt = c[Len(c)]
    BY <1>5, <2>1
  <2>3. Late(c) <=> root # 0 /\ crt.issued > root
    BY <1>3, <1>11, <2>1, <2>2, LateOr
  <2>4. ("other" \in last <=> Late(c)) /\ ("revoked" \in last <=> "revoked" \in marks)
    BY <1>10, <2>3
  <2> HIDE DEF last
  <2>5. j \in ChainRecord /\ j.whole = c /\ j.unhashed = u /\ j.flags = last
    <3>1. << >> \in Seq(Crts) /\ last \in SUBSET {"revoked", "other"} /\ chain \in ChainRecord
      BY <1>0, <1>10
    <3> QED
      BY ONLY <3>1 DEF ChainRecord
  <2>6. FlagsTo(c, Len(c), u, last)
    BY <1>11, <2>1, <2>4 DEF FlagsTo
  <2>7. JudgedAlone(j)
    <3> HIDE DEF j
    <3> QED
      BY <2>4, <2>5, <2>6 DEF JudgedAlone
  <2>8. chainRoot' = 0 /\ chain' = NoChain /\ judged' = judged \cup {j}
    BY <1>9, <1>13
  <2> HIDE DEF j
  <2>9. NoChain \in ChainRecord /\ NoChain.left = << >>
    BY DEF NoChain, ChainRecord
  <2>10. TrustTypes'
    BY <1>0, <1>7, <2>5, <2>8, <2>9 DEF TrustTypes
  <2>11. Verifying'
    BY <2>8, <2>9 DEF Verifying
  <2>12. Judged'
    BY <1>0, <1>1, <1>7, <2>7, <2>8 DEF Judged
  <2> QED
    BY <1>8, <2>10, <2>11, <2>12 DEF TrustInv
<1> QED
  BY <1>12, <1>13

LEMMA TrustSteps == TrustInv /\ [TrustNext]_httpVars => TrustInv'
<1> SUFFICES ASSUME TrustInv, [TrustNext]_httpVars
             PROVE  TrustInv'
  OBVIOUS
<1>1. CASE UNCHANGED httpVars
  <2>1. UNCHANGED <<ready, trust, chain, chainRoot, judged, op>>
    BY <1>1 DEF httpVars, trustVars
  <2>2. TrustTypes' /\ Loads' /\ Verifying' /\ Judged'
    BY <2>1 DEF TrustInv, TrustTypes, Loads, Loaded, LoadsRoots, LoadsRevoked, Verifying, Behind, Judged
  <2> QED
    BY <2>2 DEF TrustInv
<1>2. CASE TrustNext
  BY <1>2, OpenSteps, CertificateStep, RootsStep, RevokedStep, ReadySteps, HandshakeStep DEF TrustNext
<1> QED
  BY <1>1, <1>2

(* For any tables of roots and revocations, any chains and any failed      *)
(* loads before one that succeeds: once a chain is judged the store is     *)
(* whole, no request loads it again, and the root a chain's date is taken  *)
(* from is one of its own (load_roots, load_revoked, chain_root).          *)
THEOREM TrustInvariance == TrustSpec => []TrustInv
BY TrustInits, TrustSteps, PTL DEF TrustSpec

(* What a chain is refused for is its own, however many loads failed and   *)
(* whatever was verified before (cosmic_tls_distrust, is_revoked).         *)
THEOREM ChainsAreJudgedAlone == TrustSpec => []ChainsJudgedAlone
<1>1. TrustInv => ChainsJudgedAlone
  <2> SUFFICES ASSUME TrustInv, NEW j \in judged
               PROVE  LET c == j.whole
                          Named(crt, row) == IF row.kind = "serial" THEN row.name = crt.issuer /\ row.value = crt.serial
                                             ELSE row.name = crt.subject /\ (j.unhashed \/ row.value = crt.key)
                          revoked == \E i \in 1..Len(c), k \in 1..Len(RevokedRows) : Named(c[i], RevokedRows[k])
                          Dates(i) == {RootRows[k].after : k \in {n \in 1..Len(RootRows) :
                                           RootRows[n].id = c[i].id /\ RootRows[n].reads /\ RootRows[n].after # 0}}
                          dated == {i \in 1..Len(c) : Dates(i) # {}}
                          late == \E i \in dated : /\ \A k \in dated : k <= i
                                                   /\ \E d \in Dates(i) : c[Len(c)].issued > d
                      IN  /\ trust.row = 1 /\ Len(trust.revoked) = Len(RevokedRows)
                          /\ ("revoked" \in j.flags <=> revoked)
                          /\ ("other" \in j.flags <=> late)
    BY DEF ChainsJudgedAlone
  <2>1. JudgedAlone(j) /\ Loaded
    BY DEF TrustInv, Judged, Loads
  <2> DEFINE c == j.whole
             dated == {i \in 1 .. Len(c) : DatesOf(c[i]) # {}}
             Dates(i) == {RootRows[k].after : k \in {n \in 1..Len(RootRows) :
                              RootRows[n].id = c[i].id /\ RootRows[n].reads /\ RootRows[n].after # 0}}
             Named(crt, row) == IF row.kind = "serial" THEN row.name = crt.issuer /\ row.value = crt.serial
                                ELSE row.name = crt.subject /\ (j.unhashed \/ row.value = crt.key)
  <2>2. \A i \in 1 .. Len(c) : DatesOf(c[i]) = Dates(i)
    BY DEF DatesOf, Dated
  <2>6. \A i \in 1 .. Len(c), k \in 1 .. Len(RevokedRows) :
          NamedBy(c[i], j.unhashed, RevokedRows[k]) <=> Named(c[i], RevokedRows[k])
    BY DEF NamedBy
  <2>3. "revoked" \in j.flags <=> \E i \in 1 .. Len(c), k \in 1 .. Len(RevokedRows) : NamedBy(c[i], j.unhashed, RevokedRows[k])
    BY <2>1 DEF JudgedAlone, FlagsTo, Revoked
  <2>4. "other" \in j.flags <=> \E i \in dated : /\ \A k \in dated : k <= i
                                                 /\ \E d \in DatesOf(c[i]) : c[Len(c)].issued > d
    BY <2>1 DEF JudgedAlone, Late
  <2>5. trust.row = 1 /\ Len(trust.revoked) = Len(RevokedRows)
    BY <2>1 DEF Loaded, NamedTo
  <2>7. "revoked" \in j.flags <=> \E i \in 1 .. Len(c), k \in 1 .. Len(RevokedRows) : Named(c[i], RevokedRows[k])
    <3> HIDE DEF Named
    <3> QED
      BY <2>3, <2>6
  <2>8. "other" \in j.flags <=>
          LET days == {i \in 1 .. Len(c) : Dates(i) # {}}
          IN  \E i \in days : (\A k \in days : k <= i) /\ \E d \in Dates(i) : c[Len(c)].issued > d
    <3> HIDE DEF Dates
    <3> QED
      BY <2>2, <2>4
  <2> QED
    BY <2>5, <2>7, <2>8
<1> QED
  BY <1>1, TrustInvariance, PTL

(***************************************************************************)
(* Transfers (module Http).  What came of a script so far is a function of *)
(* how many of its events curl has been through: a buffered, held or read  *)
(* byte changes its place and never its number.                            *)
(***************************************************************************)
Octets == UNION {UNION {{s[i].data[k] : k \in DOMAIN s[i].data} : i \in DOMAIN s} : s \in Scripts}
Items == UNION {{s[i] : i \in DOMAIN s} : s \in Scripts}
Walked == [skips : BOOLEAN, over : BOOLEAN, bytes : Seq(Octets)]
Unsent == [skips |-> FALSE, over |-> FALSE, bytes |-> << >>]

\* What FinalBody goes through.
WalkOf(script, follow) ==
    LET f[i \in 0..Len(script)] ==
            IF i = 0 THEN [skips |-> FALSE, over |-> FALSE, bytes |-> << >>]
            ELSE Delivers(f[i - 1], script[i], follow)
    IN  f
Through(f, script, follow, n) ==
  f = [i \in 0 .. n |-> IF i = 0 THEN Unsent ELSE Delivers(f[i - 1], script[i], follow)]

\* The one is how the other begins.
Starts(p, w) == Len(p) <= Len(w) /\ \A i \in 1 .. Len(p) : p[i] = w[i]

(* The scripts, as lists of what they hold.                                *)
LEMMA ScriptLists ==
  ASSUME NEW s \in Scripts
  PROVE  /\ s \in Seq(Items) /\ Len(s) \in Nat
         /\ \A i \in 1 .. Len(s) :
              /\ s[i] \in Items /\ s[i].data \in Seq(Octets)
              /\ s[i].event \in {"interim", "trailer", "redirect", "final", "data", "end", "fail"}
              /\ s[i].event # "data" => s[i].data = << >>
<1>1. s \in Seq({s[i] : i \in DOMAIN s})
  BY HttpAssumption
<1>2. {s[i] : i \in DOMAIN s} \subseteq Items
  BY DEF Items
<1>3. s \in Seq(Items)
  BY <1>1, <1>2, SeqMonotonic
<1>4. Len(s) \in Nat /\ DOMAIN s = 1 .. Len(s)
  BY <1>3
<1>5. ASSUME NEW i \in 1 .. Len(s)
      PROVE  /\ s[i] \in Items /\ s[i].data \in Seq(Octets)
             /\ s[i].event \in {"interim", "trailer", "redirect", "final", "data", "end", "fail"}
             /\ s[i].event # "data" => s[i].data = << >>
  <2>1. i \in DOMAIN s
    BY <1>4
  <2>2. /\ s[i].data \in Seq({s[i].data[k] : k \in DOMAIN s[i].data})
        /\ s[i].event \in {"interim", "trailer", "redirect", "final", "data", "end", "fail"}
        /\ s[i].event # "data" => s[i].data = << >>
    BY <2>1, HttpAssumption
  <2>3. {s[i].data[k] : k \in DOMAIN s[i].data} \subseteq Octets
    BY <2>1 DEF Octets
  <2>4. s[i].data \in Seq(Octets)
    BY <2>2, <2>3, SeqMonotonic
  <2> QED
    BY <1>3, <2>2, <2>4
<1> QED
  BY <1>3, <1>4, <1>5

(* One event more.                                                         *)
LEMMA SentIs ==
  ASSUME NEW p \in Walked, NEW s \in Scripts, NEW i \in 1 .. Len(s), NEW follow \in BOOLEAN
  PROVE  LET q == Delivers(p, s[i], follow)
         IN  /\ q \in Walked /\ Starts(p.bytes, q.bytes)
             /\ p.over => q = p
<1> DEFINE q == Delivers(p, s[i], follow)
           d == s[i].data
           b == p.bytes
<1>1. b \in Seq(Octets) /\ d \in Seq(Octets)
  BY ScriptLists DEF Walked
<1>2. /\ b \o d \in Seq(Octets) /\ Len(b \o d) = Len(b) + Len(d) /\ Len(b) \in Nat /\ Len(d) \in Nat
      /\ \A k \in 1 .. Len(b) : (b \o d)[k] = b[k]
  <2> HIDE DEF b, d
  <2> QED
    BY <1>1, ConcatProperties
<1>3. q = p \/ q = [p EXCEPT !.skips = (s[i].event = "redirect" /\ follow)]
        \/ q = [p EXCEPT !.over = TRUE] \/ q = [p EXCEPT !.bytes = b \o d]
  BY DEF Delivers
<1>4. q \in Walked /\ (q.bytes = b \/ q.bytes = b \o d)
  BY <1>1, <1>2, <1>3 DEF Walked
<1>5. Starts(b, b) /\ Starts(b, b \o d)
  <2> HIDE DEF b, d
  <2>1. Len(b) <= Len(b) /\ Len(b) <= Len(b \o d)
    BY <1>2
  <2> QED
    BY <1>2, <2>1 DEF Starts
<1>6. p.over => q = p
  BY DEF Delivers
<1> QED
  BY <1>4, <1>5, <1>6

(* There is such a function, by induction on the events it goes through.   *)
LEMMA WalkExists ==
  ASSUME NEW s \in Scripts, NEW follow \in BOOLEAN
  PROVE  \E f : Through(f, s, follow, Len(s))
<1> DEFINE T == {n \in Nat : \E f : Through(f, s, follow, n)}
<1>1. 0 \in T
  <2>1. Through([i \in 0 .. 0 |-> Unsent], s, follow, 0)
    BY DEF Through
  <2> QED
    BY <2>1
<1>2. ASSUME NEW n \in Nat, n \in T PROVE n + 1 \in T
  <2>1. PICK f : Through(f, s, follow, n)
    BY <1>2
  <2> DEFINE g == [i \in 0 .. (n + 1) |-> IF i = n + 1 THEN Delivers(f[n], s[n + 1], follow) ELSE f[i]]
  <2>2. \A i \in 0 .. n : f[i] = IF i = 0 THEN Unsent ELSE Delivers(f[i - 1], s[i], follow)
    BY <2>1 DEF Through
  <2>3. \A i \in 0 .. n : g[i] = f[i]
    OBVIOUS
  <2>4. g[n + 1] = Delivers(f[n], s[n + 1], follow)
    OBVIOUS
  <2>5. DOMAIN g = 0 .. (n + 1) /\ g = [i \in 0 .. (n + 1) |-> g[i]]
    OBVIOUS
  <2> HIDE DEF g
  <2>6. ASSUME NEW i \in 0 .. (n + 1)
        PROVE  g[i] = IF i = 0 THEN Unsent ELSE Delivers(g[i - 1], s[i], follow)
    <3>1. CASE i = n + 1
      <4>1. i # 0 /\ i - 1 = n /\ n \in 0 .. n
        BY <3>1
      <4> QED
        BY <2>3, <2>4, <3>1, <4>1
    <3>2. CASE i = 0
      BY <2>2, <2>3, <3>2
    <3>3. CASE i \in 0 .. n /\ i # 0
      <4>1. i - 1 \in 0 .. n
        BY <3>3
      <4> QED
        BY <2>2, <2>3, <3>3, <4>1
    <3> QED
      BY <3>1, <3>2, <3>3
  <2>7. Through(g, s, follow, n + 1)
    BY <2>5, <2>6 DEF Through
  <2> QED
    BY <2>7
<1>3. \A n \in Nat : n \in T
  <2> HIDE DEF T
  <2> QED
    BY <1>1, <1>2, SetInduction
<1> QED
  BY <1>3, ScriptLists

LEMMA WalkSteps ==
  ASSUME NEW s \in Scripts, NEW follow \in BOOLEAN
  PROVE  LET f == WalkOf(s, follow)
         IN  /\ f[0] = Unsent
             /\ \A i \in 1 .. Len(s) : f[i] = Delivers(f[i - 1], s[i], follow)
<1> DEFINE f == WalkOf(s, follow)
<1>1. f = CHOOSE g : Through(g, s, follow, Len(s))
  BY DEF WalkOf, Through, Unsent
<1>2. Through(f, s, follow, Len(s))
  BY <1>1, WalkExists
<1>3. Len(s) \in Nat
  BY ScriptLists
<1> HIDE DEF f
<1>4. f[0] = Unsent /\ \A i \in 1 .. Len(s) : f[i] = Delivers(f[i - 1], s[i], follow)
  BY <1>2, <1>3 DEF Through
<1> QED
  BY <1>4 DEF f

LEMMA WalkTypes ==
  ASSUME NEW s \in Scripts, NEW follow \in BOOLEAN
  PROVE  \A n \in 0 .. Len(s) : WalkOf(s, follow)[n] \in Walked
<1> DEFINE f == WalkOf(s, follow)
           T == {n \in Nat : n <= Len(s) => f[n] \in Walked}
<1>1. Len(s) \in Nat /\ f[0] = Unsent /\ \A i \in 1 .. Len(s) : f[i] = Delivers(f[i - 1], s[i], follow)
  BY ScriptLists, WalkSteps
<1> HIDE DEF f
<1>2. 0 \in T
  <2>1. << >> \in Seq(Octets)
    OBVIOUS
  <2>2. f[0] \in Walked
    BY <1>1, <2>1 DEF Unsent, Walked
  <2> QED
    BY <2>2
<1>3. ASSUME NEW n \in Nat, n \in T PROVE n + 1 \in T
  <2> SUFFICES ASSUME n + 1 <= Len(s) PROVE f[n + 1] \in Walked
    OBVIOUS
  <2>1. n + 1 \in 1 .. Len(s) /\ (n + 1) - 1 = n /\ f[n] \in Walked
    BY <1>1, <1>3
  <2>2. f[n + 1] = Delivers(f[n], s[n + 1], follow)
    BY <1>1, <2>1
  <2> QED
    BY <2>1, <2>2, SentIs
<1>4. \A n \in Nat : n \in T
  <2> HIDE DEF T
  <2> QED
    BY <1>2, <1>3, SetInduction
<1> QED
  BY <1>1, <1>4 DEF f

(* What came is never taken back, and what is over stays so.               *)
LEMMA WalkGrows ==
  ASSUME NEW s \in Scripts, NEW follow \in BOOLEAN, NEW n \in 0 .. Len(s)
  PROVE  LET f == WalkOf(s, follow)
         IN  Starts(f[n].bytes, f[Len(s)].bytes) /\ (f[n].over => f[Len(s)] = f[n])
<1> DEFINE f == WalkOf(s, follow)
           T == {m \in Nat : n + m <= Len(s) => Starts(f[n].bytes, f[n + m].bytes) /\ (f[n].over => f[n + m] = f[n])}
<1>1. /\ Len(s) \in Nat /\ n \in Nat /\ n <= Len(s)
      /\ \A i \in 1 .. Len(s) : f[i] = Delivers(f[i - 1], s[i], follow)
      /\ \A i \in 0 .. Len(s) : f[i] \in Walked
  BY ScriptLists, WalkSteps, WalkTypes
<1> HIDE DEF f
<1>2. 0 \in T
  <2>1. f[n].bytes \in Seq(Octets) /\ n + 0 = n
    BY <1>1 DEF Walked
  <2>2. Starts(f[n].bytes, f[n].bytes)
    BY <2>1 DEF Starts
  <2> QED
    BY <2>1, <2>2
<1>3. ASSUME NEW m \in Nat, m \in T PROVE m + 1 \in T
  <2> SUFFICES ASSUME n + (m + 1) <= Len(s)
               PROVE  Starts(f[n].bytes, f[n + (m + 1)].bytes) /\ (f[n].over => f[n + (m + 1)] = f[n])
    OBVIOUS
  <2>1. /\ n + (m + 1) \in 1 .. Len(s) /\ n + (m + 1) - 1 = n + m /\ n + m \in 0 .. Len(s) /\ n + m <= Len(s)
    BY <1>1
  <2> DEFINE p == f[n]
             q == f[n + m]
             r == f[n + (m + 1)]
  <2>2. p \in Walked /\ q \in Walked /\ r \in Walked /\ r = Delivers(q, s[n + (m + 1)], follow)
    BY <1>1, <2>1
  <2>3. Starts(p.bytes, q.bytes) /\ (p.over => q = p)
    BY <1>3, <2>1
  <2> HIDE DEF p, q, r
  <2>4. Starts(q.bytes, r.bytes) /\ (q.over => r = q)
    BY <2>1, <2>2, SentIs
  <2>5. Len(p.bytes) \in Nat /\ Len(q.bytes) \in Nat /\ Len(r.bytes) \in Nat
    BY <2>2 DEF Walked
  <2>6. Starts(p.bytes, r.bytes)
    BY <2>3, <2>4, <2>5 DEF Starts
  <2> QED
    BY <2>3, <2>4, <2>6 DEF p, q, r
<1>4. \A m \in Nat : m \in T
  <2> HIDE DEF T
  <2> QED
    BY <1>2, <1>3, SetInduction
<1>5. Len(s) - n \in Nat /\ n + (Len(s) - n) = Len(s)
  BY <1>1
<1>6. Len(s) - n \in T
  BY <1>4, <1>5
<1> QED
  BY <1>1, <1>5, <1>6 DEF f
Saids == {"none", "unready", "unmade", "multi", "interrupted", "refused", "opened", "bytes", "end", "error"}
TransferRecord ==
  [at : {"unmade", "opening", "open", "closed"}, follow : BOOLEAN, ready : BOOLEAN, headed : BOOLEAN, done : BOOLEAN,
   ok : BOOLEAN, paused : BOOLEAN, body : Seq(Octets), script : Seq(Items), held : Seq(Octets),
   skips : BOOLEAN, whole : Seq(Octets), read : Seq(Octets), said : Saids]

\* Everything that came, in the order it came.
Come(r) == r.read \o r.body \o r.held

\* A chunk is held only while paused, and by no transfer that is done.
Sturdy(r) == (r.done => r.held = << >>) /\ (r.held # << >> => r.paused)

\* n events of the script are behind, and p is what came of them: a transfer
\* under way has all of it, as has one that ended well; one that failed may
\* have dropped what it held.
RestOf(rest, s, n) == Len(rest) = Len(s) - n /\ \A i \in 1 .. Len(rest) : rest[i] = s[n + i]
Came(r, p) ==
  /\ ~r.done => r.skips = p.skips /\ ~p.over /\ Come(r) = p.bytes
  /\ r.done /\ r.ok => p.over /\ Come(r) = p.bytes
  /\ r.done /\ ~r.ok => Starts(Come(r), p.bytes)
AtEvent(r, s, n) == RestOf(r.script, s, n) /\ r.whole = FinalBody(s, r.follow) /\ Came(r, WalkOf(s, r.follow)[n])
OnScript(r) == \E s \in Scripts : \E n \in 0 .. Len(s) : AtEvent(r, s, n)

\* What no callback changes.
Alike(w, r) ==
  /\ w.at = r.at /\ w.follow = r.follow /\ w.skips = r.skips
  /\ w.whole = r.whole /\ w.read = r.read /\ w.said = r.said
Pressed(r) == r.paused => r.body # << >>

(* A chunk goes to the buffer's end, or is held there.                     *)
LEMMA Wrote ==
  ASSUME NEW r \in TransferRecord, r.held = << >>, NEW chunk \in Seq(Octets)
  PROVE  LET w == write_cb(r, chunk)
         IN  /\ w \in TransferRecord /\ Alike(w, r) /\ w.script = r.script /\ w.done = r.done /\ w.ok = r.ok
             /\ Come(w) = Come(r) \o chunk
             /\ w.held # << >> => w.paused
             /\ Pressed(r) => Pressed(w)
<1> DEFINE w == write_cb(r, chunk)
           a == r.read
           b == r.body
<1>1. a \in Seq(Octets) /\ b \in Seq(Octets) /\ Threshold \in Nat \ {0} /\ << >> \in Seq(Octets)
  BY HttpAssumption DEF TransferRecord
<1>2. a \o b \in Seq(Octets) /\ b \o chunk \in Seq(Octets)
  <2> HIDE DEF a, b
  <2> QED
    BY <1>1, ConcatProperties
<1>3. Come(r) = a \o b
  BY <1>2, ConcatEmptySeq DEF Come
<1>4. CASE Len(b) >= Threshold
  <2>1. w = [r EXCEPT !.paused = TRUE, !.held = chunk]
    BY <1>4 DEF write_cb
  <2>2. /\ w \in TransferRecord /\ Alike(w, r) /\ w.script = r.script /\ w.done = r.done /\ w.ok = r.ok
        /\ w.body = b /\ w.held = chunk /\ w.paused
    BY <2>1 DEF TransferRecord, Alike
  <2> HIDE DEF w
  <2>3. Come(w) = Come(r) \o chunk
    BY <1>3, <2>2 DEF Come, Alike
  <2>4. b # << >>
    BY <1>1, <1>4
  <2> QED
    BY <2>2, <2>3, <2>4 DEF Pressed, w
<1>5. CASE ~(Len(b) >= Threshold)
  <2>1. w = [r EXCEPT !.body = b \o chunk, !.ready = TRUE]
    BY <1>5 DEF write_cb
  <2>2. /\ w \in TransferRecord /\ Alike(w, r) /\ w.script = r.script /\ w.done = r.done /\ w.ok = r.ok
        /\ w.body = b \o chunk /\ w.held = << >> /\ w.paused = r.paused
    BY <1>2, <2>1 DEF TransferRecord, Alike
  <2> HIDE DEF w
  <2>3. Come(w) = Come(r) \o chunk
    <3>1. Come(w) = (a \o (b \o chunk)) \o << >>
      BY <2>2 DEF Come, Alike
    <3>2. (a \o (b \o chunk)) \o << >> = a \o (b \o chunk)
      <4>1. a \o (b \o chunk) \in Seq(Octets)
        BY <1>1, <1>2, ConcatProperties
      <4> QED
        BY <4>1, ConcatEmptySeq
    <3>3. a \o (b \o chunk) = (a \o b) \o chunk
      <4>1. \A x, y, z \in Seq(Octets) : (x \o y) \o z = x \o (y \o z)
        BY ConcatAssociative, SMTT(40)
      <4> HIDE DEF a, b
      <4> QED
        BY <1>1, <4>1
    <3> QED
      BY <1>3, <3>1, <3>2, <3>3
  <2>4. b # << >> => b \o chunk # << >>
    BY <1>1, ConcatEqualIffEmpty
  <2> QED
    BY <2>2, <2>3, <2>4 DEF Pressed, w
<1> QED
  BY <1>4, <1>5

(* The next of a script's events.                                          *)
LEMMA NextEvent ==
  ASSUME NEW r \in TransferRecord, NEW s \in Scripts, NEW n \in 0 .. Len(s), AtEvent(r, s, n), r.script # << >>
  PROVE  /\ n + 1 \in 1 .. Len(s) /\ n + 1 \in 0 .. Len(s) /\ Head(r.script) = s[n + 1]
         /\ Tail(r.script) \in Seq(Items) /\ RestOf(Tail(r.script), s, n + 1)
         /\ WalkOf(s, r.follow)[n] \in Walked /\ WalkOf(s, r.follow)[n + 1] \in Walked
         /\ WalkOf(s, r.follow)[n + 1] = Delivers(WalkOf(s, r.follow)[n], s[n + 1], r.follow)
<1> DEFINE q == r.script
           t == Tail(q)
<1>1. q \in Seq(Items) /\ q # << >> /\ r.follow \in BOOLEAN /\ RestOf(q, s, n) /\ Len(s) \in Nat
  BY ScriptLists DEF TransferRecord, AtEvent
<1> HIDE DEF q
<1>2. /\ t \in Seq(Items) /\ Len(t) = Len(q) - 1 /\ Len(q) \in Nat \ {0} /\ Head(q) = q[1]
      /\ \A i \in 1 .. Len(t) : t[i] = q[i + 1]
  BY <1>1, HeadTailProperties, EmptySeq
<1> HIDE DEF t
<1>3. Len(q) = Len(s) - n /\ \A i \in 1 .. Len(q) : q[i] = s[n + i]
  BY <1>1 DEF RestOf
<1>4. n + 1 \in 1 .. Len(s) /\ n + 1 \in 0 .. Len(s) /\ (n + 1) - 1 = n
  BY <1>1, <1>2, <1>3
<1>5. Head(q) = s[n + 1]
  BY <1>2, <1>3
<1>6. RestOf(t, s, n + 1)
  <2>1. Len(t) = Len(s) - (n + 1)
    BY <1>1, <1>2, <1>3
  <2>2. ASSUME NEW i \in 1 .. Len(t) PROVE t[i] = s[n + 1 + i]
    <3>1. i + 1 \in 1 .. Len(q) /\ n + (i + 1) = n + 1 + i
      BY <1>2
    <3> QED
      BY <1>2, <1>3, <3>1
  <2> QED
    BY <2>1, <2>2 DEF RestOf
<1>7. /\ WalkOf(s, r.follow)[n] \in Walked /\ WalkOf(s, r.follow)[n + 1] \in Walked
      /\ WalkOf(s, r.follow)[n + 1] = Delivers(WalkOf(s, r.follow)[n], s[n + 1], r.follow)
  BY <1>1, <1>4, WalkTypes, WalkSteps
<1> QED
  BY <1>2, <1>4, <1>5, <1>6, <1>7 DEF q, t

\* A transfer moved on: it is as sound, and the same to its reader.
Goes(w, r) ==
  /\ w \in TransferRecord /\ Sturdy(w) /\ OnScript(w)
  /\ w.at = r.at /\ w.said = r.said /\ w.read = r.read
  /\ Pressed(r) => Pressed(w)

(* Sequences that begin alike.                                             *)
LEMMA StartsOn ==
  ASSUME NEW a \in Seq(Octets), NEW b \in Seq(Octets), NEW c \in Seq(Octets)
  PROVE  /\ Starts(a, a) /\ Starts(a, a \o b)
         /\ Starts(a, b) /\ Starts(b, c) => Starts(a, c)
<1>1. /\ Len(a) \in Nat /\ Len(b) \in Nat /\ Len(c) \in Nat
      /\ Len(a \o b) = Len(a) + Len(b) /\ \A i \in 1 .. Len(a) : (a \o b)[i] = a[i]
  BY ConcatProperties
<1>2. Starts(a, a)
  BY <1>1 DEF Starts
<1>3. Starts(a, a \o b)
  <2>1. Len(a) <= Len(a \o b)
    BY <1>1
  <2> QED
    BY <1>1, <2>1 DEF Starts
<1>4. Starts(a, b) /\ Starts(b, c) => Starts(a, c)
  BY <1>1 DEF Starts
<1> QED
  BY <1>2, <1>3, <1>4

LEMMA ComeIs ==
  ASSUME NEW r \in TransferRecord
  PROVE  /\ Come(r) \in Seq(Octets) /\ r.read \o r.body \in Seq(Octets)
         /\ Starts(r.read \o r.body, Come(r)) /\ Starts(r.read, Come(r))
         /\ r.held = << >> => Come(r) = r.read \o r.body
<1> DEFINE a == r.read
           b == r.body
           h == r.held
<1>1. a \in Seq(Octets) /\ b \in Seq(Octets) /\ h \in Seq(Octets) /\ Come(r) = (a \o b) \o h
  BY DEF TransferRecord, Come
<1> HIDE DEF a, b, h
<1>2. a \o b \in Seq(Octets) /\ (a \o b) \o h \in Seq(Octets)
  BY <1>1, ConcatProperties
<1>3. Starts(a \o b, (a \o b) \o h) /\ Starts(a, a \o b)
  BY <1>1, <1>2, StartsOn
<1>4. Starts(a, (a \o b) \o h)
  <2>1. \A x, y, z \in Seq(Octets) : Starts(x, y) /\ Starts(y, z) => Starts(x, z)
    BY StartsOn
  <2> QED
    BY <1>1, <1>2, <1>3, <2>1
<1>5. h = << >> => (a \o b) \o h = a \o b
  BY <1>2, ConcatEmptySeq
<1> QED
  BY <1>1, <1>2, <1>3, <1>4, <1>5 DEF a, b, h
(* A transfer that fails keeps what it has buffered, and drops the rest.   *)
LEMMA FailsWith ==
  ASSUME NEW r \in TransferRecord, NEW s \in Scripts, NEW n \in 0 .. Len(s), RestOf(r.script, s, n),
         r.whole = FinalBody(s, r.follow), Starts(r.read \o r.body, WalkOf(s, r.follow)[n].bytes)
  PROVE  Goes(Done(r, FALSE), r)
<1> DEFINE d == Done(r, FALSE)
<1>1. << >> \in Seq(Octets)
  OBVIOUS
<1>2. /\ d \in TransferRecord /\ d.done /\ ~d.ok /\ d.held = << >> /\ d.script = r.script /\ d.whole = r.whole
      /\ d.follow = r.follow /\ d.read = r.read /\ d.body = r.body /\ d.at = r.at /\ d.said = r.said /\ d.paused = r.paused
  BY <1>1 DEF Done, TransferRecord
<1> HIDE DEF d
<1>3. Come(d) = r.read \o r.body
  BY <1>2, ComeIs
<1>4. AtEvent(d, s, n)
  BY <1>2, <1>3 DEF AtEvent, Came
<1>5. OnScript(d) /\ Sturdy(d) /\ (Pressed(r) => Pressed(d))
  BY <1>2, <1>4 DEF OnScript, Sturdy, Pressed
<1> QED
  BY <1>2, <1>5 DEF Goes, d

LEMMA TimesOut ==
  ASSUME NEW r \in TransferRecord, OnScript(r), ~r.done
  PROVE  Goes(Done(r, FALSE), r)
<1>1. PICK s \in Scripts : \E n \in 0 .. Len(s) : AtEvent(r, s, n)
  BY DEF OnScript
<1>2. PICK n \in 0 .. Len(s) : AtEvent(r, s, n)
  BY <1>1
<1>3. /\ RestOf(r.script, s, n) /\ r.whole = FinalBody(s, r.follow) /\ Come(r) = WalkOf(s, r.follow)[n].bytes
  BY <1>2 DEF AtEvent, Came
<1>4. Starts(r.read \o r.body, Come(r))
  BY ComeIs
<1> QED
  BY <1>3, <1>4, FailsWith

(* One event inside curl_multi_perform.                                    *)
LEMMA Curled ==
  ASSUME NEW r \in TransferRecord, Sturdy(r), OnScript(r), ~r.done, r.held = << >>, r.script # << >>,
         NEW fails \in BOOLEAN
  PROVE  Goes(Curl(r, fails), r)
<1>1. PICK s \in Scripts : \E n \in 0 .. Len(s) : AtEvent(r, s, n)
  BY DEF OnScript
<1>2. PICK n \in 0 .. Len(s) : AtEvent(r, s, n)
  BY <1>1
<1> DEFINE e == s[n + 1]
           p == WalkOf(s, r.follow)[n]
           q == WalkOf(s, r.follow)[n + 1]
           rest == [r EXCEPT !.script = Tail(@)]
<1>3. /\ n + 1 \in 1 .. Len(s) /\ n + 1 \in 0 .. Len(s) /\ Head(r.script) = e
      /\ Tail(r.script) \in Seq(Items) /\ RestOf(Tail(r.script), s, n + 1)
      /\ p \in Walked /\ q \in Walked /\ q = Delivers(p, e, r.follow)
  BY <1>2, NextEvent
<1>4. /\ e.data \in Seq(Octets) /\ (e.event # "data" => e.data = << >>)
      /\ e.event \in {"interim", "trailer", "redirect", "final", "data", "end", "fail"}
  BY <1>3, ScriptLists
<1>5. /\ r.whole = FinalBody(s, r.follow) /\ r.skips = p.skips /\ ~p.over /\ Come(r) = p.bytes
  BY <1>2 DEF AtEvent, Came
<1>6. /\ rest \in TransferRecord /\ Alike(rest, r) /\ rest.script = Tail(r.script) /\ rest.body = r.body
      /\ rest.held = << >> /\ ~rest.done /\ rest.ok = r.ok /\ rest.paused = r.paused
  BY <1>3 DEF TransferRecord, Alike
<1>7. Come(rest) = p.bytes /\ p.bytes \in Seq(Octets)
  BY <1>3, <1>5, <1>6 DEF Come, Alike, Walked
<1>8. Starts(p.bytes, q.bytes)
  <2>1. r.follow \in BOOLEAN
    BY DEF TransferRecord
  <2> HIDE DEF p, q
  <2>2. Starts(p.bytes, Delivers(p, s[n + 1], r.follow).bytes)
    BY <1>3, <2>1, SentIs
  <2> QED
    BY <1>3, <2>2
<1> HIDE DEF p, q, e
<1>9. ASSUME NEW w \in TransferRecord, w.script = rest.script, w.follow = r.follow, w.whole = r.whole,
             w.at = r.at, w.said = r.said, w.read = r.read, Sturdy(w), Pressed(r) => Pressed(w), Came(w, q)
      PROVE  Goes(w, r)
  <2>1. AtEvent(w, s, n + 1)
    BY <1>3, <1>5, <1>6, <1>9 DEF AtEvent, q
  <2> QED
    BY <1>3, <1>9, <2>1 DEF Goes, OnScript
<1>10. ASSUME Curl(r, fails) = Done(rest, FALSE)
       PROVE  Goes(Curl(r, fails), r)
  <2>1. Starts(rest.read \o rest.body, WalkOf(s, rest.follow)[n + 1].bytes)
    BY <1>6, <1>7, <1>8, ComeIs DEF Alike, q
  <2>2. Goes(Done(rest, FALSE), rest)
    BY <1>3, <1>5, <1>6, <2>1, FailsWith DEF Alike
  <2> QED
    BY <1>6, <1>10, <2>2 DEF Goes, Alike, Pressed
<1>11. CASE e.event = "fail" \/ (e.event = "data" /\ ~r.skips /\ fails)
  <2>1. Curl(r, fails) = Done(rest, FALSE)
    BY <1>3, <1>11 DEF Curl
  <2> QED
    BY <1>10, <2>1
<1>12. CASE e.event = "data" /\ ~r.skips /\ ~fails
  <2> DEFINE w == write_cb(rest, e.data)
  <2>1. Curl(r, fails) = w
    BY <1>3, <1>12 DEF Curl
  <2>2. /\ w \in TransferRecord /\ Alike(w, rest) /\ w.script = rest.script /\ w.done = rest.done /\ w.ok = rest.ok
        /\ Come(w) = Come(rest) \o e.data /\ (w.held # << >> => w.paused) /\ (Pressed(rest) => Pressed(w))
    BY <1>4, <1>6, Wrote
  <2>3. q = [p EXCEPT !.bytes = p.bytes \o e.data]
    BY <1>3, <1>5, <1>12 DEF Delivers
  <2>4. q.bytes = p.bytes \o e.data /\ q.skips = p.skips /\ ~q.over
    BY <1>3, <1>5, <2>3 DEF Walked
  <2> HIDE DEF w, rest
  <2>5. Came(w, q) /\ Sturdy(w)
    BY <1>5, <1>6, <1>7, <2>2, <2>4 DEF Came, Sturdy, Alike
  <2>6. Pressed(r) => Pressed(w)
    BY <1>6, <2>2 DEF Pressed
  <2>7. w.follow = r.follow /\ w.whole = r.whole /\ w.at = r.at /\ w.said = r.said /\ w.read = r.read
    BY <1>6, <2>2 DEF Alike
  <2> QED
    BY <1>9, <2>1, <2>2, <2>5, <2>6, <2>7
<1>13. CASE (e.event = "data" /\ r.skips) \/ (e.event = "end" /\ r.skips)
  <2>1. Curl(r, fails) = rest
    BY <1>3, <1>13 DEF Curl
  <2>2. q = p
    BY <1>3, <1>5, <1>13 DEF Delivers
  <2> HIDE DEF rest
  <2>3. Came(rest, q) /\ Sturdy(rest) /\ (Pressed(r) => Pressed(rest))
    BY <1>5, <1>6, <1>7, <2>2 DEF Came, Sturdy, Alike, Pressed
  <2> QED
    BY <1>6, <1>9, <2>1, <2>3 DEF Alike
<1>14. CASE e.event = "end" /\ ~r.skips
  <2> DEFINE w == Done(rest, TRUE)
  <2>1. Curl(r, fails) = w
    BY <1>3, <1>14 DEF Curl
  <2>2. q = [p EXCEPT !.over = TRUE]
    BY <1>3, <1>5, <1>14 DEF Delivers
  <2>3. q.bytes = p.bytes /\ q.over
    BY <1>3, <2>2 DEF Walked
  <2> HIDE DEF rest
  <2>4. /\ w \in TransferRecord /\ Alike(w, rest) /\ w.script = rest.script /\ w.done /\ w.ok /\ w.held = << >>
        /\ w.body = rest.body /\ w.paused = rest.paused
    BY <1>6 DEF Done, TransferRecord, Alike
  <2> HIDE DEF w
  <2>5. Come(w) = Come(rest)
    BY <1>6, <2>4 DEF Come, Alike
  <2>6. Came(w, q) /\ Sturdy(w) /\ (Pressed(r) => Pressed(w))
    BY <1>6, <1>7, <2>3, <2>4, <2>5 DEF Came, Sturdy, Pressed
  <2> QED
    BY <1>6, <1>9, <2>1, <2>4, <2>6 DEF Alike
<1>15. ASSUME NEW x \in TransferRecord, x.script = rest.script, Alike(x, [rest EXCEPT !.skips = x.skips]),
              x.body = rest.body, x.held = << >>, ~x.done, x.paused = rest.paused,
              NEW event, Curl(r, fails) = header_cb(x, event),
              x.skips = q.skips, ~q.over, q.bytes = p.bytes
       PROVE  Goes(Curl(r, fails), r)
  <2> DEFINE w == header_cb(x, event)
  <2>1. w = x \/ w = [x EXCEPT !.headed = TRUE, !.ready = TRUE]
    BY DEF header_cb
  <2>2. /\ w \in TransferRecord /\ Alike(w, x) /\ w.script = x.script /\ w.done = x.done /\ w.held = x.held
        /\ w.body = x.body /\ w.paused = x.paused
    BY <2>1 DEF TransferRecord, Alike
  <2> HIDE DEF w
  <2>3. x.follow = r.follow /\ x.whole = r.whole /\ x.at = r.at /\ x.said = r.said /\ x.read = r.read
    BY <1>6, <1>15 DEF Alike, TransferRecord
  <2>4. Come(w) = Come(rest)
    BY <1>6, <1>15, <2>2, <2>3 DEF Come, Alike
  <2> HIDE DEF rest
  <2>5. Came(w, q) /\ Sturdy(w) /\ (Pressed(r) => Pressed(w))
    BY <1>6, <1>7, <1>15, <2>2, <2>4 DEF Came, Sturdy, Pressed, Alike
  <2> QED
    BY <1>6, <1>9, <1>15, <2>2, <2>3, <2>5 DEF Alike, w
<1>16. CASE e.event \in {"interim", "trailer"}
  <2>1. Curl(r, fails) = header_cb(rest, e.event)
    BY <1>3, <1>16 DEF Curl
  <2>2. q = p \/ q = [p EXCEPT !.bytes = p.bytes \o << >>]
    BY <1>3, <1>4, <1>5, <1>16 DEF Delivers
  <2>3. p.bytes \o << >> = p.bytes
    BY <1>7, ConcatEmptySeq
  <2>4. q.bytes = p.bytes /\ q.skips = p.skips /\ ~q.over
    BY <1>3, <1>5, <2>2, <2>3 DEF Walked
  <2>5. Alike(rest, [rest EXCEPT !.skips = rest.skips]) /\ rest.skips = q.skips
    BY <1>5, <1>6, <2>4 DEF Alike, TransferRecord
  <2> QED
    BY <1>6, <1>15, <2>1, <2>4, <2>5
<1>17. CASE e.event \in {"redirect", "final"}
  <2> DEFINE k == (e.event = "redirect" /\ r.follow)
             x == [rest EXCEPT !.skips = k]
  <2>1. Curl(r, fails) = header_cb(x, e.event)
    BY <1>3, <1>17 DEF Curl
  <2>2. q = [p EXCEPT !.skips = k]
    BY <1>3, <1>5, <1>17 DEF Delivers
  <2>3. k \in BOOLEAN
    BY DEF TransferRecord
  <2> HIDE DEF k
  <2>4. q.bytes = p.bytes /\ q.skips = k /\ ~q.over
    BY <1>3, <1>5, <2>2, <2>3 DEF Walked
  <2>5. /\ x \in TransferRecord /\ x.script = rest.script /\ x.body = rest.body /\ x.held = << >> /\ ~x.done
        /\ x.paused = rest.paused /\ x.skips = k /\ Alike(x, [rest EXCEPT !.skips = x.skips])
    <3> HIDE DEF rest
    <3> QED
      BY <1>6, <2>3 DEF TransferRecord, Alike
  <2> HIDE DEF x
  <2> QED
    BY <1>15, <2>1, <2>4, <2>5
<1> QED
  BY <1>4, <1>11, <1>12, <1>13, <1>14, <1>16, <1>17
(* What was held is offered again, and perhaps a chunk after it.           *)
LEMMA Resumed ==
  ASSUME NEW r \in TransferRecord, Sturdy(r), OnScript(r), NEW more \in BOOLEAN
  PROVE  Goes(resume(r, more), r) /\ Pressed(resume(r, more))
<1>1. CASE ~r.paused
  <2>1. resume(r, more) = r
    BY <1>1 DEF resume
  <2> QED
    BY <1>1, <2>1 DEF Goes, Pressed
<1>2. CASE r.paused
  <2> DEFINE r0 == [r EXCEPT !.paused = FALSE]
             r1 == [r0 EXCEPT !.held = << >>]
             again == IF r.held = << >> THEN r0 ELSE write_cb(r1, r.held)
  <2>1. /\ r0 \in TransferRecord /\ Alike(r0, r) /\ r0.script = r.script /\ r0.body = r.body /\ r0.held = r.held
        /\ r0.done = r.done /\ r0.ok = r.ok /\ ~r0.paused
    BY DEF TransferRecord, Alike
  <2>2. /\ again \in TransferRecord /\ Alike(again, r) /\ again.script = r.script
        /\ again.done = r.done /\ again.ok = r.ok /\ Come(again) = Come(r)
        /\ Sturdy(again) /\ Pressed(again)
    <3>1. CASE r.held = << >>
      <4>1. again = r0
        BY <3>1
      <4> HIDE DEF r0, again
      <4> QED
        BY <2>1, <3>1, <4>1 DEF Come, Alike, Sturdy, Pressed
    <3>2. CASE r.held # << >>
      <4>1. << >> \in Seq(Octets) /\ r.held \in Seq(Octets) /\ ~r.done
        BY <3>2 DEF TransferRecord, Sturdy
      <4>2. /\ r1 \in TransferRecord /\ Alike(r1, r) /\ r1.script = r.script /\ r1.body = r.body /\ r1.held = << >>
            /\ r1.done = r.done /\ r1.ok = r.ok /\ ~r1.paused
        <5> HIDE DEF r0
        <5> QED
          BY <2>1, <4>1 DEF TransferRecord, Alike
      <4>3. again = write_cb(r1, r.held)
        BY <3>2
      <4> HIDE DEF r0, r1, again
      <4>4. /\ again \in TransferRecord /\ Alike(again, r1) /\ again.script = r1.script /\ again.done = r1.done
            /\ again.ok = r1.ok /\ Come(again) = Come(r1) \o r.held /\ (again.held # << >> => again.paused)
            /\ Pressed(r1) => Pressed(again)
        BY <4>1, <4>2, <4>3, Wrote
      <4>5. Come(r1) = r.read \o r.body
        BY <4>2, ComeIs DEF Alike
      <4>6. Come(again) = Come(r)
        BY <4>4, <4>5 DEF Come
      <4>7. Alike(again, r) /\ Pressed(again) /\ Sturdy(again)
        BY <4>1, <4>2, <4>4 DEF Alike, Pressed, Sturdy
      <4> QED
        BY <4>2, <4>4, <4>6, <4>7
    <3> QED
      BY <3>1, <3>2
  <2>3. OnScript(again)
    <3> HIDE DEF again
    <3>1. \A s \in Scripts : \A n \in 0 .. Len(s) : AtEvent(r, s, n) => AtEvent(again, s, n)
      BY <2>2 DEF AtEvent, Came, Alike
    <3> QED
      BY <3>1 DEF OnScript
  <2> DEFINE e == Head(again.script)
             w == write_cb([again EXCEPT !.script = Tail(@)], e.data)
             goes == more /\ ~r0.done /\ again.held = << >> /\ again.script # << >> /\ e.event = "data" /\ ~r0.skips
  <2>4. resume(r, more) = IF goes THEN w ELSE again
    <3>1. resume(r, more) = Unpause(r0, more)
      BY <1>2 DEF resume
    <3>2. Unpause(r0, more) = IF goes THEN w ELSE again
      BY <2>1 DEF Unpause
    <3> QED
      BY <3>1, <3>2
  <2>5. Goes(again, r) /\ Pressed(again)
    <3> HIDE DEF again
    <3> QED
      BY <2>2, <2>3 DEF Goes, Alike
  <2>6. CASE goes
    <3>1. Curl(again, FALSE) = w
      <4>1. ~again.skips /\ e.event = "data"
        BY <2>1, <2>2, <2>6 DEF Alike
      <4> HIDE DEF again
      <4> QED
        BY <4>1 DEF Curl
    <3>2. again.script # << >> /\ again.held = << >> /\ ~again.done
      BY <2>1, <2>2, <2>6
    <3>3. resume(r, more) = w
      BY <2>4, <2>6
    <3> HIDE DEF again, w
    <3>4. Goes(w, again)
      BY <2>2, <2>3, <3>1, <3>2, Curled
    <3> QED
      BY <2>5, <3>3, <3>4 DEF Goes
  <2>7. CASE ~goes
    BY <2>4, <2>5, <2>7
  <2> QED
    BY <2>6, <2>7
<1> QED
  BY <1>1, <1>2

(* A read moves the first bytes of the buffer, and none is lost.           *)
LEMMA TakesFrom ==
  ASSUME NEW r \in TransferRecord, Sturdy(r), OnScript(r), NEW n \in 0 .. Len(r.body)
  PROVE  LET taken == [r EXCEPT !.read = @ \o SubSeq(r.body, 1, n), !.said = "bytes",
                                !.body = SubSeq(r.body, n + 1, Len(r.body))]
         IN  /\ taken \in TransferRecord /\ Sturdy(taken) /\ OnScript(taken)
             /\ taken.at = r.at /\ taken.said = "bytes"
<1> DEFINE a == r.read
           b == r.body
           x == SubSeq(b, 1, n)
           y == SubSeq(b, n + 1, Len(b))
           taken == [r EXCEPT !.read = @ \o x, !.said = "bytes", !.body = y]
<1>1. a \in Seq(Octets) /\ b \in Seq(Octets) /\ Len(b) \in Nat /\ n \in Nat /\ n <= Len(b)
  BY SMTT(40) DEF TransferRecord
<1>2. x \in Seq(Octets) /\ y \in Seq(Octets) /\ x \o y = b
  <2> HIDE DEF b
  <2>1. x \in Seq(Octets) /\ y \in Seq(Octets)
    BY <1>1
  <2>2. 1 \in 1 .. Len(b) + 1 /\ n \in 1 - 1 .. Len(b) /\ Len(b) \in n .. Len(b)
    BY <1>1
  <2>3. x \o y = SubSeq(b, 1, Len(b))
    BY <1>1, <2>2, ConcatAdjacentSubSeq
  <2>4. SubSeq(b, 1, Len(b)) = b
    BY <1>1, SubSeqFull
  <2> QED
    BY <2>1, <2>3, <2>4
<1> HIDE DEF x, y
<1>3. a \o x \in Seq(Octets) /\ (a \o x) \o y = a \o b
  <2>1. \A f, g, h \in Seq(Octets) : (f \o g) \o h = f \o (g \o h)
    BY ConcatAssociative
  <2> HIDE DEF a, b
  <2>2. a \in Seq(Octets) /\ x \in Seq(Octets) /\ y \in Seq(Octets)
    BY <1>1, <1>2
  <2>3. (a \o x) \o y = a \o (x \o y)
    BY <2>1, <2>2, Zenon
  <2>4. a \o x \in Seq(Octets)
    BY <2>2, ConcatProperties
  <2> QED
    BY <1>2, <2>3, <2>4
<1>4. /\ taken \in TransferRecord /\ taken.at = r.at /\ taken.said = "bytes" /\ taken.read = a \o x /\ taken.body = y
      /\ taken.held = r.held /\ taken.done = r.done /\ taken.ok = r.ok /\ taken.paused = r.paused
      /\ taken.skips = r.skips /\ taken.whole = r.whole /\ taken.follow = r.follow /\ taken.script = r.script
  BY <1>2, <1>3 DEF TransferRecord, Saids
<1> HIDE DEF taken
<1>5. Come(taken) = Come(r)
  BY <1>3, <1>4 DEF Come
<1>6. \A s \in Scripts : \A m \in 0 .. Len(s) : AtEvent(r, s, m) => AtEvent(taken, s, m)
  BY <1>4, <1>5 DEF AtEvent, Came
<1>7. OnScript(taken) /\ Sturdy(taken)
  BY <1>4, <1>6 DEF OnScript, Sturdy
<1> QED
  BY <1>4, <1>7 DEF taken, x, y

(* What came is how the body begins, and all of it at a clean end.         *)
LEMMA BeginsBody ==
  ASSUME NEW r \in TransferRecord, OnScript(r)
  PROVE  Starts(Come(r), r.whole) /\ (r.done /\ r.ok => Come(r) = r.whole)
<1>1. PICK s \in Scripts : \E n \in 0 .. Len(s) : AtEvent(r, s, n)
  BY DEF OnScript
<1>2. PICK n \in 0 .. Len(s) : AtEvent(r, s, n)
  BY <1>1
<1> DEFINE f == WalkOf(s, r.follow)
           p == f[n]
           last == f[Len(s)]
<1>3. r.follow \in BOOLEAN /\ Len(s) \in Nat /\ Len(s) \in 0 .. Len(s)
  BY ScriptLists DEF TransferRecord
<1>4. r.whole = last.bytes
  BY <1>2 DEF AtEvent, FinalBody, WalkOf
<1>5. Starts(p.bytes, last.bytes) /\ (p.over => last = p) /\ p \in Walked /\ last \in Walked
  BY <1>2, <1>3, WalkGrows, WalkTypes
<1>6. Came(r, p) /\ Come(r) \in Seq(Octets)
  BY <1>2, ComeIs DEF AtEvent
<1> HIDE DEF p, last
<1>7. p.bytes \in Seq(Octets) /\ last.bytes \in Seq(Octets)
  BY <1>5 DEF Walked
<1>8. Starts(Come(r), p.bytes)
  BY <1>6, <1>7, StartsOn DEF Came, TransferRecord
<1>9. Starts(Come(r), last.bytes)
  <2>1. \A x, y, z \in Seq(Octets) : Starts(x, y) /\ Starts(y, z) => Starts(x, z)
    BY StartsOn
  <2> QED
    BY <1>5, <1>6, <1>7, <1>8, <2>1
<1>10. r.done /\ r.ok => Come(r) = last.bytes
  BY <1>5, <1>6 DEF Came
<1> QED
  BY <1>4, <1>9, <1>10
\* A transfer by itself, and as the call under way has it.
IdleOK(r) ==
  /\ r \in TransferRecord /\ Sturdy(r)
  /\ r.said = "end" => r.done /\ r.ok /\ r.body = << >> /\ r.read = r.whole
  /\ r.said = "error" => r.done /\ ~r.ok /\ r.body = << >>
  /\ r.at \in {"opening", "open"} => OnScript(r)
  /\ r.at = "closed" => Starts(r.read, r.whole) /\ r.body = << >> /\ r.held = << >>
DrivenOK(r, o) ==
  /\ OnScript(r) /\ Pressed(r) /\ r.said \notin {"end", "error"}
  /\ o.what = "read" => r.at = "open"
  /\ o.what = "open" => r.at = IF o.phase \in {"ready", "make"} THEN "unmade" ELSE "opening"
Active(t, o) == o.phase # "none" /\ o.who = t
HandleOK(t, r, o) ==
  /\ IdleOK(r)
  /\ Active(t, o) => DrivenOK(r, o)
  /\ ~Active(t, o) => r.at # "opening" /\ (r.at = "unmade" => r = Unmade)

OpOK ==
  /\ op \in OpRecord /\ op.phase \in {"none", "ready", "make", "check", "pump"}
  /\ op.phase = "none" => op = NoOp
  /\ op.phase # "none" => op.who \in Transfers /\ op.what \in {"open", "read"}
  /\ op.phase \in {"ready", "make"} => op.what = "open"

TransfersInv ==
  /\ ready.multi /\ OpOK
  /\ tr \in [Transfers -> TransferRecord]
  /\ \A t \in Transfers : HandleOK(t, tr[t], op)

\* The call under way is of no other transfer, before or after.
Aside(t) == \A u \in Transfers \ {t} : op' = op \/ (~Active(u, op) /\ ~Active(u, op'))

LEMMA OneMoves ==
  ASSUME TransfersInv, NEW t \in Transfers, NEW w, tr' = [tr EXCEPT ![t] = w],
         HandleOK(t, w, op'), OpOK', ready' = ready, Aside(t)
  PROVE  TransfersInv'
<1>1. w \in TransferRecord
  BY DEF HandleOK, IdleOK
<1>2. tr' \in [Transfers -> TransferRecord] /\ tr'[t] = w /\ \A u \in Transfers \ {t} : tr'[u] = tr[u]
  BY <1>1 DEF TransfersInv
<1>3. ASSUME NEW u \in Transfers \ {t} PROVE HandleOK(u, tr'[u], op')
  <2>1. HandleOK(u, tr[u], op) /\ tr'[u] = tr[u]
    BY <1>2 DEF TransfersInv
  <2>2. CASE op' = op
    BY <2>1, <2>2
  <2>3. CASE ~Active(u, op) /\ ~Active(u, op')
    BY <2>1, <2>3 DEF HandleOK
  <2> QED
    BY <2>2, <2>3 DEF Aside
<1> QED
  BY <1>2, <1>3 DEF TransfersInv

LEMMA TransferInits == HttpInit(TRUE) => TransfersInv
<1> SUFFICES ASSUME HttpInit(TRUE)
             PROVE  TransfersInv
  OBVIOUS
<1>1. ready.multi /\ op = NoOp /\ tr = [t \in Transfers |-> Unmade]
  BY DEF HttpInit
<1>2. Unmade \in TransferRecord /\ Sturdy(Unmade) /\ Unmade.at = "unmade" /\ Unmade.said = "none"
  <2>1. << >> \in Seq(Octets) /\ << >> \in Seq(Items)
    OBVIOUS
  <2> QED
    BY <2>1 DEF Unmade, TransferRecord, Sturdy, Saids
<1>3. OpOK /\ op.phase = "none"
  BY <1>1 DEF OpOK, NoOp, OpRecord, OpenPhases
<1>4. ASSUME NEW t \in Transfers PROVE HandleOK(t, tr[t], op)
  <2>1. tr[t] = Unmade
    BY <1>1
  <2>2. IdleOK(Unmade)
    BY <1>2 DEF IdleOK
  <2> QED
    BY <1>2, <1>3, <2>1, <2>2 DEF HandleOK, Active
<1> QED
  BY <1>1, <1>2, <1>3, <1>4 DEF TransfersInv

(* The call under way, and its transfer.                                   *)
LEMMA UnderWay ==
  ASSUME TransfersInv, op.phase # "none"
  PROVE  LET r == tr[op.who]
         IN  /\ op.who \in Transfers /\ r \in TransferRecord /\ IdleOK(r) /\ DrivenOK(r, op) /\ OpOK
             /\ op.what \in {"open", "read"}
<1>1. op.who \in Transfers /\ OpOK /\ op.what \in {"open", "read"}
  BY DEF TransfersInv, OpOK
<1>2. HandleOK(op.who, tr[op.who], op)
  BY <1>1 DEF TransfersInv
<1> QED
  BY <1>1, <1>2 DEF HandleOK, IdleOK, Active

(* The call ends.                                                          *)
LEMMA CallEnds ==
  ASSUME TransfersInv, op.phase # "none", NEW w, tr' = [tr EXCEPT ![op.who] = w],
         IdleOK(w), w.at \in {"open", "closed"}, op' = NoOp, ready' = ready
  PROVE  TransfersInv'
<1>1. op.who \in Transfers
  BY UnderWay
<1>2. NoOp \in OpRecord /\ NoOp.phase = "none"
  BY DEF NoOp, OpRecord, OpenPhases
<1>3. OpOK'
  BY <1>2 DEF OpOK
<1>4. Aside(op.who) /\ HandleOK(op.who, w, op')
  BY <1>2 DEF Aside, Active, HandleOK
<1> QED
  BY <1>1, <1>3, <1>4, OneMoves

(* The call goes on to another phase.                                      *)
LEMMA CallGoesOn ==
  ASSUME TransfersInv, op.phase # "none", NEW p \in {"make", "check", "pump"}, Phase(p),
         p = "make" => op.what = "open",
         NEW w, tr' = [tr EXCEPT ![op.who] = w], IdleOK(w), DrivenOK(w, [op EXCEPT !.phase = p]), ready' = ready
  PROVE  TransfersInv'
<1>1. op.who \in Transfers /\ OpOK /\ op.what \in {"open", "read"}
  BY UnderWay
<1>2. op' \in OpRecord /\ op'.phase = p /\ op'.who = op.who /\ op'.what = op.what /\ op' = [op EXCEPT !.phase = p]
  BY <1>1 DEF Phase, OpOK, OpRecord, OpenPhases
<1>3. OpOK'
  BY <1>1, <1>2 DEF OpOK
<1>4. Aside(op.who) /\ HandleOK(op.who, w, op')
  BY <1>2 DEF Aside, Active, HandleOK
<1> QED
  BY <1>1, <1>3, <1>4, OneMoves

LEMMA Lets ==
  ASSUME NEW r, IdleOK(r), OnScript(r)
  PROVE  LET w == transfer_release(r)
         IN  /\ IdleOK(w) /\ w.at = "closed"
             /\ \A why \in Saids \ {"end", "error"} :
                  IdleOK([w EXCEPT !.said = why]) /\ [w EXCEPT !.said = why].at = "closed"
<1> DEFINE w == transfer_release(r)
<1>1. r \in TransferRecord /\ << >> \in Seq(Octets) /\ << >> \in Seq(Items)
  BY DEF IdleOK
<1>2. /\ w \in TransferRecord /\ w.at = "closed" /\ w.body = << >> /\ w.held = << >> /\ w.read = r.read
      /\ w.whole = r.whole /\ w.said = r.said /\ w.done = r.done /\ w.ok = r.ok
  BY <1>1, ZenonT(40) DEF transfer_release, Unmade, TransferRecord
<1> HIDE DEF w
<1>3. Starts(r.read, r.whole)
  <2>1. /\ Starts(r.read, Come(r)) /\ Starts(Come(r), r.whole) /\ Come(r) \in Seq(Octets)
        /\ r.read \in Seq(Octets) /\ r.whole \in Seq(Octets)
    BY <1>1, ComeIs, BeginsBody DEF TransferRecord
  <2>2. \A x, y, z \in Seq(Octets) : Starts(x, y) /\ Starts(y, z) => Starts(x, z)
    BY StartsOn
  <2> QED
    BY <2>1, <2>2
<1>4. IdleOK(w)
  BY <1>2, <1>3 DEF IdleOK, Sturdy
<1>5. ASSUME NEW why \in Saids \ {"end", "error"}
      PROVE  IdleOK([w EXCEPT !.said = why]) /\ [w EXCEPT !.said = why].at = "closed"
  <2> DEFINE x == [w EXCEPT !.said = why]
  <2>1. /\ x \in TransferRecord /\ x.at = "closed" /\ x.body = << >> /\ x.held = << >> /\ x.read = r.read
        /\ x.whole = r.whole /\ x.said = why
    BY <1>2 DEF TransferRecord
  <2> HIDE DEF x
  <2>2. IdleOK(x) /\ x.at = "closed"
    BY <1>3, <2>1 DEF IdleOK, Sturdy
  <2> QED
    BY <2>2 DEF x
<1> QED
  BY <1>2, <1>4, <1>5 DEF w
LEMMA StopsCall ==
  ASSUME TransfersInv, op.phase # "none", op.phase \in {"check", "pump"}, NEW why \in {"multi", "interrupted"}, Stop(why)
  PROVE  TransfersInv'
<1> DEFINE r == tr[op.who]
           w == IF op.what = "open" THEN [transfer_release(r) EXCEPT !.said = why] ELSE [r EXCEPT !.said = why]
<1>1. op.who \in Transfers /\ r \in TransferRecord /\ IdleOK(r) /\ DrivenOK(r, op) /\ op.what \in {"open", "read"}
  BY UnderWay
<1>2. op' = NoOp /\ ready' = ready /\ tr' = [tr EXCEPT ![op.who] = w]
  BY DEF Stop, trustVars
<1>3. why \in Saids \ {"end", "error"}
  BY DEF Saids
<1>4. IdleOK(w) /\ w.at \in {"open", "closed"}
  <2>1. CASE op.what = "open"
    <3>1. OnScript(r) /\ w = [transfer_release(r) EXCEPT !.said = why]
      BY <1>1, <2>1 DEF DrivenOK
    <3> HIDE DEF r, w
    <3> QED
      BY <1>1, <1>3, <3>1, Lets
  <2>2. CASE op.what = "read"
    <3>1. r.at = "open" /\ OnScript(r) /\ w = [r EXCEPT !.said = why]
      BY <1>1, <2>2 DEF DrivenOK
    <3> HIDE DEF r, w
    <3>2. /\ w \in TransferRecord /\ w.said = why /\ w.at = "open" /\ Alike(w, [r EXCEPT !.said = why]) /\ w.script = r.script
          /\ w.body = r.body /\ w.held = r.held /\ w.done = r.done /\ w.ok = r.ok /\ w.paused = r.paused
          /\ w.read = r.read /\ w.whole = r.whole /\ w.follow = r.follow /\ w.skips = r.skips
      BY <1>1, <1>3, <3>1 DEF TransferRecord, Alike
    <3>3. \A s \in Scripts : \A n \in 0 .. Len(s) : AtEvent(r, s, n) => AtEvent(w, s, n)
      BY <3>2 DEF AtEvent, Came, Come
    <3>4. OnScript(w)
      BY <3>1, <3>3 DEF OnScript
    <3> QED
      BY <1>1, <1>3, <3>2, <3>4 DEF IdleOK, Sturdy
  <2> QED
    BY <1>1, <2>1, <2>2
<1> HIDE DEF w
<1> QED
  BY <1>2, <1>4, CallEnds

(* What no field of the events shows, no event sees.                       *)
LEMMA SameScript ==
  ASSUME NEW r \in TransferRecord, OnScript(r), NEW w \in TransferRecord, w.script = r.script, w.body = r.body,
         w.held = r.held, w.done = r.done, w.ok = r.ok, w.read = r.read, w.whole = r.whole, w.follow = r.follow,
         w.skips = r.skips
  PROVE  OnScript(w)
<1>1. \A s \in Scripts : \A n \in 0 .. Len(s) : AtEvent(r, s, n) => AtEvent(w, s, n)
  BY DEF AtEvent, Came, Come
<1> QED
  BY <1>1 DEF OnScript

LEMMA MakesReady ==
  ASSUME TransfersInv, http_ready
  PROVE  TransfersInv'
<1>1. op.phase = "ready" /\ ready.multi
  BY DEF http_ready, TransfersInv
<1>2. Phase("make") /\ UNCHANGED <<ready, tr>>
  BY <1>1 DEF http_ready
<1>3. /\ op.who \in Transfers /\ IdleOK(tr[op.who]) /\ DrivenOK(tr[op.who], op) /\ OpOK
  BY <1>1, UnderWay
<1>4. op.what = "open" /\ op \in OpRecord
  BY <1>1, <1>3 DEF OpOK
<1>5. DrivenOK(tr[op.who], [op EXCEPT !.phase = "make"])
  BY <1>1, <1>3, <1>4 DEF DrivenOK, OpRecord
<1>6. tr' = [tr EXCEPT ![op.who] = tr[op.who]]
  BY <1>2, <1>3 DEF TransfersInv
<1> QED
  BY <1>1, <1>2, <1>3, <1>4, <1>5, <1>6, CallGoesOn

LEMMA Configures ==
  ASSUME TransfersInv, NEW fails \in BOOLEAN, configure(fails)
  PROVE  TransfersInv'
<1> DEFINE r == tr[op.who]
<1>0. op.phase = "make" /\ ready' = ready
  BY DEF configure, trustVars
<1>1. op.who \in Transfers /\ r \in TransferRecord /\ IdleOK(r) /\ DrivenOK(r, op) /\ OpOK
  BY <1>0, UnderWay
<1>2. op.what = "open" /\ op \in OpRecord /\ OnScript(r)
  BY <1>0, <1>1 DEF OpOK, DrivenOK
<1>3. CASE fails
  <2> DEFINE w == [transfer_release(r) EXCEPT !.said = "unmade"]
  <2>1. op' = NoOp /\ tr' = [tr EXCEPT ![op.who] = w]
    BY <1>3 DEF configure
  <2>2. IdleOK(w) /\ w.at = "closed"
    <3> HIDE DEF r
    <3> QED
      BY <1>1, <1>2, Lets DEF Saids
  <2> HIDE DEF w
  <2> QED
    BY <1>0, <2>1, <2>2, CallEnds
<1>4. CASE ~fails
  <2> DEFINE w == [r EXCEPT !.at = "opening"]
  <2>1. Phase("check") /\ tr' = [tr EXCEPT ![op.who] = w]
    BY <1>4 DEF configure
  <2> HIDE DEF r
  <2>2. /\ w \in TransferRecord /\ w.at = "opening" /\ w.script = r.script /\ w.body = r.body
        /\ w.held = r.held /\ w.done = r.done /\ w.ok = r.ok /\ w.read = r.read /\ w.whole = r.whole
        /\ w.follow = r.follow /\ w.skips = r.skips /\ w.said = r.said /\ w.paused = r.paused
    BY <1>1 DEF TransferRecord
  <2> HIDE DEF w
  <2>3. OnScript(w)
    BY <1>1, <1>2, <2>2, SameScript
  <2>4. IdleOK(w)
    BY <1>1, <2>2, <2>3 DEF IdleOK, Sturdy
  <2>5. DrivenOK(w, [op EXCEPT !.phase = "check"])
    BY <1>1, <1>2, <2>2, <2>3 DEF DrivenOK, Pressed, OpRecord
  <2> QED
    BY <1>0, <2>1, <2>4, <2>5, CallGoesOn
<1> QED
  BY <1>3, <1>4

LEMMA LoopSteps ==
  ASSUME TransfersInv, NEW fails \in BOOLEAN, pump_once(fails) \/ Loop(fails)
  PROVE  TransfersInv'
<1> DEFINE r == tr[op.who]
<1>0. op.phase \in {"check", "pump"}
  BY DEF pump_once, Loop
<1>1. op.who \in Transfers /\ r \in TransferRecord /\ IdleOK(r) /\ DrivenOK(r, op) /\ OpOK
  BY <1>0, UnderWay
<1>2. CASE fails
  BY <1>0, <1>2, StopsCall DEF pump_once, Loop
<1>3. CASE ~fails
  <2>1. PICK p \in {"check", "pump"} : Phase(p) /\ UNCHANGED <<trustVars, tr>>
    BY <1>3 DEF pump_once, Loop
  <2>2. op \in OpRecord
    BY <1>1 DEF OpOK
  <2>3. DrivenOK(r, [op EXCEPT !.phase = p])
    BY <1>0, <1>1, <2>1, <2>2 DEF DrivenOK, OpRecord
  <2>4. tr' = [tr EXCEPT ![op.who] = r] /\ ready' = ready
    BY <1>1, <2>1 DEF TransfersInv, trustVars
  <2> QED
    BY <1>0, <1>1, <2>1, <2>3, <2>4, CallGoesOn
<1> QED
  BY <1>2, <1>3
LEMMA OpensOne ==
  ASSUME TransfersInv, NEW t \in Transfers, NEW s \in Scripts, NEW follow \in BOOLEAN, http_open(t, s, follow)
  PROVE  TransfersInv'
<1> DEFINE w == [Unmade EXCEPT !.script = s, !.follow = follow, !.whole = FinalBody(s, follow)]
           p == WalkOf(s, follow)[0]
<1>1. /\ op = NoOp /\ tr[t].at = "unmade" /\ tr' = [tr EXCEPT ![t] = w] /\ ready' = ready
      /\ op' = [who |-> t, what |-> "open", phase |-> "ready", max |-> 0]
  BY DEF http_open, trustVars
<1>2. s \in Seq(Items) /\ Len(s) \in Nat /\ Len(s) \in 0 .. Len(s) /\ 0 \in 0 .. Len(s)
  BY ScriptLists
<1>3. FinalBody(s, follow) \in Seq(Octets)
  <2>1. WalkOf(s, follow)[Len(s)] \in Walked
    BY <1>2, WalkTypes
  <2>2. FinalBody(s, follow) = WalkOf(s, follow)[Len(s)].bytes
    BY DEF FinalBody, WalkOf
  <2> QED
    BY <2>1, <2>2 DEF Walked
<1>4. /\ w \in TransferRecord /\ w.script = s /\ w.follow = follow /\ w.whole = FinalBody(s, follow)
      /\ w.at = "unmade" /\ w.said = "none" /\ ~w.done /\ ~w.paused /\ w.skips = FALSE
      /\ w.body = << >> /\ w.held = << >> /\ w.read = << >>
  <2>1. << >> \in Seq(Octets)
    OBVIOUS
  <2> QED
    BY <1>2, <1>3, <2>1 DEF Unmade, TransferRecord, Saids
<1> HIDE DEF w
<1>5. Come(w) = << >>
  <2>1. Come(w) = w.read \o w.body
    BY <1>4, ComeIs
  <2>2. << >> \in Seq(Octets)
    OBVIOUS
  <2>3. << >> \o << >> = << >>
    BY <2>2, ConcatEmptySeq
  <2> QED
    BY <1>4, <2>1, <2>3
<1>6. p = Unsent
  BY WalkSteps
<1>7. AtEvent(w, s, 0)
  <2>1. RestOf(s, s, 0)
    BY <1>2 DEF RestOf
  <2>2. Came(w, p)
    <3>1. p.skips = FALSE /\ p.over = FALSE /\ p.bytes = << >>
      BY <1>6 DEF Unsent
    <3> HIDE DEF p
    <3> QED
      BY <1>4, <1>5, <3>1 DEF Came
  <2> QED
    BY <1>4, <2>1, <2>2 DEF AtEvent
<1>8. OnScript(w) /\ IdleOK(w)
  BY <1>2, <1>4, <1>7 DEF OnScript, IdleOK, Sturdy
<1>9. HandleOK(t, w, op')
  BY <1>1, <1>4, <1>8 DEF HandleOK, Active, DrivenOK, Pressed
<1>10. OpOK'
  BY <1>1 DEF OpOK, OpRecord, OpenPhases
<1>11. Aside(t)
  BY <1>1 DEF Aside, Active, NoOp
<1> QED
  BY <1>1, <1>9, <1>10, <1>11, OneMoves

(* Curl moves a transfer, the call's own or another.                       *)
LEMMA CurlMoves ==
  ASSUME TransfersInv, NEW u \in Transfers, Live(u), NEW w, Goes(w, tr[u]), tr' = [tr EXCEPT ![u] = w],
         UNCHANGED <<trustVars, op>>
  PROVE  TransfersInv'
<1> DEFINE r == tr[u]
<1>1. HandleOK(u, r, op) /\ r.at \in {"opening", "open"} /\ ~r.done
  BY DEF TransfersInv, Live
<1> HIDE DEF r
<1>2. w \in TransferRecord /\ Sturdy(w) /\ OnScript(w) /\ w.at = r.at /\ w.said = r.said /\ (Pressed(r) => Pressed(w))
  BY DEF Goes, r
<1>3. r.said \notin {"end", "error"}
  BY <1>1 DEF HandleOK, IdleOK
<1>4. IdleOK(w)
  BY <1>1, <1>2, <1>3 DEF IdleOK
<1>5. HandleOK(u, w, op')
  BY <1>1, <1>2, <1>3, <1>4 DEF HandleOK, DrivenOK
<1>6. OpOK' /\ Aside(u) /\ ready' = ready
  BY DEF TransfersInv, OpOK, Aside, trustVars
<1> QED
  BY <1>5, <1>6, OneMoves

LEMMA PumpSteps ==
  ASSUME TransfersInv, NEW u \in Transfers, Timeout(u) \/ \E fails \in BOOLEAN : Perform(u, fails)
  PROVE  TransfersInv'
<1> DEFINE r == tr[u]
<1>1. Live(u) /\ UNCHANGED <<trustVars, op>>
  BY DEF Timeout, Perform
<1>2. HandleOK(u, r, op) /\ r.at \in {"opening", "open"} /\ ~r.done
  BY <1>1 DEF TransfersInv, Live
<1>3. r \in TransferRecord /\ Sturdy(r) /\ OnScript(r)
  BY <1>2 DEF HandleOK, IdleOK
<1>4. CASE Timeout(u)
  <2>1. tr' = [tr EXCEPT ![u] = Done(r, FALSE)]
    BY <1>4 DEF Timeout
  <2>2. Goes(Done(r, FALSE), r)
    BY <1>2, <1>3, TimesOut
  <2> QED
    BY <1>1, <2>1, <2>2, CurlMoves
<1>5. ASSUME NEW fails \in BOOLEAN, Perform(u, fails) PROVE TransfersInv'
  <2>1. tr' = [tr EXCEPT ![u] = Curl(r, fails)] /\ r.held = << >> /\ r.script # << >>
    BY <1>5 DEF Perform
  <2>2. Goes(Curl(r, fails), r)
    BY <1>2, <1>3, <2>1, Curled
  <2> QED
    BY <1>1, <2>1, <2>2, CurlMoves
<1> QED
  BY <1>4, <1>5

LEMMA OpenedStep ==
  ASSUME TransfersInv, Opened
  PROVE  TransfersInv'
<1> DEFINE r == tr[op.who]
           refused == [transfer_release(r) EXCEPT !.said = "refused"]
           opened == [r EXCEPT !.at = "open", !.said = "opened"]
           w == IF r.done /\ ~r.ok /\ ~r.headed /\ r.body = << >> THEN refused ELSE opened
<1>0. op.phase = "check" /\ op' = NoOp /\ ready' = ready /\ tr' = [tr EXCEPT ![op.who] = w]
  BY DEF Opened, trustVars
<1>1. op.who \in Transfers /\ r \in TransferRecord /\ IdleOK(r) /\ DrivenOK(r, op)
  BY <1>0, UnderWay
<1>2. OnScript(r)
  BY <1>1 DEF DrivenOK
<1>3. IdleOK(refused) /\ refused.at = "closed"
  <2> HIDE DEF r
  <2> QED
    BY <1>1, <1>2, Lets DEF Saids
<1>4. IdleOK(opened) /\ opened.at = "open"
  <2> HIDE DEF r
  <2>1. /\ opened \in TransferRecord /\ opened.at = "open" /\ opened.script = r.script /\ opened.body = r.body
        /\ opened.held = r.held /\ opened.done = r.done /\ opened.ok = r.ok /\ opened.read = r.read
        /\ opened.whole = r.whole /\ opened.follow = r.follow /\ opened.skips = r.skips /\ opened.said = "opened"
        /\ opened.paused = r.paused
    BY <1>1 DEF TransferRecord, Saids
  <2> HIDE DEF opened
  <2>2. OnScript(opened)
    BY <1>1, <1>2, <2>1, SameScript
  <2> QED
    BY <1>1, <2>1, <2>2 DEF IdleOK, Sturdy
<1>5. IdleOK(w) /\ w.at \in {"open", "closed"}
  <2> HIDE DEF refused, opened
  <2> QED
    BY <1>3, <1>4
<1> HIDE DEF w
<1> QED
  BY <1>0, <1>5, CallEnds

LEMMA ReadBegins ==
  ASSUME TransfersInv, NEW t \in Transfers, NEW n \in ReadSizes, NEW more \in BOOLEAN, handle_read(t, n, more)
  PROVE  TransfersInv'
<1> DEFINE r == tr[t]
           w == IF r.body = << >> THEN resume(r, more) ELSE r
<1>1. /\ op = NoOp /\ r.at = "open" /\ r.said \notin {"end", "error"} /\ ready' = ready
      /\ op' = [who |-> t, what |-> "read", phase |-> "check", max |-> n] /\ tr' = [tr EXCEPT ![t] = w]
  BY DEF handle_read, trustVars
<1>2. IdleOK(r) /\ r \in TransferRecord /\ Sturdy(r) /\ OnScript(r)
  BY <1>1 DEF TransfersInv, HandleOK, IdleOK
<1>3. Goes(resume(r, more), r) /\ Pressed(resume(r, more))
  BY <1>2, Resumed
<1> HIDE DEF r
<1>4. IdleOK(w) /\ OnScript(w) /\ Pressed(w) /\ w.at = "open" /\ w.said = r.said
  <2>1. CASE r.body = << >>
    <3>1. w = resume(r, more)
      BY <2>1
    <3> QED
      BY <1>1, <1>3, <3>1 DEF Goes, IdleOK
  <2>2. CASE r.body # << >>
    BY <1>1, <1>2, <2>2 DEF Pressed
  <2> QED
    BY <2>1, <2>2
<1> HIDE DEF w
<1>5. HandleOK(t, w, op')
  BY <1>1, <1>4 DEF HandleOK, Active, DrivenOK
<1>6. OpOK'
  BY <1>1, HttpAssumption DEF OpOK, OpRecord, OpenPhases
<1>7. Aside(t)
  BY <1>1 DEF Aside, Active, NoOp
<1> QED
  BY <1>1, <1>5, <1>6, <1>7, OneMoves

LEMMA ReadEnds ==
  ASSUME TransfersInv, NEW more \in BOOLEAN, Read(more)
  PROVE  TransfersInv'
<1> DEFINE r == tr[op.who]
           n == IF op.max < Len(r.body) THEN op.max ELSE Len(r.body)
           taken == [r EXCEPT !.read = @ \o SubSeq(r.body, 1, n), !.said = "bytes",
                              !.body = SubSeq(r.body, n + 1, Len(r.body))]
           told == [r EXCEPT !.said = IF r.ok THEN "end" ELSE "error"]
           w == IF r.body = << >> THEN told
                ELSE IF Len(taken.body) < Threshold THEN resume(taken, more) ELSE taken
<1>0. /\ op.what = "read" /\ op.phase = "check" /\ op' = NoOp /\ ready' = ready /\ tr' = [tr EXCEPT ![op.who] = w]
      /\ r.body # << >> \/ r.done
  BY DEF Read, trustVars, Ready
<1>1. op.who \in Transfers /\ r \in TransferRecord /\ IdleOK(r) /\ DrivenOK(r, op) /\ OpOK
  BY <1>0, UnderWay
<1>2. OnScript(r) /\ r.at = "open" /\ Sturdy(r) /\ op.max \in Nat
  BY <1>0, <1>1 DEF DrivenOK, IdleOK, OpOK, OpRecord
<1> HIDE DEF r
<1>3. CASE r.body = << >>
  <2>1. r.done /\ r.held = << >>
    BY <1>0, <1>2, <1>3 DEF Sturdy
  <2>2. Come(r) = r.read
    <3>1. Come(r) = r.read \o << >> /\ r.read \in Seq(Octets)
      BY <1>1, <1>3, <2>1, ComeIs DEF TransferRecord
    <3> QED
      BY <3>1, ConcatEmptySeq
  <2>3. r.ok => r.read = r.whole
    BY <1>1, <1>2, <2>1, <2>2, BeginsBody
  <2>4. w = told
    BY <1>3
  <2>5. PICK why \in {"end", "error"} : (why = "end" <=> r.ok) /\ told = [r EXCEPT !.said = why]
    BY DEF TransferRecord
  <2> HIDE DEF told, w
  <2>6. /\ told \in TransferRecord /\ told.at = "open" /\ told.script = r.script /\ told.body = << >>
        /\ told.held = r.held /\ told.done /\ told.ok = r.ok /\ told.read = r.read /\ told.body = r.body
        /\ told.whole = r.whole /\ told.follow = r.follow /\ told.skips = r.skips /\ told.said = why
        /\ told.paused = r.paused /\ told.done = r.done
    BY <1>1, <1>2, <1>3, <2>1, <2>5 DEF TransferRecord, Saids
  <2>7. OnScript(told)
    BY <1>1, <1>2, <2>6, SameScript
  <2>8. IdleOK(told)
    BY <1>2, <2>3, <2>5, <2>6, <2>7 DEF IdleOK, Sturdy
  <2> QED
    BY <1>0, <2>4, <2>6, <2>8, CallEnds
<1>4. CASE r.body # << >>
  <2>1. Len(r.body) \in Nat /\ n \in 0 .. Len(r.body)
    <3>1. Len(r.body) \in Nat
      BY <1>1 DEF TransferRecord
    <3> QED
      BY <1>2, <3>1
  <2> HIDE DEF n
  <2>2. taken \in TransferRecord /\ Sturdy(taken) /\ OnScript(taken) /\ taken.at = "open" /\ taken.said = "bytes"
    BY <1>1, <1>2, <2>1, TakesFrom
  <2>3. w = resume(taken, more) \/ w = taken
    BY <1>4
  <2> HIDE DEF taken, w
  <2>4. Goes(resume(taken, more), taken)
    BY <2>2, Resumed
  <2>5. IdleOK(w) /\ w.at = "open"
    BY <2>2, <2>3, <2>4 DEF Goes, IdleOK
  <2> QED
    BY <1>0, <2>5, CallEnds
<1> QED
  BY <1>3, <1>4

LEMMA ClosesOne ==
  ASSUME TransfersInv, NEW t \in Transfers, handle_close(t)
  PROVE  TransfersInv'
<1> DEFINE r == tr[t]
           w == transfer_release(r)
<1>1. op = NoOp /\ op' = op /\ r.at = "open" /\ ready' = ready /\ tr' = [tr EXCEPT ![t] = w]
  BY DEF handle_close, trustVars
<1>2. IdleOK(r) /\ OnScript(r)
  BY <1>1 DEF TransfersInv, HandleOK, IdleOK
<1>3. IdleOK(w) /\ w.at = "closed"
  BY <1>2, Lets
<1> HIDE DEF w
<1>4. HandleOK(t, w, op')
  BY <1>1, <1>3 DEF HandleOK, Active, NoOp
<1>5. OpOK' /\ Aside(t)
  BY <1>1 DEF TransfersInv, OpOK, Aside
<1> QED
  BY <1>1, <1>4, <1>5, OneMoves

LEMMA TransferSteps == TransfersInv /\ [TransferNext]_httpVars => TransfersInv'
<1> SUFFICES ASSUME TransfersInv, [TransferNext]_httpVars
             PROVE  TransfersInv'
  OBVIOUS
<1>1. CASE UNCHANGED httpVars
  BY <1>1 DEF httpVars, trustVars, TransfersInv, OpOK
<1>2. CASE OpenNext
  BY <1>2, MakesReady, Configures, LoopSteps, OpensOne DEF OpenNext
<1>3. CASE Opened
  BY <1>3, OpenedStep
<1>4. CASE \E more \in BOOLEAN : Read(more)
  BY <1>4, ReadEnds
<1>5. ASSUME NEW t \in Transfers,
             \/ Timeout(t) \/ handle_close(t)
             \/ \E fails \in BOOLEAN : Perform(t, fails)
             \/ \E n \in ReadSizes, more \in BOOLEAN : handle_read(t, n, more)
      PROVE  TransfersInv'
  BY <1>5, PumpSteps, ClosesOne, ReadBegins
<1> QED
  BY <1>1, <1>2, <1>3, <1>4, <1>5 DEF TransferNext

(* For any number of transfers, any scripts of a server and any sizes of   *)
(* reads: what a transfer's reader has, what the buffer holds and what     *)
(* curl was refused are, in that order, what came of the events so far     *)
(* (write_cb, resume, handle_read).                                        *)
THEOREM TransfersInvariance == TransferSpec => []TransfersInv
BY TransferInits, TransferSteps, PTL DEF TransferSpec

(* A reader gets the body's start and nothing else, is told of a clean end *)
(* only past the whole of it, and never waits on a transfer that curl      *)
(* holds back (write_cb, resume, handle_read, pump_once).                  *)
THEOREM TransfersAreExact == TransferSpec => []TransfersExact
<1>1. TransfersInv => TransfersExact
  <2> SUFFICES ASSUME TransfersInv, NEW t \in Transfers
               PROVE  LET r == tr[t]
                          come == r.read \o r.body \o r.held
                      IN  /\ Len(come) <= Len(r.whole) /\ come = SubSeq(r.whole, 1, Len(come))
                          /\ (r.at = "open" /\ r.done /\ r.ok) => come = r.whole
                          /\ (r.said = "end" => r.ok /\ r.read = r.whole)
                          /\ (r.said = "error" => ~r.ok /\ r.body = << >>)
                          /\ (r.held # << >> => r.paused)
                          /\ (op.who = t /\ op.phase = "pump" /\ r.body = << >> => ~r.paused)
    BY DEF TransfersExact, BodyExact, NeverHeldBack
  <2> DEFINE r == tr[t]
  <2>1. HandleOK(t, r, op) /\ IdleOK(r) /\ r \in TransferRecord
    BY DEF TransfersInv, HandleOK, IdleOK
  <2> HIDE DEF r
  <2>2. Come(r) \in Seq(Octets) /\ r.whole \in Seq(Octets)
    BY <2>1, ComeIs DEF TransferRecord
  <2>3. Starts(Come(r), r.whole)
    <3>1. CASE OnScript(r)
      BY <2>1, <3>1, BeginsBody
    <3>2. CASE r.at = "closed"
      <4>1. Starts(r.read, r.whole) /\ r.body = << >> /\ r.held = << >>
        BY <2>1, <3>2 DEF IdleOK
      <4>2. Come(r) = r.read \o << >> /\ r.read \in Seq(Octets)
        BY <2>1, <4>1, ComeIs DEF TransferRecord
      <4> QED
        BY <4>1, <4>2, ConcatEmptySeq
    <3>3. CASE r = Unmade
      <4>1. r.read = << >> /\ r.body = << >> /\ r.held = << >>
        BY <3>3 DEF Unmade
      <4>2. Come(r) = << >> \o << >>
        BY <2>1, <4>1, ComeIs
      <4>3. Come(r) = << >>
        BY <2>2, <4>2, ConcatEmptySeq
      <4>4. Len(r.whole) \in Nat /\ Len(<< >>) = 0
        BY <2>2
      <4> QED
        BY <4>3, <4>4 DEF Starts
    <3> QED
      BY <2>1, <3>1, <3>2, <3>3 DEF HandleOK, IdleOK, DrivenOK, TransferRecord
  <2>4. Len(Come(r)) <= Len(r.whole) /\ Come(r) = SubSeq(r.whole, 1, Len(Come(r)))
    <3> DEFINE c == Come(r)
               b == SubSeq(r.whole, 1, Len(c))
    <3>1. Len(c) <= Len(r.whole) /\ Len(c) \in Nat /\ \A i \in 1 .. Len(c) : c[i] = r.whole[i]
      BY <2>2, <2>3 DEF Starts
    <3> HIDE DEF c
    <3>2. b \in Seq(Octets) /\ Len(b) = Len(c) /\ \A i \in 1 .. Len(b) : b[i] = r.whole[i]
      BY <2>2, <3>1
    <3>3. c \in Seq(Octets)
      BY <2>2 DEF c
    <3> HIDE DEF b
    <3>4. c = b
      BY <3>1, <3>2, <3>3, SeqEqual
    <3> QED
      BY <3>1, <3>4 DEF c, b
  <2>5. (r.at = "open" /\ r.done /\ r.ok) => Come(r) = r.whole
    BY <2>1, BeginsBody DEF IdleOK
  <2>6. /\ (r.said = "end" => r.ok /\ r.read = r.whole)
        /\ (r.said = "error" => ~r.ok /\ r.body = << >>)
        /\ (r.held # << >> => r.paused)
    BY <2>1 DEF IdleOK, Sturdy
  <2>7. op.who = t /\ op.phase = "pump" /\ r.body = << >> => ~r.paused
    BY <2>1 DEF HandleOK, Active, DrivenOK, Pressed
  <2> QED
    BY <2>4, <2>5, <2>6, <2>7 DEF Come, r
<1> QED
  BY <1>1, TransfersInvariance, PTL
=============================================================================
