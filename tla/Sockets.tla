------------------------------ MODULE Sockets ------------------------------
(***************************************************************************)
(* What a socket owns (core/socket.c): the descriptor it closes once, and  *)
(* for a unix listener the file it made and removes only while its name is *)
(* still that file; and the descriptors a message brings (recvfds), which  *)
(* are owned from the moment the kernel installs them.                     *)
(*                                                                         *)
(* Listeners of any processes share one path with a stranger that removes  *)
(* and replaces its file at any time.  A file's identity is its inode,     *)
(* which is given to a new file as soon as no name and no bound socket     *)
(* holds it.                                                               *)
(***************************************************************************)
EXTENDS Integers, Sequences, FiniteSets

CONSTANTS
    Listeners,   \* the listeners
    Inodes,      \* bound: inodes, numbers
    MaxMoves,    \* bound: what the stranger does
    Messages,    \* messages received: [marker, parts, artifact], parts a sequence of [rights, n]
    Wanted,      \* how many descriptors recvfds asks for
    ReceiveMax   \* RIGHTS_RECEIVE_MAX

VARIABLES
    entry,     \* the file at the path: [ino, kind, maker], ino 0 for none
    owned,     \* each listener's [at, fd, directory, made, ino]
    bound,     \* the inode each listener's socket is bound to, or 0
    raced,     \* listeners whose file was touched while they looked at it
    excused,   \* listeners a system call failed in a way that leaves their file
    wronged,   \* whether a listener removed a file it did not make
    strange,   \* how often the stranger acted
    msg,       \* the message under way
    rcv,       \* [at, part, malformed, open, guard, owners]: descriptors by part and place
    got        \* recvfds's answer

socketVars == <<entry, owned, bound, raced, excused, wronged, strange, msg, rcv, got>>
listenVars == <<entry, owned, bound, raced, excused, wronged, strange>>
rightsVars == <<msg, rcv, got>>

NoEntry == [ino |-> 0, kind |-> "none", maker |-> "none"]
owner_push == [at |-> "new", fd |-> FALSE, directory |-> FALSE, made |-> FALSE, ino |-> 0]
NoRights == [at |-> "start", part |-> 1, malformed |-> FALSE, open |-> {}, guard |-> {}, owners |-> {}]

\* No listener is taken for a stranger or for nobody, nor an inode for none.
ASSUME SocketsAssumption ==
    /\ Listeners \cap {"none", "stranger"} = {}
    /\ Inodes \subseteq Nat \ {0}
    /\ \A m \in Messages : m.parts \in Seq([rights : BOOLEAN, n : Nat])

SocketInit ==
    /\ entry = NoEntry
    /\ owned = [l \in Listeners |-> owner_push]
    /\ bound = [l \in Listeners |-> 0]
    /\ raced = {} /\ excused = {} /\ wronged = FALSE
    /\ strange = 0
    /\ msg \in Messages
    /\ rcv = NoRights
    /\ got = "none"

-----------------------------------------------------------------------------
\* listen.

\* A new file has any inode that no name and no bound socket holds.
Held == {entry.ino} \cup {bound[l] : l \in Listeners}
NewFile(kind, maker, ino) == ino \notin Held /\ entry' = [ino |-> ino, kind |-> kind, maker |-> maker]

\* Who looks at the name, or has just made its file, while another changes it.
AtTheName == {l \in Listeners : owned[l].at \in {"bound", "stranded", "unlink"}}
At(l, where) == owned' = [owned EXCEPT ![l].at = where]

\* The directory is opened first; a failure leaves nothing to release.
unix_owner_push(l, ok) ==
    /\ owned[l].at = "new"
    /\ owned' = [owned EXCEPT ![l].at = IF ok THEN "directory" ELSE "gone", ![l].directory = ok]
    /\ UNCHANGED <<entry, bound, raced, excused, wronged, strange, rightsVars>>

new_socket(l, ok) ==
    /\ owned[l].at = "directory"
    /\ owned' = [owned EXCEPT ![l].at = IF ok THEN "socket" ELSE "release", ![l].fd = ok]
    /\ UNCHANGED <<entry, bound, raced, excused, wronged, strange, rightsVars>>

\* A bind makes the file, where the name is free; from its directory for a
\* long path, where the process may not get back (stranded).
reach_from(l, stranded) ==
    /\ owned[l].at = "socket"
    /\ IF entry # NoEntry THEN At(l, "release") /\ UNCHANGED <<entry, bound>>
       ELSE /\ \E ino \in Inodes : NewFile("socket", l, ino) /\ bound' = [bound EXCEPT ![l] = ino]
            /\ At(l, IF stranded THEN "stranded" ELSE "bound")
    /\ UNCHANGED <<raced, excused, wronged, strange, rightsVars>>

\* The file is read back at once, and is the listener's where it is a socket.
ReadBack(l, ok) ==
    /\ owned[l].at \in {"bound", "stranded"}
    /\ LET mine == ok /\ entry.kind = "socket"
       IN  owned' = [owned EXCEPT ![l].made = mine, ![l].ino = IF mine THEN entry.ino ELSE 0,
                                  ![l].at = IF mine /\ owned[l].at = "bound" THEN "made" ELSE "release"]
    /\ excused' = IF ok THEN excused ELSE excused \cup {l}
    /\ UNCHANGED <<entry, bound, raced, wronged, strange, rightsVars>>

listen(l, ok) ==
    /\ owned[l].at = "made"
    /\ At(l, IF ok THEN "listening" ELSE "release")
    /\ UNCHANGED <<entry, bound, raced, excused, wronged, strange, rightsVars>>

\* Mutant: the descriptor is closed before the file is looked at.
socket_close_first(l) ==
    /\ owned[l].at = "listening"
    /\ owned' = [owned EXCEPT ![l].at = "release", ![l].fd = FALSE]
    /\ bound' = [bound EXCEPT ![l] = 0]
    /\ UNCHANGED <<entry, raced, excused, wronged, strange, rightsVars>>

\* close, __close and __gc.
socket_close(l) ==
    /\ owned[l].at = "listening"
    /\ At(l, "release")
    /\ UNCHANGED <<entry, bound, raced, excused, wronged, strange, rightsVars>>

\* released: its file is looked at, then removed, then all is closed.
released(l) ==
    /\ owned[l].at = "release"
    /\ At(l, IF owned[l].made /\ entry.ino = owned[l].ino THEN "unlink" ELSE "close")
    /\ UNCHANGED <<entry, bound, raced, excused, wronged, strange, rightsVars>>

Unlink(l, ok) ==
    /\ owned[l].at = "unlink"
    /\ entry' = IF ok THEN NoEntry ELSE entry
    /\ wronged' = (wronged \/ (ok /\ entry.maker \notin {l, "none"} /\ l \notin raced))
    /\ excused' = IF ok THEN excused ELSE excused \cup {l}
    /\ raced' = IF ok THEN raced \cup (AtTheName \ {l}) ELSE raced
    /\ owned' = [owned EXCEPT ![l].at = "close"]
    /\ UNCHANGED <<bound, strange, rightsVars>>

ClosedAll(l) ==
    /\ owned[l].at = "close"
    /\ owned' = [owned EXCEPT ![l] = [owner_push EXCEPT !.at = "gone"]]
    /\ bound' = [bound EXCEPT ![l] = 0]
    /\ UNCHANGED <<entry, raced, excused, wronged, strange, rightsVars>>

\* The stranger removes the file, or puts one of its own where none is.
Stranger(kind) ==
    /\ strange < MaxMoves
    /\ strange' = strange + 1
    /\ IF kind = "none" THEN entry # NoEntry /\ entry' = NoEntry
       ELSE entry = NoEntry /\ \E ino \in Inodes : NewFile(kind, "stranger", ino)
    /\ raced' = raced \cup AtTheName
    /\ UNCHANGED <<owned, bound, excused, wronged, rightsVars>>

-----------------------------------------------------------------------------
\* recvfds.

\* The descriptors a header of the message brings.
Brought(i) == IF msg.parts[i].rights THEN {i} \X (1 .. msg.parts[i].n) ELSE {}

\* The kernel installs what its room takes; Linux closes the rest itself.
recvmsg ==
    /\ rcv.at = "start"
    /\ rcv' = [rcv EXCEPT !.open = UNION {Brought(i) : i \in 1 .. Len(msg.parts)}, !.at = "scan"]
    /\ UNCHANGED <<msg, got, listenVars>>

\* Each header's descriptors go to the guard, one past its room is closed.
ScanPart ==
    /\ rcv.at = "scan" /\ rcv.part <= Len(msg.parts)
    /\ LET here == Brought(rcv.part)
           room == {d \in here : Cardinality(rcv.guard) + d[2] <= ReceiveMax}
       IN  rcv' = [rcv EXCEPT !.part = @ + 1, !.guard = @ \cup room, !.open = @ \ (here \ room),
                              !.malformed = @ \/ ~msg.parts[rcv.part].rights \/ room # here]
    /\ UNCHANGED <<msg, got, listenVars>>

rights_checked(ok) == ok /\ ~msg.artifact

HandOver(ok) ==
    /\ rcv.at = "scan" /\ rcv.part > Len(msg.parts)
    /\ IF msg.marker # 0 \/ rcv.malformed \/ Cardinality(rcv.guard) # Wanted \/ ~rights_checked(ok)
       THEN got' = "failed" /\ rcv' = [rcv EXCEPT !.at = "end"]
       ELSE got' = "sockets" /\ rcv' = [rcv EXCEPT !.at = "end", !.owners = rcv.guard, !.guard = {}]
    /\ UNCHANGED <<msg, listenVars>>

\* The guard closes what it still has, at the end or at a collection.
rights_release ==
    /\ rcv.at = "end"
    /\ rcv' = [rcv EXCEPT !.at = "done", !.open = @ \ rcv.guard, !.guard = {}]
    /\ UNCHANGED <<msg, got, listenVars>>

ListenNext ==
    \/ \E l \in Listeners :
         \/ \E ok \in BOOLEAN : unix_owner_push(l, ok) \/ new_socket(l, ok) \/ listen(l, ok)
         \/ \E ok \in BOOLEAN : ReadBack(l, ok) \/ Unlink(l, ok)
         \/ \E stranded \in BOOLEAN : reach_from(l, stranded)
         \/ socket_close(l) \/ released(l) \/ ClosedAll(l)
    \/ \E kind \in {"none", "socket", "file"} : Stranger(kind)

RightsNext ==
    \/ recvmsg \/ ScanPart \/ rights_release
    \/ \E ok \in BOOLEAN : HandOver(ok)

SocketsSpec == SocketInit /\ [][ListenNext \/ RightsNext]_socketVars

-----------------------------------------------------------------------------
\* Properties.

\* A listener removes no file but the one it made, however often its name
\* is taken and inodes are given out again, unless another changed the name
\* in the moment it looked; and it leaves its own file behind only where a
\* call on it failed (released's and listen's comments).
FileItsOwn ==
    /\ ~wronged
    /\ \A l \in Listeners :
         (owned[l].at = "gone" /\ entry.maker = l) => l \in raced \cup excused

\* Every descriptor a message brought has one owner from its arrival to
\* its close, the guard or a socket given back, and no owner holds one
\* that is closed (recvfds, rights_release).
RightsOwned ==
    /\ rcv.owners \subseteq rcv.open
    /\ rcv.owners \cap rcv.guard = {}
    /\ rcv.at = "done" => rcv.open = rcv.owners
    /\ got = "sockets" => Cardinality(rcv.owners) = Wanted

\* A listener's socket file and a message's descriptors have one owner each.
SocketsOwned == FileItsOwn /\ RightsOwned
=============================================================================
