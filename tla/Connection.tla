----------------------------- MODULE Connection -----------------------------
(***************************************************************************)
(* Reads and writes of a connection, cosmic/internal/connection.tl, by     *)
(* tasks of a run that share it.  Each call reads the descriptor's number  *)
(* once and keeps it across its waits, while another task may write into   *)
(* the middle of its data, close the connection, and have the number go to *)
(* a connection made after.                                                *)
(*                                                                         *)
(* A byte is known by the write or the connection it is of and its place.  *)
(* A wait is `parked` until the loop answers it; the task runs some time   *)
(* after, and between the two anything may happen.                         *)
(***************************************************************************)
EXTENDS Naturals, Sequences, FiniteSets

CONSTANTS
    Users,       \* the tasks that read and write
    SendRoom,    \* how many bytes a socket holds before its peer takes them
    WriteSize,   \* how many bytes each write has
    MaxCalls,    \* how many reads and writes there are
    MaxWrites,   \* how many of them are writes
    MaxArrived,  \* how many bytes the peers send
    MaxBreaks    \* how many peers end what they send, or reset

Conns == {"first", "second"}   \* the second is made once the first is closed

ASSUME ConnectionAssumption == SendRoom \in Nat /\ WriteSize \in Nat

VARIABLES
    conn,      \* each connection: made, open, fd, read_failure, write_failure
    holder,    \* the connection whose socket each descriptor is, "" for none
    peer,      \* each peer: "up", "ended" or "reset"
    arrived,   \* the bytes a peer has sent that were not read
    answered,  \* the bytes reads of each connection have answered
    sent,      \* the bytes sent to each peer
    untaken,   \* how many of them are still in the socket
    writes,    \* each write: its connection, its answer, and whether one had failed before it
    user,      \* each task: pc, conn, fd, write, from and what its wait was answered
    reads      \* how many reads so far

connVars == <<conn, holder, peer, arrived, answered, sent, untaken, writes, user, reads>>
kernel == <<peer, arrived, answered, sent, untaken>>

Number == 3   \* the lowest one free, for whichever socket is made next
NotMade == [made |-> FALSE, open |-> FALSE, fd |-> 0, read_failure |-> FALSE, write_failure |-> FALSE]
new(fd) == [NotMade EXCEPT !.made = TRUE, !.open = TRUE, !.fd = fd]
IdleUser == [pc |-> "idle", conn |-> "", fd |-> 0, write |-> 0, from |-> 1, wait |-> ""]

ConnectionInit ==
    /\ conn = [c \in Conns |-> IF c = "first" THEN new(Number) ELSE NotMade]
    /\ holder = [n \in {Number} |-> "first"]
    /\ peer = [c \in Conns |-> "up"] /\ arrived = [c \in Conns |-> <<>>]
    /\ answered = [c \in Conns |-> <<>>] /\ sent = [c \in Conns |-> <<>>]
    /\ untaken = [c \in Conns |-> 0] /\ writes = <<>>
    /\ user = [u \in Users |-> IdleUser] /\ reads = 0

-----------------------------------------------------------------------------
\* The peers and the loop.

HaveSent == Len(arrived["first"] \o arrived["second"] \o answered["first"] \o answered["second"])

PeerMoves(c) ==
    /\ conn[c].made /\ peer[c] # "reset"
    /\ \/ /\ peer[c] = "up" /\ HaveSent < MaxArrived
          /\ arrived' = [arrived EXCEPT ![c] = Append(@, [of |-> c, at |-> Len(@) + Len(answered[c]) + 1])]
          /\ UNCHANGED <<peer, untaken>>
       \/ untaken[c] > 0 /\ untaken' = [untaken EXCEPT ![c] = @ - 1] /\ UNCHANGED <<peer, arrived>>
       \/ /\ \E why \in {"ended", "reset"} : why # peer[c] /\ peer' = [peer EXCEPT ![c] = why]
          /\ Cardinality({d \in Conns : peer[d] # "up"} \cup {c}) <= MaxBreaks
          /\ UNCHANGED <<arrived, untaken>>
    /\ UNCHANGED <<conn, holder, answered, sent, writes, user, reads>>

Readable(c) == arrived[c] # <<>> \/ peer[c] # "up"
Writable(c) == untaken[c] < SendRoom \/ peer[c] = "reset"

\* The loop's poll finds a parked task's descriptor ready, or its time or
\* its task's cancel comes first.
WaitAnswered(u) ==
    /\ user[u].pc # "idle" /\ user[u].wait = "parked"
    /\ \/ /\ holder[user[u].fd] # ""
          /\ IF user[u].pc = "reading" THEN Readable(holder[user[u].fd]) ELSE Writable(holder[user[u].fd])
          /\ user' = [user EXCEPT ![u].wait = "ok"]
       \/ user' = [user EXCEPT ![u].wait = "ended"]
    /\ UNCHANGED <<conn, holder, kernel, writes, reads>>

-----------------------------------------------------------------------------
\* Reading.

Leaves(u) == user' = [user EXCEPT ![u] = IdleUser]

\* sys.read of the number and what each of its answers does: bytes, the end
\* of them, a failure that every read's after is, or a wait.
ReadOnce(u, c, fd) ==
    LET h == holder[fd]
    IN  \/ /\ h # "" /\ peer[h] # "reset" /\ arrived[h] # <<>>
           /\ \E n \in 1 .. Len(arrived[h]) :
                /\ answered' = [answered EXCEPT ![c] = @ \o SubSeq(arrived[h], 1, n)]
                /\ arrived' = [arrived EXCEPT ![h] = SubSeq(@, n + 1, Len(@))]
           /\ Leaves(u) /\ UNCHANGED conn
        \/ /\ h # "" /\ peer[h] = "ended" /\ arrived[h] = <<>>
           /\ Leaves(u) /\ UNCHANGED <<conn, answered, arrived>>
        \/ /\ h # "" => peer[h] = "reset"
           /\ conn' = [conn EXCEPT ![c].read_failure = TRUE]
           /\ Leaves(u) /\ UNCHANGED <<answered, arrived>>
        \/ /\ h # "" /\ peer[h] = "up" /\ arrived[h] = <<>>
           /\ user' = [user EXCEPT ![u] = [IdleUser EXCEPT !.pc = "reading", !.conn = c, !.fd = fd,
                                                           !.wait = "parked"]]
           /\ UNCHANGED <<conn, answered, arrived>>

\* One on a closed connection, or after one that failed, does nothing.
read(u, c) ==
    /\ user[u].pc = "idle" /\ reads + Len(writes) < MaxCalls
    /\ conn[c].open /\ ~ conn[c].read_failure
    /\ reads' = reads + 1
    /\ ReadOnce(u, c, conn[c].fd)
    /\ UNCHANGED <<holder, peer, sent, untaken, writes>>

\* Mutant: a read whose wait is answered takes its number to be its own.
read_resumes_trusting(u) ==
    /\ user[u].pc = "reading" /\ user[u].wait \in {"ok", "ended"}
    /\ IF user[u].wait = "ok" THEN ReadOnce(u, user[u].conn, user[u].fd)
                              ELSE Leaves(u) /\ UNCHANGED <<conn, arrived, answered>>
    /\ UNCHANGED <<holder, peer, sent, untaken, writes, reads>>

\* After its wait a read tries again, unless the connection was closed.
read_resumes(u) ==
    /\ user[u].pc = "reading" /\ user[u].wait \in {"ok", "ended"}
    /\ IF user[u].wait = "ok" /\ conn[user[u].conn].open
         THEN ReadOnce(u, user[u].conn, user[u].fd)
         ELSE Leaves(u) /\ UNCHANGED <<conn, arrived, answered>>
    /\ UNCHANGED <<holder, peer, sent, untaken, writes, reads>>

-----------------------------------------------------------------------------
\* Writing.

\* send as often as it takes some: the bytes up to the socket's room.
Sends(h, w, from) ==
    LET n == IF WriteSize + 1 - from < SendRoom - untaken[h] THEN WriteSize + 1 - from
                                                             ELSE SendRoom - untaken[h]
    IN  [bytes |-> [i \in 1 .. n |-> [of |-> w, at |-> from + i - 1]], from |-> from + n]

\* What a write leaves, `ws` being the writes with it.
WriteFails(u, c, ws, w) ==
    /\ conn' = [conn EXCEPT ![c].write_failure = TRUE]
    /\ writes' = [ws EXCEPT ![w].out = "failed"]
    /\ Leaves(u) /\ UNCHANGED <<sent, untaken>>

WriteLoop(u, c, fd, ws, w, from) ==
    LET h == holder[fd]
        s == Sends(h, w, from)
    IN  IF h = "" \/ peer[h] = "reset" THEN WriteFails(u, c, ws, w)
        ELSE /\ sent' = [sent EXCEPT ![h] = @ \o s.bytes]
             /\ untaken' = [untaken EXCEPT ![h] = @ + Len(s.bytes)]
             /\ IF s.from > WriteSize
                  THEN writes' = [ws EXCEPT ![w].out = "ok"] /\ Leaves(u)
                  ELSE /\ writes' = ws
                       /\ user' = [user EXCEPT ![u] = [pc |-> "writing", conn |-> c, fd |-> fd,
                                                       write |-> w, from |-> s.from, wait |-> "parked"]]
             /\ UNCHANGED conn

write(u, c) ==
    /\ user[u].pc = "idle" /\ reads + Len(writes) < MaxCalls /\ Len(writes) < MaxWrites
    /\ conn[c].open /\ ~ conn[c].write_failure
    /\ LET spoiled == \E i \in 1 .. Len(writes) : writes[i].conn = c /\ writes[i].out = "failed"
           ws == Append(writes, [conn |-> c, out |-> "", spoiled |-> spoiled])
       IN  WriteLoop(u, c, conn[c].fd, ws, Len(ws), 1)
    /\ UNCHANGED <<holder, peer, arrived, answered, reads>>

\* A wait that ends without the descriptor ready may leave part of the data
\* sent, so it is every write's failure after.
write_resumes(u) ==
    LET m == user[u]
    IN  /\ m.pc = "writing" /\ m.wait \in {"ok", "ended"}
        /\ IF m.wait = "ended" THEN WriteFails(u, m.conn, writes, m.write)
           ELSE IF conn[m.conn].open THEN WriteLoop(u, m.conn, m.fd, writes, m.write, m.from)
           ELSE /\ writes' = [writes EXCEPT ![m.write].out = "closed"]
                /\ Leaves(u) /\ UNCHANGED <<conn, sent, untaken>>
        /\ UNCHANGED <<holder, peer, arrived, answered, reads>>

-----------------------------------------------------------------------------
\* Closing.

\* Poll.closing answers every wait on the number as though it were ready.
close(c) ==
    /\ conn[c].open
    /\ conn' = [conn EXCEPT ![c].open = FALSE]
    /\ user' = [u \in Users |-> IF user[u].wait = "parked" /\ user[u].fd = conn[c].fd
                                  THEN [user[u] EXCEPT !.wait = "ok"] ELSE user[u]]
    /\ holder' = [holder EXCEPT ![conn[c].fd] = ""]
    /\ UNCHANGED <<kernel, writes, reads>>

\* The next socket made takes the number that was closed.
Makes ==
    /\ ~ conn["second"].made /\ holder[Number] = ""
    /\ conn' = [conn EXCEPT !["second"] = new(Number)] /\ holder' = [holder EXCEPT ![Number] = "second"]
    /\ UNCHANGED <<kernel, writes, user, reads>>

\* A task killed in its wait runs no more of the call.
UserKilled(u) == user[u].wait = "parked" /\ Leaves(u) /\ UNCHANGED <<conn, holder, kernel, writes, reads>>

ConnectionNext ==
    \/ Makes
    \/ \E c \in Conns : PeerMoves(c) \/ close(c)
    \/ \E u \in Users : \/ WaitAnswered(u) \/ read_resumes(u) \/ write_resumes(u) \/ UserKilled(u)
                        \/ \E c \in Conns : read(u, c) \/ write(u, c)

ConnectionSpec == ConnectionInit /\ [][ConnectionNext]_connVars

-----------------------------------------------------------------------------
\* Each byte is sent once, and after the one before it in its write.
InOrder(q) ==
    \A i \in 1 .. Len(q) :
        /\ q[i].at = 1 \/ \E j \in 1 .. i - 1 : q[j] = [of |-> q[i].of, at |-> q[i].at - 1]
        /\ \A j \in 1 .. i - 1 : q[j] # q[i]
Sent(q, w, at) == \E i \in 1 .. Len(q) : q[i] = [of |-> w, at |-> at]

\* Whoever closes the connection, and whichever task reads or writes between
\* the halves of another's call: reads answer the bytes of their own
\* connection in order, each once, none lost to a wait that ended; a write
\* sends to its own peer, in its order, all of its data if it answers true
\* and nothing once another's failed; and nobody is left waiting on the
\* number of a closed connection.
ConnectionExact ==
    /\ \A c \in Conns :
         \A i \in 1 .. Len(answered[c] \o arrived[c]) : (answered[c] \o arrived[c])[i] = [of |-> c, at |-> i]
    /\ \A c \in Conns :
         /\ InOrder(sent[c])
         /\ \A i \in 1 .. Len(sent[c]) :
              LET w == writes[sent[c][i].of]
              IN  w.conn = c /\ ~ w.spoiled /\ sent[c][i].at \in 1 .. WriteSize
    /\ \A w \in 1 .. Len(writes) : writes[w].out = "ok" =>
         \A at \in 1 .. WriteSize : Sent(sent[writes[w].conn], w, at)
    /\ \A u \in Users : user[u].wait = "parked" => conn[user[u].conn].open
=============================================================================
