------------------------------- MODULE Lookup -------------------------------
(***************************************************************************)
(* A name looked up through a connector (core/socket.c's lookup, driven    *)
(* by relay_resolv.tl's run): c-ares asks for a connect, which is parked   *)
(* on a stand-in descriptor; the caller is told of it by step, has the     *)
(* connector connect, and supplies the socket, which takes the stand-in's  *)
(* number, or that none came.                                              *)
(*                                                                         *)
(* While the caller waits, other tasks open and close descriptors of the   *)
(* process, so a number c-ares closed may be anyone's.  c-ares, which is   *)
(* vendored, is what its callbacks see of it: it tries its servers in      *)
(* order, one at a time, and gives one up when its socket fails or its     *)
(* timer ends.  Time is whether the call's deadline has passed.            *)
(***************************************************************************)
EXTENDS Integers, Sequences, FiniteSets

CONSTANTS
    Servers,    \* the lookup's servers, a sequence
    Numbers,    \* descriptors, numbers
    Slots,      \* RESOLVE_PARKED_MAX
    WatchedMax, \* RESOLVE_WATCHED_MAX
    MaxOthers   \* bound: descriptors other tasks open

ServerNames == {Servers[i] : i \in DOMAIN Servers}

ASSUME LookupAssumption ==
    /\ Servers \in Seq(ServerNames) /\ Numbers \subseteq Nat /\ IsFiniteSet(Numbers)
    /\ {Slots, WatchedMax, MaxOthers} \subseteq Nat
    /\ ServerNames \cap {"free", "other", "standin", "failed", "timeout"} = {}

VARIABLES
    fdTable,   \* what each descriptor is: "free", "other", "standin" or a server's socket
    sock,      \* c-ares's socket: [fd, server], fd -1 for none
    untried,   \* how many servers c-ares has not asked for
    parked,    \* the parked connects: [id, fd, server, asked], id 0 for a free slot
    lastId,
    watched,   \* the descriptors c-ares wants watched
    outcome,   \* [done, status, late]
    passed,    \* whether the deadline has passed
    asker,     \* where the caller is: "step", "wants", "wait", "result", "ended" or "released"
    wants,     \* what step told it of
    found,     \* the descriptors it found ready
    reply,     \* what it answered
    starved,   \* whether a server was given up for want of time
    others     \* how many descriptors other tasks opened

lookupVars == <<fdTable, sock, untried, parked, lastId, watched, outcome, passed,
                asker, wants, found, reply, starved, others>>

NoSock == [fd |-> -1, server |-> ""]
Empty == [id |-> 0, fd |-> -1, server |-> "", asked |-> FALSE]

LookupInit ==
    /\ fdTable = [f \in Numbers |-> "free"]
    /\ sock = NoSock
    /\ untried = Len(Servers)
    /\ parked = [k \in 1 .. Slots |-> Empty]
    /\ lastId = 0
    /\ watched = {}
    /\ outcome = [done |-> FALSE, status |-> "", late |-> FALSE]
    /\ passed = FALSE
    /\ asker = "step" /\ wants = {} /\ found = {} /\ reply = ""
    /\ starved = FALSE
    /\ others = 0

-----------------------------------------------------------------------------
\* The callbacks, as functions of the lookup's state r.

State == [fdTable |-> fdTable, sock |-> sock, untried |-> untried, parked |-> parked, lastId |-> lastId,
          watched |-> watched, outcome |-> outcome, starved |-> starved]

Lowest(t) == CHOOSE f \in Numbers : t[f] = "free" /\ \A g \in Numbers : t[g] = "free" => f <= g

parked_for_fd(r, f) == {k \in 1 .. Slots : r.parked[k].id # 0 /\ r.parked[k].fd = f}

\* c-ares wants a socket watched (ev) or no more.
socket_state(r, f, ev) ==
    IF ~ev THEN [r EXCEPT !.watched = @ \ {f}]
    ELSE IF Cardinality(r.watched) < WatchedMax THEN [r EXCEPT !.watched = @ \cup {f}]
    ELSE r

\* Mutant: the connect stays parked after its stand-in is closed.
through_close_parked(r) ==
    [socket_state(r, r.sock.fd, FALSE) EXCEPT !.fdTable[r.sock.fd] = "free", !.sock = NoSock]

through_close(r) ==
    [socket_state(r, r.sock.fd, FALSE)
       EXCEPT !.fdTable[r.sock.fd] = "free", !.sock = NoSock,
              !.parked = [k \in 1 .. Slots |-> IF k \in parked_for_fd(r, r.sock.fd) THEN Empty ELSE @[k]]]

resolved(r, status) ==
    IF r.outcome.done THEN r ELSE [r EXCEPT !.outcome = [@ EXCEPT !.done = TRUE, !.status = status]]

\* Parks the connect on the first free slot, or refuses it.
through_connect(r, f, s) ==
    LET free == {k \in 1 .. Slots : r.parked[k].id = 0}
        slot == CHOOSE k \in free : \A j \in free : k <= j
        late == [r EXCEPT !.outcome.late = @ \/ passed, !.starved = @ \/ passed]
    IN  IF passed \/ free = {} THEN [late |-> late, ok |-> FALSE]
        ELSE [late |-> [r EXCEPT !.lastId = @ + 1,
                                 !.parked[slot] = [id |-> r.lastId + 1, fd |-> f, server |-> s, asked |-> FALSE]],
              ok |-> TRUE]

\* c-ares asks for its servers one after another until one is parked: a
\* stand-in is made, and closed again where the connect is refused.  What
\* refuses one, no descriptor, no slot or no time, refuses the rest too.
through_socket(r) ==
    LET open == \E f \in Numbers : r.fdTable[f] = "free"
        f == Lowest(r.fdTable)
        s == Servers[Len(Servers) - r.untried + 1]
        c == through_connect(r, f, s)
        tried == IF open THEN c.late ELSE r
    IN  IF r.untried = 0 THEN resolved(r, "refused")
        ELSE IF open /\ c.ok
          THEN [socket_state(tried, f, TRUE) EXCEPT !.untried = @ - 1, !.fdTable[f] = "standin",
                  !.sock = [fd |-> f, server |-> s]]
          ELSE resolved([tried EXCEPT !.untried = 0], "refused")

\* c-ares gives its server up and asks for the next.
GiveUp(r) == through_socket(IF r.sock = NoSock THEN r ELSE through_close(r))

\* What c-ares may do with a socket that is ready: take an answer, wait for
\* more, or find it failed; a stand-in always fails (ENOTSOCK).
resolution_process(r, f) ==
    IF f # r.sock.fd \/ r.outcome.done THEN {r}
    ELSE IF r.fdTable[f] = "standin" THEN {GiveUp(r)}
    ELSE {r, GiveUp(r)} \cup {resolved(through_close(r), s) : s \in {"found", "notfound"}}

\* Its timers: the query's own, which is the whole of the time.
Timers(r) ==
    IF r.outcome.done THEN {r}
    ELSE IF r.sock = NoSock THEN {GiveUp(r)}
    ELSE {r} \cup (IF passed THEN {resolved(through_close([r EXCEPT !.starved = TRUE]), "timeout")} ELSE {})

Become(r) ==
    /\ fdTable' = r.fdTable /\ sock' = r.sock /\ untried' = r.untried /\ parked' = r.parked
    /\ lastId' = r.lastId /\ watched' = r.watched /\ outcome' = r.outcome /\ starved' = r.starved

-----------------------------------------------------------------------------
\* The caller.

\* step: readiness first, a parked stand-in's skipped, then the timers;
\* then each connect it has not been told of.
lookup_ready(r) ==
    IF found = {} THEN {r}
    ELSE LET f == CHOOSE g \in found : TRUE
         IN  IF parked_for_fd(r, f) # {} THEN {r} ELSE resolution_process(r, f)

lookup_step ==
    /\ asker = "step"
    /\ \E r \in lookup_ready(State) : \E q \in Timers(r) :
         LET told == {k \in 1 .. Slots : q.parked[k].id # 0 /\ ~q.parked[k].asked}
         IN  /\ Become([q EXCEPT !.parked = [k \in 1 .. Slots |-> IF k \in told THEN [@[k] EXCEPT !.asked = TRUE] ELSE @[k]]])
             /\ wants' = {q.parked[k] : k \in told}
             /\ asker' = IF q.outcome.done THEN "result" ELSE IF told # {} THEN "wants" ELSE "wait"
    /\ found' = {}
    /\ UNCHANGED <<passed, reply, others>>

\* The connector connects, fails or is too late; then the socket takes the
\* stand-in's place, and the caller's own descriptor is closed.
Supplied(r, id, how) ==
    LET ks == {k \in 1 .. Slots : r.parked[k].id = id}
    IN  IF ks = {} THEN r
        ELSE LET k == CHOOSE j \in ks : TRUE
             IN  [r EXCEPT !.parked[k] = Empty,
                           !.fdTable[r.parked[k].fd] = IF how \in {"failed", "timeout"} THEN @ ELSE how,
                           !.outcome.late = @ \/ how = "timeout"]

lookup_supply ==
    /\ asker = "wants"
    /\ \E w \in wants :
         /\ \E how \in {w.server, "failed", "timeout"} :
              /\ Become(Supplied([State EXCEPT !.starved = @ \/ how = "timeout"], w.id, how))
         /\ wants' = wants \ {w}
         /\ asker' = IF wants' = {} THEN "step" ELSE "wants"
    /\ UNCHANGED <<passed, found, reply, others>>

\* The wait: for a watched descriptor that is ready, a timer or the
\* deadline.  A dead stand-in is hung up, and so always ready.
lookup_wait ==
    /\ asker = "wait"
    /\ \/ /\ passed
          /\ Become([State EXCEPT !.starved = TRUE])
          /\ reply' = "timeout" /\ asker' = "ended"
          /\ found' = {}
       \/ /\ ~passed
          /\ \E f \in {{}} \cup {{w} : w \in {w \in watched : parked_for_fd(State, w) = {}}} :
               /\ found' = f
               /\ asker' = "step"
          /\ Become(State)
          /\ UNCHANGED reply
    /\ UNCHANGED <<passed, wants, others>>

lookup_result ==
    IF outcome.late /\ outcome.status \in {"refused", "timeout"} THEN "timeout" ELSE outcome.status

Answer ==
    /\ asker = "result"
    /\ reply' = lookup_result
    /\ asker' = "ended"
    /\ UNCHANGED <<fdTable, sock, untried, parked, lastId, watched, outcome, passed, wants, found, starved, others>>

\* The end of the call, by its answer or a task's cancellation, closes the
\* lookup and every socket c-ares holds.
lookup_release ==
    /\ asker # "released"
    /\ asker \in {"ended", "wait", "wants"}
    /\ Become(IF sock = NoSock THEN State ELSE through_close(State))
    /\ asker' = "released"
    /\ UNCHANGED <<passed, wants, found, reply, others>>

\* Other tasks, while this one waits.
Waiting == asker \in {"wants", "wait", "released"}

OtherOpens ==
    /\ Waiting /\ others < MaxOthers
    /\ \E f \in Numbers : fdTable[f] = "free"
    /\ fdTable' = [fdTable EXCEPT ![Lowest(fdTable)] = "other"]
    /\ others' = others + 1
    /\ UNCHANGED <<sock, untried, parked, lastId, watched, outcome, passed, asker, wants, found, reply, starved>>

OtherCloses(f) ==
    /\ Waiting /\ fdTable[f] = "other"
    /\ fdTable' = [fdTable EXCEPT ![f] = "free"]
    /\ others' = others - 1
    /\ UNCHANGED <<sock, untried, parked, lastId, watched, outcome, passed, asker, wants, found, reply, starved>>

Deadline ==
    /\ ~passed /\ asker \in {"step", "wants", "wait", "result"}
    /\ passed' = TRUE
    /\ UNCHANGED <<fdTable, sock, untried, parked, lastId, watched, outcome, asker, wants, found, reply, starved, others>>

LookupNext ==
    \/ lookup_step \/ lookup_supply \/ lookup_wait \/ Answer \/ lookup_release
    \/ OtherOpens \/ Deadline
    \/ \E f \in Numbers : OtherCloses(f)

LookupSpec == LookupInit /\ [][LookupNext]_lookupVars

-----------------------------------------------------------------------------
\* Properties.

\* c-ares speaks to the server it means to, on a socket that is its own:
\* what was supplied went to the stand-in of the connect it was asked for,
\* though numbers are reused, and no descriptor of another task's is taken;
\* what it holds at the end is closed (through_close, lookup_supply).
RightServer ==
    /\ sock # NoSock => fdTable[sock.fd] \in {"standin", sock.server}
    /\ \A f \in Numbers : fdTable[f] \notin {"free", "other"} => f = sock.fd
    /\ Cardinality({f \in Numbers : fdTable[f] = "other"}) = others
    /\ \A k \in 1 .. Slots : parked[k].id # 0 => parked[k].fd = sock.fd

\* A lookup says its servers refused it only where each was asked in time:
\* one left for want of time makes it a timeout (lookup_result).
LateIsTimeout == (asker = "ended" /\ reply = "refused") => ~starved

\* A lookup asks the server it is told to, and a late one is a timeout.
LookupAnswers == RightServer /\ LateIsTimeout
=============================================================================
