------------------------------ MODULE Connector ------------------------------
(***************************************************************************)
(* The sandbox's native TCP connector: core/connector.c's confined process *)
(* and the tasks of cosmic/internal/connector.tl that share its stream.    *)
(*                                                                         *)
(* The process is forked, held (descriptors, signals, limits, the filter   *)
(* last) and says over a status pipe whether it was; then it says hello    *)
(* and serves tagged requests, up to Flight connects at once, each replied *)
(* to as it ends: a header and, after a success, a marker with its socket. *)
(* Whichever task finds the stream readable reads every reply that is      *)
(* there, another task's among them.                                       *)
(*                                                                         *)
(* A request is a member of Requests with an id of its own, and the peer   *)
(* it wants is that id.  Addresses are Width-bit numbers.  A reply's bytes *)
(* come in two elements, since the code never reads past one of them; a    *)
(* stream may be read up to any element.  A connect's deadline is whether  *)
(* it has passed (late).                                                   *)
(***************************************************************************)
EXTENDS Integers, Sequences, FiniteSets

CONSTANTS
    Tasks,      \* the tasks sharing the connector
    Requests,   \* what they ask: [index, port, family, address]
    Endpoints,  \* the connector's table: the port of each entry, 0 for any
    Public,     \* its public lists: [enabled, deny, own]
    Ports,      \* the highest port number (65535)
    Flight,     \* CONNECTOR_FLIGHT
    Reserve,    \* TABLE_RESERVE
    MaxTag,     \* where tags wrap (2^32 - 1)
    MaxAsks,    \* how many requests a behaviour has
    MaxStarts,  \* how many times the process is started
    MaxKills    \* how many times it is killed from outside

PublicIndex == -1
Width == 4

\* A public request's port is checked before it is sent, and there are tags
\* for every request in flight.
ASSUME ConnectorAssumption ==
    /\ {Flight, MaxTag} \subseteq Nat \ {0} /\ Flight <= MaxTag /\ Reserve \in Nat
    /\ \A r \in Requests : r.index = PublicIndex => r.port # 0

\* What an address must hold under its first bits to be global unicast IPv6.
GlobalRoot == [value |-> 4, bits |-> 2, family |-> 6]

VARIABLES
    start,     \* where connector_start is: "none", "prepared", "forked", "ok", "failed"
    made,      \* what the parent holds for it: "memory", "pipe", "masked"
    heldBy,     \* the holds the process has taken, in order
    statusPipe,    \* what is in the status pipe: "empty", "held", "refused"
    child,     \* "none", "holding", "held", "serving", "zombie", "gone"
    requests,  \* the stream to the process
    partial,       \* whether it has read part of the first of them
    flight,    \* its connects in flight, each [tag, id, late, net], the network's word of
               \* it being "connecting", "up", "refused" or "reset"
    replies,   \* the stream from the process, a socket in it with its net too
    channel,   \* the tasks' record of the stream
    caller,      \* each task: pc, the request, its outcome and which start's stream it is on
    woken,     \* the tasks made ready by Poll.wake or the stream's closing
    sockets,   \* the ids whose sockets this program holds open
    ask_count, starts, kills  \* how many so far

connectorVars == <<start, made, heldBy, statusPipe, child, requests, partial, flight, replies,
          channel, caller, woken, sockets, ask_count, starts, kills>>
process == <<start, made, heldBy, statusPipe, child, starts>>
server == <<requests, partial, flight, replies>>
client == <<channel, caller, woken, sockets, ask_count>>

NewChannel == [greeted |-> FALSE, pending |-> <<>>, next_tag |-> 1, passing |-> 0, lost |-> ""]
IdleTask == [pc |-> "idle", id |-> 0, request |-> <<>>, kind |-> "", out |-> "", stream |-> 0]

ConnectorInit ==
    /\ start = "none" /\ made = {} /\ heldBy = <<>> /\ statusPipe = "empty" /\ child = "none"
    /\ requests = <<>> /\ partial = FALSE /\ flight = <<>> /\ replies = <<>>
    /\ channel = NewChannel /\ caller = [t \in Tasks |-> IdleTask]
    /\ woken = {} /\ sockets = {} /\ ask_count = 0 /\ starts = 0 /\ kills = 0

-----------------------------------------------------------------------------
\* Starting the process.

\* The order connector_hold takes its holds in: the filter, which refuses the
\* calls the others need, comes last.
HoldOrder == <<"closed", "signals", "dumpable", "limits", "filter">>

\* connector_release, however the start ended.
Release == made' = {}

\* The stream's own checks, the table, and the scratch page of a public one.
Prepare ==
    /\ start \in {"none", "failed"} /\ starts < MaxStarts
    /\ starts' = starts + 1
    /\ \/ start' = "prepared" /\ made' = {"memory"}
       \/ start' = "failed" /\ Release
    /\ statusPipe' = "empty" /\ heldBy' = <<>> /\ child' = "none"
    /\ requests' = <<>> /\ partial' = FALSE /\ flight' = <<>> /\ replies' = <<>>
    /\ channel' = NewChannel
    /\ UNCHANGED <<caller, woken, sockets, ask_count, kills>>

\* Every signal is blocked across the fork, so that no handler of this
\* program runs in the child before connector_hold resets them.
Fork ==
    /\ start = "prepared"
    /\ \/ /\ start' = "forked" /\ child' = "holding"
          /\ made' = made \cup {"pipe", "masked"}
       \/ start' = "failed" /\ Release /\ UNCHANGED child
    /\ UNCHANGED <<heldBy, statusPipe, starts, kills>> /\ UNCHANGED server /\ UNCHANGED client

Hold ==
    /\ child = "holding"
    /\ IF heldBy = HoldOrder
         THEN statusPipe' = "held" /\ child' = "held" /\ UNCHANGED heldBy
         ELSE \/ heldBy' = Append(heldBy, HoldOrder[Len(heldBy) + 1]) /\ UNCHANGED <<statusPipe, child>>
              \/ statusPipe' = "refused" /\ child' = "zombie" /\ UNCHANGED heldBy
    /\ UNCHANGED <<start, made, starts, kills>> /\ UNCHANGED server /\ UNCHANGED client

\* The parent restores its mask and reads the status: the pipe's end without
\* one is a failure too.  A child that is not held is killed and reaped.
Started ==
    /\ start = "forked" /\ (statusPipe # "empty" \/ child = "zombie")
    /\ Release
    /\ IF statusPipe = "held" THEN start' = "ok" /\ UNCHANGED child
                          ELSE start' = "failed" /\ child' = "gone"
    /\ UNCHANGED <<heldBy, statusPipe, starts, kills>> /\ UNCHANGED server /\ UNCHANGED client

ProcessKilled ==
    /\ child \in {"holding", "held", "serving"} /\ kills < MaxKills
    /\ child' = "zombie" /\ kills' = kills + 1
    /\ UNCHANGED <<start, made, heldBy, statusPipe, starts>> /\ UNCHANGED server /\ UNCHANGED client

-----------------------------------------------------------------------------
\* What the process decides of a request.

\* Whether `prefix` holds `address`: the first `bits` bits are the same.
connector_within(prefix, address, family) ==
    /\ prefix.family = family
    /\ LET rest == 2 ^ (Width - prefix.bits)
       IN  prefix.value \div rest = address \div rest

connector_public_allowed(address, family) ==
    /\ family = 6 => connector_within(GlobalRoot, address, 6)
    /\ \A p \in Public.deny \cup Public.own : ~ connector_within(p, address, family)

\* The port a table's slot holds for a request: of a range of every port the
\* slot is the port's, of a single one whatever port the endpoint has.
SlotPort(index, port) == IF Endpoints[index] = 0 THEN port ELSE Endpoints[index]

connector_connect(r, room) ==
    CASE r.family # 0 \/ r.address # 0 -> "EINVAL"
      [] OTHER ->
         IF \/ r.index \notin 1 .. Len(Endpoints) \/ r.port \notin 1 .. Ports
            \/ SlotPort(r.index, r.port) # r.port
           THEN "EPERM"
           ELSE IF room THEN "begin" ELSE "BUSY"

connector_public_connect(r, room) ==
    IF ~ Public.enabled THEN "EPERM"
    ELSE IF r.family \notin {4, 6} \/ r.port > Ports THEN "EINVAL"
    ELSE IF ~ connector_public_allowed(r.address, r.family) THEN "DENIED"
    ELSE IF r.port = 0 THEN "ok"
    ELSE IF room THEN "begin" ELSE "BUSY"

Judge(r, room) ==
    IF r.index = PublicIndex THEN connector_public_connect(r, room) ELSE connector_connect(r, room)

-----------------------------------------------------------------------------
\* Serving.

\* A reply's header and, after a success with a socket, the marker with it.
connector_reply(tag, failure, fd) ==
    <<[what |-> "head", tag |-> tag, status |-> failure]>> \o
    (IF failure = "ok" THEN fd ELSE <<>>)
Marker(id, net) == <<[what |-> "socket", id |-> id, net |-> net]>>

Hello ==
    /\ child = "held" /\ child' = "serving"
    /\ replies' = Append(replies, [what |-> "hello"])
    /\ UNCHANGED <<start, made, heldBy, statusPipe, starts, kills, requests, partial, flight>>
    /\ UNCHANGED client

\* What SO_ERROR says of a connect the poll found ready.
SocketError(f) == IF f.net = "refused" THEN "ECONNREFUSED" ELSE "ok"

\* One connect in flight ended: the last takes its place.
Settled(s, i, failure) ==
    LET f == s.flight[i]
        n == Len(s.flight)
    IN  [flight |-> SubSeq([s.flight EXCEPT ![i] = s.flight[n]], 1, n - 1),
         replies |-> s.replies \o connector_reply(f.tag, failure, Marker(f.id, f.net))]

SettleOnePatient(s, i, ready) ==
    IF i \in ready THEN Settled(s, i, SocketError(s.flight[i])) ELSE s

\* What a turn does at place i, `ready` being the places the poll answered.
SettleOne(s, i, ready) ==
    IF i \in ready THEN Settled(s, i, SocketError(s.flight[i]))
    ELSE IF s.flight[i].late THEN Settled(s, i, "ETIMEDOUT")
    ELSE s

\* Downward, so that the connect moved into a settled one's place has been
\* looked at already.
Settle(ready) ==
    LET n == Len(flight)
        done[i \in 0 .. n] == IF i = 0 THEN [flight |-> flight, replies |-> replies]
                              ELSE SettleOne(done[i - 1], n + 1 - i, ready)
    IN  done[n]

PollReady == {i \in 1 .. Len(flight) : flight[i].net # "connecting"}

\* connector_serve of the request read whole; a begun connect is answered at
\* once where it is made or refused at once, and else put in flight.
Serve(s, q) ==
    LET judged == Judge(q.request, Len(s.flight) < Flight)
    IN  IF judged # "begin"
          THEN /\ flight' = s.flight
               /\ replies' = s.replies \o connector_reply(q.tag, judged, <<>>)
          ELSE \/ /\ flight' = Append(s.flight, [tag |-> q.tag, id |-> q.id, late |-> FALSE,
                                                net |-> "connecting"])
                  /\ replies' = s.replies
               \/ /\ flight' = s.flight
                  /\ \/ replies' = s.replies \o connector_reply(q.tag, "ok", Marker(q.id, "up"))
                     \/ replies' = s.replies \o connector_reply(q.tag, "ECONNREFUSED", <<>>)

\* One turn of connector_loop, once its poll has something: the connects that
\* ended are settled, then what the stream has of one request is read.  The
\* stream may have had nothing when the poll looked.
connector_loop ==
    /\ child = "serving"
    /\ PollReady # {} \/ requests # <<>> \/ \E i \in 1 .. Len(flight) : flight[i].late
    /\ LET s == Settle(PollReady)
       IN  \/ /\ s.flight # flight
              /\ flight' = s.flight /\ replies' = s.replies
              /\ UNCHANGED <<requests, partial>>
           \/ /\ requests # <<>> /\ ~ partial /\ partial' = TRUE
              /\ flight' = s.flight /\ replies' = s.replies
              /\ UNCHANGED requests
           \/ /\ requests # <<>> /\ partial' = FALSE
              /\ requests' = Tail(requests)
              /\ Serve(s, Head(requests))
    /\ UNCHANGED <<start, made, heldBy, statusPipe, child, starts, kills>> /\ UNCHANGED client

\* The network settles a connect; one made may be reset before its socket
\* is taken.
Network ==
    /\ \/ \E i \in 1 .. Len(flight), n \in {"up", "refused", "reset"} :
            /\ flight[i].net = IF n = "reset" THEN "up" ELSE "connecting"
            /\ flight' = [flight EXCEPT ![i].net = n] /\ UNCHANGED replies
       \/ \E i \in 1 .. Len(replies) :
            /\ replies[i].what = "socket" /\ replies[i].net = "up"
            /\ replies' = [replies EXCEPT ![i].net = "reset"] /\ UNCHANGED flight
    /\ UNCHANGED <<requests, partial, kills>> /\ UNCHANGED process /\ UNCHANGED client

\* A connect's wait runs out.
Late ==
    /\ \E i \in 1 .. Len(flight) : ~ flight[i].late /\ flight' = [flight EXCEPT ![i].late = TRUE]
    /\ UNCHANGED <<requests, partial, replies, kills>> /\ UNCHANGED process /\ UNCHANGED client

-----------------------------------------------------------------------------
\* The tasks.

Sleepers == {t \in Tasks : caller[t].pc \in {"room", "asked"}}
Lacking(f, k) == [x \in DOMAIN f \ {k} |-> f[x]]

\* What pump works on: the stream's record, the tasks, the open sockets and
\* whether anything a waiter looks at changed.
Pumping == [channel |-> channel, caller |-> caller, sockets |-> sockets, progress |-> FALSE]

AnswerForgetful(c, tag, out, fd) ==
    LET p == c.channel.pending[tag]
    IN  [channel |-> [c.channel EXCEPT !.pending = Lacking(@, tag), !.passing = 0],
         caller |-> IF p.given_up THEN c.caller ELSE [c.caller EXCEPT ![p.caller].out = out],
         sockets |-> c.sockets \cup fd,
         progress |-> TRUE]

\* A request answered; one given up on has its socket closed.
Settles(c, tag, out, fd) ==
    LET p == c.channel.pending[tag]
    IN  [channel |-> [c.channel EXCEPT !.pending = Lacking(@, tag), !.passing = 0],
         caller |-> IF p.given_up THEN c.caller ELSE [c.caller EXCEPT ![p.caller].out = out],
         sockets |-> IF p.given_up THEN c.sockets ELSE c.sockets \cup fd,
         progress |-> TRUE]

\* The stream given up: every request waiting on it fails so.
Lose(c, why) ==
    [c EXCEPT !.channel.lost = why, !.channel.pending = <<>>, !.channel.passing = 0,
              !.caller = [t \in Tasks |-> IF @[t].pc \in {"room", "asked"} /\ @[t].out = ""
                                          THEN [@[t] EXCEPT !.out = "lost"] ELSE @[t]]]

\* The socket after a success's header is taken only if it is connected to
\* the peer its request wants.
take_socket(c, e) ==
    LET tag == c.channel.passing
        p == c.channel.pending[tag]
    IN  IF e.what # "socket" THEN Lose(c, "misbehaved")
        ELSE IF e.net = "reset" THEN Settles(c, tag, "refused", {})
        ELSE IF e.id # p.id \/ e.net # "up" THEN Lose(c, "misbehaved")
        ELSE Settles(c, tag, "socket", {e.id})

\* One element of the stream read.
ReadOne(c, e) ==
    IF c.channel.lost # "" THEN c
    ELSE IF e.what = "end" THEN Lose(c, "ended")
    ELSE IF c.channel.passing # 0 THEN take_socket(c, e)
    ELSE IF e.what = "hello" THEN [c EXCEPT !.channel.greeted = TRUE, !.progress = TRUE]
    ELSE IF e.what # "head" \/ e.tag \notin DOMAIN c.channel.pending THEN Lose(c, "misbehaved")
    ELSE IF e.status # "ok" THEN Settles(c, e.tag, "refused", {})
    ELSE [c EXCEPT !.channel.passing = e.tag]

\* The process's end closes the stream after what it wrote.
Stream == replies \o (IF child \in {"zombie", "gone"} THEN <<[what |-> "end"]>> ELSE <<>>)
read_replies(k) ==
    LET after[i \in 0 .. k] == IF i = 0 THEN Pumping ELSE ReadOne(after[i - 1], Stream[i])
    IN  after[k]

pump_quiet(c, t) == woken \ {t}

\* Whoever's reading changed what a waiter looks at wakes every other one; a
\* stream lost was woken by its closing.
pump_wakes(c, t) ==
    (IF c.progress \/ c.channel.lost # channel.lost THEN woken \cup Sleepers ELSE woken) \ {t}

KindCount(c, kind) == Cardinality({g \in DOMAIN c.channel.pending : c.channel.pending[g].kind = kind})

\* Whether another request of this kind may be sent.
Room(c, kind) ==
    /\ c.channel.lost = "" /\ c.channel.greeted
    /\ Cardinality(DOMAIN c.channel.pending) < Flight
    /\ kind # "" => KindCount(c, kind) < Flight - Reserve

\* The next tag no pending request has.
FreeTag(c) ==
    LET After(g, n) == ((g + n - 1) % MaxTag) + 1
        n == CHOOSE n \in 0 .. MaxTag - 1 :
               /\ After(c.channel.next_tag, n) \notin DOMAIN c.channel.pending
               /\ \A i \in 0 .. n - 1 : After(c.channel.next_tag, i) \in DOMAIN c.channel.pending
    IN  After(c.channel.next_tag, n)

\* What a look at the stream leaves, `sent` being the requests then sent and
\* k how much of the replies it read.  A stream lost is closed, and its
\* process killed and reaped.
Sync(c, k, sent) ==
    /\ channel' = c.channel /\ sockets' = c.sockets
    /\ IF c.channel.lost # "" /\ child # "none"
         THEN /\ child' = "gone" /\ start' = "none"
              /\ requests' = <<>> /\ partial' = FALSE /\ flight' = <<>> /\ replies' = <<>>
         ELSE /\ requests' = requests \o sent
              /\ replies' = SubSeq(replies, k + 1, Len(replies))
              /\ UNCHANGED <<child, start, partial, flight>>
    /\ UNCHANGED <<made, heldBy, statusPipe, starts, kills, ask_count>>

\* A task's answer, returned: its socket is its own from then on.
Returned(c, t) == IF c.caller[t].out = "socket" THEN [c.caller EXCEPT ![t].pc = "using"]
                                              ELSE [c.caller EXCEPT ![t] = IdleTask]

\* Asking.__close: a request whose caller leaves before its reply stays
\* pending until the reply comes.
Abandon(c, t) ==
    [c EXCEPT !.channel.pending =
                [g \in DOMAIN @ |-> IF @[g].caller = t THEN [@[g] EXCEPT !.given_up = TRUE] ELSE @[g]],
              !.caller[t] = IdleTask]

Kind(r) == IF ~ Public.enabled \/ Endpoints = <<>> THEN ""
           ELSE IF r.index = PublicIndex THEN "public" ELSE "table"

connect_asks(t, r) ==
    /\ caller[t].pc = "idle" /\ ask_count < MaxAsks /\ start = "ok" /\ channel.lost = ""
    /\ ask_count' = ask_count + 1
    /\ caller' = [caller EXCEPT ![t] = [pc |-> "room", id |-> ask_count + 1, request |-> r,
                                    kind |-> Kind(r), out |-> "", stream |-> starts]]
    /\ woken' = woken \cup {t}
    /\ UNCHANGED <<channel, sockets, kills>> /\ UNCHANGED process /\ UNCHANGED server

\* A task with room sends its request; a stream that does not take it whole
\* is lost.
Send(c, k, t) ==
    LET tag == FreeTag(c)
        r == c.caller[t]
        broken == Lose(c, "unsent")
        asked == [c EXCEPT
            !.channel.next_tag = (tag % MaxTag) + 1,
            !.channel.pending = [g \in DOMAIN @ \cup {tag} |->
                IF g = tag THEN [caller |-> t, id |-> r.id, kind |-> r.kind, given_up |-> FALSE]
                           ELSE @[g]]]
    IN  \/ /\ Sync(broken, k, <<>>) /\ caller' = [broken.caller EXCEPT ![t] = IdleTask]
           /\ woken' = pump_wakes(broken, t)
        \/ /\ child \notin {"zombie", "gone"}
           /\ Sync(asked, k, <<[tag |-> tag, id |-> r.id, request |-> r.request]>>)
           /\ caller' = [c.caller EXCEPT ![t].pc = "asked"]
           /\ woken' = pump_wakes(c, t)

\* Whether the stream a task asked on is the one that stands.
Standing(t) == channel.lost = "" /\ caller[t].stream = starts

\* A task woken, or one the stream is readable for, reads what is there and
\* looks at what it waits for.
await_resumes(t) ==
    /\ t \in Sleepers /\ (t \in woken \/ (Stream # <<>> /\ Standing(t)))
    /\ \E k \in (IF Standing(t) THEN 0 .. Len(Stream) ELSE {0}) :
         LET c == read_replies(k)
         IN  /\ k = 0 => t \in woken
             /\ IF c.caller[t].out # ""
                  THEN Sync(c, k, <<>>) /\ caller' = Returned(c, t) /\ woken' = pump_wakes(c, t)
                  ELSE IF caller[t].pc = "room" /\ Room(c, caller[t].kind) THEN Send(c, k, t)
                  ELSE Sync(c, k, <<>>) /\ caller' = c.caller /\ woken' = pump_wakes(c, t)

\* A wait ends with its deadline or a cancel.  A task waiting for its answer
\* reads once more; one waiting for leave to send does not.
Expire(t) ==
    /\ t \in Sleepers /\ Standing(t)
    /\ \E k \in (IF caller[t].pc = "room" THEN {0} ELSE 0 .. Len(Stream)) :
         LET c == read_replies(k)
             over == IF c.caller[t].out # "" THEN [c EXCEPT !.caller = Returned(c, t)] ELSE Abandon(c, t)
         IN  Sync(over, k, <<>>) /\ caller' = over.caller /\ woken' = pump_wakes(over, t)

\* A task killed in its wait closes a connection answered but not taken.
TaskKilled(t) ==
    /\ t \in Sleepers
    /\ IF caller[t].out # ""
         THEN /\ caller' = [caller EXCEPT ![t] = IdleTask] /\ sockets' = sockets \ {caller[t].id}
              /\ UNCHANGED channel
         ELSE LET c == Abandon(Pumping, t) IN channel' = c.channel /\ caller' = c.caller /\ UNCHANGED sockets
    /\ woken' = woken \ {t}
    /\ UNCHANGED <<ask_count, kills>> /\ UNCHANGED process /\ UNCHANGED server

\* The caller's own connection, used and closed.
Use(t) ==
    /\ caller[t].pc = "using"
    /\ caller' = [caller EXCEPT ![t] = IdleTask] /\ sockets' = sockets \ {caller[t].id}
    /\ UNCHANGED <<channel, woken, ask_count, kills>> /\ UNCHANGED process /\ UNCHANGED server

\* The connector closed by its owner, with tasks waiting.
Close ==
    /\ start = "ok" /\ channel.lost = "" /\ ask_count = MaxAsks
    /\ LET c == Lose(Pumping, "closed")
       IN  Sync(c, 0, <<>>) /\ caller' = c.caller
    /\ woken' = woken \cup Sleepers

ConnectorNext ==
    \/ Prepare \/ Fork \/ Hold \/ Started \/ ProcessKilled
    \/ Hello \/ connector_loop \/ Network \/ Late \/ Close
    \/ \E t \in Tasks : \/ \E r \in Requests : connect_asks(t, r)
                        \/ await_resumes(t) \/ Expire(t) \/ TaskKilled(t) \/ Use(t)

\* The kernel runs the process and times its connects out; the run resumes a
\* task that is ready.  No caller's deadline is assumed to be near.
ConnectorFairness ==
    /\ WF_connectorVars(Fork) /\ WF_connectorVars(Hold) /\ WF_connectorVars(Started) /\ WF_connectorVars(Hello)
    /\ WF_connectorVars(connector_loop) /\ WF_connectorVars(Late)
    /\ \A t \in Tasks : WF_connectorVars(await_resumes(t))

ConnectorSpec == ConnectorInit /\ [][ConnectorNext]_connectorVars /\ ConnectorFairness

-----------------------------------------------------------------------------
\* connector_start answers a process only once the whole of its confinement
\* is taken, and an answer of failure leaves no process, no mapping, no pipe
\* and no blocked signal behind: a child killed before it reports, and one
\* whose report is a refusal, included.
StartTells ==
    /\ start = "ok" => heldBy = HoldOrder /\ child # "none" /\ made = {}
    /\ start = "failed" => child \in {"none", "gone"} /\ made = {}
    /\ child = "serving" => heldBy = HoldOrder

\* Where a pending request is: in the stream to the process, read in part,
\* in flight, or answered in the stream back.
Places(g) ==
    Cardinality({i \in 1 .. Len(requests) : requests[i].tag = g})
  + Cardinality({i \in 1 .. Len(flight) : flight[i].tag = g})
  + Cardinality({i \in 1 .. Len(replies) : replies[i].what = "head" /\ replies[i].tag = g})
  + (IF channel.passing = g THEN 1 ELSE 0)

\* While the stream stands, every request pending at the tasks' side, those
\* given up on included, is in exactly one place between the two processes,
\* and nothing else is: so each gets one reply, none is asked twice, the
\* process never has more than Flight connects, and never answers BUSY.
OneWhere ==
    channel.lost = "" /\ start = "ok" =>
        /\ \A g \in 1 .. MaxTag : Places(g) = IF g \in DOMAIN channel.pending THEN 1 ELSE 0
        /\ Len(flight) <= Flight
        /\ \A i \in 1 .. Len(replies) : replies[i].what = "head" => replies[i].status # "BUSY"

\* A task's socket is the one its own request asked for, whatever replies
\* came late or to requests given up on; a connector that works never makes
\* its tasks give the stream up; and every socket received is held by the
\* task it was for, none left open by an answer nobody took.
RightSocket ==
    /\ channel.lost # "misbehaved"
    /\ sockets = {caller[t].id : t \in {u \in Tasks : caller[u].out = "socket"}}

\* No task sleeps on what has already happened: one parked and not woken has
\* no answer yet, on a stream that is not lost, or no room to send.
NoneForgotten ==
    \A t \in Sleepers \ woken :
        /\ caller[t].out = "" /\ channel.lost = ""
        /\ caller[t].pc = "room" => ~ Room(Pumping, caller[t].kind)

\* Every request ends, with an answer or the stream's loss, for a caller that
\* never gives up: the process answers within its own wait, and whichever
\* task reads the answer wakes the one it is for.
AskAnswered == \A t \in Tasks : caller[t].pc \in {"room", "asked"} ~> caller[t].pc \notin {"room", "asked"}

\* A request is in one place, and no task sleeps on one already answered.
RequestsKept == OneWhere /\ NoneForgotten

\* Only a confined process serves, and each task gets its own socket of it.
SocketsRight == StartTells /\ RightSocket
=============================================================================
