--------------------------- MODULE ConnectorProofs ---------------------------
(***************************************************************************)
(* Proofs about the connector of module Connector, for any tasks, requests,*)
(* tables, public lists and limits, and any number of starts and kills.    *)
(***************************************************************************)
EXTENDS Connector, FiniteSetTheorems, SequenceLemmas, TLAPS

-----------------------------------------------------------------------------
(***************************************************************************)
(* Connector.  The stream between the two processes is read by whichever   *)
(* task resumes, so what holds of it is said of what is left to read: the  *)
(* requests rq, the connects in flight fl, the replies rp, and the tasks'  *)
(* record ch, their callers ca and open sockets so.                        *)
(***************************************************************************)
Tag == 1 .. MaxTag
Answered == {"ok", "EINVAL", "EPERM", "DENIED", "ECONNREFUSED", "ETIMEDOUT"}
Sent == [tag : Tag, id : Nat, request : Requests]
Flown == [tag : Tag, id : Nat, late : BOOLEAN, net : {"connecting", "up", "refused", "reset"}]
Hellos == {[what |-> "hello"]}
Heads == [what : {"head"}, tag : Tag, status : Answered]
Passed == [what : {"socket"}, id : Nat, net : {"up", "reset"}]
Wire == Hellos \cup Heads \cup Passed
Pended == [caller : Tasks, id : Nat, kind : {"", "public", "table"}, given_up : BOOLEAN]
Calling == [pc : {"idle", "room", "asked", "using"}, id : Nat, request : Requests \cup {<<>>},
            kind : {"", "public", "table"}, out : {"", "lost", "refused", "socket"}, stream : Nat]

ChannelShape(ch) ==
  /\ ch = [greeted |-> ch.greeted, pending |-> ch.pending, next_tag |-> ch.next_tag,
           passing |-> ch.passing, lost |-> ch.lost]
  /\ ch.next_tag \in Tag /\ ch.passing \in Tag \cup {0} /\ ch.greeted \in BOOLEAN
  /\ DOMAIN ch.pending \subseteq Tag /\ Cardinality(DOMAIN ch.pending) <= Flight
  /\ \A g \in DOMAIN ch.pending : ch.pending[g] \in Pended

\* The tags a list holds, each once.
TagsOf(q) == {q[i].tag : i \in 1 .. Len(q)}
Once(q) == \A i, j \in 1 .. Len(q) : q[i].tag = q[j].tag => i = j
HeadsAt(rp) == {i \in 1 .. Len(rp) : rp[i].what = "head"}
HeadTags(rp) == {rp[i].tag : i \in HeadsAt(rp)}
HeadsOnce(rp) == \A i, j \in HeadsAt(rp) : rp[i].tag = rp[j].tag => i = j

\* A request is in one place.
OnePlaceEach(rq, fl, rp, ch) ==
  /\ Once(rq) /\ Once(fl) /\ HeadsOnce(rp)
  /\ TagsOf(rq) \cap TagsOf(fl) = {} /\ TagsOf(rq) \cap HeadTags(rp) = {} /\ TagsOf(fl) \cap HeadTags(rp) = {}
  /\ ch.passing \notin TagsOf(rq) \cup TagsOf(fl) \cup HeadTags(rp)
  /\ DOMAIN ch.pending = TagsOf(rq) \cup TagsOf(fl) \cup HeadTags(rp) \cup ({ch.passing} \ {0})

\* What is asked for and connected is what is pending.
SameIds(rq, fl, ch) ==
  /\ \A i \in 1 .. Len(rq) : rq[i].id = ch.pending[rq[i].tag].id
  /\ \A i \in 1 .. Len(fl) : fl[i].id = ch.pending[fl[i].tag].id

\* A success and its socket are side by side.
Paired(rp, ch) ==
  /\ \A i \in HeadsAt(rp) : rp[i].status = "ok" =>
        i < Len(rp) /\ rp[i + 1].what = "socket" /\ rp[i + 1].id = ch.pending[rp[i].tag].id
  /\ \A i \in 1 .. Len(rp) : rp[i].what = "socket" =>
        IF i = 1 THEN ch.passing # 0 ELSE rp[i - 1].what = "head" /\ rp[i - 1].status = "ok"
  /\ ch.passing # 0 => rp # <<>> /\ rp[1].what = "socket" /\ rp[1].id = ch.pending[ch.passing].id

InStep(rq, fl, rp, ch) ==
  /\ rq \in Seq(Sent) /\ fl \in Seq(Flown) /\ rp \in Seq(Wire) /\ ChannelShape(ch)
  /\ OnePlaceEach(rq, fl, rp, ch) /\ SameIds(rq, fl, ch) /\ Paired(rp, ch)

\* The callers: each has an id of its own, and a request waited for is of a
\* task that asked it and has no answer.
Called(x, n) ==
  /\ x.pc = "idle" => x = IdleTask
  /\ x.pc # "idle" => x.id \in 1 .. n /\ x.request \in Requests
  /\ x.pc = "room" => x.out \in {"", "lost"}
  /\ x.pc = "using" => x.out = "socket"
Waiting(ca, n) ==
  /\ ca \in [Tasks -> Calling] /\ \A t \in Tasks : Called(ca[t], n)
  /\ \A t, u \in Tasks : ca[t].pc # "idle" /\ ca[u].pc # "idle" /\ ca[t].id = ca[u].id => t = u
Waited(ch, ca) ==
  /\ \A g \in DOMAIN ch.pending : ~ch.pending[g].given_up =>
        LET p == ch.pending[g] IN ca[p.caller].pc = "asked" /\ ca[p.caller].id = p.id /\ ca[p.caller].out = ""
  /\ \A g, h \in DOMAIN ch.pending : 
        ~ch.pending[g].given_up /\ ~ch.pending[h].given_up /\ ch.pending[g].caller = ch.pending[h].caller => g = h
Owned(ca, so) == so = {ca[t].id : t \in {u \in Tasks : ca[u].out = "socket"}}
Served(ch, ca, so, n) == Waiting(ca, n) /\ Waited(ch, ca) /\ Owned(ca, so)

\* Where the process is as it starts and ends.
Begins ==
  /\ start \in {"none", "prepared", "forked", "ok", "failed"}
  /\ child \in {"none", "holding", "held", "serving", "zombie", "gone"}
  /\ start \in {"none", "failed"} => child \in {"none", "gone"}
  /\ start = "prepared" => child = "none" /\ statusPipe = "empty"
  /\ start \in {"ok", "failed"} => made = {}
  /\ start = "ok" => statusPipe = "held"
  /\ child = "none" => statusPipe = "empty"
  /\ child = "holding" => start = "forked" /\ statusPipe = "empty"
  /\ statusPipe = "held" \/ child \in {"held", "serving"} => heldBy = HoldOrder

\* A stream lost has nothing in it; whoever waits for an answer waits on the
\* one that stands.
Stands ==
  /\ channel.lost \in {"", "ended", "unsent", "closed"}
  /\ channel.lost # "" => /\ start = "none" /\ child = "gone"
                          /\ requests = <<>> /\ flight = <<>> /\ replies = <<>>
                          /\ channel.pending = <<>> /\ channel.passing = 0
  /\ starts \in Nat /\ ask_count \in Nat /\ \A t \in Tasks : caller[t].stream <= starts
  /\ \A t \in Sleepers : /\ caller[t].out = "" => channel.lost = "" /\ caller[t].stream = starts
                         /\ caller[t].stream = starts => start = "ok" \/ channel.lost # ""

ConnectorInv ==
  /\ InStep(requests, flight, replies, channel)
  /\ Served(channel, caller, sockets, ask_count)
  /\ Begins /\ Stands /\ NoneForgotten /\ woken \subseteq Tasks

\* The tags of a list without its first.
LEMMA TagsTail ==
  ASSUME NEW E, NEW q \in Seq(E), q # <<>>, Once(q)
  PROVE  /\ Tail(q) \in Seq(E) /\ Once(Tail(q)) /\ Head(q) \in E /\ Head(q).tag \in TagsOf(q)
         /\ TagsOf(Tail(q)) = TagsOf(q) \ {Head(q).tag}
         /\ \A i \in 1 .. Len(Tail(q)) : \E k \in 1 .. Len(q) : Tail(q)[i] = q[k]
         /\ \E k \in 1 .. Len(q) : Head(q) = q[k]
<1> DEFINE r == Tail(q)
           n == Len(q)
<1>1. n \in Nat /\ n >= 1 /\ r \in Seq(E) /\ Len(r) = n - 1 /\ Head(q) = q[1] /\ \A i \in 1 .. n - 1 : r[i] = q[i + 1]
  BY LenProperties, EmptySeq
<1>2. Head(q) \in E
  BY <1>1, ElementOfSeq
<1>3. \A i, j \in 1 .. n : q[i].tag = q[j].tag => i = j
  BY DEF Once
<1>4. TagsOf(q) = {q[i].tag : i \in 1 .. n} /\ TagsOf(r) = {r[i].tag : i \in 1 .. n - 1}
  BY <1>1 DEF TagsOf
<1>5. \A i \in 1 .. n - 1 : i + 1 \in 1 .. n /\ i + 1 # 1
  BY <1>1
<1>6. \A k \in 1 .. n : k # 1 => k - 1 \in 1 .. n - 1 /\ k = (k - 1) + 1
  BY <1>1
<1>7. 1 \in 1 .. n
  BY <1>1
<1> HIDE DEF r, n
<1>8. \A i, j \in 1 .. n - 1 : r[i].tag = r[j].tag => i = j
  <2> SUFFICES ASSUME NEW i \in 1 .. n - 1, NEW j \in 1 .. n - 1, r[i].tag = r[j].tag PROVE i = j
    OBVIOUS
  <2>0. r[i] = q[i + 1] /\ r[j] = q[j + 1] /\ i + 1 \in 1 .. n /\ j + 1 \in 1 .. n
    BY <1>1, <1>5
  <2>1. i + 1 = j + 1
    BY ONLY <1>3, <2>0, r[i].tag = r[j].tag
  <2> QED BY <2>1, <1>1
<1>9. TagsOf(r) = TagsOf(q) \ {q[1].tag}
  <2>1. \A i \in 1 .. n - 1 : r[i].tag = q[i + 1].tag /\ q[i + 1].tag # q[1].tag
    BY <1>1, <1>3, <1>5, <1>7
  <2>2. \A k \in 1 .. n : k # 1 => r[k - 1].tag = q[k].tag
    BY <1>1, <1>6
  <2> QED BY <1>4, <1>5, <1>6, <2>1, <2>2
<1>10. Once(r)
  BY <1>1, <1>8 DEF Once
<1>11. \A i \in 1 .. Len(r) : \E k \in 1 .. n : r[i] = q[k]
  BY <1>1, <1>5
<1> QED BY <1>1, <1>2, <1>4, <1>7, <1>9, <1>10, <1>11 DEF r, n

\* The tags of a list with one more.
LEMMA TagsAppend ==
  ASSUME NEW E, NEW q \in Seq(E), Once(q), NEW e \in E, e.tag \notin TagsOf(q)
  PROVE  /\ Append(q, e) \in Seq(E) /\ Once(Append(q, e)) /\ TagsOf(Append(q, e)) = TagsOf(q) \cup {e.tag}
         /\ \A i \in 1 .. Len(Append(q, e)) : Append(q, e)[i] = e \/ \E k \in 1 .. Len(q) : Append(q, e)[i] = q[k]
<1> DEFINE r == Append(q, e)
           n == Len(q)
<1>1. n \in Nat /\ r \in Seq(E) /\ Len(r) = n + 1 /\ r[n + 1] = e /\ \A i \in 1 .. n : r[i] = q[i]
  BY LenProperties, AppendProperties
<1>2. \A i : i \in 1 .. n + 1 <=> i \in 1 .. n \/ i = n + 1
  BY <1>1
<1>3. \A i, j \in 1 .. n : q[i].tag = q[j].tag => i = j
  BY DEF Once
<1>4. TagsOf(q) = {q[i].tag : i \in 1 .. n} /\ TagsOf(r) = {r[i].tag : i \in 1 .. n + 1}
  BY <1>1 DEF TagsOf
<1> HIDE DEF r, n
<1>5. \A i \in 1 .. n : q[i].tag # e.tag
  BY <1>4
<1>6. \A i, j \in 1 .. n + 1 : r[i].tag = r[j].tag => i = j
  BY <1>1, <1>2, <1>3, <1>5
<1>7. TagsOf(r) = TagsOf(q) \cup {e.tag}
  BY <1>1, <1>2, <1>4
<1>8. \A i \in 1 .. Len(r) : r[i] = e \/ \E k \in 1 .. n : r[i] = q[k]
  BY <1>1, <1>2
<1> QED BY <1>1, <1>6, <1>7, <1>8 DEF Once, r, n

\* One taken out, the last in its place.
LEMMA TagsRemoved ==
  ASSUME NEW E, NEW q \in Seq(E), Once(q), NEW k \in 1 .. Len(q)
  PROVE  LET r == SubSeq([q EXCEPT ![k] = q[Len(q)]], 1, Len(q) - 1)
         IN  /\ r \in Seq(E) /\ Once(r) /\ TagsOf(r) = TagsOf(q) \ {q[k].tag} /\ Len(r) = Len(q) - 1
             /\ \A i \in 1 .. Len(r) : \E j \in 1 .. Len(q) : r[i] = q[j]
             /\ \A i \in 1 .. Len(r) : i < k => r[i] = q[i]
<1> DEFINE n == Len(q)
           x == [q EXCEPT ![k] = q[n]]
           r == SubSeq(x, 1, n - 1)
<1>1. n \in Nat /\ k \in 1 .. n /\ n >= 1 /\ DOMAIN q = 1 .. n /\ \A i \in 1 .. n : q[i] \in E
  BY LenProperties, ElementOfSeq
<1>2. x \in Seq(E) /\ Len(x) = n /\ \A i \in 1 .. n : x[i] = IF i = k THEN q[n] ELSE q[i]
  BY <1>1, ExceptSeq
<1>3. r \in Seq(E) /\ Len(r) = n - 1 /\ \A i \in 1 .. n - 1 : r[i] = x[i]
  <2> HIDE DEF x, n
  <2>1. 1 \in 1 .. Len(x) + 1 /\ n - 1 \in 0 .. Len(x)
    BY <1>1, <1>2
  <2>2. SubSeq(x, 1, n - 1) \in Seq(E) /\ Len(SubSeq(x, 1, n - 1)) = n - 1 /\ \A i \in 1 .. n - 1 : SubSeq(x, 1, n - 1)[i] = x[i]
    BY <1>1, <1>2, <2>1, SubSeqProperties
  <2> QED BY <2>2
<1> HIDE DEF r, x
<1>4. \A i \in 1 .. n - 1 : i \in 1 .. n /\ r[i] = IF i = k THEN q[n] ELSE q[i]
  BY <1>1, <1>2, <1>3
<1>5. \A i, j \in 1 .. n : q[i].tag = q[j].tag => i = j
  BY DEF Once
<1>6. TagsOf(q) = {q[i].tag : i \in 1 .. n} /\ TagsOf(r) = {r[i].tag : i \in 1 .. n - 1}
  BY <1>3 DEF TagsOf
<1> HIDE DEF n
<1>7. n \in 1 .. n /\ \A i \in 1 .. n : i # n => i \in 1 .. n - 1
  BY <1>1
<1>8. \A i \in 1 .. n - 1 : i # n
  BY <1>1
<1>9. \A i, j \in 1 .. n - 1 : r[i].tag = r[j].tag => i = j
  BY <1>1, <1>4, <1>5, <1>7, <1>8
<1>10. TagsOf(r) = TagsOf(q) \ {q[k].tag}
  <2>1. \A i \in 1 .. n - 1 : r[i].tag \in TagsOf(q) /\ r[i].tag # q[k].tag
    BY <1>1, <1>4, <1>5, <1>6, <1>7, <1>8
  <2>2. \A i \in 1 .. n : i # k => \E j \in 1 .. n - 1 : r[j].tag = q[i].tag
    <3> SUFFICES ASSUME NEW i \in 1 .. n, i # k PROVE \E j \in 1 .. n - 1 : r[j].tag = q[i].tag
      OBVIOUS
    <3>1. CASE i = n
      BY <1>1, <1>4, <1>7, <3>1
    <3>2. CASE i # n
      BY <1>4, <1>7, <3>2
    <3> QED BY <3>1, <3>2
  <2> QED BY <1>6, <2>1, <2>2
<1>11. \A i \in 1 .. n - 1 : \E j \in 1 .. n : r[i] = q[j]
  BY <1>1, <1>4, <1>7
<1>12. \A i \in 1 .. n - 1 : i < k => r[i] = q[i]
  BY <1>1, <1>4
<1>13. r \in Seq(E) /\ Once(r) /\ TagsOf(r) = TagsOf(q) \ {q[k].tag} /\ Len(r) = n - 1
  BY <1>3, <1>9, <1>10 DEF Once
<1> QED BY <1>3, <1>11, <1>12, <1>13 DEF r, x, n

\* The parts of the stream back.
LEMMA WireIs ==
  /\ \A e \in Wire : e.what \in {"hello", "head", "socket"}
  /\ \A e \in Wire : e.what = "head" => e.tag \in Tag /\ e.status \in Answered
  /\ \A e \in Wire : e.what = "socket" => e.id \in Nat /\ e.net \in {"up", "reset"}
  /\ \A g \in Tag, a \in Answered : [what |-> "head", tag |-> g, status |-> a] \in Wire
  /\ \A d \in Nat, w \in {"up", "reset"} : [what |-> "socket", id |-> d, net |-> w] \in Wire
  /\ [what |-> "hello"] \in Wire
BY DEF Wire, Hellos, Heads, Passed

HeadOf(g, a) == [what |-> "head", tag |-> g, status |-> a]
SocketOf(d, w) == [what |-> "socket", id |-> d, net |-> w]

\* What connector_reply writes: one header, and after a success its socket.
LEMMA ReplyIs ==
  ASSUME NEW rp \in Seq(Wire), NEW g \in Tag, NEW d \in Nat, NEW w \in {"up", "reset"}
  PROVE  /\ \A a \in Answered : \A fd : a # "ok" => rp \o connector_reply(g, a, fd) = Append(rp, HeadOf(g, a))
         /\ rp \o connector_reply(g, "ok", Marker(d, w)) = Append(Append(rp, HeadOf(g, "ok")), SocketOf(d, w))
<1>1. \A a \in Answered : HeadOf(g, a) \in Wire
  BY WireIs DEF HeadOf
<1>2. SocketOf(d, w) \in Wire /\ "ok" \in Answered
  BY WireIs DEF SocketOf, Answered
<1>3. ASSUME NEW a \in Answered, NEW fd, a # "ok" PROVE rp \o connector_reply(g, a, fd) = Append(rp, HeadOf(g, a))
  <2>1. connector_reply(g, a, fd) = <<HeadOf(g, a)>> \o <<>>
    BY <1>3 DEF connector_reply, HeadOf
  <2>2. <<HeadOf(g, a)>> \in Seq(Wire)
    BY <1>1
  <2>3. <<HeadOf(g, a)>> \o <<>> = <<HeadOf(g, a)>>
    BY <2>2, ConcatEmptySeq
  <2> QED BY <1>1, <2>1, <2>3, AppendIsConcat
<1>4. rp \o connector_reply(g, "ok", Marker(d, w)) = Append(Append(rp, HeadOf(g, "ok")), SocketOf(d, w))
  <2> DEFINE h == HeadOf(g, "ok")
             s == SocketOf(d, w)
  <2>1. connector_reply(g, "ok", Marker(d, w)) = <<h>> \o <<s>>
    BY DEF connector_reply, Marker, HeadOf, SocketOf
  <2>2. h \in Wire /\ s \in Wire
    BY <1>1, <1>2
  <2> HIDE DEF h, s
  <2>3. <<h>> \in Seq(Wire) /\ <<s>> \in Seq(Wire)
    BY <2>2
  <2>4. rp \o (<<h>> \o <<s>>) = (rp \o <<h>>) \o <<s>>
    BY <2>3, ConcatAssociative
  <2>5. rp \o <<h>> = Append(rp, h) /\ Append(rp, h) \in Seq(Wire)
    BY <2>2, AppendIsConcat, AppendProperties
  <2>6. Append(rp, h) \o <<s>> = Append(Append(rp, h), s)
    BY <2>2, <2>5, AppendIsConcat
  <2> QED BY <2>1, <2>4, <2>5, <2>6 DEF h, s
<1> QED BY <1>3, <1>4

\* A header and a socket are elements of the stream.
LEMMA WireAppend ==
  ASSUME NEW rp \in Seq(Wire), NEW e \in Wire, HeadsOnce(rp), e.what = "head" => e.tag \notin HeadTags(rp)
  PROVE  LET r == Append(rp, e)
         IN  /\ r \in Seq(Wire) /\ Len(r) = Len(rp) + 1 /\ r[Len(rp) + 1] = e /\ \A i \in 1 .. Len(rp) : r[i] = rp[i]
             /\ \A i : i \in 1 .. Len(r) <=> i \in 1 .. Len(rp) \/ i = Len(rp) + 1
             /\ HeadsOnce(r) /\ HeadsAt(r) = HeadsAt(rp) \cup (IF e.what = "head" THEN {Len(rp) + 1} ELSE {})
             /\ HeadTags(r) = HeadTags(rp) \cup (IF e.what = "head" THEN {e.tag} ELSE {})
<1> DEFINE r == Append(rp, e)
           n == Len(rp)
<1>1. n \in Nat /\ r \in Seq(Wire) /\ Len(r) = n + 1 /\ r[n + 1] = e /\ \A i \in 1 .. n : r[i] = rp[i]
  BY LenProperties, AppendProperties
<1>2. \A i : i \in 1 .. n + 1 <=> i \in 1 .. n \/ i = n + 1
  BY <1>1
<1>3. HeadsAt(rp) = {i \in 1 .. n : rp[i].what = "head"} /\ HeadsAt(r) = {i \in 1 .. n + 1 : r[i].what = "head"}
  BY <1>1 DEF HeadsAt
<1>4. n + 1 \notin 1 .. n
  BY <1>1
<1> HIDE DEF r, n
<1>5. HeadsAt(r) = HeadsAt(rp) \cup (IF e.what = "head" THEN {n + 1} ELSE {}) /\ n + 1 \notin HeadsAt(rp)
  BY <1>1, <1>2, <1>3, <1>4
<1>6. \A i \in HeadsAt(rp) : r[i] = rp[i]
  BY <1>1, <1>3
<1>7. HeadTags(r) = HeadTags(rp) \cup (IF e.what = "head" THEN {e.tag} ELSE {})
  BY <1>1, <1>5, <1>6 DEF HeadTags
<1>8. HeadsOnce(r)
  BY <1>1, <1>5, <1>6 DEF HeadsOnce, HeadTags
<1> QED BY <1>1, <1>2, <1>5, <1>7, <1>8 DEF r, n

\* A request answered goes to the stream's end, its socket behind it.
Fits(ch, g, a, d, w, fd) == a = "ok" => w \in {"up", "reset"} /\ fd = Marker(d, w) /\ ch.pending[g].id = d

\* One reply of a pending request written keeps the stream in order.
LEMMA ReplyAdded ==
  ASSUME NEW rp \in Seq(Wire), HeadsOnce(rp), NEW ch, Paired(rp, ch), NEW g \in Tag, g \notin HeadTags(rp),
         NEW a \in Answered, NEW d \in Nat, NEW w, NEW fd, Fits(ch, g, a, d, w, fd)
  PROVE  LET r == rp \o connector_reply(g, a, fd)
         IN  r \in Seq(Wire) /\ HeadsOnce(r) /\ HeadTags(r) = HeadTags(rp) \cup {g} /\ Paired(r, ch)
<1> DEFINE h == HeadOf(g, a)
           n == Len(rp)
           x == Append(rp, h)
<1>0. a = "ok" => w \in {"up", "reset"} /\ fd = Marker(d, w) /\ ch.pending[g].id = d
  BY DEF Fits
<1>1. h \in Wire /\ h.what = "head" /\ h.tag = g /\ h.status = a
  BY WireIs DEF HeadOf
<1>2. n \in Nat
  BY LenProperties
<1> HIDE DEF h
<1>3. /\ x \in Seq(Wire) /\ Len(x) = n + 1 /\ x[n + 1] = h /\ \A i \in 1 .. n : x[i] = rp[i]
      /\ \A i : i \in 1 .. Len(x) <=> i \in 1 .. n \/ i = n + 1
      /\ HeadsOnce(x) /\ HeadsAt(x) = HeadsAt(rp) \cup {n + 1} /\ HeadTags(x) = HeadTags(rp) \cup {g}
  BY <1>1, WireAppend
<1> HIDE DEF x
<1>4. HeadsAt(rp) \subseteq 1 .. n /\ \A i \in 1 .. n : i # n + 1 /\ i - 1 # n + 1
  BY <1>2 DEF HeadsAt
<1>5. CASE a # "ok"
  <2>1. rp \o connector_reply(g, a, fd) = x
    BY <1>5, ReplyIs DEF h, x
  <2>2. Paired(x, ch)
    <3>1. ASSUME NEW i \in HeadsAt(x), x[i].status = "ok"
          PROVE  i < Len(x) /\ x[i + 1].what = "socket" /\ x[i + 1].id = ch.pending[x[i].tag].id
      <4>1. i \in HeadsAt(rp) /\ i \in 1 .. n /\ x[i] = rp[i]
        BY <1>1, <1>3, <1>4, <1>5, <3>1
      <4>2. i < n /\ rp[i + 1].what = "socket" /\ rp[i + 1].id = ch.pending[rp[i].tag].id
        BY <3>1, <4>1 DEF Paired
      <4>3. i + 1 \in 1 .. n /\ i < Len(x)
        BY <1>2, <1>3, <4>1, <4>2
      <4> QED BY <1>3, <4>1, <4>2, <4>3
    <3>2. ASSUME NEW i \in 1 .. Len(x), x[i].what = "socket"
          PROVE  IF i = 1 THEN ch.passing # 0 ELSE x[i - 1].what = "head" /\ x[i - 1].status = "ok"
      <4>1. i \in 1 .. n /\ x[i] = rp[i]
        BY <1>1, <1>3, <3>2
      <4>2. IF i = 1 THEN ch.passing # 0 ELSE rp[i - 1].what = "head" /\ rp[i - 1].status = "ok"
        BY <3>2, <4>1 DEF Paired
      <4>3. i # 1 => i - 1 \in 1 .. n
        BY <1>2, <4>1
      <4> QED BY <1>3, <4>2, <4>3
    <3>3. ASSUME ch.passing # 0 PROVE x # <<>> /\ x[1].what = "socket" /\ x[1].id = ch.pending[ch.passing].id
      <4>1. rp # <<>> /\ rp[1].what = "socket" /\ rp[1].id = ch.pending[ch.passing].id
        BY <3>3 DEF Paired
      <4>2. 1 \in 1 .. n
        BY <1>2, <4>1, EmptySeq
      <4>3. x # <<>>
        BY <1>2, <1>3, EmptySeq
      <4> QED BY <1>3, <4>1, <4>2, <4>3
    <3> QED BY <3>1, <3>2, <3>3 DEF Paired
  <2> QED BY <1>3, <2>1, <2>2
<1>6. CASE a = "ok"
  <2> DEFINE s == SocketOf(d, w)
             r == Append(x, s)
  <2>1. rp \o connector_reply(g, a, fd) = r
    BY <1>0, <1>6, ReplyIs DEF h, x
  <2>2. s \in Wire /\ s.what = "socket" /\ s.id = d
    BY <1>0, <1>6, WireIs DEF SocketOf
  <2> HIDE DEF s
  <2>3. /\ r \in Seq(Wire) /\ Len(r) = Len(x) + 1 /\ r[Len(x) + 1] = s /\ \A i \in 1 .. Len(x) : r[i] = x[i]
        /\ \A i : i \in 1 .. Len(r) <=> i \in 1 .. Len(x) \/ i = Len(x) + 1
        /\ HeadsOnce(r) /\ HeadsAt(r) = HeadsAt(x) /\ HeadTags(r) = HeadTags(x)
    BY <1>3, <2>2, WireAppend
  <2> HIDE DEF r
  <2>4. /\ Len(r) = n + 2 /\ r[n + 2] = s /\ r[n + 1] = h /\ \A i \in 1 .. n : r[i] = rp[i]
        /\ \A i : i \in 1 .. Len(r) <=> i \in 1 .. n \/ i = n + 1 \/ i = n + 2
    <3>1. n + 1 \in 1 .. Len(x) /\ \A i \in 1 .. n : i \in 1 .. Len(x)
      BY <1>2, <1>3
    <3>2. Len(x) + 1 = n + 2
      BY <1>2, <1>3
    <3> QED BY <1>3, <2>3, <3>1, <3>2
  <2>5. Paired(r, ch)
    <3>1. ASSUME NEW i \in HeadsAt(r), r[i].status = "ok"
          PROVE  i < Len(r) /\ r[i + 1].what = "socket" /\ r[i + 1].id = ch.pending[r[i].tag].id
      <4>1. CASE i = n + 1
        <5>1. i < Len(r) /\ i + 1 = n + 2
          BY <1>2, <2>4, <4>1
        <5> QED BY <1>0, <1>1, <1>6, <2>2, <2>4, <4>1, <5>1
      <4>2. CASE i # n + 1
        <5>1. i \in HeadsAt(rp) /\ i \in 1 .. n /\ r[i] = rp[i]
          BY <1>3, <1>4, <2>3, <2>4, <4>2
        <5>2. i < n /\ rp[i + 1].what = "socket" /\ rp[i + 1].id = ch.pending[rp[i].tag].id
          BY <3>1, <5>1 DEF Paired
        <5>3. i + 1 \in 1 .. n /\ i < Len(r)
          BY <1>2, <2>4, <5>1, <5>2
        <5> QED BY <2>4, <5>1, <5>2, <5>3
      <4> QED BY <4>1, <4>2
    <3>2. ASSUME NEW i \in 1 .. Len(r), r[i].what = "socket"
          PROVE  IF i = 1 THEN ch.passing # 0 ELSE r[i - 1].what = "head" /\ r[i - 1].status = "ok"
      <4>1. CASE i = n + 2
        <5>1. i # 1 /\ i - 1 = n + 1
          BY <1>2, <4>1
        <5> QED BY <1>1, <1>6, <2>4, <5>1
      <4>2. CASE i # n + 2
        <5>1. i \in 1 .. n /\ r[i] = rp[i]
          BY <1>1, <2>4, <3>2, <4>2
        <5>2. IF i = 1 THEN ch.passing # 0 ELSE rp[i - 1].what = "head" /\ rp[i - 1].status = "ok"
          BY <3>2, <5>1 DEF Paired
        <5>3. i # 1 => i - 1 \in 1 .. n
          BY <1>2, <5>1
        <5> QED BY <2>4, <5>2, <5>3
      <4> QED BY <4>1, <4>2
    <3>3. ASSUME ch.passing # 0 PROVE r # <<>> /\ r[1].what = "socket" /\ r[1].id = ch.pending[ch.passing].id
      <4>1. rp # <<>> /\ rp[1].what = "socket" /\ rp[1].id = ch.pending[ch.passing].id
        BY <3>3 DEF Paired
      <4>2. 1 \in 1 .. n
        BY <1>2, <4>1, EmptySeq
      <4>3. r # <<>>
        BY <1>2, <2>3, <2>4, EmptySeq
      <4> QED BY <2>4, <4>1, <4>2, <4>3
    <3> QED BY <3>1, <3>2, <3>3 DEF Paired
  <2> QED BY <1>3, <2>1, <2>3, <2>5
<1> QED BY <1>5, <1>6

\* What the elements of the three lists are.
LEMMA InStepIs ==
  ASSUME NEW rq, NEW fl, NEW rp, NEW ch, InStep(rq, fl, rp, ch)
  PROVE  /\ rq \in Seq(Sent) /\ fl \in Seq(Flown) /\ rp \in Seq(Wire)
         /\ Len(rq) \in Nat /\ Len(fl) \in Nat /\ Len(rp) \in Nat
         /\ \A i \in 1 .. Len(rq) : rq[i] \in Sent /\ rq[i].tag \in Tag /\ rq[i].id \in Nat /\ rq[i].request \in Requests /\ rq[i].tag \in TagsOf(rq)
         /\ \A i \in 1 .. Len(fl) : /\ fl[i] \in Flown /\ fl[i].tag \in Tag /\ fl[i].id \in Nat /\ fl[i].late \in BOOLEAN
                                    /\ fl[i].net \in {"connecting", "up", "refused", "reset"} /\ fl[i].tag \in TagsOf(fl)
         /\ \A i \in 1 .. Len(rp) : rp[i] \in Wire
<1>1. rq \in Seq(Sent) /\ fl \in Seq(Flown) /\ rp \in Seq(Wire)
  BY DEF InStep
<1>2. Len(rq) \in Nat /\ Len(fl) \in Nat /\ Len(rp) \in Nat
  BY <1>1, LenProperties
<1>3. /\ \A i \in 1 .. Len(rq) : rq[i] \in Sent /\ rq[i].tag \in TagsOf(rq)
      /\ \A i \in 1 .. Len(fl) : fl[i] \in Flown /\ fl[i].tag \in TagsOf(fl)
      /\ \A i \in 1 .. Len(rp) : rp[i] \in Wire
  BY <1>1, <1>2, ElementOfSeq DEF TagsOf
<1>4. \A x \in Sent : x.tag \in Tag /\ x.id \in Nat /\ x.request \in Requests
  BY DEF Sent
<1>5. \A x \in Flown : x.tag \in Tag /\ x.id \in Nat /\ x.late \in BOOLEAN /\ x.net \in {"connecting", "up", "refused", "reset"}
  BY DEF Flown
<1> QED BY <1>1, <1>2, <1>3, <1>4, <1>5

\* A connect that ended is answered.
Ends(x, y, fl, rp, i, a) ==
  /\ x = SubSeq([fl EXCEPT ![i] = fl[Len(fl)]], 1, Len(fl) - 1)
  /\ y = rp \o connector_reply(fl[i].tag, a, Marker(fl[i].id, fl[i].net))

\* What of the connects is left where it was below a place.
Below(x, fl, i) == Len(x) >= Len(fl) - 1 /\ \A j \in 1 .. Len(x) : j < i => x[j] = fl[j]

\* A connect that ends moves its tag from the flight to the replies.
LEMMA EndsKeeps ==
  ASSUME NEW rq, NEW fl, NEW rp, NEW ch, InStep(rq, fl, rp, ch), NEW i \in 1 .. Len(fl), NEW a \in Answered,
         a = "ok" => fl[i].net \in {"up", "reset"}, NEW x, NEW y, Ends(x, y, fl, rp, i, a)
  PROVE  InStep(rq, x, y, ch) /\ Below(x, fl, i)
<1> DEFINE f == fl[i]
<1>1. x = SubSeq([fl EXCEPT ![i] = fl[Len(fl)]], 1, Len(fl) - 1) /\ y = rp \o connector_reply(f.tag, a, Marker(f.id, f.net))
  BY DEF Ends
<1>2. /\ fl \in Seq(Flown) /\ rp \in Seq(Wire) /\ Len(fl) \in Nat /\ i \in 1 .. Len(fl)
      /\ f.tag \in Tag /\ f.id \in Nat /\ f.tag \in TagsOf(fl)
  BY InStepIs
<1>3. OnePlaceEach(rq, fl, rp, ch) /\ SameIds(rq, fl, ch) /\ Paired(rp, ch) /\ ChannelShape(ch) /\ rq \in Seq(Sent)
  BY DEF InStep
<1>4. /\ x \in Seq(Flown) /\ Once(x) /\ TagsOf(x) = TagsOf(fl) \ {f.tag} /\ Len(x) = Len(fl) - 1
      /\ \A j \in 1 .. Len(x) : \E k \in 1 .. Len(fl) : x[j] = fl[k]
      /\ \A j \in 1 .. Len(x) : j < i => x[j] = fl[j]
  <2>1. Once(fl)
    BY <1>3 DEF OnePlaceEach
  <2> DEFINE z == SubSeq([fl EXCEPT ![i] = fl[Len(fl)]], 1, Len(fl) - 1)
  <2>2. /\ z \in Seq(Flown) /\ Once(z) /\ TagsOf(z) = TagsOf(fl) \ {fl[i].tag} /\ Len(z) = Len(fl) - 1
        /\ \A j \in 1 .. Len(z) : \E k \in 1 .. Len(fl) : z[j] = fl[k]
        /\ \A j \in 1 .. Len(z) : j < i => z[j] = fl[j]
    BY ONLY <1>2, <2>1, TagsRemoved
  <2>3. x = z
    BY <1>1
  <2> QED BY ONLY <2>2, <2>3 DEF f
<1>5. ch.pending[f.tag].id = f.id /\ f.tag \notin HeadTags(rp)
  BY <1>2, <1>3 DEF OnePlaceEach, SameIds
<1>6. y \in Seq(Wire) /\ HeadsOnce(y) /\ HeadTags(y) = HeadTags(rp) \cup {f.tag} /\ Paired(y, ch)
  <2>1. Fits(ch, f.tag, a, f.id, f.net, Marker(f.id, f.net))
    BY <1>5 DEF Fits
  <2> HIDE DEF f
  <2> QED BY <1>1, <1>2, <1>3, <1>5, <2>1, ReplyAdded DEF OnePlaceEach
<1> HIDE DEF f
<1>7. OnePlaceEach(rq, x, y, ch)
  BY <1>2, <1>3, <1>4, <1>6 DEF OnePlaceEach
<1>8. SameIds(rq, x, ch)
  <2>1. \A j \in 1 .. Len(x) : x[j].id = ch.pending[x[j].tag].id
    <3> SUFFICES ASSUME NEW j \in 1 .. Len(x) PROVE x[j].id = ch.pending[x[j].tag].id
      OBVIOUS
    <3>1. PICK k \in 1 .. Len(fl) : x[j] = fl[k]
      BY <1>4
    <3>2. fl[k].id = ch.pending[fl[k].tag].id
      BY <1>3 DEF SameIds
    <3> QED BY <3>1, <3>2
  <2> QED BY <1>3, <2>1 DEF SameIds
<1>9. Below(x, fl, i)
  BY <1>2, <1>4 DEF Below
<1> QED BY <1>1, <1>3, <1>4, <1>6, <1>7, <1>8, <1>9 DEF InStep

\* What connector_loop does at one place of its flight.
LEMMA SettleOneIs ==
  ASSUME NEW s, NEW fl, NEW rp, s.flight = fl, s.replies = rp, NEW i, NEW ready, NEW d, d = SettleOne(s, i, ready)
  PROVE  \/ i \in ready /\ Ends(d.flight, d.replies, fl, rp, i, SocketError(fl[i]))
         \/ i \notin ready /\ Ends(d.flight, d.replies, fl, rp, i, "ETIMEDOUT")
         \/ d.flight = fl /\ d.replies = rp
BY DEF SettleOne, Settled, Ends

\* ... keeps every request in one place.
LEMMA SettleOneKeeps ==
  ASSUME NEW rq, NEW fl, NEW rp, NEW ch, InStep(rq, fl, rp, ch), NEW i \in 1 .. Len(fl), NEW ready,
         i \in ready => fl[i].net # "connecting",
         NEW x, NEW y,
         \/ i \in ready /\ Ends(x, y, fl, rp, i, SocketError(fl[i]))
         \/ i \notin ready /\ Ends(x, y, fl, rp, i, "ETIMEDOUT")
         \/ x = fl /\ y = rp
  PROVE  InStep(rq, x, y, ch) /\ Below(x, fl, i)
<1>0. Len(fl) \in Nat /\ fl[i].net \in {"connecting", "up", "refused", "reset"}
  BY InStepIs
<1>1. CASE i \in ready /\ Ends(x, y, fl, rp, i, SocketError(fl[i]))
  <2>1. SocketError(fl[i]) \in Answered /\ (SocketError(fl[i]) = "ok" => fl[i].net \in {"up", "reset"})
    BY <1>0, <1>1 DEF SocketError, Answered
  <2> QED BY <1>1, <2>1, EndsKeeps
<1>2. CASE Ends(x, y, fl, rp, i, "ETIMEDOUT")
  <2>1. "ETIMEDOUT" \in Answered /\ "ETIMEDOUT" # "ok"
    BY DEF Answered
  <2> QED BY <1>2, <2>1, EndsKeeps
<1>3. CASE x = fl /\ y = rp
  BY <1>0, <1>3 DEF Below
<1> QED BY <1>1, <1>2, <1>3

\* The turn's loop over the connects, n turns of it.
Settling(f, n, m, ready) ==
  f = [i \in 0 .. n |-> IF i = 0 THEN [flight |-> flight, replies |-> replies] ELSE SettleOne(f[i - 1], m + 1 - i, ready)]

\* The recursion over connector_loop's places is a function.
LEMMA SettlingExists ==
  ASSUME NEW m \in Nat, NEW ready
  PROVE  \E f : Settling(f, m, m, ready)
<1> DEFINE T == {n \in Nat : \E f : Settling(f, n, m, ready)}
           first == [flight |-> flight, replies |-> replies]
<1>1. 0 \in T
  <2>1. Settling([i \in 0 .. 0 |-> first], 0, m, ready)
    BY DEF Settling
  <2> QED BY <2>1
<1> HIDE DEF first
<1>2. ASSUME NEW n \in Nat, n \in T PROVE n + 1 \in T
  <2>1. PICK f : Settling(f, n, m, ready)
    BY <1>2
  <2> DEFINE last == SettleOne(f[n], m + 1 - (n + 1), ready)
             g == [i \in 0 .. (n + 1) |-> IF i = n + 1 THEN last ELSE f[i]]
  <2>2. \A i \in 0 .. n : f[i] = IF i = 0 THEN first ELSE SettleOne(f[i - 1], m + 1 - i, ready)
    BY <2>1 DEF Settling, first
  <2>3. \A i \in 0 .. n : g[i] = f[i]
    OBVIOUS
  <2>4. g[n + 1] = last
    OBVIOUS
  <2>5. g = [i \in 0 .. (n + 1) |-> g[i]]
    OBVIOUS
  <2> HIDE DEF g
  <2>6. ASSUME NEW i \in 0 .. (n + 1)
        PROVE  g[i] = IF i = 0 THEN first ELSE SettleOne(g[i - 1], m + 1 - i, ready)
    <3>1. CASE i = n + 1
      <4>1. i # 0 /\ i - 1 = n /\ n \in 0 .. n
        BY <3>1
      <4> QED BY <2>3, <2>4, <3>1, <4>1
    <3>2. CASE i = 0
      BY <2>2, <2>3, <3>2
    <3>3. CASE i \in 0 .. n /\ i # 0
      <4>1. i - 1 \in 0 .. n
        BY <3>3
      <4> QED BY <2>2, <2>3, <3>3, <4>1
    <3> QED BY <3>1, <3>2, <3>3
  <2>7. Settling(g, n + 1, m, ready)
    BY <2>5, <2>6 DEF Settling, first
  <2> QED BY <2>7
<1>3. \A n \in Nat : n \in T
  <2> HIDE DEF T
  <2> QED BY <1>1, <1>2, SetInduction
<1> QED BY <1>3

\* A whole turn of connector_loop over its flight, downward.
LEMMA SettleKeeps ==
  ASSUME InStep(requests, flight, replies, channel)
  PROVE  LET s == Settle(PollReady) IN InStep(requests, s.flight, s.replies, channel)
<1> DEFINE m == Len(flight)
           f == CHOOSE g : Settling(g, m, m, PollReady)
           Fine(n) == /\ InStep(requests, f[n].flight, f[n].replies, channel)
                      /\ Len(f[n].flight) >= m - n
                      /\ \A j \in 1 .. m - n : f[n].flight[j] = flight[j]
           T == {n \in Nat : n <= m => Fine(n)}
<1>1. m \in Nat
  BY InStepIs
<1>2. Settle(PollReady) = f[m]
  BY DEF Settle, Settling
<1>3. Settling(f, m, m, PollReady)
  BY <1>1, SettlingExists
<1>4. \A i \in PollReady : flight[i].net # "connecting"
  BY DEF PollReady
<1> HIDE DEF f
<1>5. f[0] = [flight |-> flight, replies |-> replies] /\ \A n \in 1 .. m : f[n] = SettleOne(f[n - 1], m + 1 - n, PollReady)
  BY <1>1, <1>3 DEF Settling
<1>6. 0 \in T
  BY <1>1, <1>5
<1>7. ASSUME NEW n \in Nat, n \in T PROVE n + 1 \in T
  <2> SUFFICES ASSUME n + 1 <= m PROVE Fine(n + 1)
    OBVIOUS
  <2> DEFINE s == f[n]
             i == m - n
  <2>1. Fine(n) /\ f[n + 1] = SettleOne(s, i, PollReady) /\ i \in 1 .. m /\ i \in 1 .. m - n /\ m - (n + 1) = i - 1
    <3>1. n + 1 \in 1 .. m /\ (n + 1) - 1 = n /\ m + 1 - (n + 1) = i /\ n <= m
      BY <1>1
    <3> QED BY <1>1, <1>5, <1>7, <3>1
  <2>2. InStep(requests, s.flight, s.replies, channel) /\ Len(s.flight) >= i /\ \A j \in 1 .. i : s.flight[j] = flight[j]
    BY <2>1
  <2> HIDE DEF s, i
  <2>3. Len(s.flight) \in Nat
    BY <2>2, InStepIs
  <2>4. i \in 1 .. Len(s.flight) /\ (i \in PollReady => s.flight[i].net # "connecting")
    BY <1>1, <1>4, <2>1, <2>2, <2>3
  <2> DEFINE d == SettleOne(s, i, PollReady)
             x == d.flight
             y == d.replies
             fl == s.flight
             rp == s.replies
  <2>4a. \/ i \in PollReady /\ Ends(x, y, fl, rp, i, SocketError(fl[i]))
         \/ i \notin PollReady /\ Ends(x, y, fl, rp, i, "ETIMEDOUT")
         \/ x = fl /\ y = rp
    BY SettleOneIs
  <2>4b. InStep(requests, fl, rp, channel) /\ i \in 1 .. Len(fl) /\ (i \in PollReady => fl[i].net # "connecting")
    BY <2>2, <2>4
  <2> HIDE DEF x, y, fl, rp
  <2>4c. InStep(requests, x, y, channel) /\ Below(x, fl, i)
    BY <2>4a, <2>4b, SettleOneKeeps
  <2>5. /\ InStep(requests, d.flight, d.replies, channel) /\ Len(d.flight) >= Len(s.flight) - 1
        /\ \A j \in 1 .. Len(d.flight) : j < i => d.flight[j] = s.flight[j]
    BY <2>4c DEF Below, x, y, fl, rp
  <2> HIDE DEF d
  <2>6. Len(d.flight) \in Nat
    BY <2>5, InStepIs
  <2>7. Len(d.flight) >= i - 1 /\ \A j \in 1 .. i - 1 : j \in 1 .. Len(d.flight) /\ j < i /\ j \in 1 .. i
    BY <1>1, <2>1, <2>2, <2>3, <2>5, <2>6
  <2>8. \A j \in 1 .. i - 1 : d.flight[j] = flight[j]
    BY <2>2, <2>5, <2>7
  <2> QED BY <2>1, <2>5, <2>7, <2>8 DEF d
<1>8. \A n \in Nat : n \in T
  <2> HIDE DEF T
  <2> QED BY <1>6, <1>7, SetInduction
<1>9. Fine(m)
  BY <1>1, <1>8
<1> QED BY <1>2, <1>9

\* A list whose tags are pending and differ is no longer than what is pending.
LEMMA TagsBounded ==
  ASSUME NEW E, NEW q \in Seq(E), Once(q), NEW T, IsFiniteSet(T), TagsOf(q) \subseteq T
  PROVE  Len(q) <= Cardinality(T)
<1> DEFINE n == Len(q)
           f == [i \in 1 .. n |-> q[i].tag]
<1>1. n \in Nat
  BY LenProperties
<1>2. f \in [1 .. n -> T] /\ \A i, j \in 1 .. n : f[i] = f[j] => i = j
  BY DEF TagsOf, Once
<1>3. IsFiniteSet(1 .. n) /\ Cardinality(1 .. n) = n
  BY <1>1, FS_Interval
<1>4. Cardinality(T) \in Nat
  BY FS_CardinalityType
<1> HIDE DEF f, n
<1>5. ~(Cardinality(T) < Cardinality(1 .. n))
  <2> DEFINE S == 1 .. n
  <2>1. IsFiniteSet(S) /\ f \in [S -> T] /\ \A i, j \in S : f[i] = f[j] => i = j
    BY <1>2, <1>3
  <2> HIDE DEF S
  <2>2. ~(Cardinality(T) < Cardinality(S))
    BY <2>1, FS_PigeonHole
  <2> QED BY <2>2 DEF S
<1>6. n <= Cardinality(T)
  BY <1>1, <1>3, <1>4, <1>5
<1> QED BY <1>6 DEF n

\* What is pending is finite and no more than CONNECTOR_FLIGHT.
LEMMA PendingFinite ==
  ASSUME NEW ch, ChannelShape(ch)
  PROVE  IsFiniteSet(DOMAIN ch.pending) /\ Cardinality(DOMAIN ch.pending) \in Nat /\ Cardinality(DOMAIN ch.pending) <= Flight
         /\ MaxTag \in Nat /\ MaxTag > 0 /\ Flight \in Nat /\ Flight <= MaxTag
<1>1. MaxTag \in Nat /\ MaxTag > 0 /\ Flight \in Nat /\ Flight <= MaxTag
  BY ConnectorAssumption
<1>2. IsFiniteSet(Tag)
  BY <1>1, FS_Interval DEF Tag
<1>3. DOMAIN ch.pending \subseteq Tag /\ Cardinality(DOMAIN ch.pending) <= Flight
  BY DEF ChannelShape
<1>4. IsFiniteSet(DOMAIN ch.pending)
  BY <1>2, <1>3, FS_Subset
<1> QED BY <1>1, <1>3, <1>4, FS_CardinalityType

\* The process always has room for what is asked of it.
LEMMA FlightBounded ==
  ASSUME NEW rq, NEW fl, NEW rp, NEW ch, InStep(rq, fl, rp, ch)
  PROVE  Len(fl) \in Nat /\ Len(fl) <= Flight /\ (rq # <<>> => Len(fl) < Flight)
<1> DEFINE D == DOMAIN ch.pending
<1>1. fl \in Seq(Flown) /\ Once(fl) /\ Len(fl) \in Nat /\ rq \in Seq(Sent) /\ Once(rq)
  BY InStepIs DEF InStep, OnePlaceEach
<1>2. IsFiniteSet(D) /\ Cardinality(D) \in Nat /\ Cardinality(D) <= Flight /\ Flight \in Nat
  BY PendingFinite DEF InStep
<1>3. TagsOf(fl) \subseteq D /\ TagsOf(rq) \subseteq D /\ TagsOf(rq) \cap TagsOf(fl) = {}
  BY DEF InStep, OnePlaceEach
<1> HIDE DEF D
<1>4. Len(fl) <= Cardinality(D)
  BY <1>1, <1>2, <1>3, TagsBounded
<1>5. ASSUME rq # <<>> PROVE Len(fl) < Flight
  <2> DEFINE h == Head(rq).tag
             C == D \ {h}
  <2>1. h \in TagsOf(rq)
    BY <1>1, <1>5, TagsTail
  <2> HIDE DEF h
  <2>2. TagsOf(fl) \subseteq C /\ h \in D
    BY <1>3, <2>1
  <2>3. IsFiniteSet(C) /\ Cardinality(C) = Cardinality(D) - 1
    BY <1>2, <2>2, FS_RemoveElement
  <2> HIDE DEF C
  <2>4. Len(fl) <= Cardinality(C)
    BY <1>1, <2>2, <2>3, TagsBounded
  <2> QED BY <1>1, <1>2, <2>3, <2>4
<1> QED BY <1>1, <1>2, <1>4, <1>5

\* What connector_serve decides is begun, or is answered with no socket and never BUSY.
LEMMA JudgedIs ==
  ASSUME NEW r \in Requests
  PROVE  Judge(r, TRUE) \in (Answered \ {"ok"}) \cup {"begin"}
<1>1. r.index = PublicIndex => r.port # 0
  BY ConnectorAssumption
<1>2. connector_connect(r, TRUE) \in {"EINVAL", "EPERM", "begin"}
  BY DEF connector_connect
<1>3. ASSUME r.port # 0 PROVE connector_public_connect(r, TRUE) \in {"EPERM", "EINVAL", "DENIED", "begin"}
  BY <1>3 DEF connector_public_connect
<1> QED BY <1>1, <1>2, <1>3 DEF Judge, Answered

\* A request served leaves the stream for the connects or the replies.
ServedTo(rq, fl, rp, x, y) ==
  LET q == Head(rq)
  IN  \/ x = fl /\ \E a \in Answered, fd \in {<<>>, Marker(q.id, "up")} :
                      /\ a = "ok" => fd = Marker(q.id, "up")
                      /\ y = rp \o connector_reply(q.tag, a, fd)
      \/ x = Append(fl, [tag |-> q.tag, id |-> q.id, late |-> FALSE, net |-> "connecting"]) /\ y = rp

\* A request served leaves the requests for the flight or the replies.
LEMMA ServedKeeps ==
  ASSUME NEW rq, NEW fl, NEW rp, NEW ch, InStep(rq, fl, rp, ch), rq # <<>>, NEW x, NEW y, ServedTo(rq, fl, rp, x, y)
  PROVE  InStep(Tail(rq), x, y, ch)
<1> DEFINE q == Head(rq)
           t == Tail(rq)
           g == q.tag
<1>1. /\ rq \in Seq(Sent) /\ fl \in Seq(Flown) /\ rp \in Seq(Wire) /\ ChannelShape(ch)
      /\ OnePlaceEach(rq, fl, rp, ch) /\ SameIds(rq, fl, ch) /\ Paired(rp, ch)
  BY DEF InStep
<1>2. /\ t \in Seq(Sent) /\ Once(t) /\ q \in Sent /\ g \in TagsOf(rq) /\ TagsOf(t) = TagsOf(rq) \ {g}
      /\ \A i \in 1 .. Len(t) : \E k \in 1 .. Len(rq) : t[i] = rq[k]
      /\ \E k \in 1 .. Len(rq) : q = rq[k]
  BY <1>1, TagsTail DEF OnePlaceEach
<1>3. q.tag \in Tag /\ q.id \in Nat
  BY <1>2 DEF Sent
<1>4. ch.pending[g].id = q.id
  BY <1>1, <1>2 DEF SameIds
<1>5. \A i \in 1 .. Len(t) : t[i].id = ch.pending[t[i].tag].id
  <2> SUFFICES ASSUME NEW i \in 1 .. Len(t) PROVE t[i].id = ch.pending[t[i].tag].id
    OBVIOUS
  <2>1. PICK k \in 1 .. Len(rq) : t[i] = rq[k]
    BY <1>2
  <2>2. rq[k].id = ch.pending[rq[k].tag].id
    BY <1>1 DEF SameIds
  <2> QED BY <2>1, <2>2
<1>6. g \notin TagsOf(fl) /\ g \notin HeadTags(rp)
  BY <1>1, <1>2 DEF OnePlaceEach
<1>7. CASE x = fl /\ \E a \in Answered, fd \in {<<>>, Marker(q.id, "up")} :
                        (a = "ok" => fd = Marker(q.id, "up")) /\ y = rp \o connector_reply(q.tag, a, fd)
  <2>1. PICK a \in Answered, fd \in {<<>>, Marker(q.id, "up")} :
           (a = "ok" => fd = Marker(q.id, "up")) /\ y = rp \o connector_reply(q.tag, a, fd)
    BY <1>7
  <2> HIDE DEF q, t
  <2>2. y \in Seq(Wire) /\ HeadsOnce(y) /\ HeadTags(y) = HeadTags(rp) \cup {g} /\ Paired(y, ch)
    <3>1. HeadsOnce(rp)
      BY <1>1 DEF OnePlaceEach
    <3>2. Fits(ch, g, a, q.id, "up", fd)
      BY <1>4, <2>1 DEF Fits
    <3> QED BY <1>1, <1>3, <1>6, <2>1, <3>1, <3>2, ReplyAdded
  <2> HIDE DEF g
  <2>3. OnePlaceEach(t, fl, y, ch)
    BY <1>1, <1>2, <1>6, <2>2 DEF OnePlaceEach
  <2>4. SameIds(t, fl, ch)
    BY <1>1, <1>5 DEF SameIds
  <2> QED BY <1>1, <1>2, <1>7, <2>2, <2>3, <2>4 DEF InStep, t
<1>8. CASE x = Append(fl, [tag |-> q.tag, id |-> q.id, late |-> FALSE, net |-> "connecting"]) /\ y = rp
  <2> DEFINE e == [tag |-> q.tag, id |-> q.id, late |-> FALSE, net |-> "connecting"]
  <2>1. e \in Flown /\ e.tag = g /\ e.id = q.id
    BY <1>3 DEF Flown
  <2>2. x = Append(fl, e)
    BY <1>8
  <2> HIDE DEF e, q, t, g
  <2>3. /\ x \in Seq(Flown) /\ Once(x) /\ TagsOf(x) = TagsOf(fl) \cup {g}
        /\ \A i \in 1 .. Len(x) : x[i] = e \/ \E k \in 1 .. Len(fl) : x[i] = fl[k]
    BY <1>1, <1>6, <2>1, <2>2, TagsAppend DEF OnePlaceEach
  <2>4. OnePlaceEach(t, x, rp, ch)
    BY <1>1, <1>2, <1>6, <2>3 DEF OnePlaceEach
  <2>5. \A i \in 1 .. Len(x) : x[i].id = ch.pending[x[i].tag].id
    <3> SUFFICES ASSUME NEW i \in 1 .. Len(x) PROVE x[i].id = ch.pending[x[i].tag].id
      OBVIOUS
    <3>1. CASE x[i] = e
      BY <1>4, <2>1, <3>1
    <3>2. CASE \E k \in 1 .. Len(fl) : x[i] = fl[k]
      <4>1. PICK k \in 1 .. Len(fl) : x[i] = fl[k]
        BY <3>2
      <4>2. fl[k].id = ch.pending[fl[k].tag].id
        BY <1>1 DEF SameIds
      <4> QED BY <4>1, <4>2
    <3> QED BY <2>3, <3>1, <3>2
  <2>6. SameIds(t, x, ch)
    BY <1>5, <2>5 DEF SameIds
  <2> QED BY <1>1, <1>2, <1>8, <2>3, <2>4, <2>6 DEF InStep, t
<1> QED BY <1>7, <1>8 DEF ServedTo

\* What connector_serve does of the request read.
LEMMA ServeIs ==
  ASSUME NEW s, NEW fl, NEW rp, s.flight = fl, s.replies = rp, NEW rq, Head(rq).request \in Requests, Len(fl) < Flight, Serve(s, Head(rq))
  PROVE  ServedTo(rq, fl, rp, flight', replies')
<1> DEFINE q == Head(rq)
<1>1. Judge(q.request, TRUE) \in (Answered \ {"ok"}) \cup {"begin"}
  BY JudgedIs
<1>2. {"ok", "ECONNREFUSED"} \subseteq Answered
  BY DEF Answered
<1>3. (Len(s.flight) < Flight) = TRUE
  OBVIOUS
<1>4. Serve(s, q)
  OBVIOUS
<1> HIDE DEF q
<1>5. CASE Judge(q.request, TRUE) # "begin"
  <2>1. flight' = fl /\ replies' = rp \o connector_reply(q.tag, Judge(q.request, TRUE), <<>>)
    BY <1>3, <1>4, <1>5 DEF Serve
  <2> QED BY <1>1, <1>5, <2>1 DEF ServedTo, q
<1>6. CASE Judge(q.request, TRUE) = "begin"
  <2>1. \/ /\ flight' = Append(fl, [tag |-> q.tag, id |-> q.id, late |-> FALSE, net |-> "connecting"])
           /\ replies' = rp
        \/ /\ flight' = fl
           /\ \/ replies' = rp \o connector_reply(q.tag, "ok", Marker(q.id, "up"))
              \/ replies' = rp \o connector_reply(q.tag, "ECONNREFUSED", <<>>)
    BY <1>3, <1>4, <1>6 DEF Serve
  <2> QED BY <1>2, <2>1 DEF ServedTo, q
<1> QED BY <1>5, <1>6

\* What the network and the clock do to connects changes no tag and no id.
LEMMA FlightTouched ==
  ASSUME NEW rq, NEW fl, NEW rp, NEW ch, InStep(rq, fl, rp, ch), NEW x \in Seq(Flown), Len(x) = Len(fl),
         \A i \in 1 .. Len(fl) : x[i].tag = fl[i].tag /\ x[i].id = fl[i].id
  PROVE  InStep(rq, x, rp, ch)
<1>1. TagsOf(x) = TagsOf(fl)
  BY DEF TagsOf
<1>2. Once(fl) => Once(x)
  BY DEF Once
<1>3. SameIds(rq, fl, ch) => SameIds(rq, x, ch)
  BY DEF SameIds
<1> QED BY <1>1, <1>2, <1>3 DEF InStep, OnePlaceEach

\* A socket in the stream reset is where it was.
LEMMA RepliesTouched ==
  ASSUME NEW rq, NEW fl, NEW rp, NEW ch, InStep(rq, fl, rp, ch), NEW y \in Seq(Wire), Len(y) = Len(rp),
         \A i \in 1 .. Len(rp) : \/ y[i] = rp[i]
                                 \/ y[i].what = "socket" /\ rp[i].what = "socket" /\ y[i].id = rp[i].id
  PROVE  InStep(rq, fl, y, ch)
<1>0. Len(rp) \in Nat /\ rp \in Seq(Wire) /\ OnePlaceEach(rq, fl, rp, ch) /\ Paired(rp, ch)
  BY InStepIs DEF InStep
<1>1. /\ HeadsAt(y) = HeadsAt(rp) /\ HeadsAt(rp) \subseteq 1 .. Len(rp)
      /\ \A i \in HeadsAt(rp) : y[i] = rp[i]
  BY DEF HeadsAt
<1>2. HeadTags(y) = HeadTags(rp)
  BY <1>1 DEF HeadTags
<1>3. HeadsOnce(y)
  BY <1>0, <1>1 DEF HeadsOnce, OnePlaceEach
<1>4. Paired(y, ch)
  <2>1. ASSUME NEW i \in HeadsAt(y), y[i].status = "ok"
        PROVE  i < Len(y) /\ y[i + 1].what = "socket" /\ y[i + 1].id = ch.pending[y[i].tag].id
    <3>1. i < Len(rp) /\ rp[i + 1].what = "socket" /\ rp[i + 1].id = ch.pending[rp[i].tag].id
      BY <1>0, <1>1, <2>1 DEF Paired
    <3>2. i + 1 \in 1 .. Len(rp)
      BY <1>0, <1>1, <3>1
    <3> QED BY <1>1, <3>1, <3>2
  <2>2. ASSUME NEW i \in 1 .. Len(y), y[i].what = "socket"
        PROVE  IF i = 1 THEN ch.passing # 0 ELSE y[i - 1].what = "head" /\ y[i - 1].status = "ok"
    <3>1. rp[i].what = "socket" /\ i \in 1 .. Len(rp)
      BY <2>2
    <3>2. IF i = 1 THEN ch.passing # 0 ELSE rp[i - 1].what = "head" /\ rp[i - 1].status = "ok"
      BY <1>0, <3>1 DEF Paired
    <3>3. i # 1 => i - 1 \in 1 .. Len(rp)
      BY <1>0, <3>1
    <3>4. i # 1 => i - 1 \in HeadsAt(rp)
      BY <3>2, <3>3 DEF HeadsAt
    <3> QED BY <1>1, <3>2, <3>4
  <2>3. ASSUME ch.passing # 0 PROVE y # <<>> /\ y[1].what = "socket" /\ y[1].id = ch.pending[ch.passing].id
    <3>1. rp # <<>> /\ rp[1].what = "socket" /\ rp[1].id = ch.pending[ch.passing].id
      BY <1>0, <2>3 DEF Paired
    <3>2. 1 \in 1 .. Len(rp)
      BY <1>0, <3>1, EmptySeq
    <3>3. y # <<>>
      BY <1>0, <3>2, EmptySeq
    <3> QED BY <3>1, <3>2, <3>3
  <2> QED BY <2>1, <2>2, <2>3 DEF Paired
<1> QED BY <1>0, <1>2, <1>3, <1>4 DEF InStep, OnePlaceEach

\* The network changes no place.
LEMMA NetworkKeeps ==
  ASSUME InStep(requests, flight, replies, channel), Network
  PROVE  InStep(requests', flight', replies', channel')
<1>1. /\ requests' = requests /\ channel' = channel
  BY DEF Network, client
<1>2. /\ flight \in Seq(Flown) /\ Len(flight) \in Nat /\ \A i \in 1 .. Len(flight) : flight[i] \in Flown
      /\ replies \in Seq(Wire) /\ Len(replies) \in Nat /\ \A i \in 1 .. Len(replies) : replies[i] \in Wire
  BY InStepIs
<1>3. ASSUME NEW i \in 1 .. Len(flight), NEW n \in {"up", "refused", "reset"}, flight' = [flight EXCEPT ![i].net = n], replies' = replies
      PROVE  InStep(requests', flight', replies', channel')
  <2> DEFINE e == [flight[i] EXCEPT !.net = n]
  <2>1. e \in Flown /\ e.tag = flight[i].tag /\ e.id = flight[i].id
    BY <1>2 DEF Flown
  <2>2. flight' = [flight EXCEPT ![i] = e]
    BY <1>3
  <2> HIDE DEF e
  <2>3. /\ flight' \in Seq(Flown) /\ Len(flight') = Len(flight)
        /\ \A k \in 1 .. Len(flight) : flight'[k] = IF k = i THEN e ELSE flight[k]
    BY <1>2, <2>1, <2>2, ExceptSeq
  <2>4. InStep(requests, flight', replies, channel)
    BY <2>1, <2>3, FlightTouched
  <2> QED BY <1>1, <1>3, <2>4
<1>4. ASSUME NEW i \in 1 .. Len(replies), replies[i].what = "socket",
             replies' = [replies EXCEPT ![i].net = "reset"], flight' = flight
      PROVE  InStep(requests', flight', replies', channel')
  <2> DEFINE e == [replies[i] EXCEPT !.net = "reset"]
  <2>0. replies[i] \in Passed
    <3>1. replies[i] \in Wire
      BY <1>2
    <3> QED BY <1>4, <3>1 DEF Wire, Hellos, Heads, Passed
  <2>1. e \in Wire /\ e.what = "socket" /\ e.id = replies[i].id
    BY <2>0 DEF Wire, Passed
  <2>2. replies' = [replies EXCEPT ![i] = e]
    BY <1>4
  <2> HIDE DEF e
  <2>3. /\ replies' \in Seq(Wire) /\ Len(replies') = Len(replies)
        /\ \A k \in 1 .. Len(replies) : replies'[k] = IF k = i THEN e ELSE replies[k]
    BY <1>2, <2>1, <2>2, ExceptSeq
  <2>4. InStep(requests, flight, replies', channel)
    <3>1. \A k \in 1 .. Len(replies) :
             \/ replies'[k] = replies[k]
             \/ replies'[k].what = "socket" /\ replies[k].what = "socket" /\ replies'[k].id = replies[k].id
      BY <1>4, <2>1, <2>3
    <3> QED BY <2>3, <3>1, RepliesTouched
  <2> QED BY <1>1, <1>4, <2>4
<1> QED BY <1>3, <1>4 DEF Network

\* Nor does a wait that runs out.
LEMMA LateKeeps ==
  ASSUME InStep(requests, flight, replies, channel), Late
  PROVE  InStep(requests', flight', replies', channel')
<1>1. /\ requests' = requests /\ channel' = channel /\ replies' = replies
  BY DEF Late, client
<1>2. flight \in Seq(Flown) /\ Len(flight) \in Nat /\ \A i \in 1 .. Len(flight) : flight[i] \in Flown
  BY InStepIs
<1>3. PICK i \in 1 .. Len(flight) : flight' = [flight EXCEPT ![i].late = TRUE]
  BY DEF Late
<1> DEFINE e == [flight[i] EXCEPT !.late = TRUE]
<1>4. e \in Flown /\ e.tag = flight[i].tag /\ e.id = flight[i].id
  BY <1>2 DEF Flown
<1>5. flight' = [flight EXCEPT ![i] = e]
  BY <1>3
<1> HIDE DEF e
<1>6. /\ flight' \in Seq(Flown) /\ Len(flight') = Len(flight)
      /\ \A k \in 1 .. Len(flight) : flight'[k] = IF k = i THEN e ELSE flight[k]
  BY <1>2, <1>4, <1>5, ExceptSeq
<1>7. InStep(requests, flight', replies, channel)
  BY <1>4, <1>6, FlightTouched
<1> QED BY <1>1, <1>7

\* The process's hello is of no request.
LEMMA HelloKeeps ==
  ASSUME InStep(requests, flight, replies, channel), Hello
  PROVE  InStep(requests', flight', replies', channel')
<1> DEFINE e == [what |-> "hello"]
           rp == replies
           ch == channel
           n == Len(rp)
           x == Append(rp, e)
<1>1. /\ requests' = requests /\ channel' = channel /\ flight' = flight /\ replies' = x
  BY DEF Hello, client
<1>2. e \in Wire /\ e.what = "hello"
  BY WireIs
<1>3. rp \in Seq(Wire) /\ n \in Nat /\ OnePlaceEach(requests, flight, rp, ch) /\ Paired(rp, ch)
  BY InStepIs DEF InStep
<1> HIDE DEF e
<1>4. /\ x \in Seq(Wire) /\ Len(x) = n + 1 /\ x[n + 1] = e /\ \A i \in 1 .. n : x[i] = rp[i]
      /\ \A i : i \in 1 .. Len(x) <=> i \in 1 .. n \/ i = n + 1
      /\ HeadsOnce(x) /\ HeadsAt(x) = HeadsAt(rp) /\ HeadTags(x) = HeadTags(rp)
  <2>1. HeadsOnce(rp) /\ e.what # "head"
    BY <1>2, <1>3 DEF OnePlaceEach
  <2>2. rp \in Seq(Wire)
    BY <1>3
  <2> HIDE DEF rp, ch
  <2>3. e.what = "head" => e.tag \notin HeadTags(rp)
    BY <2>1
  <2>4. /\ x \in Seq(Wire) /\ Len(x) = Len(rp) + 1 /\ x[Len(rp) + 1] = e /\ \A i \in 1 .. Len(rp) : x[i] = rp[i]
        /\ \A i : i \in 1 .. Len(x) <=> i \in 1 .. Len(rp) \/ i = Len(rp) + 1
        /\ HeadsOnce(x) /\ HeadsAt(x) = HeadsAt(rp) \cup (IF e.what = "head" THEN {Len(rp) + 1} ELSE {})
        /\ HeadTags(x) = HeadTags(rp) \cup (IF e.what = "head" THEN {e.tag} ELSE {})
    BY ONLY <1>2, <2>1, <2>2, <2>3, WireAppend
  <2> HIDE DEF x
  <2> QED BY <2>1, <2>4
<1> HIDE DEF x
<1>5. HeadsAt(rp) \subseteq 1 .. n
  BY DEF HeadsAt
<1>6. Paired(x, ch)
  <3>1. ASSUME NEW i \in HeadsAt(x), x[i].status = "ok"
        PROVE  i < Len(x) /\ x[i + 1].what = "socket" /\ x[i + 1].id = ch.pending[x[i].tag].id
    <4>1. i \in HeadsAt(rp) /\ i \in 1 .. n /\ x[i] = rp[i]
      BY <1>4, <1>5, <3>1
    <4>2. i < n /\ rp[i + 1].what = "socket" /\ rp[i + 1].id = ch.pending[rp[i].tag].id
      BY <1>3, <3>1, <4>1 DEF Paired
    <4>3. i + 1 \in 1 .. n /\ i < Len(x)
      BY <1>3, <1>4, <4>1, <4>2
    <4> QED BY <1>4, <4>1, <4>2, <4>3
  <3>2. ASSUME NEW i \in 1 .. Len(x), x[i].what = "socket"
        PROVE  IF i = 1 THEN ch.passing # 0 ELSE x[i - 1].what = "head" /\ x[i - 1].status = "ok"
    <4>1. i \in 1 .. n /\ x[i] = rp[i]
      BY <1>2, <1>4, <3>2
    <4>2. IF i = 1 THEN ch.passing # 0 ELSE rp[i - 1].what = "head" /\ rp[i - 1].status = "ok"
      BY <1>3, <3>2, <4>1 DEF Paired
    <4>3. i # 1 => i - 1 \in 1 .. n
      BY <1>3, <4>1
    <4> QED BY <1>4, <4>2, <4>3
  <3>3. ASSUME ch.passing # 0 PROVE x # <<>> /\ x[1].what = "socket" /\ x[1].id = ch.pending[ch.passing].id
    <4>1. rp # <<>> /\ rp[1].what = "socket" /\ rp[1].id = ch.pending[ch.passing].id
      BY <1>3, <3>3 DEF Paired
    <4>2. 1 \in 1 .. n
      BY <1>3, <4>1, EmptySeq
    <4>3. x # <<>>
      BY <1>3, <1>4, EmptySeq
    <4> QED BY <1>4, <4>1, <4>2, <4>3
  <3> QED BY <3>1, <3>2, <3>3 DEF Paired
<1>7. InStep(requests, flight, x, ch)
  BY <1>3, <1>4, <1>6 DEF InStep, OnePlaceEach
<1> QED BY <1>1, <1>7

\* A turn of connector_loop keeps every request in one place.
LEMMA LoopKeeps ==
  ASSUME InStep(requests, flight, replies, channel), connector_loop
  PROVE  InStep(requests', flight', replies', channel')
<1> DEFINE s == Settle(PollReady)
           fl == s.flight
           rp == s.replies
<1>1. InStep(requests, fl, rp, channel)
  BY SettleKeeps
<1>2. channel' = channel
  BY DEF connector_loop, client
<1>3. \/ requests' = requests /\ flight' = fl /\ replies' = rp
      \/ requests # <<>> /\ requests' = Tail(requests) /\ Serve(s, Head(requests))
  BY DEF connector_loop
<1> HIDE DEF s
<1>4. CASE requests # <<>> /\ requests' = Tail(requests) /\ Serve(s, Head(requests))
  <2>1. Len(fl) < Flight
    BY <1>1, <1>4, FlightBounded
  <2>2. Head(requests).request \in Requests
    <3>1. Head(requests) \in Sent
      BY <1>1, <1>4, TagsTail DEF InStep, OnePlaceEach
    <3> QED BY <3>1 DEF Sent
  <2>3. ServedTo(requests, fl, rp, flight', replies')
    BY <1>4, <2>1, <2>2, ServeIs
  <2>4. InStep(Tail(requests), flight', replies', channel)
    BY <1>1, <1>4, <2>3, ServedKeeps
  <2> QED BY <1>2, <1>4, <2>4
<1> QED BY <1>1, <1>2, <1>3, <1>4

(* What a read leaves of the stream.                                       *)

\* The headers of a stream whose first element is read.
LEMMA WireTail ==
  ASSUME NEW rp \in Seq(Wire), rp # <<>>, HeadsOnce(rp)
  PROVE  LET tp == Tail(rp)
         IN  /\ tp \in Seq(Wire) /\ Len(tp) = Len(rp) - 1 /\ rp[1] \in Wire /\ Len(rp) \in Nat /\ Len(rp) >= 1
             /\ \A i \in 1 .. Len(tp) : i + 1 \in 1 .. Len(rp) /\ tp[i] = rp[i + 1]
             /\ \A i \in HeadsAt(tp) : i + 1 \in HeadsAt(rp)
             /\ HeadsOnce(tp)
             /\ HeadTags(tp) = IF rp[1].what = "head" THEN HeadTags(rp) \ {rp[1].tag} ELSE HeadTags(rp)
             /\ rp[1].what = "head" => rp[1].tag \in HeadTags(rp) /\ 1 \in HeadsAt(rp)
<1> DEFINE tp == Tail(rp)
           n == Len(rp)
<1>1. n \in Nat /\ n >= 1 /\ tp \in Seq(Wire) /\ Len(tp) = n - 1 /\ \A i \in 1 .. n - 1 : tp[i] = rp[i + 1]
  BY LenProperties, EmptySeq
<1>2. rp[1] \in Wire /\ 1 \in 1 .. n
  BY <1>1, ElementOfSeq
<1>3. HeadsAt(rp) = {i \in 1 .. n : rp[i].what = "head"} /\ HeadsAt(tp) = {i \in 1 .. n - 1 : tp[i].what = "head"}
  BY <1>1 DEF HeadsAt
<1> HIDE DEF tp, n
<1>4. /\ \A i \in 1 .. n - 1 : i + 1 \in 1 .. n /\ i + 1 # 1
      /\ \A k \in 1 .. n : k # 1 => k - 1 \in 1 .. n - 1 /\ (k - 1) + 1 = k
  BY <1>1
<1>5. \A i \in HeadsAt(tp) : i \in 1 .. n - 1 /\ i + 1 \in HeadsAt(rp) /\ i + 1 # 1 /\ tp[i] = rp[i + 1]
  BY <1>1, <1>3, <1>4
<1>6. \A k \in HeadsAt(rp) : k # 1 => k - 1 \in HeadsAt(tp) /\ tp[k - 1] = rp[k]
  BY <1>1, <1>3, <1>4
<1>7. \A i, j \in HeadsAt(rp) : rp[i].tag = rp[j].tag => i = j
  BY DEF HeadsOnce
<1>8. HeadsOnce(tp)
  <2> SUFFICES ASSUME NEW i \in HeadsAt(tp), NEW j \in HeadsAt(tp), tp[i].tag = tp[j].tag PROVE i = j
    BY DEF HeadsOnce
  <2>1. i + 1 = j + 1
    BY <1>5, <1>7
  <2> QED BY <1>1, <1>5, <2>1
<1>9. 1 \in HeadsAt(rp) <=> rp[1].what = "head"
  BY <1>2, <1>3
<1>10. ASSUME rp[1].what = "head" PROVE HeadTags(tp) = HeadTags(rp) \ {rp[1].tag}
  <2>1. \A i \in HeadsAt(tp) : tp[i].tag \in HeadTags(rp) /\ tp[i].tag # rp[1].tag
    BY <1>5, <1>7, <1>9, <1>10 DEF HeadTags
  <2>2. \A k \in HeadsAt(rp) : k # 1 => rp[k].tag \in HeadTags(tp)
    BY <1>6 DEF HeadTags
  <2> QED BY <2>1, <2>2 DEF HeadTags
<1>11. ASSUME rp[1].what # "head" PROVE HeadTags(tp) = HeadTags(rp)
  <2>1. \A i \in HeadsAt(tp) : tp[i].tag \in HeadTags(rp)
    BY <1>5 DEF HeadTags
  <2>2. \A k \in HeadsAt(rp) : rp[k].tag \in HeadTags(tp)
    BY <1>6, <1>9, <1>11 DEF HeadTags
  <2> QED BY <2>1, <2>2 DEF HeadTags
<1>12. rp[1].what = "head" => rp[1].tag \in HeadTags(rp) /\ 1 \in HeadsAt(rp)
  BY <1>9 DEF HeadTags
<1>13. \A i \in 1 .. Len(tp) : i + 1 \in 1 .. n /\ tp[i] = rp[i + 1]
  BY <1>1, <1>4
<1>14. HeadTags(tp) = IF rp[1].what = "head" THEN HeadTags(rp) \ {rp[1].tag} ELSE HeadTags(rp)
  BY <1>10, <1>11
<1> QED BY <1>1, <1>2, <1>5, <1>8, <1>12, <1>13, <1>14 DEF tp, n

IsOk(e) == e.what = "head" /\ e.status = "ok"

\* A socket follows its header in what is left.
LEMMA PairedTail ==
  ASSUME NEW rp \in Seq(Wire), rp # <<>>, HeadsOnce(rp), NEW ch, Paired(rp, ch), NEW dh,
         \A g \in HeadTags(Tail(rp)) : dh.pending[g] = ch.pending[g],
         IsOk(rp[1]) => dh.passing = rp[1].tag /\ dh.pending[rp[1].tag] = ch.pending[rp[1].tag],
         ~IsOk(rp[1]) => dh.passing = 0,
         IsOk(rp[1]) => rp[1].tag # 0
  PROVE  Paired(Tail(rp), dh)
<1> DEFINE tp == Tail(rp)
           n == Len(rp)
<1>1. /\ tp \in Seq(Wire) /\ Len(tp) = n - 1 /\ n \in Nat /\ n >= 1
      /\ \A i \in 1 .. Len(tp) : i + 1 \in 1 .. n /\ tp[i] = rp[i + 1]
      /\ \A i \in HeadsAt(tp) : i + 1 \in HeadsAt(rp)
      /\ rp[1].what = "head" => 1 \in HeadsAt(rp)
  BY WireTail
<1>0. \A g \in HeadTags(tp) : dh.pending[g] = ch.pending[g]
  OBVIOUS
<1> HIDE DEF tp, n
<1>2. HeadsAt(tp) \subseteq 1 .. n - 1 /\ HeadsAt(rp) \subseteq 1 .. n
  BY <1>1 DEF HeadsAt, n
<1>3. ASSUME NEW i \in HeadsAt(rp), rp[i].status = "ok"
      PROVE  i < n /\ rp[i + 1].what = "socket" /\ rp[i + 1].id = ch.pending[rp[i].tag].id
  BY <1>3 DEF Paired, n
<1>4. ASSUME NEW i \in 1 .. n, rp[i].what = "socket"
      PROVE  IF i = 1 THEN ch.passing # 0 ELSE IsOk(rp[i - 1])
  BY <1>4 DEF Paired, n, IsOk
<1>5. ASSUME NEW i \in HeadsAt(tp), tp[i].status = "ok"
      PROVE  i < Len(tp) /\ tp[i + 1].what = "socket" /\ tp[i + 1].id = dh.pending[tp[i].tag].id
  <2>1. i \in 1 .. Len(tp) /\ i + 1 \in HeadsAt(rp) /\ tp[i] = rp[i + 1]
    BY <1>1, <1>2
  <2>2. i + 1 < n /\ rp[(i + 1) + 1].what = "socket" /\ rp[(i + 1) + 1].id = ch.pending[rp[i + 1].tag].id
    BY <1>3, <1>5, <2>1
  <2>3. i < Len(tp) /\ i + 1 \in 1 .. Len(tp)
    BY <1>1, <2>1, <2>2
  <2>4. tp[i + 1] = rp[(i + 1) + 1]
    BY <1>1, <2>3
  <2>5. tp[i].tag \in HeadTags(tp)
    BY DEF HeadTags
  <2> QED BY <1>0, <2>1, <2>2, <2>3, <2>4, <2>5
<1>6. ASSUME NEW i \in 1 .. Len(tp), tp[i].what = "socket"
      PROVE  IF i = 1 THEN dh.passing # 0 ELSE tp[i - 1].what = "head" /\ tp[i - 1].status = "ok"
  <2>1. i + 1 \in 1 .. n /\ tp[i] = rp[i + 1] /\ i + 1 # 1 /\ (i + 1) - 1 = i
    BY <1>1
  <2>2. IsOk(rp[i])
    BY <1>4, <1>6, <2>1
  <2>3. CASE i = 1
    BY <2>2, <2>3
  <2>4. CASE i # 1
    <3>1. i - 1 \in 1 .. Len(tp) /\ (i - 1) + 1 = i
      BY <1>1, <2>4
    <3>2. tp[i - 1] = rp[i]
      BY <1>1, <3>1
    <3> QED BY <2>2, <2>4, <3>2 DEF IsOk
  <2> QED BY <2>3, <2>4
<1>7. ASSUME dh.passing # 0 PROVE tp # <<>> /\ tp[1].what = "socket" /\ tp[1].id = dh.pending[dh.passing].id
  <2>1. IsOk(rp[1]) /\ 1 \in HeadsAt(rp) /\ rp[1].status = "ok"
    BY <1>1, <1>7 DEF IsOk
  <2>2. 1 < n /\ rp[1 + 1].what = "socket" /\ rp[1 + 1].id = ch.pending[rp[1].tag].id
    BY <1>3, <2>1
  <2>3. 1 \in 1 .. Len(tp)
    BY <1>1, <2>2
  <2>4. tp[1] = rp[1 + 1] /\ tp # <<>>
    BY <1>1, <2>3, EmptySeq
  <2> QED BY <2>1, <2>2, <2>4
<1> QED BY <1>5, <1>6, <1>7 DEF Paired, tp

\* A record of the stream put together from its parts.
LEMMA ChannelIs ==
  ASSUME NEW ch, ChannelShape(ch), NEW gr \in BOOLEAN, NEW pe, NEW nt \in Tag, NEW pa \in Tag \cup {0}, NEW lo, NEW dh,
         dh = [greeted |-> gr, pending |-> pe, next_tag |-> nt, passing |-> pa, lost |-> lo],
         DOMAIN pe \subseteq Tag, Cardinality(DOMAIN pe) <= Flight, \A g \in DOMAIN pe : pe[g] \in Pended
  PROVE  /\ ChannelShape(dh)
         /\ dh.greeted = gr /\ dh.pending = pe /\ dh.next_tag = nt /\ dh.passing = pa /\ dh.lost = lo
<1>1. dh.greeted = gr /\ dh.pending = pe /\ dh.next_tag = nt /\ dh.passing = pa /\ dh.lost = lo
  OBVIOUS
<1>2. dh = [greeted |-> dh.greeted, pending |-> dh.pending, next_tag |-> dh.next_tag, passing |-> dh.passing, lost |-> dh.lost]
  BY <1>1
<1> QED BY <1>1, <1>2 DEF ChannelShape

\* The parts of a record of the stream.
LEMMA ChannelHas ==
  ASSUME NEW ch, ChannelShape(ch)
  PROVE  /\ ch = [greeted |-> ch.greeted, pending |-> ch.pending, next_tag |-> ch.next_tag,
                passing |-> ch.passing, lost |-> ch.lost]
         /\ ch.next_tag \in Tag /\ ch.passing \in Tag \cup {0} /\ ch.greeted \in BOOLEAN
         /\ DOMAIN ch.pending \subseteq Tag /\ Cardinality(DOMAIN ch.pending) <= Flight
         /\ \A g \in DOMAIN ch.pending : ch.pending[g] \in Pended
BY DEF ChannelShape

\* The record once the hello is read.
LEMMA Greeted ==
  ASSUME NEW ch, ChannelShape(ch), NEW dh, dh = [ch EXCEPT !.greeted = TRUE]
  PROVE  ChannelShape(dh) /\ dh.pending = ch.pending /\ dh.passing = ch.passing /\ dh.lost = ch.lost /\ dh.next_tag = ch.next_tag /\ dh.greeted
<1>0. /\ ch = [greeted |-> ch.greeted, pending |-> ch.pending, next_tag |-> ch.next_tag,
                passing |-> ch.passing, lost |-> ch.lost]
      /\ ch.next_tag \in Tag /\ ch.passing \in Tag \cup {0} /\ ch.greeted \in BOOLEAN
      /\ DOMAIN ch.pending \subseteq Tag /\ Cardinality(DOMAIN ch.pending) <= Flight
      /\ \A g \in DOMAIN ch.pending : ch.pending[g] \in Pended
  BY ChannelHas
<1>1. dh = [greeted |-> TRUE, pending |-> ch.pending, next_tag |-> ch.next_tag, passing |-> ch.passing, lost |-> ch.lost]
  BY <1>0
<1>2. dh.greeted = TRUE /\ dh.pending = ch.pending /\ dh.passing = ch.passing /\ dh.lost = ch.lost /\ dh.next_tag = ch.next_tag
  BY <1>1
<1>3. dh = [greeted |-> dh.greeted, pending |-> dh.pending, next_tag |-> dh.next_tag, passing |-> dh.passing, lost |-> dh.lost]
  BY ONLY <1>1, <1>2
<1> QED BY <1>0, <1>2, <1>3 DEF ChannelShape

\* The record once a success's header is read.
LEMMA PassingSet ==
  ASSUME NEW ch, ChannelShape(ch), NEW g \in Tag, NEW dh, dh = [ch EXCEPT !.passing = g]
  PROVE  ChannelShape(dh) /\ dh.pending = ch.pending /\ dh.passing = g /\ dh.lost = ch.lost /\ dh.next_tag = ch.next_tag /\ dh.greeted = ch.greeted
<1>1. dh = [greeted |-> ch.greeted, pending |-> ch.pending, next_tag |-> ch.next_tag, passing |-> g, lost |-> ch.lost]
  BY ChannelHas
<1> QED BY <1>1, ChannelIs, ChannelHas

Drops(ch, dh, g) == dh = [ch EXCEPT !.pending = Lacking(@, g), !.passing = 0]

\* The record once a request is answered.
LEMMA Forgotten ==
  ASSUME NEW ch, ChannelShape(ch), NEW g, NEW dh, Drops(ch, dh, g)
  PROVE  /\ ChannelShape(dh) /\ DOMAIN dh.pending = DOMAIN ch.pending \ {g} /\ dh.passing = 0 /\ dh.lost = ch.lost
         /\ dh.next_tag = ch.next_tag /\ dh.greeted = ch.greeted
         /\ \A h \in DOMAIN dh.pending : dh.pending[h] = ch.pending[h]
<1> DEFINE L == Lacking(ch.pending, g)
           D == DOMAIN ch.pending
<1>0. DOMAIN L = D \ {g} /\ \A h \in DOMAIN L : L[h] = ch.pending[h]
  BY DEF Lacking
<1>1. dh = [ch EXCEPT !.pending = L, !.passing = 0]
  BY DEF Drops
<1> HIDE DEF L
<1>a. ch = [greeted |-> ch.greeted, pending |-> ch.pending, next_tag |-> ch.next_tag,
             passing |-> ch.passing, lost |-> ch.lost]
  BY ChannelHas
<1>2. dh = [greeted |-> ch.greeted, pending |-> L, next_tag |-> ch.next_tag, passing |-> 0, lost |-> ch.lost]
  BY <1>1, <1>a
<1>4. IsFiniteSet(D) /\ Cardinality(D) \in Nat /\ Cardinality(D) <= Flight /\ Flight \in Nat
  BY PendingFinite
<1>5. Cardinality(D \ {g}) <= Flight
  <2>1. IsFiniteSet(D \ {g}) /\ Cardinality(D \ {g}) <= Cardinality(D)
    BY <1>4, FS_Subset
  <2>2. Cardinality(D \ {g}) \in Nat
    BY <2>1, FS_CardinalityType
  <2> QED BY <1>4, <2>1, <2>2
<1>6. DOMAIN L \subseteq Tag /\ Cardinality(DOMAIN L) <= Flight /\ \A h \in DOMAIN L : L[h] \in Pended
  BY <1>0, <1>5, ChannelHas
<1>7. ch.greeted \in BOOLEAN /\ ch.next_tag \in Tag /\ 0 \in Tag \cup {0}
  BY ChannelHas
<1>8. ChannelShape(dh) /\ dh.greeted = ch.greeted /\ dh.pending = L /\ dh.next_tag = ch.next_tag /\ dh.passing = 0 /\ dh.lost = ch.lost
  BY ONLY ChannelShape(ch), <1>2, <1>6, <1>7, ChannelIs
<1> QED BY <1>0, <1>8

\* The hello read.
LEMMA GreetsKeeps ==
  ASSUME NEW rq, NEW fl, NEW rp, NEW ch, InStep(rq, fl, rp, ch), rp # <<>>, rp[1].what = "hello",
         NEW dh, dh = [ch EXCEPT !.greeted = TRUE]
  PROVE  InStep(rq, fl, Tail(rp), dh)
<1>1. /\ rq \in Seq(Sent) /\ fl \in Seq(Flown) /\ rp \in Seq(Wire) /\ ChannelShape(ch)
      /\ OnePlaceEach(rq, fl, rp, ch) /\ SameIds(rq, fl, ch) /\ Paired(rp, ch)
  BY DEF InStep
<1>2. ChannelShape(dh) /\ dh.pending = ch.pending /\ dh.passing = ch.passing
  BY <1>1, Greeted
<1>3. Tail(rp) \in Seq(Wire) /\ HeadsOnce(Tail(rp)) /\ HeadTags(Tail(rp)) = HeadTags(rp)
  BY <1>1, WireTail DEF OnePlaceEach
<1>4. ch.passing = 0
  BY <1>1 DEF Paired
<1>5. HeadsOnce(rp) /\ ~IsOk(rp[1])
  BY <1>1 DEF OnePlaceEach, IsOk
<1>6. Paired(Tail(rp), dh)
  BY <1>1, <1>2, <1>3, <1>4, <1>5, PairedTail
<1>7. OnePlaceEach(rq, fl, Tail(rp), dh)
  BY <1>1, <1>2, <1>3 DEF OnePlaceEach
<1>8. SameIds(rq, fl, dh)
  BY <1>1, <1>2 DEF SameIds
<1> QED BY <1>1, <1>2, <1>3, <1>6, <1>7, <1>8 DEF InStep

\* A success's header read: its socket is next.
LEMMA PassesKeeps ==
  ASSUME NEW rq, NEW fl, NEW rp, NEW ch, InStep(rq, fl, rp, ch), rp # <<>>, IsOk(rp[1]),
         NEW dh, dh = [ch EXCEPT !.passing = rp[1].tag]
  PROVE  InStep(rq, fl, Tail(rp), dh) /\ rp[1].tag \in DOMAIN ch.pending
<1> DEFINE g == rp[1].tag
<1>1. /\ rq \in Seq(Sent) /\ fl \in Seq(Flown) /\ rp \in Seq(Wire) /\ ChannelShape(ch)
      /\ OnePlaceEach(rq, fl, rp, ch) /\ SameIds(rq, fl, ch) /\ Paired(rp, ch)
  BY DEF InStep
<1>2. rp[1].what = "head" /\ rp[1].status = "ok" /\ HeadsOnce(rp)
  BY <1>1 DEF OnePlaceEach, IsOk
<1>3. /\ Tail(rp) \in Seq(Wire) /\ HeadsOnce(Tail(rp)) /\ HeadTags(Tail(rp)) = HeadTags(rp) \ {g} /\ g \in HeadTags(rp)
      /\ rp[1] \in Wire
  BY <1>1, <1>2, WireTail
<1>4. g \in Tag /\ g # 0
  BY <1>2, <1>3, WireIs DEF Tag
<1>5. ChannelShape(dh) /\ dh.pending = ch.pending /\ dh.passing = g
  BY <1>1, <1>4, PassingSet
<1>6. ch.passing = 0
  BY <1>1, <1>2 DEF Paired
<1>7. Paired(Tail(rp), dh)
  BY <1>1, <1>2, <1>3, <1>4, <1>5, PairedTail
<1> HIDE DEF g
<1>8. OnePlaceEach(rq, fl, Tail(rp), dh) /\ g \in DOMAIN ch.pending
  BY <1>1, <1>3, <1>4, <1>5, <1>6 DEF OnePlaceEach
<1>9. SameIds(rq, fl, dh)
  BY <1>1, <1>5 DEF SameIds
<1> QED BY <1>1, <1>3, <1>5, <1>7, <1>8, <1>9 DEF InStep, g

\* The request that what is read answers.
AnsweredBy(rp, ch) == IF rp[1].what = "head" THEN rp[1].tag ELSE ch.passing

\* A refusal, or the socket of a success, read: nothing is left of its request.
LEMMA AnswersKeeps ==
  ASSUME NEW rq, NEW fl, NEW rp, NEW ch, InStep(rq, fl, rp, ch), rp # <<>>,
         rp[1].what = "socket" \/ (rp[1].what = "head" /\ rp[1].status # "ok"),
         NEW g, g = AnsweredBy(rp, ch),
         NEW dh, Drops(ch, dh, g)
  PROVE  /\ InStep(rq, fl, Tail(rp), dh) /\ g \in DOMAIN ch.pending
         /\ rp[1].what = "socket" => rp[1].id = ch.pending[g].id /\ ch.passing # 0
         /\ rp[1].what = "head" => ch.passing = 0
<1>1. /\ rq \in Seq(Sent) /\ fl \in Seq(Flown) /\ rp \in Seq(Wire) /\ ChannelShape(ch)
      /\ OnePlaceEach(rq, fl, rp, ch) /\ SameIds(rq, fl, ch) /\ Paired(rp, ch)
  BY DEF InStep
<1>2. HeadsOnce(rp) /\ ~IsOk(rp[1])
  BY <1>1 DEF OnePlaceEach, IsOk
<1>3. /\ Tail(rp) \in Seq(Wire) /\ HeadsOnce(Tail(rp)) /\ rp[1] \in Wire
      /\ HeadTags(Tail(rp)) = IF rp[1].what = "head" THEN HeadTags(rp) \ {rp[1].tag} ELSE HeadTags(rp)
      /\ rp[1].what = "head" => rp[1].tag \in HeadTags(rp)
      /\ Len(rp) \in Nat /\ Len(rp) >= 1
  BY <1>1, <1>2, WireTail
<1>4. rp[1].what = "head" => ch.passing = 0 /\ g = rp[1].tag /\ g \in HeadTags(rp)
  BY <1>1, <1>3 DEF Paired, AnsweredBy
<1>5. rp[1].what = "socket" => ch.passing # 0 /\ g = ch.passing /\ rp[1].id = ch.pending[g].id
  <2>1. 1 \in 1 .. Len(rp)
    BY <1>3
  <2>2. ASSUME rp[1].what = "socket" PROVE ch.passing # 0
    BY <1>1, <2>1, <2>2 DEF Paired
  <2> QED BY <1>1, <2>2 DEF Paired, AnsweredBy
<1>6. /\ ChannelShape(dh) /\ DOMAIN dh.pending = DOMAIN ch.pending \ {g} /\ dh.passing = 0
      /\ \A h \in DOMAIN dh.pending : dh.pending[h] = ch.pending[h]
  BY <1>1, Forgotten
<1>7. ch.passing \in Tag \cup {0} /\ HeadTags(rp) \subseteq Tag /\ TagsOf(rq) \subseteq Tag /\ TagsOf(fl) \subseteq Tag /\ 0 \notin Tag
  <2>1. DOMAIN ch.pending \subseteq Tag /\ ch.passing \in Tag \cup {0}
    BY <1>1 DEF ChannelShape
  <2>2. 0 \notin Tag
    BY DEF Tag
  <2> QED BY <1>1, <2>1, <2>2 DEF OnePlaceEach
<1> DEFINE tp == Tail(rp)
<1> HIDE DEF tp
<1>a. /\ Once(rq) /\ Once(fl) /\ HeadsOnce(tp)
      /\ TagsOf(rq) \cap TagsOf(fl) = {} /\ TagsOf(rq) \cap HeadTags(rp) = {} /\ TagsOf(fl) \cap HeadTags(rp) = {}
      /\ ch.passing \notin TagsOf(rq) \cup TagsOf(fl) \cup HeadTags(rp)
      /\ DOMAIN ch.pending = TagsOf(rq) \cup TagsOf(fl) \cup HeadTags(rp) \cup ({ch.passing} \ {0})
      /\ HeadTags(tp) = IF rp[1].what = "head" THEN HeadTags(rp) \ {rp[1].tag} ELSE HeadTags(rp)
  BY <1>1, <1>3 DEF OnePlaceEach, tp
<1>b. DOMAIN dh.pending = TagsOf(rq) \cup TagsOf(fl) \cup HeadTags(tp) /\ g \in DOMAIN ch.pending
  <2>1. CASE rp[1].what = "head"
    <3>1. ch.passing = 0 /\ g \in HeadTags(rp) /\ HeadTags(tp) = HeadTags(rp) \ {g}
      BY <1>4, <1>a, <2>1
    <3> QED BY ONLY <1>a, <1>6, <3>1
  <2>2. CASE rp[1].what # "head"
    <3>1. ch.passing # 0 /\ g = ch.passing /\ HeadTags(tp) = HeadTags(rp)
      BY <1>5, <1>a, <2>2
    <3> QED BY ONLY <1>a, <1>6, <3>1
  <2> QED BY <2>1, <2>2
<1>c. HeadTags(tp) \subseteq HeadTags(rp)
  BY <1>a
<1>d. 0 \notin TagsOf(rq) \cup TagsOf(fl) \cup HeadTags(tp)
  BY <1>7, <1>c
<1>e. OnePlaceEach(rq, fl, tp, dh)
  <2>1. TagsOf(rq) \cap HeadTags(tp) = {} /\ TagsOf(fl) \cap HeadTags(tp) = {}
    BY <1>a, <1>c
  <2>2. dh.passing = 0 /\ {dh.passing} \ {0} = {}
    BY <1>6
  <2> QED BY ONLY <1>a, <1>b, <1>d, <2>1, <2>2 DEF OnePlaceEach
<1>8. OnePlaceEach(rq, fl, Tail(rp), dh) /\ g \in DOMAIN ch.pending
  BY <1>b, <1>e DEF tp
<1>9. /\ \A h \in TagsOf(rq) \cup TagsOf(fl) : dh.pending[h] = ch.pending[h]
      /\ \A h \in HeadTags(Tail(rp)) : dh.pending[h] = ch.pending[h]
  BY <1>6, <1>b DEF tp
<1>10. Paired(Tail(rp), dh)
  <2>1. rp \in Seq(Wire) /\ HeadsOnce(rp) /\ Paired(rp, ch) /\ dh.passing = 0 /\ ~IsOk(rp[1])
    BY <1>1, <1>2, <1>6
  <2>2. IsOk(rp[1]) => dh.passing = rp[1].tag /\ dh.pending[rp[1].tag] = ch.pending[rp[1].tag]
    BY <2>1
  <2>3. (~IsOk(rp[1]) => dh.passing = 0) /\ (IsOk(rp[1]) => rp[1].tag # 0)
    BY <2>1
  <2> QED BY ONLY rp # <<>>, <1>9, <2>1, <2>2, <2>3, PairedTail
<1>11. SameIds(rq, fl, dh)
  <2>1. (\A i \in 1 .. Len(rq) : rq[i].tag \in TagsOf(rq)) /\ (\A i \in 1 .. Len(fl) : fl[i].tag \in TagsOf(fl))
    BY DEF TagsOf
  <2> QED BY <1>1, <1>9, <2>1 DEF SameIds
<1> QED BY <1>1, <1>3, <1>4, <1>5, <1>6, <1>8, <1>10, <1>11 DEF InStep

Outs == {"", "lost", "refused", "socket"}

Tells(ca, u, out, da) == da = [ca EXCEPT ![u].out = out]

\* A caller's answer set.
LEMMA CallerOut ==
  ASSUME NEW ca \in [Tasks -> Calling], NEW u \in Tasks, NEW out \in Outs, NEW da, Tells(ca, u, out, da)
  PROVE  /\ da \in [Tasks -> Calling] /\ \A t \in Tasks : t # u => da[t] = ca[t]
         /\ da[u].pc = ca[u].pc /\ da[u].id = ca[u].id /\ da[u].kind = ca[u].kind /\ da[u].request = ca[u].request
         /\ da[u].stream = ca[u].stream /\ da[u].out = out
<1>1. ca[u] \in Calling
  OBVIOUS
<1>2. /\ [ca[u] EXCEPT !.out = out] \in Calling
      /\ \A x : x = [ca[u] EXCEPT !.out = out] =>
           x.pc = ca[u].pc /\ x.id = ca[u].id /\ x.kind = ca[u].kind /\ x.request = ca[u].request
           /\ x.stream = ca[u].stream /\ x.out = out
  BY <1>1 DEF Calling, Outs
<1> DEFINE x == [ca[u] EXCEPT !.out = out]
<1>3. da = [ca EXCEPT ![u] = x]
  BY DEF Tells
<1> HIDE DEF x
<1>4. da \in [Tasks -> Calling] /\ da[u] = x /\ \A t \in Tasks : t # u => da[t] = ca[t]
  BY <1>2, <1>3 DEF x
<1> QED BY <1>2, <1>4 DEF x

\* What a task that waits is told; what it asked stays.
Kept(ca, da) ==
  \A t \in Tasks :
    /\ da[t].pc = ca[t].pc /\ da[t].id = ca[t].id /\ da[t].kind = ca[t].kind /\ da[t].request = ca[t].request
    /\ da[t].stream = ca[t].stream
    /\ da[t] # ca[t] => ca[t].out = "" /\ da[t].out # "" /\ ca[t].pc \in {"room", "asked"}

Told(p, out, fd, ca, da, so, sn) ==
  /\ (out = "refused" /\ fd = {}) \/ (out = "socket" /\ fd = {p.id})
  /\ da = IF p.given_up THEN ca ELSE [ca EXCEPT ![p.caller].out = out]
  /\ sn = IF p.given_up THEN so ELSE so \cup fd

\* An answer reaches the task that asked, or nobody if it gave up.
LEMMA ToldKeeps ==
  ASSUME NEW n, NEW ch, ChannelShape(ch), NEW ca, NEW so, Served(ch, ca, so, n), NEW g \in DOMAIN ch.pending,
         NEW dh, Drops(ch, dh, g), NEW out, NEW fd, NEW da, NEW sn, Told(ch.pending[g], out, fd, ca, da, so, sn)
  PROVE  Served(dh, da, sn, n) /\ Kept(ca, da)
<1> DEFINE p == ch.pending[g]
<1>1. DOMAIN dh.pending = DOMAIN ch.pending \ {g} /\ \A h \in DOMAIN dh.pending : dh.pending[h] = ch.pending[h]
  BY Forgotten
<1>2. Waiting(ca, n) /\ Waited(ch, ca) /\ Owned(ca, so)
  BY DEF Served
<1>3. p \in Pended
  BY ChannelHas
<1>4. CASE p.given_up
  <2>1. da = ca /\ sn = so
    BY <1>4 DEF Told
  <2>2. Waited(dh, da)
    <3>1. \A h \in DOMAIN dh.pending : h \in DOMAIN ch.pending /\ dh.pending[h] = ch.pending[h]
      BY <1>1
    <3>2. \A h \in DOMAIN ch.pending : ~ch.pending[h].given_up =>
            ca[ch.pending[h].caller].pc = "asked" /\ ca[ch.pending[h].caller].id = ch.pending[h].id /\ ca[ch.pending[h].caller].out = ""
      BY <1>2 DEF Waited
    <3>3. \A h \in DOMAIN dh.pending : ~dh.pending[h].given_up =>
            da[dh.pending[h].caller].pc = "asked" /\ da[dh.pending[h].caller].id = dh.pending[h].id /\ da[dh.pending[h].caller].out = ""
      BY <2>1, <3>1, <3>2
    <3>4. \A g1, h \in DOMAIN ch.pending : 
        ~ch.pending[g1].given_up /\ ~ch.pending[h].given_up /\ ch.pending[g1].caller = ch.pending[h].caller => g1 = h
      BY <1>2 DEF Waited
    <3>5. \A g1, h \in DOMAIN dh.pending : 
        ~dh.pending[g1].given_up /\ ~dh.pending[h].given_up /\ dh.pending[g1].caller = dh.pending[h].caller => g1 = h
      BY <3>1, <3>4
    <3> QED BY ONLY <3>3, <3>5 DEF Waited
  <2> QED BY <1>2, <2>1, <2>2 DEF Served, Kept
<1>5. CASE ~p.given_up
  <2> DEFINE u == p.caller
  <2>1. u \in Tasks /\ p.id \in Nat
    BY <1>3 DEF Pended
  <2>2. ca[u].pc = "asked" /\ ca[u].id = p.id /\ ca[u].out = ""
    BY <1>2, <1>5 DEF Waited
  <2>3. /\ Tells(ca, u, out, da) /\ sn = so \cup fd
        /\ (out = "refused" /\ fd = {}) \/ (out = "socket" /\ fd = {p.id})
    BY <1>5 DEF Told, Tells
  <2>4. ca \in [Tasks -> Calling] /\ out \in Outs
    BY <1>2, <2>3 DEF Waiting, Outs
  <2>5. \A h \in DOMAIN dh.pending : ~dh.pending[h].given_up => dh.pending[h].caller # u
    BY <1>1, <1>2, <1>5 DEF Waited
  <2>6. \A h \in DOMAIN ch.pending : ch.pending[h].caller \in Tasks
    <3>1. \A h \in DOMAIN ch.pending : ch.pending[h] \in Pended
      BY ChannelHas
    <3> QED BY <3>1 DEF Pended
  <2> HIDE DEF u, p
  <2>7. /\ da \in [Tasks -> Calling] /\ \A t \in Tasks : t # u => da[t] = ca[t]
        /\ da[u].pc = ca[u].pc /\ da[u].id = ca[u].id /\ da[u].kind = ca[u].kind /\ da[u].request = ca[u].request
        /\ da[u].stream = ca[u].stream /\ da[u].out = out
    BY ONLY <2>1, <2>3, <2>4, CallerOut
  <2>8. Kept(ca, da)
    BY <2>2, <2>3, <2>7 DEF Kept
  <2>9. Waiting(da, n)
    <3>1. \A t \in Tasks : da[t].pc = ca[t].pc /\ da[t].id = ca[t].id
      BY <2>8 DEF Kept
    <3>2. \A t \in Tasks : Called(ca[t], n)
      BY <1>2 DEF Waiting
    <3>3. \A t, v \in Tasks : ca[t].pc # "idle" /\ ca[v].pc # "idle" /\ ca[t].id = ca[v].id => t = v
      BY <1>2 DEF Waiting
    <3>4. ASSUME NEW t \in Tasks PROVE Called(da[t], n)
      <4>1. CASE t = u
        BY <2>1, <2>2, <2>7, <3>1, <3>2, <4>1 DEF Called
      <4>2. CASE t # u
        BY <2>7, <3>2, <4>2
      <4> QED BY <4>1, <4>2
    <3> QED BY <2>7, <3>1, <3>3, <3>4 DEF Waiting
  <2>10. Waited(dh, da)
    <3>1. \A h \in DOMAIN ch.pending : ~ch.pending[h].given_up =>
            ca[ch.pending[h].caller].pc = "asked" /\ ca[ch.pending[h].caller].id = ch.pending[h].id /\ ca[ch.pending[h].caller].out = ""
      BY <1>2 DEF Waited
    <3>2. \A g1, h \in DOMAIN ch.pending : 
        ~ch.pending[g1].given_up /\ ~ch.pending[h].given_up /\ ch.pending[g1].caller = ch.pending[h].caller => g1 = h
      BY <1>2 DEF Waited
    <3>3. \A h \in DOMAIN dh.pending : ~dh.pending[h].given_up =>
            da[dh.pending[h].caller].pc = "asked" /\ da[dh.pending[h].caller].id = dh.pending[h].id /\ da[dh.pending[h].caller].out = ""
      <4> SUFFICES ASSUME NEW h \in DOMAIN dh.pending, ~dh.pending[h].given_up
                   PROVE  da[dh.pending[h].caller].pc = "asked" /\ da[dh.pending[h].caller].id = dh.pending[h].id
                          /\ da[dh.pending[h].caller].out = ""
        OBVIOUS
      <4> DEFINE v == ch.pending[h].caller
      <4>1. h \in DOMAIN ch.pending /\ dh.pending[h] = ch.pending[h] /\ v # u /\ v \in Tasks
        BY <1>1, <2>5, <2>6
      <4>2. ca[v].pc = "asked" /\ ca[v].id = ch.pending[h].id /\ ca[v].out = ""
        BY <3>1, <4>1
      <4>3. da[v] = ca[v]
        BY <2>7, <4>1
      <4> QED BY <4>1, <4>2, <4>3
    <3>4. \A g1, h \in DOMAIN dh.pending : 
        ~dh.pending[g1].given_up /\ ~dh.pending[h].given_up /\ dh.pending[g1].caller = dh.pending[h].caller => g1 = h
      BY <1>1, <3>2
    <3> QED BY ONLY <3>3, <3>4 DEF Waited
  <2>11. Owned(da, sn)
    <3>1. so = {ca[t].id : t \in {v \in Tasks : ca[v].out = "socket"}}
      BY <1>2 DEF Owned
    <3>2. \A t \in Tasks : da[t].id = ca[t].id
      BY <2>8 DEF Kept
    <3>3. CASE out = "refused"
      <4>1. {v \in Tasks : da[v].out = "socket"} = {v \in Tasks : ca[v].out = "socket"}
        BY <2>2, <2>7, <3>3
      <4> QED BY <2>3, <3>1, <3>2, <3>3, <4>1 DEF Owned
    <3>4. CASE out = "socket"
      <4>1. {v \in Tasks : da[v].out = "socket"} = {v \in Tasks : ca[v].out = "socket"} \cup {u}
        BY <2>1, <2>2, <2>7, <3>4
      <4>2. sn = so \cup {ca[u].id}
        BY <2>2, <2>3, <3>4
      <4> QED BY <2>1, <3>1, <3>2, <4>1, <4>2 DEF Owned
    <3> QED BY <2>3, <3>3, <3>4
  <2> QED BY <2>8, <2>9, <2>10, <2>11 DEF Served
<1> QED BY <1>4, <1>5

\* The callers of a record with the same requests pending.
LEMMA SameServed ==
  ASSUME NEW n, NEW ch, NEW ca, NEW so, Served(ch, ca, so, n), NEW dh, dh.pending = ch.pending
  PROVE  Served(dh, ca, so, n) /\ Kept(ca, ca)
<1>1. Waited(dh, ca)
  BY DEF Served, Waited
<1> QED BY <1>1 DEF Served, Kept

\* What a read leaves of the callers, read after read.
LEMMA KeptOn ==
  ASSUME NEW ca, NEW da, NEW ea, Kept(ca, da), Kept(da, ea)
  PROVE  Kept(ca, ea)
<1> SUFFICES ASSUME NEW t \in Tasks
             PROVE  /\ ea[t].pc = ca[t].pc /\ ea[t].id = ca[t].id /\ ea[t].kind = ca[t].kind /\ ea[t].request = ca[t].request
                    /\ ea[t].stream = ca[t].stream
                    /\ ea[t] # ca[t] => ca[t].out = "" /\ ea[t].out # "" /\ ca[t].pc \in {"room", "asked"}
  BY DEF Kept
<1>1. /\ da[t].pc = ca[t].pc /\ da[t].id = ca[t].id /\ da[t].kind = ca[t].kind /\ da[t].request = ca[t].request
      /\ da[t].stream = ca[t].stream
      /\ da[t] # ca[t] => ca[t].out = "" /\ da[t].out # "" /\ ca[t].pc \in {"room", "asked"}
  BY DEF Kept
<1>2. /\ ea[t].pc = da[t].pc /\ ea[t].id = da[t].id /\ ea[t].kind = da[t].kind /\ ea[t].request = da[t].request
      /\ ea[t].stream = da[t].stream
      /\ ea[t] # da[t] => da[t].out = "" /\ ea[t].out # "" /\ da[t].pc \in {"room", "asked"}
  BY DEF Kept
<1>3. ea[t].pc = ca[t].pc /\ ea[t].id = ca[t].id /\ ea[t].kind = ca[t].kind /\ ea[t].request = ca[t].request
      /\ ea[t].stream = ca[t].stream
  BY <1>1, <1>2
<1>4. ASSUME ea[t] # ca[t] PROVE ca[t].out = "" /\ ea[t].out # "" /\ ca[t].pc \in {"room", "asked"}
  <2>1. CASE da[t] = ca[t]
    BY <1>2, <1>4, <2>1
  <2>2. CASE da[t] # ca[t]
    <3>1. ea[t] = da[t]
      BY <1>1, <1>2, <2>2
    <3> QED BY <1>1, <2>2, <3>1
  <2> QED BY <2>1, <2>2
<1> QED BY <1>3, <1>4

\* What pump works on.
Pumped(c, ch, ca, so, pr) == c = [channel |-> ch, caller |-> ca, sockets |-> so, progress |-> pr]

\* What one element read is.
LEMMA ReadIs ==
  ASSUME NEW rq, NEW fl, NEW rp, NEW ch, InStep(rq, fl, rp, ch), rp # <<>>, ch.lost = "",
         NEW ca, NEW so, NEW pr, NEW c, Pumped(c, ch, ca, so, pr), NEW d, d = ReadOne(c, rp[1])
  PROVE  \/ rp[1].what = "hello" /\ Pumped(d, [ch EXCEPT !.greeted = TRUE], ca, so, TRUE)
         \/ IsOk(rp[1]) /\ Pumped(d, [ch EXCEPT !.passing = rp[1].tag], ca, so, pr)
         \/ /\ rp[1].what = "socket" \/ (rp[1].what = "head" /\ rp[1].status # "ok")
            /\ \E out, fd, dh, da, sn :
                 /\ Drops(ch, dh, AnsweredBy(rp, ch))
                 /\ Told(ch.pending[AnsweredBy(rp, ch)], out, fd, ca, da, so, sn)
                 /\ Pumped(d, dh, da, sn, TRUE)
<1> DEFINE e == rp[1]
<1>0. c = [channel |-> ch, caller |-> ca, sockets |-> so, progress |-> pr]
  BY DEF Pumped
<1>c. c.channel = ch /\ c.caller = ca /\ c.sockets = so /\ c.progress = pr
  BY <1>0
<1>1. /\ rp \in Seq(Wire) /\ ChannelShape(ch) /\ OnePlaceEach(rq, fl, rp, ch) /\ Paired(rp, ch)
  BY DEF InStep
<1>2. HeadsOnce(rp)
  BY <1>1 DEF OnePlaceEach
<1>3. e \in Wire /\ (e.what = "head" => e.tag \in HeadTags(rp))
  BY <1>1, <1>2, WireTail
<1>a. Len(rp) \in Nat /\ Len(rp) >= 1
  BY <1>1, <1>2, WireTail
<1>4. e.what = "head" => e.tag \in DOMAIN ch.pending
  BY <1>1, <1>3 DEF OnePlaceEach
<1>5. (ch.passing # 0 => e.what = "socket" /\ e.id = ch.pending[ch.passing].id) /\ (e.what = "socket" => ch.passing # 0)
  <2>1. 1 \in 1 .. Len(rp)
    BY ONLY <1>a
  <2> QED BY <1>1, <2>1 DEF Paired
<1>6. /\ e.what \in {"hello", "head", "socket"}
      /\ e.what = "socket" => e.net \in {"up", "reset"}
  BY <1>3, WireIs
<1> HIDE DEF e
<1>7. ASSUME NEW g, g = AnsweredBy(rp, ch), NEW out, NEW fd,
             (out = "refused" /\ fd = {}) \/ (out = "socket" /\ fd = {ch.pending[g].id}),
             d = Settles(c, g, out, fd)
      PROVE  \E o, f, dh, da, sn :
                 /\ Drops(ch, dh, AnsweredBy(rp, ch))
                 /\ Told(ch.pending[AnsweredBy(rp, ch)], o, f, ca, da, so, sn)
                 /\ Pumped(d, dh, da, sn, TRUE)
  <2> DEFINE p == ch.pending[g]
             dh == [ch EXCEPT !.pending = Lacking(@, g), !.passing = 0]
             da == IF p.given_up THEN ca ELSE [ca EXCEPT ![p.caller].out = out]
             sn == IF p.given_up THEN so ELSE so \cup fd
  <2>1. d = [channel |-> dh, caller |-> da, sockets |-> sn, progress |-> TRUE]
    BY <1>7, <1>c DEF Settles
  <2>2. Drops(ch, dh, g) /\ Told(p, out, fd, ca, da, so, sn)
    BY <1>7 DEF Drops, Told
  <2>3. Pumped(d, dh, da, sn, TRUE)
    BY <2>1 DEF Pumped
  <2> HIDE DEF dh, da, sn, p
  <2> QED BY <1>7, <2>2, <2>3 DEF p
<1>8. CASE ch.passing # 0
  <2>1. e.what = "socket" /\ e.id = ch.pending[ch.passing].id /\ AnsweredBy(rp, ch) = ch.passing
    BY <1>5, <1>8 DEF AnsweredBy, e
  <2>2. d = take_socket(c, e)
    BY <1>8, <1>c, <2>1 DEF ReadOne, e
  <2>3. CASE e.net = "reset"
    <3>1. d = Settles(c, ch.passing, "refused", {})
      BY <1>c, <2>1, <2>2, <2>3 DEF take_socket
    <3> QED BY <1>7, <2>1, <3>1 DEF e
  <2>4. CASE e.net # "reset"
    <3>1. d = Settles(c, ch.passing, "socket", {ch.pending[ch.passing].id})
      BY <1>6, <1>c, <2>1, <2>2, <2>4 DEF take_socket
    <3> QED BY <1>7, <2>1, <3>1 DEF e
  <2> QED BY <2>3, <2>4
<1>9. CASE ch.passing = 0 /\ e.what = "hello"
  <2>1. d = [c EXCEPT !.channel.greeted = TRUE, !.progress = TRUE]
    BY <1>9, <1>c DEF ReadOne, e
  <2>2. d = [channel |-> [ch EXCEPT !.greeted = TRUE], caller |-> ca, sockets |-> so, progress |-> TRUE]
    BY <1>0, <2>1
  <2> QED BY <1>9, <2>2 DEF Pumped, e
<1>10. CASE ch.passing = 0 /\ e.what = "head" /\ e.status # "ok"
  <2>1. d = Settles(c, e.tag, "refused", {})
    BY <1>4, <1>10, <1>c DEF ReadOne, e
  <2>2. e.tag = AnsweredBy(rp, ch)
    BY <1>10 DEF AnsweredBy, e
  <2> QED BY <1>7, <1>10, <2>1, <2>2 DEF e
<1>11. CASE ch.passing = 0 /\ e.what = "head" /\ e.status = "ok"
  <2>1. d = [c EXCEPT !.channel.passing = e.tag]
    BY <1>4, <1>11, <1>c DEF ReadOne, e
  <2>2. d = [channel |-> [ch EXCEPT !.passing = e.tag], caller |-> ca, sockets |-> so, progress |-> pr]
    BY <1>0, <2>1
  <2> QED BY <1>11, <2>2 DEF Pumped, e, IsOk
<1> QED BY <1>5, <1>6, <1>8, <1>9, <1>10, <1>11

\* The tasks as a read leaves them, rp being what is still in the stream.
Reading(rp, ch, ca, so, pr) ==
  /\ InStep(requests, flight, rp, ch) /\ Served(ch, ca, so, ask_count) /\ Kept(caller, ca)
  /\ ch.lost = "" /\ ch.next_tag = channel.next_tag /\ pr \in BOOLEAN
  /\ ~pr => ch.pending = channel.pending /\ ch.greeted = channel.greeted /\ ca = caller

\* One element read keeps what holds of what is left to read.
LEMMA ReadKeeps ==
  ASSUME NEW rp, NEW ch, NEW ca, NEW so, NEW pr, Reading(rp, ch, ca, so, pr), rp # <<>>,
         NEW c, Pumped(c, ch, ca, so, pr), NEW d, d = ReadOne(c, rp[1])
  PROVE  \E dh, da, sn, qr : Pumped(d, dh, da, sn, qr) /\ Reading(Tail(rp), dh, da, sn, qr)
<1>1. /\ InStep(requests, flight, rp, ch) /\ Served(ch, ca, so, ask_count) /\ Kept(caller, ca)
      /\ ch.lost = "" /\ ch.next_tag = channel.next_tag /\ pr \in BOOLEAN
      /\ ~pr => ch.pending = channel.pending /\ ch.greeted = channel.greeted /\ ca = caller
  BY DEF Reading
<1>2. ChannelShape(ch)
  BY <1>1 DEF InStep
<1> DEFINE g == AnsweredBy(rp, ch)
<1>3. \/ rp[1].what = "hello" /\ Pumped(d, [ch EXCEPT !.greeted = TRUE], ca, so, TRUE)
      \/ IsOk(rp[1]) /\ Pumped(d, [ch EXCEPT !.passing = rp[1].tag], ca, so, pr)
      \/ /\ rp[1].what = "socket" \/ (rp[1].what = "head" /\ rp[1].status # "ok")
         /\ \E out, fd, dh, da, sn :
                 /\ Drops(ch, dh, g)
                 /\ Told(ch.pending[g], out, fd, ca, da, so, sn)
                 /\ Pumped(d, dh, da, sn, TRUE)
  BY <1>1, ReadIs
<1>4. CASE rp[1].what = "hello" /\ Pumped(d, [ch EXCEPT !.greeted = TRUE], ca, so, TRUE)
  <2> DEFINE dh == [ch EXCEPT !.greeted = TRUE]
  <2>1. InStep(requests, flight, Tail(rp), dh)
    BY <1>1, <1>4, GreetsKeeps
  <2>2. dh.pending = ch.pending /\ dh.lost = ch.lost /\ dh.next_tag = ch.next_tag
    BY <1>2, Greeted
  <2> HIDE DEF dh
  <2>3. Served(dh, ca, so, ask_count)
    BY <1>1, <2>2, SameServed
  <2>4. Reading(Tail(rp), dh, ca, so, TRUE)
    BY <1>1, <2>1, <2>2, <2>3 DEF Reading
  <2> QED BY <1>4, <2>4 DEF dh
<1>5. CASE IsOk(rp[1]) /\ Pumped(d, [ch EXCEPT !.passing = rp[1].tag], ca, so, pr)
  <2> DEFINE dh == [ch EXCEPT !.passing = rp[1].tag]
  <2>1. InStep(requests, flight, Tail(rp), dh) /\ rp[1].tag \in DOMAIN ch.pending
    BY <1>1, <1>5, PassesKeeps
  <2>2. rp[1].tag \in Tag
    BY <1>2, <2>1, ChannelHas
  <2>3. dh.pending = ch.pending /\ dh.lost = ch.lost /\ dh.next_tag = ch.next_tag /\ dh.greeted = ch.greeted
    BY <1>2, <2>2, PassingSet
  <2> HIDE DEF dh
  <2>4. Served(dh, ca, so, ask_count)
    BY <1>1, <2>3, SameServed
  <2>5. Reading(Tail(rp), dh, ca, so, pr)
    BY <1>1, <2>1, <2>3, <2>4 DEF Reading
  <2> QED BY <1>5, <2>5 DEF dh
<1>6. CASE /\ rp[1].what = "socket" \/ (rp[1].what = "head" /\ rp[1].status # "ok")
           /\ \E out, fd, dh, da, sn :
                 /\ Drops(ch, dh, g)
                 /\ Told(ch.pending[g], out, fd, ca, da, so, sn)
                 /\ Pumped(d, dh, da, sn, TRUE)
  <2>1. PICK out, fd, dh, da, sn :
                 /\ Drops(ch, dh, g)
                 /\ Told(ch.pending[g], out, fd, ca, da, so, sn)
                 /\ Pumped(d, dh, da, sn, TRUE)
    BY <1>6
  <2>2. g = AnsweredBy(rp, ch)
    OBVIOUS
  <2> HIDE DEF g
  <2>3. InStep(requests, flight, Tail(rp), dh) /\ g \in DOMAIN ch.pending
    BY <1>1, <1>6, <2>1, <2>2, AnswersKeeps
  <2>4. dh.lost = ch.lost /\ dh.next_tag = ch.next_tag
    BY <1>2, <2>1, Forgotten
  <2>5. Served(dh, da, sn, ask_count) /\ Kept(ca, da)
    BY <1>1, <1>2, <2>1, <2>3, ToldKeeps
  <2>6. Kept(caller, da)
    BY <1>1, <2>5, KeptOn
  <2>7. Reading(Tail(rp), dh, da, sn, TRUE)
    BY <1>1, <2>3, <2>4, <2>5, <2>6 DEF Reading
  <2> QED BY <2>1, <2>7
<1> QED BY <1>3, <1>4, <1>5, <1>6

\* The tasks as a stream given up leaves them.
Left(why, ch, ca, so) ==
  /\ ChannelShape(ch) /\ ch.lost = why /\ ch.pending = <<>> /\ ch.passing = 0
  /\ Served(ch, ca, so, ask_count) /\ Kept(caller, ca)
  /\ \A t \in Sleepers : ca[t].out # ""

\* The pending requests of a new stream.
LEMMA NothingPending ==
  DOMAIN <<>> = {} /\ Cardinality(DOMAIN <<>>) <= Flight /\ \A g \in DOMAIN <<>> : <<>>[g] \in Pended
<1>1. DOMAIN <<>> = {}
  OBVIOUS
<1>2. Cardinality({}) = 0
  BY FS_EmptySet
<1> QED BY <1>1, <1>2, ConnectorAssumption

\* A stream given up tells every task that waits on it.
LEMMA LoseKeeps ==
  ASSUME NEW ch, ChannelShape(ch), NEW ca, NEW so, Served(ch, ca, so, ask_count), Kept(caller, ca), NEW pr,
         NEW c, Pumped(c, ch, ca, so, pr), NEW why, NEW d, d = Lose(c, why)
  PROVE  \E dh, da : Pumped(d, dh, da, so, pr) /\ Left(why, dh, da, so)
<1> DEFINE dh == [greeted |-> ch.greeted, pending |-> <<>>, next_tag |-> ch.next_tag, passing |-> 0, lost |-> why]
           Told1(t) == ca[t].pc \in {"room", "asked"} /\ ca[t].out = ""
           lo(t) == [ca[t] EXCEPT !.out = "lost"]
           da == [t \in Tasks |-> IF Told1(t) THEN lo(t) ELSE ca[t]]
<1>1. c = [channel |-> ch, caller |-> ca, sockets |-> so, progress |-> pr]
  BY DEF Pumped
<1>2. ch = [greeted |-> ch.greeted, pending |-> ch.pending, next_tag |-> ch.next_tag,
                passing |-> ch.passing, lost |-> ch.lost] /\ ch.greeted \in BOOLEAN /\ ch.next_tag \in Tag
  BY ChannelHas
<1>3. d = [channel |-> dh, caller |-> da, sockets |-> so, progress |-> pr]
  <2>1. d = [c EXCEPT !.channel = [[[ch EXCEPT !.lost = why] EXCEPT !.pending = <<>>] EXCEPT !.passing = 0], !.caller = da]
    BY <1>1 DEF Lose
  <2>2. [[[ch EXCEPT !.lost = why] EXCEPT !.pending = <<>>] EXCEPT !.passing = 0] = dh
    <3> DEFINE e1 == [greeted |-> ch.greeted, pending |-> ch.pending, next_tag |-> ch.next_tag, passing |-> ch.passing, lost |-> why]
               e2 == [greeted |-> ch.greeted, pending |-> <<>>, next_tag |-> ch.next_tag, passing |-> ch.passing, lost |-> why]
    <3>1. [ch EXCEPT !.lost = why] = e1
      BY <1>2
    <3>2. [e1 EXCEPT !.pending = <<>>] = e2
      OBVIOUS
    <3>3. [e2 EXCEPT !.passing = 0] = dh
      OBVIOUS
    <3> HIDE DEF e1, e2, dh
    <3> QED BY <3>1, <3>2, <3>3
  <2> HIDE DEF dh, da
  <2>3. d = [c EXCEPT !.channel = dh, !.caller = da]
    BY <2>1, <2>2
  <2> QED BY <1>1, <2>3
<1>4. Pumped(d, dh, da, so, pr)
  BY <1>3 DEF Pumped
<1>5. ChannelShape(dh) /\ dh.lost = why /\ dh.pending = <<>> /\ dh.passing = 0
  <2>1. DOMAIN <<>> \subseteq Tag /\ Cardinality(DOMAIN <<>>) <= Flight /\ \A g \in DOMAIN <<>> : <<>>[g] \in Pended
    BY NothingPending
  <2> QED BY <1>2, <2>1, ChannelIs
<1>6. Waiting(ca, ask_count) /\ Owned(ca, so) /\ ca \in [Tasks -> Calling]
  BY DEF Served, Waiting
<1>7. ASSUME NEW t \in Tasks
      PROVE  /\ da[t] \in Calling /\ da[t].pc = ca[t].pc /\ da[t].id = ca[t].id /\ da[t].kind = ca[t].kind
             /\ da[t].request = ca[t].request /\ da[t].stream = ca[t].stream
             /\ da[t] # ca[t] => ca[t].out = "" /\ da[t].out = "lost" /\ ca[t].pc \in {"room", "asked"}
             /\ ca[t].pc \in {"room", "asked"} => da[t].out # ""
  <2>1. ca[t] \in Calling
    BY <1>6
  <2>2. /\ lo(t) \in Calling /\ lo(t).pc = ca[t].pc /\ lo(t).id = ca[t].id /\ lo(t).kind = ca[t].kind
        /\ lo(t).request = ca[t].request /\ lo(t).stream = ca[t].stream /\ lo(t).out = "lost"
    BY <2>1 DEF Calling
  <2>3. da[t] = IF Told1(t) THEN lo(t) ELSE ca[t]
    OBVIOUS
  <2> HIDE DEF lo, da
  <2>4. CASE Told1(t)
    BY <2>2, <2>3, <2>4
  <2>5. CASE ~Told1(t)
    BY <2>1, <2>3, <2>5
  <2> QED BY <2>4, <2>5
<1>8. da \in [Tasks -> Calling]
  <2>1. da = [t \in Tasks |-> da[t]]
    OBVIOUS
  <2> HIDE DEF da
  <2> QED BY <1>7, <2>1
<1> HIDE DEF da, dh
<1>9. Kept(ca, da)
  <2>1. \A t \in Tasks : da[t] # ca[t] => da[t].out # ""
    BY <1>7
  <2> QED BY <1>7, <2>1 DEF Kept
<1>10. Kept(caller, da)
  BY <1>9, KeptOn
<1>11. Waiting(da, ask_count)
  <2>1. \A t \in Tasks : Called(ca[t], ask_count)
    BY <1>6 DEF Waiting
  <2>2. ASSUME NEW t \in Tasks PROVE Called(da[t], ask_count)
    <3>1. CASE da[t] = ca[t]
      BY <2>1, <3>1
    <3>2. CASE da[t] # ca[t]
      BY <1>7, <2>1, <3>2 DEF Called
    <3> QED BY <3>1, <3>2
  <2>3. \A t, v \in Tasks : ca[t].pc # "idle" /\ ca[v].pc # "idle" /\ ca[t].id = ca[v].id => t = v
    BY <1>6 DEF Waiting
  <2>4. \A t, v \in Tasks : da[t].pc # "idle" /\ da[v].pc # "idle" /\ da[t].id = da[v].id => t = v
    <3>1. \A t \in Tasks : da[t].pc = ca[t].pc /\ da[t].id = ca[t].id
      BY <1>7
    <3> QED BY ONLY <2>3, <3>1
  <2> QED BY <1>8, <2>2, <2>4 DEF Waiting
<1>12. Owned(da, so)
  <2>1. {v \in Tasks : da[v].out = "socket"} = {v \in Tasks : ca[v].out = "socket"}
    BY <1>7
  <2>2. so = {ca[t].id : t \in {u \in Tasks : ca[u].out = "socket"}}
    BY <1>6 DEF Owned
  <2>3. \A t \in Tasks : da[t].id = ca[t].id
    BY <1>7
  <2> QED BY <2>1, <2>2, <2>3 DEF Owned
<1>13. Waited(dh, da)
  BY <1>5, NothingPending DEF Waited
<1>14. \A t \in Sleepers : da[t].out # ""
  <2>1. \A t \in Tasks : ca[t].pc = caller[t].pc
    BY DEF Kept
  <2> QED BY <1>7, <2>1 DEF Sleepers
<1> QED BY <1>4, <1>5, <1>10, <1>11, <1>12, <1>13, <1>14 DEF Left, Served

\* The loop over what is read, k elements of it.
ReadingUpTo(f, k) ==
  f = [i \in 0 .. k |-> IF i = 0 THEN Pumping ELSE ReadOne(f[i - 1], Stream[i])]

\* The recursion of read_replies is a function.
LEMMA ReadingExists ==
  ASSUME NEW m \in Nat
  PROVE  \E f : ReadingUpTo(f, m)
<1> DEFINE T == {n \in Nat : \E f : ReadingUpTo(f, n)}
           first == Pumping
<1>1. 0 \in T
  <2>1. ReadingUpTo([i \in 0 .. 0 |-> first], 0)
    BY DEF ReadingUpTo
  <2> QED BY <2>1
<1> HIDE DEF first
<1>2. ASSUME NEW n \in Nat, n \in T PROVE n + 1 \in T
  <2>1. PICK f : ReadingUpTo(f, n)
    BY <1>2
  <2> DEFINE last == ReadOne(f[n], Stream[n + 1])
             g == [i \in 0 .. (n + 1) |-> IF i = n + 1 THEN last ELSE f[i]]
  <2>2. \A i \in 0 .. n : f[i] = IF i = 0 THEN first ELSE ReadOne(f[i - 1], Stream[i])
    BY <2>1 DEF ReadingUpTo, first
  <2>3. \A i \in 0 .. n : g[i] = f[i]
    OBVIOUS
  <2>4. g[n + 1] = last
    OBVIOUS
  <2>5. g = [i \in 0 .. (n + 1) |-> g[i]]
    OBVIOUS
  <2> HIDE DEF g
  <2>6. ASSUME NEW i \in 0 .. (n + 1)
        PROVE  g[i] = IF i = 0 THEN first ELSE ReadOne(g[i - 1], Stream[i])
    <3>1. CASE i = n + 1
      <4>1. i # 0 /\ i - 1 = n /\ n \in 0 .. n
        BY <3>1
      <4> QED BY <2>3, <2>4, <3>1, <4>1
    <3>2. CASE i = 0
      BY <2>2, <2>3, <3>2
    <3>3. CASE i \in 0 .. n /\ i # 0
      <4>1. i - 1 \in 0 .. n
        BY <3>3
      <4> QED BY <2>2, <2>3, <3>3, <4>1
    <3> QED BY <3>1, <3>2, <3>3
  <2>7. ReadingUpTo(g, n + 1)
    BY <2>5, <2>6 DEF ReadingUpTo, first
  <2> QED BY <2>7
<1>3. \A n \in Nat : n \in T
  <2> HIDE DEF T
  <2> QED BY <1>1, <1>2, SetInduction
<1> QED BY <1>3

\* What i elements read leave, of the tasks and the stream.
LeftOf(i) == SubSeq(replies, i + 1, Len(replies))
ReadTo(c, i) ==
  \/ i <= Len(replies) /\ \E ch, ca, so, pr : Pumped(c, ch, ca, so, pr) /\ Reading(LeftOf(i), ch, ca, so, pr)
  \/ child \in {"zombie", "gone"} /\ \E ch, ca, so, pr : Pumped(c, ch, ca, so, pr) /\ Left("ended", ch, ca, so)

\* The first of what is left is what the stream has next.
LEMMA LeftOver ==
  ASSUME replies \in Seq(Wire), NEW i \in Nat, i < Len(replies)
  PROVE  LeftOf(i) # <<>> /\ LeftOf(i)[1] = Stream[i + 1] /\ Tail(LeftOf(i)) = LeftOf(i + 1)
<1> DEFINE n == Len(replies)
<1>1. n \in Nat
  BY LenProperties
<1>2. /\ LeftOf(i) \in Seq(Wire) /\ Len(LeftOf(i)) = n - i /\ \A j \in 1 .. n - i : LeftOf(i)[j] = replies[i + j]
      /\ LeftOf(i + 1) \in Seq(Wire) /\ Len(LeftOf(i + 1)) = n - (i + 1)
      /\ \A j \in 1 .. n - (i + 1) : LeftOf(i + 1)[j] = replies[(i + 1) + j]
  <2>1. i + 1 \in 1 .. n + 1 /\ (i + 1) + 1 \in 1 .. n + 1 /\ n \in 0 .. n
    BY <1>1
  <2>2. /\ \A a \in 1 .. n + 1 : /\ SubSeq(replies, a, n) \in Seq(Wire)
                                 /\ Len(SubSeq(replies, a, n)) = (n - a) + 1
                                 /\ \A j \in 1 .. (n - a) + 1 : SubSeq(replies, a, n)[j] = replies[a + (j - 1)]
    BY <1>1, SubSeqProperties
  <2>3. \A j \in 1 .. n : (i + 1) + (j - 1) = i + j /\ ((i + 1) + 1) + (j - 1) = (i + 1) + j
    BY <1>1
  <2>4. (n - (i + 1)) + 1 = n - i /\ (n - ((i + 1) + 1)) + 1 = n - (i + 1) /\ 1 .. n - i \subseteq 1 .. n
        /\ 1 .. n - (i + 1) \subseteq 1 .. n
    BY <1>1
  <2>5. /\ LeftOf(i) \in Seq(Wire) /\ Len(LeftOf(i)) = (n - (i + 1)) + 1
        /\ \A j \in 1 .. (n - (i + 1)) + 1 : LeftOf(i)[j] = replies[(i + 1) + (j - 1)]
    BY <2>1, <2>2 DEF LeftOf
  <2>6. /\ LeftOf(i + 1) \in Seq(Wire) /\ Len(LeftOf(i + 1)) = (n - ((i + 1) + 1)) + 1
        /\ \A j \in 1 .. (n - ((i + 1) + 1)) + 1 : LeftOf(i + 1)[j] = replies[((i + 1) + 1) + (j - 1)]
    BY <2>1, <2>2 DEF LeftOf
  <2> QED BY ONLY <2>3, <2>4, <2>5, <2>6
<1>3. LeftOf(i) # <<>>
  BY <1>1, <1>2, EmptySeq
<1>4. LeftOf(i)[1] = replies[i + 1] /\ i + 1 \in 1 .. n
  <2>1. 1 \in 1 .. n - i
    BY <1>1
  <2> QED BY <1>1, <1>2, <2>1
<1>5. Stream[i + 1] = replies[i + 1]
  BY <1>1, <1>4 DEF Stream
<1>6. Tail(LeftOf(i)) = LeftOf(i + 1)
  <2> DEFINE x == Tail(LeftOf(i))
             y == LeftOf(i + 1)
  <2>1. x \in Seq(Wire) /\ Len(x) = n - (i + 1) /\ \A j \in 1 .. n - (i + 1) : x[j] = LeftOf(i)[j + 1]
    BY <1>1, <1>2, <1>3, LenProperties, EmptySeq
  <2>2. ASSUME NEW j \in 1 .. n - (i + 1) PROVE x[j] = y[j]
    <3>1. j + 1 \in 1 .. n - i /\ i + (j + 1) = (i + 1) + j
      BY <1>1
    <3> QED BY <1>2, <2>1, <3>1
  <2> HIDE DEF x, y
  <2>3. y \in Seq(Wire) /\ Len(y) = Len(x)
    BY <1>2, <2>1 DEF y
  <2>4. x = y
    BY <2>1, <2>2, <2>3, SeqEqual
  <2> QED BY <2>4 DEF x, y
<1> QED BY <1>3, <1>4, <1>5, <1>6

\* One read more, the stream's end included.
LEMMA ReadsOn ==
  ASSUME replies \in Seq(Wire), NEW i \in Nat, i < Len(Stream), NEW c, ReadTo(c, i), NEW d, d = ReadOne(c, Stream[i + 1])
  PROVE  ReadTo(d, i + 1)
<1> DEFINE n == Len(replies)
<1>1. n \in Nat
  BY LenProperties
<1>2. ASSUME child \in {"zombie", "gone"}, NEW ch, NEW ca, NEW so, NEW pr, Pumped(c, ch, ca, so, pr), Left("ended", ch, ca, so)
      PROVE  ReadTo(d, i + 1)
  <2>1. c.channel = ch /\ ch.lost = "ended"
    BY <1>2 DEF Pumped, Left
  <2>2. d = c
    BY <2>1 DEF ReadOne
  <2> QED BY <1>2, <2>2 DEF ReadTo
<1>3. ASSUME i <= n, NEW ch, NEW ca, NEW so, NEW pr, Pumped(c, ch, ca, so, pr), Reading(LeftOf(i), ch, ca, so, pr)
      PROVE  ReadTo(d, i + 1)
  <2>1. CASE i < n
    <3>1. LeftOf(i) # <<>> /\ LeftOf(i)[1] = Stream[i + 1] /\ Tail(LeftOf(i)) = LeftOf(i + 1)
      BY <2>1, LeftOver
    <3> DEFINE rp == LeftOf(i)
    <3>2. d = ReadOne(c, rp[1])
      BY <3>1
    <3> HIDE DEF rp
    <3>3. \E dh, da, sn, qr : Pumped(d, dh, da, sn, qr) /\ Reading(Tail(rp), dh, da, sn, qr)
      BY <1>3, <3>1, <3>2, ReadKeeps DEF rp
    <3>4. i + 1 <= n
      BY <1>1, <2>1
    <3> QED BY <3>1, <3>3, <3>4 DEF ReadTo, rp
  <2>2. CASE i = n
    <3>1. child \in {"zombie", "gone"} /\ Stream[i + 1] = [what |-> "end"]
      <4>1. CASE child \in {"zombie", "gone"}
        <5>1. Stream = replies \o <<[what |-> "end"]>>
          BY <4>1 DEF Stream
        <5> QED BY <1>1, <2>2, <4>1, <5>1
      <4>2. CASE child \notin {"zombie", "gone"}
        <5>1. Stream = replies
          BY <4>2, ConcatEmptySeq DEF Stream
        <5> QED BY <1>1, <2>2, <5>1
      <4> QED BY <4>1, <4>2
    <3>2. /\ InStep(requests, flight, LeftOf(i), ch) /\ Served(ch, ca, so, ask_count) /\ Kept(caller, ca) /\ ch.lost = ""
      BY <1>3 DEF Reading
    <3>3. ChannelShape(ch)
      BY <3>2 DEF InStep
    <3>4. c.channel = ch
      BY <1>3 DEF Pumped
    <3> DEFINE e == Stream[i + 1]
    <3>a. e.what = "end" /\ d = ReadOne(c, e)
      BY <3>1
    <3> HIDE DEF e
    <3>5. d = Lose(c, "ended")
      BY <3>2, <3>4, <3>a DEF ReadOne
    <3>6. \E dh, da : Pumped(d, dh, da, so, pr) /\ Left("ended", dh, da, so)
      BY <1>3, <3>2, <3>3, <3>5, LoseKeeps
    <3> QED BY <3>1, <3>6 DEF ReadTo
  <2> QED BY <1>1, <1>3, <2>1, <2>2
<1> QED BY <1>2, <1>3 DEF ReadTo

\* What is left before any read.
LEMMA LeftWhole ==
  ASSUME replies \in Seq(Wire)
  PROVE  LeftOf(0) = replies /\ Len(replies) \in Nat
<1> DEFINE n == Len(replies)
           x == SubSeq(replies, 1, n)
<1>1. n \in Nat
  BY LenProperties
<1>2. x \in Seq(Wire) /\ Len(x) = n /\ \A j \in 1 .. n : x[j] = replies[j]
  <2>1. 1 \in 1 .. n + 1 /\ n \in 0 .. n
    BY <1>1
  <2>2. \A a \in 1 .. n + 1 : /\ SubSeq(replies, a, n) \in Seq(Wire)
                              /\ Len(SubSeq(replies, a, n)) = (n - a) + 1
                              /\ \A j \in 1 .. (n - a) + 1 : SubSeq(replies, a, n)[j] = replies[a + (j - 1)]
    BY <1>1, SubSeqProperties
  <2>3. (n - 1) + 1 = n /\ \A j \in 1 .. n : 1 + (j - 1) = j
    BY <1>1
  <2> QED BY <2>1, <2>2, <2>3
<1> HIDE DEF x
<1>3. x = replies
  BY <1>2, SeqEqual
<1> QED BY <1>1, <1>3 DEF LeftOf, x

\* The stream that stands, read by none yet.
Readable == InStep(requests, flight, replies, channel) /\ Served(channel, caller, sockets, ask_count) /\ channel.lost = ""

\* Where a read starts.
LEMMA PumpingReads ==
  ASSUME Readable
  PROVE  Reading(replies, channel, caller, sockets, FALSE) /\ Pumped(Pumping, channel, caller, sockets, FALSE)
<1>1. Kept(caller, caller)
  BY DEF Kept
<1> QED BY <1>1 DEF Reading, Pumped, Pumping, Readable

\* The stream is finite.
LEMMA StreamLength ==
  ASSUME replies \in Seq(Wire)
  PROVE  Len(Stream) \in Nat
<1>1. CASE child \in {"zombie", "gone"}
  <2> DEFINE e == [what |-> "end"]
             S == Wire \cup {e}
  <2>1. Stream = replies \o <<e>> /\ <<e>> \in Seq(S) /\ replies \in Seq(S)
    BY <1>1 DEF Stream
  <2> HIDE DEF e, S
  <2> QED BY <2>1, LenProperties
<1>2. CASE child \notin {"zombie", "gone"}
  BY <1>2, ConcatEmptySeq, LenProperties DEF Stream
<1> QED BY <1>1, <1>2

Reaches(k) == k <= Len(Stream)

\* What read_replies leaves, however much of the stream it finds.
LEMMA ReadReplies ==
  ASSUME Readable, NEW k \in Nat, Reaches(k)
  PROVE  ReadTo(read_replies(k), k)
<1> DEFINE f == CHOOSE g : ReadingUpTo(g, k)
           T == {n \in Nat : n <= k => ReadTo(f[n], n)}
<1>0. replies \in Seq(Wire)
  BY DEF InStep, Readable
<1>2. k \in Nat
  OBVIOUS
<1>3. ReadingUpTo(f, k)
  BY <1>2, ReadingExists
<1>4. read_replies(k) = f[k]
  BY DEF read_replies, ReadingUpTo
<1> HIDE DEF f
<1>5. f[0] = Pumping /\ \A n \in 1 .. k : f[n] = ReadOne(f[n - 1], Stream[n])
  BY <1>2, <1>3 DEF ReadingUpTo
<1>6. 0 \in T
  <2>1. LeftOf(0) = replies /\ Len(replies) \in Nat /\ 0 <= Len(replies)
    BY <1>0, LeftWhole
  <2>2. ReadTo(f[0], 0)
    BY <1>5, <2>1, PumpingReads DEF ReadTo
  <2> QED BY <2>2
<1>7. ASSUME NEW n \in Nat, n \in T PROVE n + 1 \in T
  <2> SUFFICES ASSUME n + 1 <= k PROVE ReadTo(f[n + 1], n + 1)
    OBVIOUS
  <2>1. n + 1 \in 1 .. k /\ (n + 1) - 1 = n /\ n <= k
    BY <1>2
  <2>a. n < Len(Stream)
    <3>1. Len(Stream) \in Nat /\ k <= Len(Stream)
      BY <1>0, StreamLength DEF Reaches
    <3> QED BY ONLY <1>2, <2>1, <3>1, n \in Nat
  <2>2. f[n + 1] = ReadOne(f[n], Stream[n + 1])
    BY <1>5, <2>1
  <2>3. ReadTo(f[n], n)
    BY <1>7, <2>1
  <2> QED BY <1>0, <2>a, <2>2, <2>3, ReadsOn
<1>8. \A n \in Nat : n \in T
  <2> HIDE DEF T
  <2> QED BY <1>6, <1>7, SetInduction
<1> QED BY <1>2, <1>4, <1>8

\* A read of nothing changes nothing.
LEMMA ReadNothing == read_replies(0) = Pumping
<1> DEFINE f == CHOOSE g : ReadingUpTo(g, 0)
<1>1. ReadingUpTo(f, 0)
  BY ReadingExists
<1>2. read_replies(0) = f[0]
  BY DEF read_replies, ReadingUpTo
<1> HIDE DEF f
<1> QED BY <1>1, <1>2 DEF ReadingUpTo

\* Tags wrap.
LEMMA Wraps ==
  ASSUME NEW M \in Nat, M > 0
  PROVE  /\ \A a \in 0 .. M - 1 : a % M = a /\ (a + M) % M = a
         /\ \A a \in Nat : (a % M) + 1 \in 1 .. M
OBVIOUS

\* There is a tag no pending request has, as long as there is room.
LEMMA FreeTagIs ==
  ASSUME NEW c, NEW ch, c.channel = ch, ChannelShape(ch), Cardinality(DOMAIN ch.pending) < Flight
  PROVE  FreeTag(c) \in Tag \ DOMAIN ch.pending
<1> DEFINE D == DOMAIN ch.pending
           g == ch.next_tag
           M == MaxTag
           After(n) == ((g + n - 1) % MaxTag) + 1
           Fits1(n) == After(n) \notin D /\ \A i \in 0 .. n - 1 : After(i) \in D
           S == {n \in 0 .. MaxTag - 1 : After(n) \notin D}
<1>1. M \in Nat /\ M > 0 /\ IsFiniteSet(D) /\ Cardinality(D) \in Nat /\ Flight \in Nat /\ Flight <= M
  BY PendingFinite
<1>2. D \subseteq Tag /\ g \in Tag
  BY ChannelHas
<1>3. g \in 1 .. M /\ Tag = 1 .. M
  BY <1>2 DEF Tag
<1> HIDE DEF D, g, M
<1>4. PICK h \in Tag : h \notin D
  <2>1. SUFFICES ASSUME Tag \subseteq D PROVE FALSE
    OBVIOUS
  <2>2. Tag = D
    BY <1>2, <2>1
  <2>3. Cardinality(Tag) = M
    <3>1. Cardinality(1 .. M) = (M - 1) + 1
      BY <1>1, FS_Interval
    <3> QED BY <1>1, <1>3, <3>1
  <2>4. Cardinality(D) < Flight
    BY DEF D
  <2> QED BY <1>1, <2>2, <2>3, <2>4
<1>5. \E n \in 0 .. M - 1 : ((g + n - 1) % M) + 1 = h
  <2>1. CASE h >= g
    <3> DEFINE n == h - g
    <3>1. n \in 0 .. M - 1 /\ g + n - 1 = h - 1 /\ h - 1 \in 0 .. M - 1
      BY <1>1, <1>3, <1>4, <2>1
    <3>2. (h - 1) % M = h - 1
      BY <1>1, <3>1, Wraps
    <3>3. ((g + n - 1) % M) + 1 = h
      BY <1>3, <1>4, <3>1, <3>2
    <3> HIDE DEF n
    <3> QED BY <3>1, <3>3
  <2>2. CASE ~(h >= g)
    <3> DEFINE n == (h - g) + M
    <3>1. n \in 0 .. M - 1 /\ g + n - 1 = (h - 1) + M /\ h - 1 \in 0 .. M - 1
      BY <1>1, <1>3, <1>4, <2>2
    <3>2. ((h - 1) + M) % M = h - 1
      BY <1>1, <3>1, Wraps
    <3>3. ((g + n - 1) % M) + 1 = h
      BY <1>3, <1>4, <3>1, <3>2
    <3> HIDE DEF n
    <3> QED BY <3>1, <3>3
  <2> QED BY <2>1, <2>2
<1>6. \A n \in 0 .. M - 1 : After(n) \in Tag
  <2>1. \A n \in 0 .. M - 1 : g + n - 1 \in Nat
    BY <1>1, <1>3
  <2> QED BY <1>1, <1>3, <2>1, Wraps DEF M
<1>7. S # {} /\ S \subseteq Nat
  BY <1>1, <1>4, <1>5 DEF M
<1> HIDE DEF After
<1>8. PICK n \in S : \A j \in S : n <= j
  <2> HIDE DEF S
  <2> QED BY <1>7, LeastOf
<1>9. Fits1(n) /\ n \in 0 .. MaxTag - 1
  <2>1. n \in 0 .. MaxTag - 1 /\ After(n) \notin D
    BY <1>8
  <2>2. ASSUME NEW i \in 0 .. n - 1, After(i) \notin D PROVE FALSE
    <3>1. i \in 0 .. MaxTag - 1 /\ i < n /\ ~(n <= i)
      BY <1>1, <2>1 DEF M
    <3> QED BY <1>8, <2>2, <3>1
  <2> QED BY <2>1, <2>2
<1> DEFINE m == CHOOSE x \in 0 .. MaxTag - 1 : Fits1(x)
<1>10. m \in 0 .. MaxTag - 1 /\ Fits1(m)
  <2> HIDE DEF Fits1
  <2> QED BY <1>9
<1>11. FreeTag(c) = After(m)
  BY Zenon DEF FreeTag, After, D, g
<1> HIDE DEF m
<1>12. After(m) \in Tag /\ After(m) \notin D
  BY <1>6, <1>10 DEF M
<1> QED BY <1>11, <1>12 DEF D

\* The next tag is a tag.
LEMMA NextTagIs ==
  ASSUME NEW g \in Tag
  PROVE  (g % MaxTag) + 1 \in Tag
<1>1. MaxTag \in Nat /\ MaxTag > 0
  BY ConnectorAssumption
<1>2. g \in Nat
  BY <1>1 DEF Tag
<1> QED BY <1>1, <1>2, Wraps DEF Tag

RoomOf(ch, kind) ==
  /\ ch.lost = "" /\ ch.greeted /\ Cardinality(DOMAIN ch.pending) < Flight
  /\ kind # "" => Cardinality({g \in DOMAIN ch.pending : ch.pending[g].kind = kind}) < Flight - Reserve

\* A task of an answer leaves its wait: a socket is its own, and nothing else
\* is left of it.
Leaves(ca, t, da) == da = IF ca[t].out = "socket" THEN [ca EXCEPT ![t].pc = "using"] ELSE [ca EXCEPT ![t] = IdleTask]

\* A task at rest.
LEMMA IdleIs ==
  IdleTask \in Calling /\ IdleTask.pc = "idle" /\ IdleTask.out = "" /\ IdleTask.stream = 0 /\ IdleTask.id = 0
BY DEF IdleTask, Calling

Follows(x, y) == x.pc # "idle" => y.pc # "idle" /\ x.id = y.id

Unwaited(ch, t) == \A g \in DOMAIN ch.pending : ~ch.pending[g].given_up => ch.pending[g].caller # t
Puts(ca, t, x, da) == da = [ca EXCEPT ![t] = x]

\* One task changed, and no request of its pending.
LEMMA OneChanged ==
  ASSUME NEW n, NEW ch, NEW ca, NEW so, Served(ch, ca, so, n), ChannelShape(ch), NEW t \in Tasks, NEW x \in Calling,
         NEW da, Puts(ca, t, x, da), Called(x, n), Follows(x, ca[t]),
         Unwaited(ch, t),
         NEW sn, Owned(da, sn)
  PROVE  Served(ch, da, sn, n) /\ da[t] = x /\ \A u \in Tasks : u # t => da[u] = ca[u]
<1>1. Waiting(ca, n) /\ Waited(ch, ca)
  BY DEF Served
<1>2. ca \in [Tasks -> Calling] /\ \A u \in Tasks : Called(ca[u], n)
  BY <1>1 DEF Waiting
<1>3. da \in [Tasks -> Calling] /\ da[t] = x /\ \A u \in Tasks : u # t => da[u] = ca[u]
  BY <1>2 DEF Puts
<1>4. \A u \in Tasks : Called(da[u], n)
  BY <1>2, <1>3
<1>5. \A u, v \in Tasks : ca[u].pc # "idle" /\ ca[v].pc # "idle" /\ ca[u].id = ca[v].id => u = v
  BY <1>1 DEF Waiting
<1>6. \A u, v \in Tasks : da[u].pc # "idle" /\ da[v].pc # "idle" /\ da[u].id = da[v].id => u = v
  <2>1. \A u \in Tasks : da[u].pc # "idle" => ca[u].pc # "idle" /\ ca[u].id = da[u].id
    BY <1>3 DEF Follows
  <2> QED BY ONLY <1>5, <2>1
<1>7. Waiting(da, n)
  BY <1>3, <1>4, <1>6 DEF Waiting
<1>8. Waited(ch, da)
  <2>1. \A h \in DOMAIN ch.pending : ~ch.pending[h].given_up =>
            ca[ch.pending[h].caller].pc = "asked" /\ ca[ch.pending[h].caller].id = ch.pending[h].id /\ ca[ch.pending[h].caller].out = ""
    BY <1>1 DEF Waited
  <2>2. \A h \in DOMAIN ch.pending : ch.pending[h].caller \in Tasks
    <3>1. \A h \in DOMAIN ch.pending : ch.pending[h] \in Pended
      BY ChannelHas
    <3> QED BY <3>1 DEF Pended
  <2>3. \A h \in DOMAIN ch.pending : ~ch.pending[h].given_up =>
            da[ch.pending[h].caller].pc = "asked" /\ da[ch.pending[h].caller].id = ch.pending[h].id /\ da[ch.pending[h].caller].out = ""
    BY <1>3, <2>1, <2>2 DEF Unwaited
  <2> QED BY <1>1, <2>3 DEF Waited
<1> QED BY <1>3, <1>7, <1>8 DEF Served, Owned

\* Whose sockets are held, one task's word changed.
LEMMA SocketsChanged ==
  ASSUME NEW n, NEW ca, Waiting(ca, n), NEW so, Owned(ca, so), NEW t \in Tasks, NEW x, NEW da, da = [ca EXCEPT ![t] = x]
  PROVE  /\ x.out = "socket" /\ ca[t].out = "socket" /\ x.id = ca[t].id => Owned(da, so)
         /\ x.out # "socket" => Owned(da, so \ {ca[t].id})
         /\ x.out # "socket" /\ ca[t].out # "socket" => Owned(da, so)
<1>1. ca \in [Tasks -> Calling] /\ \A u \in Tasks : Called(ca[u], n)
  BY DEF Waiting
<1>2. da[t] = x /\ \A u \in Tasks : u # t => da[u] = ca[u]
  BY <1>1
<1>3. so = {ca[u].id : u \in {v \in Tasks : ca[v].out = "socket"}}
  BY DEF Owned
<1>4. \A u, v \in Tasks : ca[u].pc # "idle" /\ ca[v].pc # "idle" /\ ca[u].id = ca[v].id => u = v
  BY DEF Waiting
<1>5. \A u \in Tasks : ca[u].out = "socket" => ca[u].pc # "idle" /\ ca[u].id \in 1 .. n
  BY <1>1, IdleIs DEF Called
<1>6. ASSUME x.out = "socket", ca[t].out = "socket", x.id = ca[t].id PROVE Owned(da, so)
  <2>1. \A u \in Tasks : (da[u].out = "socket" <=> ca[u].out = "socket") /\ da[u].id = ca[u].id
    BY <1>2, <1>6
  <2> QED BY <1>3, <2>1 DEF Owned
<1>7. ASSUME x.out # "socket", ca[t].out # "socket" PROVE Owned(da, so)
  <2>1. \A u \in Tasks : (da[u].out = "socket" <=> ca[u].out = "socket") /\ (da[u].out = "socket" => da[u].id = ca[u].id)
    BY <1>2, <1>7
  <2> QED BY <1>3, <2>1 DEF Owned
<1>8. ASSUME x.out # "socket" PROVE Owned(da, so \ {ca[t].id})
  <2>1. \A u \in Tasks : (da[u].out = "socket" <=> ca[u].out = "socket" /\ u # t) /\ (da[u].out = "socket" => da[u].id = ca[u].id)
    BY <1>2, <1>8
  <2>2. ASSUME NEW u \in Tasks, ca[u].out = "socket", u # t PROVE ca[u].id # ca[t].id
    <3>1. CASE ca[t].pc # "idle"
      BY <1>4, <1>5, <2>2, <3>1
    <3>2. CASE ca[t].pc = "idle"
      <4>0. ca[t] = IdleTask
        BY <1>1, <3>2 DEF Called
      <4>1. ca[t].id = 0
        BY <4>0, IdleIs
      <4>2. ca[u].id \in 1 .. n
        BY <1>5, <2>2
      <4>3. 0 \notin 1 .. n
        OBVIOUS
      <4> QED BY <4>1, <4>2, <4>3
    <3> QED BY <3>1, <3>2
  <2>3. \A z : z \in so \ {ca[t].id} <=> \E u \in Tasks : da[u].out = "socket" /\ z = da[u].id
    BY <1>3, <2>1, <2>2
  <2> QED BY <2>3 DEF Owned
<1> QED BY <1>6, <1>7, <1>8

\* A task answered leaves its wait.
LEMMA LeavesKeeps ==
  ASSUME NEW n, NEW ch, ChannelShape(ch), NEW ca, NEW so, Served(ch, ca, so, n), NEW t \in Tasks,
         ca[t].pc \in {"room", "asked"}, ca[t].out # "", NEW da, Leaves(ca, t, da)
  PROVE  /\ Served(ch, da, so, n) /\ da[t].pc \notin {"room", "asked"} /\ \A u \in Tasks : u # t => da[u] = ca[u]
         /\ da[t].stream \in {ca[t].stream, 0}
<1> DEFINE y == [ca[t] EXCEPT !.pc = "using"]
           x == IF ca[t].out = "socket" THEN y ELSE IdleTask
<1>1. Waiting(ca, n) /\ Waited(ch, ca) /\ Owned(ca, so) /\ ca \in [Tasks -> Calling] /\ Called(ca[t], n)
  BY DEF Served, Waiting
<1>2. ca[t] \in Calling
  BY <1>1
<1>3. y \in Calling /\ y.pc = "using" /\ y.id = ca[t].id /\ y.request = ca[t].request /\ y.out = ca[t].out /\ y.stream = ca[t].stream
  BY <1>2 DEF Calling
<1>4. da = [ca EXCEPT ![t] = x]
  BY DEF Leaves
<1> HIDE DEF y
<1>5. x \in Calling /\ Called(x, n) /\ Follows(x, ca[t]) /\ x.pc \in {"using", "idle"}
      /\ x.stream \in {ca[t].stream, 0}
  <2>1. CASE ca[t].out = "socket"
    <3>1. x = y
      BY <2>1
    <3> QED BY <1>1, <1>3, <2>1, <3>1 DEF Called, Follows
  <2>2. CASE ca[t].out # "socket"
    <3>1. x = IdleTask
      BY <2>2
    <3> QED BY <3>1, IdleIs DEF Called, Follows
  <2> QED BY <2>1, <2>2
<1>6. Unwaited(ch, t) /\ Puts(ca, t, x, da)
  BY <1>1, <1>4 DEF Waited, Unwaited, Puts
<1>7. Owned(da, so)
  <2>1. CASE ca[t].out = "socket"
    <3>1. x = y
      BY <2>1
    <3>2. da = [ca EXCEPT ![t] = y] /\ y.out = "socket"
      BY <1>3, <1>4, <2>1, <3>1
    <3> QED BY ONLY t \in Tasks, <1>1, <1>3, <2>1, <3>2, SocketsChanged
  <2>2. CASE ca[t].out # "socket"
    <3>1. x = IdleTask
      BY <2>2
    <3> QED BY <1>1, <1>4, <2>2, <3>1, SocketsChanged, IdleIs
  <2> QED BY <2>1, <2>2
<1> HIDE DEF x
<1>9. Served(ch, da, so, n) /\ da[t] = x /\ \A u \in Tasks : u # t => da[u] = ca[u]
  <2>1. Served(ch, ca, so, n) /\ ChannelShape(ch)
    OBVIOUS
  <2> QED BY ONLY t \in Tasks, <1>5, <1>6, <1>7, <2>1, OneChanged
<1> QED BY <1>5, <1>9

\* A pending request given up on is pending still.
LEMMA SamePending ==
  ASSUME NEW rq, NEW fl, NEW rp, NEW ch, InStep(rq, fl, rp, ch), NEW dh, ChannelShape(dh), dh.passing = ch.passing,
         DOMAIN dh.pending = DOMAIN ch.pending, \A g \in DOMAIN ch.pending : dh.pending[g].id = ch.pending[g].id
  PROVE  InStep(rq, fl, rp, dh)
<1>1. /\ rq \in Seq(Sent) /\ fl \in Seq(Flown) /\ rp \in Seq(Wire) /\ ChannelShape(ch)
      /\ OnePlaceEach(rq, fl, rp, ch) /\ SameIds(rq, fl, ch) /\ Paired(rp, ch)
  BY DEF InStep
<1>2. OnePlaceEach(rq, fl, rp, dh)
  BY <1>1 DEF OnePlaceEach
<1>3. \A i \in 1 .. Len(rq) : rq[i].tag \in DOMAIN ch.pending
  BY <1>1 DEF OnePlaceEach, TagsOf
<1>4. \A i \in 1 .. Len(fl) : fl[i].tag \in DOMAIN ch.pending
  BY <1>1 DEF OnePlaceEach, TagsOf
<1>5. SameIds(rq, fl, dh)
  BY <1>1, <1>3, <1>4 DEF SameIds
<1>6. \A i \in HeadsAt(rp) : rp[i].tag \in DOMAIN ch.pending
  BY <1>1 DEF OnePlaceEach, HeadTags
<1>7. ch.passing # 0 => ch.passing \in DOMAIN ch.pending
  BY <1>1 DEF OnePlaceEach
<1>8. Paired(rp, dh)
  BY <1>1, <1>6, <1>7 DEF Paired
<1> QED BY <1>1, <1>2, <1>5, <1>8 DEF InStep

Forsaken(pe, t) == [g \in DOMAIN pe |-> IF pe[g].caller = t THEN [pe[g] EXCEPT !.given_up = TRUE] ELSE pe[g]]
Forsakes(ch, t, dh) == dh = [ch EXCEPT !.pending = Forsaken(@, t)]

\* The record once a caller left before its reply.
LEMMA ForsakenIs ==
  ASSUME NEW ch, ChannelShape(ch), NEW t, NEW dh, Forsakes(ch, t, dh)
  PROVE  /\ ChannelShape(dh) /\ dh.passing = ch.passing /\ dh.lost = ch.lost /\ dh.next_tag = ch.next_tag /\ dh.greeted = ch.greeted
         /\ DOMAIN dh.pending = DOMAIN ch.pending
         /\ \A g \in DOMAIN ch.pending : dh.pending[g].id = ch.pending[g].id /\ dh.pending[g].kind = ch.pending[g].kind
              /\ dh.pending[g].caller = ch.pending[g].caller
              /\ (dh.pending[g].given_up <=> ch.pending[g].given_up \/ ch.pending[g].caller = t)
<1> DEFINE L == Forsaken(ch.pending, t)
           D == DOMAIN ch.pending
<1>1. DOMAIN L = D
  BY DEF Forsaken
<1>2. ASSUME NEW g \in D
      PROVE  /\ L[g] \in Pended /\ L[g].id = ch.pending[g].id /\ L[g].kind = ch.pending[g].kind /\ L[g].caller = ch.pending[g].caller
             /\ L[g].given_up <=> ch.pending[g].given_up \/ ch.pending[g].caller = t
  <2> DEFINE p == ch.pending[g]
             y == [p EXCEPT !.given_up = TRUE]
  <2>1. p \in Pended
    BY ChannelHas
  <2>2. y \in Pended /\ y.id = p.id /\ y.kind = p.kind /\ y.caller = p.caller /\ y.given_up = TRUE
    BY <2>1 DEF Pended
  <2>3. L[g] = IF p.caller = t THEN y ELSE p
    BY DEF Forsaken
  <2> HIDE DEF y, L
  <2>4. CASE p.caller = t
    BY <2>2, <2>3, <2>4
  <2>5. CASE p.caller # t
    BY <2>1, <2>3, <2>5
  <2> QED BY <2>4, <2>5
<1>3. dh = [ch EXCEPT !.pending = L]
  BY DEF Forsakes
<1> HIDE DEF L
<1>4. ch = [greeted |-> ch.greeted, pending |-> ch.pending, next_tag |-> ch.next_tag,
             passing |-> ch.passing, lost |-> ch.lost]
  BY ChannelHas
<1>5. dh = [greeted |-> ch.greeted, pending |-> L, next_tag |-> ch.next_tag, passing |-> ch.passing, lost |-> ch.lost]
  BY <1>3, <1>4
<1>6. DOMAIN L \subseteq Tag /\ Cardinality(DOMAIN L) <= Flight /\ \A h \in DOMAIN L : L[h] \in Pended
  BY <1>1, <1>2, ChannelHas
<1>7. ch.greeted \in BOOLEAN /\ ch.next_tag \in Tag /\ ch.passing \in Tag \cup {0}
  BY ChannelHas
<1>8. ChannelShape(dh) /\ dh.greeted = ch.greeted /\ dh.pending = L /\ dh.next_tag = ch.next_tag /\ dh.passing = ch.passing /\ dh.lost = ch.lost
  BY ONLY ChannelShape(ch), <1>5, <1>6, <1>7, ChannelIs
<1> QED BY <1>1, <1>2, <1>8

\* A caller's leaving moves no request.
LEMMA AbandonKeeps ==
  ASSUME NEW rq, NEW fl, NEW rp, NEW ch, InStep(rq, fl, rp, ch), NEW n, NEW ca, NEW so, Served(ch, ca, so, n),
         NEW t \in Tasks, ca[t].out # "socket", NEW dh, Forsakes(ch, t, dh), NEW da, Puts(ca, t, IdleTask, da)
  PROVE  InStep(rq, fl, rp, dh) /\ Served(dh, da, so, n) /\ da[t] = IdleTask /\ \A u \in Tasks : u # t => da[u] = ca[u]
<1>1. ChannelShape(ch)
  BY DEF InStep
<1>2. /\ ChannelShape(dh) /\ dh.passing = ch.passing /\ DOMAIN dh.pending = DOMAIN ch.pending
      /\ \A g \in DOMAIN ch.pending : dh.pending[g].id = ch.pending[g].id /\ dh.pending[g].caller = ch.pending[g].caller
           /\ (dh.pending[g].given_up <=> ch.pending[g].given_up \/ ch.pending[g].caller = t)
  BY <1>1, ForsakenIs
<1>3. InStep(rq, fl, rp, dh)
  BY <1>2, SamePending
<1>4. Waiting(ca, n) /\ Waited(ch, ca) /\ Owned(ca, so)
  BY DEF Served
<1>5. Waited(dh, ca)
  <2>1. \A h \in DOMAIN ch.pending : ~ch.pending[h].given_up =>
            ca[ch.pending[h].caller].pc = "asked" /\ ca[ch.pending[h].caller].id = ch.pending[h].id /\ ca[ch.pending[h].caller].out = ""
    BY <1>4 DEF Waited
  <2>2. \A g, h \in DOMAIN ch.pending : 
        ~ch.pending[g].given_up /\ ~ch.pending[h].given_up /\ ch.pending[g].caller = ch.pending[h].caller => g = h
    BY <1>4 DEF Waited
  <2>3. \A h \in DOMAIN dh.pending : ~dh.pending[h].given_up =>
            ca[dh.pending[h].caller].pc = "asked" /\ ca[dh.pending[h].caller].id = dh.pending[h].id /\ ca[dh.pending[h].caller].out = ""
    BY <1>2, <2>1
  <2>4. \A g, h \in DOMAIN dh.pending : 
        ~dh.pending[g].given_up /\ ~dh.pending[h].given_up /\ dh.pending[g].caller = dh.pending[h].caller => g = h
    BY <1>2, <2>2
  <2> QED BY ONLY <2>3, <2>4 DEF Waited
<1>6. Served(dh, ca, so, n)
  BY <1>4, <1>5 DEF Served
<1>7. Unwaited(dh, t)
  BY <1>2 DEF Unwaited
<1>8. Owned(da, so)
  <2>1. da = [ca EXCEPT ![t] = IdleTask]
    BY DEF Puts
  <2> QED BY <1>4, <2>1, SocketsChanged, IdleIs
<1>9. IdleTask \in Calling /\ Called(IdleTask, n) /\ Follows(IdleTask, ca[t])
  BY IdleIs DEF Called, Follows
<1>10. Served(dh, da, so, n) /\ da[t] = IdleTask /\ \A u \in Tasks : u # t => da[u] = ca[u]
  <2>1. Puts(ca, t, IdleTask, da)
    OBVIOUS
  <2> QED BY ONLY t \in Tasks, <1>2, <1>6, <1>7, <1>8, <1>9, <2>1, OneChanged
<1> QED BY <1>3, <1>10

Asking(pe, g, p) == [h \in DOMAIN pe \cup {g} |-> IF h = g THEN p ELSE pe[h]]
Asks(ch, g, p, dh) == dh = [ch EXCEPT !.next_tag = (g % MaxTag) + 1, !.pending = Asking(@, g, p)]

\* The record once a request is sent.
LEMMA AskingIs ==
  ASSUME NEW ch, ChannelShape(ch), NEW g \in Tag, g \notin DOMAIN ch.pending, NEW p \in Pended,
         Cardinality(DOMAIN ch.pending) < Flight, NEW dh, Asks(ch, g, p, dh)
  PROVE  /\ ChannelShape(dh) /\ dh.passing = ch.passing /\ dh.lost = ch.lost /\ dh.greeted = ch.greeted
         /\ DOMAIN dh.pending = DOMAIN ch.pending \cup {g} /\ dh.pending[g] = p
         /\ \A h \in DOMAIN ch.pending : dh.pending[h] = ch.pending[h]
<1> DEFINE L == Asking(ch.pending, g, p)
           D == DOMAIN ch.pending
           m == (g % MaxTag) + 1
<1>1. DOMAIN L = D \cup {g} /\ L[g] = p /\ \A h \in D : L[h] = ch.pending[h]
  BY DEF Asking
<1>2. dh = [ch EXCEPT !.next_tag = m, !.pending = L]
  BY DEF Asks
<1>a. m \in Tag
  BY NextTagIs
<1> HIDE DEF L, m
<1>3. ch = [greeted |-> ch.greeted, pending |-> ch.pending, next_tag |-> ch.next_tag,
             passing |-> ch.passing, lost |-> ch.lost]
  BY ChannelHas
<1>4. dh = [greeted |-> ch.greeted, pending |-> L, next_tag |-> m, passing |-> ch.passing, lost |-> ch.lost]
  BY <1>2, <1>3
<1>5. IsFiniteSet(D) /\ Cardinality(D) \in Nat /\ Flight \in Nat
  BY PendingFinite
<1>6. Cardinality(D \cup {g}) <= Flight
  <2>1. Cardinality(D \cup {g}) = Cardinality(D) + 1
    BY <1>5, FS_AddElement
  <2> QED BY <1>5, <2>1
<1>7. DOMAIN L \subseteq Tag /\ Cardinality(DOMAIN L) <= Flight /\ \A h \in DOMAIN L : L[h] \in Pended
  BY <1>1, <1>6, ChannelHas
<1>8. ch.greeted \in BOOLEAN /\ ch.passing \in Tag \cup {0}
  BY ChannelHas
<1>9. ChannelShape(dh) /\ dh.greeted = ch.greeted /\ dh.pending = L /\ dh.next_tag = m /\ dh.passing = ch.passing /\ dh.lost = ch.lost
  BY ONLY ChannelShape(ch), <1>4, <1>7, <1>8, <1>a, ChannelIs
<1> QED BY <1>1, <1>9

\* A request sent is in the stream to the process and nowhere else.
LEMMA AskKeeps ==
  ASSUME NEW rq, NEW fl, NEW rp, NEW ch, InStep(rq, fl, rp, ch), NEW g \in Tag, g \notin DOMAIN ch.pending, NEW p \in Pended,
         Cardinality(DOMAIN ch.pending) < Flight, NEW dh, Asks(ch, g, p, dh), NEW r \in Requests,
         NEW q, q = [tag |-> g, id |-> p.id, request |-> r]
  PROVE  InStep(Append(rq, q), fl, rp, dh)
<1>1. /\ rq \in Seq(Sent) /\ fl \in Seq(Flown) /\ rp \in Seq(Wire) /\ ChannelShape(ch)
      /\ OnePlaceEach(rq, fl, rp, ch) /\ SameIds(rq, fl, ch) /\ Paired(rp, ch)
  BY DEF InStep
<1>2. /\ ChannelShape(dh) /\ dh.passing = ch.passing
      /\ DOMAIN dh.pending = DOMAIN ch.pending \cup {g} /\ dh.pending[g] = p
      /\ \A h \in DOMAIN ch.pending : dh.pending[h] = ch.pending[h]
  BY <1>1, AskingIs
<1>3. q \in Sent /\ q.tag = g /\ q.id = p.id
  BY DEF Sent, Pended
<1>a. /\ Once(rq) /\ Once(fl) /\ HeadsOnce(rp)
      /\ TagsOf(rq) \cap TagsOf(fl) = {} /\ TagsOf(rq) \cap HeadTags(rp) = {} /\ TagsOf(fl) \cap HeadTags(rp) = {}
      /\ ch.passing \notin TagsOf(rq) \cup TagsOf(fl) \cup HeadTags(rp)
      /\ DOMAIN ch.pending = TagsOf(rq) \cup TagsOf(fl) \cup HeadTags(rp) \cup ({ch.passing} \ {0})
  BY <1>1 DEF OnePlaceEach
<1>4. g \notin TagsOf(rq) /\ g \notin TagsOf(fl) /\ g \notin HeadTags(rp) /\ g # 0 /\ g # ch.passing
  <2>1. g # 0
    BY DEF Tag
  <2> QED BY <1>a, <2>1
<1> DEFINE x == Append(rq, q)
<1>5. /\ x \in Seq(Sent) /\ Once(x) /\ TagsOf(x) = TagsOf(rq) \cup {g}
      /\ \A i \in 1 .. Len(x) : x[i] = q \/ \E k \in 1 .. Len(rq) : x[i] = rq[k]
  BY <1>1, <1>3, <1>4, <1>a, TagsAppend
<1> HIDE DEF x
<1>6. OnePlaceEach(x, fl, rp, dh)
  <2>1. TagsOf(x) \cap TagsOf(fl) = {} /\ TagsOf(x) \cap HeadTags(rp) = {}
    BY <1>4, <1>5, <1>a
  <2>2. dh.passing \notin TagsOf(x) \cup TagsOf(fl) \cup HeadTags(rp)
    BY <1>2, <1>4, <1>5, <1>a
  <2>3. DOMAIN dh.pending = TagsOf(x) \cup TagsOf(fl) \cup HeadTags(rp) \cup ({dh.passing} \ {0})
    BY <1>2, <1>5, <1>a
  <2> QED BY ONLY <1>5, <1>a, <2>1, <2>2, <2>3 DEF OnePlaceEach
<1>7. SameIds(x, fl, dh)
  <2>1. \A k \in 1 .. Len(rq) : rq[k].tag \in DOMAIN ch.pending /\ rq[k].id = ch.pending[rq[k].tag].id
    BY <1>1, <1>a DEF SameIds, TagsOf
  <2>2. \A k \in 1 .. Len(fl) : fl[k].tag \in DOMAIN ch.pending /\ fl[k].id = ch.pending[fl[k].tag].id
    BY <1>1, <1>a DEF SameIds, TagsOf
  <2> QED BY <1>2, <1>3, <1>5, <2>1, <2>2 DEF SameIds
<1>8. Paired(rp, dh)
  <2>1. \A i \in HeadsAt(rp) : rp[i].tag \in DOMAIN ch.pending
    BY <1>a DEF HeadTags
  <2>2. ch.passing # 0 => ch.passing \in DOMAIN ch.pending
    BY <1>a
  <2> QED BY <1>1, <1>2, <2>1, <2>2 DEF Paired
<1> QED BY <1>1, <1>2, <1>5, <1>6, <1>7, <1>8 DEF InStep, x

Untold(x) == x.out = ""
Asked(ca, t, da) == da = [ca EXCEPT ![t].pc = "asked"]

OthersAs(ca, da, t) == \A u \in Tasks : u # t => da[u] = ca[u]
AskFits(ch, g, p, ca, t, dh) ==
  /\ ChannelShape(ch) /\ g \in Tag /\ g \notin DOMAIN ch.pending /\ p \in Pended /\ p.caller = t /\ p.id = ca[t].id
  /\ t \in Tasks /\ ca[t].pc = "room" /\ Untold(ca[t]) /\ Cardinality(DOMAIN ch.pending) < Flight /\ Asks(ch, g, p, dh)

\* ... and its task waits for it.
LEMMA AskServed ==
  ASSUME NEW n, NEW ch, NEW ca, NEW so, Served(ch, ca, so, n), NEW t, NEW g, NEW p, NEW dh, AskFits(ch, g, p, ca, t, dh),
         NEW da, Asked(ca, t, da)
  PROVE  /\ Served(dh, da, so, n) /\ OthersAs(ca, da, t)
         /\ da[t].pc = "asked" /\ Untold(da[t]) /\ da[t].stream = ca[t].stream
<1>0. /\ ChannelShape(ch) /\ g \in Tag /\ g \notin DOMAIN ch.pending /\ p \in Pended /\ p.caller = t /\ p.id = ca[t].id
      /\ t \in Tasks /\ ca[t].pc = "room" /\ Untold(ca[t]) /\ Cardinality(DOMAIN ch.pending) < Flight /\ Asks(ch, g, p, dh)
  BY DEF AskFits
<1> DEFINE x == [ca[t] EXCEPT !.pc = "asked"]
<1>1. Waiting(ca, n) /\ Waited(ch, ca) /\ Owned(ca, so)
  BY DEF Served
<1>2. ca \in [Tasks -> Calling] /\ Called(ca[t], n) /\ ca[t] \in Calling
  BY <1>0, <1>1 DEF Waiting
<1>3. x \in Calling /\ x.pc = "asked" /\ x.id = ca[t].id /\ x.request = ca[t].request /\ x.out = "" /\ x.stream = ca[t].stream
  BY <1>0, <1>2 DEF Calling, Untold
<1>4. da = [ca EXCEPT ![t] = x]
  BY DEF Asked
<1> HIDE DEF x
<1>5. da[t] = x /\ \A u \in Tasks : u # t => da[u] = ca[u]
  BY <1>0, <1>2, <1>4
<1>6. Called(x, n) /\ Follows(x, ca[t]) /\ Puts(ca, t, x, da)
  BY <1>0, <1>2, <1>3, <1>4 DEF Called, Follows, Puts
<1>7. Unwaited(ch, t)
  BY <1>0, <1>1 DEF Waited, Unwaited
<1>8. Owned(da, so)
  <2>1. x.out # "socket" /\ ca[t].out # "socket"
    BY <1>0, <1>3 DEF Untold
  <2>2. t \in Tasks
    BY <1>0
  <2> QED BY ONLY <1>1, <1>4, <2>1, <2>2, SocketsChanged
<1>9. Served(ch, da, so, n)
  <2>1. Served(ch, ca, so, n) /\ ChannelShape(ch)
    BY <1>0
  <2> QED BY ONLY <1>0, <1>3, <1>6, <1>7, <1>8, <2>1, OneChanged
<1>10. DOMAIN dh.pending = DOMAIN ch.pending \cup {g} /\ dh.pending[g] = p
       /\ \A h \in DOMAIN ch.pending : dh.pending[h] = ch.pending[h]
  <2>1. ChannelShape(ch) /\ g \in Tag /\ g \notin DOMAIN ch.pending /\ p \in Pended
        /\ Cardinality(DOMAIN ch.pending) < Flight /\ Asks(ch, g, p, dh)
    BY <1>0
  <2> QED BY ONLY <2>1, AskingIs
<1>11. Waited(dh, da)
  <2>0. Waited(ch, da)
    BY <1>0, <1>9 DEF Served
  <2>1. \A h \in DOMAIN ch.pending : ~ch.pending[h].given_up =>
            da[ch.pending[h].caller].pc = "asked" /\ da[ch.pending[h].caller].id = ch.pending[h].id /\ da[ch.pending[h].caller].out = ""
    BY <1>0, <2>0 DEF Waited
  <2>2. \A g1, h \in DOMAIN ch.pending : 
        ~ch.pending[g1].given_up /\ ~ch.pending[h].given_up /\ ch.pending[g1].caller = ch.pending[h].caller => g1 = h
    BY <1>0, <2>0 DEF Waited
  <2>3. \A h \in DOMAIN dh.pending : ~dh.pending[h].given_up =>
            da[dh.pending[h].caller].pc = "asked" /\ da[dh.pending[h].caller].id = dh.pending[h].id /\ da[dh.pending[h].caller].out = ""
    <3> SUFFICES ASSUME NEW h \in DOMAIN dh.pending, ~dh.pending[h].given_up
                 PROVE  da[dh.pending[h].caller].pc = "asked" /\ da[dh.pending[h].caller].id = dh.pending[h].id
                        /\ da[dh.pending[h].caller].out = ""
      OBVIOUS
    <3>1. CASE h = g
      <4>1. dh.pending[h] = p /\ da[p.caller] = x
        BY <1>0, <1>5, <1>10, <3>1
      <4> QED BY <1>0, <1>3, <4>1
    <3>2. CASE h # g
      <4>1. h \in DOMAIN ch.pending /\ dh.pending[h] = ch.pending[h]
        BY <1>0, <1>10, <3>2
      <4> QED BY <1>0, <2>1, <4>1
    <3> QED BY <1>0, <3>1, <3>2
  <2>4. \A h \in DOMAIN ch.pending : ~dh.pending[h].given_up => dh.pending[h].caller # dh.pending[g].caller
    BY <1>0, <1>7, <1>10 DEF Unwaited
  <2>5. \A g1, h \in DOMAIN dh.pending : 
        ~dh.pending[g1].given_up /\ ~dh.pending[h].given_up /\ dh.pending[g1].caller = dh.pending[h].caller => g1 = h
    BY <1>0, <1>10, <2>2, <2>4
  <2> QED BY ONLY <2>3, <2>5 DEF Waited
<1>12. Served(dh, da, so, n)
  BY <1>0, <1>9, <1>11 DEF Served
<1> QED BY <1>0, <1>3, <1>5, <1>12 DEF Untold, OthersAs

\* Room does not come from asking.
LEMMA LessRoom ==
  ASSUME NEW ch, ChannelShape(ch), NEW dh, ChannelShape(dh), dh.lost = ch.lost, dh.greeted = ch.greeted,
         DOMAIN ch.pending \subseteq DOMAIN dh.pending,
         \A g \in DOMAIN ch.pending : dh.pending[g].kind = ch.pending[g].kind, NEW kind, RoomOf(dh, kind)
  PROVE  RoomOf(ch, kind)
<1> DEFINE C == DOMAIN ch.pending
           D == DOMAIN dh.pending
           E == {g \in C : ch.pending[g].kind = kind}
           F == {g \in D : dh.pending[g].kind = kind}
<1>1. IsFiniteSet(D) /\ Cardinality(D) \in Nat /\ IsFiniteSet(C) /\ Cardinality(C) \in Nat /\ Flight \in Nat
  BY PendingFinite
<1>2. Cardinality(C) <= Cardinality(D)
  BY <1>1, FS_Subset
<1>3. E \subseteq F /\ F \subseteq D
  OBVIOUS
<1> HIDE DEF E, F, D, C
<1>4. IsFiniteSet(F) /\ IsFiniteSet(E) /\ Cardinality(E) <= Cardinality(F)
  BY <1>1, <1>3, FS_Subset
<1>5. Cardinality(E) \in Nat /\ Cardinality(F) \in Nat /\ Reserve \in Nat
  BY <1>4, FS_CardinalityType, ConnectorAssumption
<1>6. dh.lost = "" /\ dh.greeted
  BY DEF RoomOf
<1>9. Cardinality(D) < Flight
  BY DEF RoomOf, D
<1>7. Cardinality(C) < Flight
  BY ONLY <1>1, <1>2, <1>9
<1>8. ASSUME kind # "" PROVE Cardinality(E) < Flight - Reserve
  <2>1. Cardinality(F) < Flight - Reserve
    BY <1>8 DEF RoomOf, F, D
  <2> QED BY ONLY <1>1, <1>4, <1>5, <2>1
<1> QED BY <1>6, <1>7, <1>8 DEF RoomOf, C, E

Awaits(x) == x.pc \in {"room", "asked"}
Unforgotten(ch, ca, wo) ==
  \A t \in Tasks : Awaits(ca[t]) /\ t \notin wo =>
      ca[t].out = "" /\ ch.lost = "" /\ (ca[t].pc = "room" => ~RoomOf(ch, ca[t].kind))
Asleep(ch, ca, st, sts) ==
  \A t \in Tasks : /\ ca[t].stream <= sts
                   /\ Awaits(ca[t]) => (ca[t].out = "" => ch.lost = "" /\ ca[t].stream = sts)
                                        /\ (ca[t].stream = sts => st = "ok" \/ ch.lost # "")
Emptied(ch, st, chl, rq, fl, rp) ==
  /\ ch.lost \in {"", "ended", "unsent", "closed"}
  /\ ch.lost # "" => st = "none" /\ chl = "gone" /\ rq = <<>> /\ fl = <<>> /\ rp = <<>> /\ ch.pending = <<>> /\ ch.passing = 0

\* The invariant in the parts the steps keep.
LEMMA InvIs ==
  ASSUME ConnectorInv
  PROVE  /\ InStep(requests, flight, replies, channel) /\ Served(channel, caller, sockets, ask_count)
         /\ Begins /\ Emptied(channel, start, child, requests, flight, replies) /\ Asleep(channel, caller, start, starts)
         /\ Unforgotten(channel, caller, woken) /\ woken \subseteq Tasks /\ starts \in Nat /\ ask_count \in Nat
<1>1. /\ InStep(requests, flight, replies, channel) /\ Served(channel, caller, sockets, ask_count)
      /\ Begins /\ Stands /\ NoneForgotten /\ woken \subseteq Tasks
  BY DEF ConnectorInv
<1>2. Emptied(channel, start, child, requests, flight, replies) /\ starts \in Nat /\ ask_count \in Nat
  BY <1>1 DEF Stands, Emptied
<1>3. Asleep(channel, caller, start, starts)
  BY <1>1 DEF Stands, Asleep, Sleepers, Awaits
<1>4. \A kind : Room(Pumping, kind) <=> RoomOf(channel, kind)
  BY DEF Room, RoomOf, Pumping, KindCount
<1>5. Unforgotten(channel, caller, woken)
  BY <1>1, <1>4 DEF NoneForgotten, Unforgotten, Sleepers, Awaits
<1> QED BY <1>1, <1>2, <1>3, <1>5

\* ... and put together again.
LEMMA InvNext ==
  ASSUME InStep(requests', flight', replies', channel'), Served(channel', caller', sockets', ask_count'),
         Begins', Emptied(channel', start', child', requests', flight', replies'), Asleep(channel', caller', start', starts'),
         Unforgotten(channel', caller', woken'), woken' \subseteq Tasks, starts' \in Nat, ask_count' \in Nat
  PROVE  ConnectorInv'
<1>1. Stands'
  BY DEF Stands, Emptied, Asleep, Sleepers, Awaits
<1>2. \A kind : Room(Pumping', kind) <=> RoomOf(channel', kind)
  BY DEF Room, RoomOf, Pumping, KindCount
<1>3. NoneForgotten'
  BY <1>2 DEF NoneForgotten, Unforgotten, Sleepers, Awaits, Room, RoomOf, Pumping, KindCount
<1> QED BY <1>1, <1>3 DEF ConnectorInv

\* A stream with nothing in it.
LEMMA EmptyInStep ==
  ASSUME NEW ch, ChannelShape(ch), ch.pending = <<>>, ch.passing = 0
  PROVE  InStep(<<>>, <<>>, <<>>, ch)
<1>1. Len(<<>>) = 0 /\ 1 .. 0 = {}
  OBVIOUS
<1>2. HeadsAt(<<>>) = {} /\ HeadTags(<<>>) = {} /\ TagsOf(<<>>) = {}
  BY <1>1 DEF HeadsAt, HeadTags, TagsOf
<1>3. OnePlaceEach(<<>>, <<>>, <<>>, ch)
  BY <1>1, <1>2, NothingPending DEF OnePlaceEach, Once, HeadsOnce
<1>4. SameIds(<<>>, <<>>, ch) /\ Paired(<<>>, ch)
  BY <1>1, <1>2 DEF SameIds, Paired
<1> QED BY <1>3, <1>4 DEF InStep

\* A step that gives the stream up keeps the invariant.
LEMMA FallsKeeps ==
  ASSUME ConnectorInv, NEW why \in {"ended", "unsent", "closed"}, NEW ch, NEW ca, NEW so, Left(why, ch, ca, so),
         channel' = ch, sockets' = so, requests' = <<>>, flight' = <<>>, replies' = <<>>, child' = "gone", start' = "none",
         UNCHANGED <<made, heldBy, statusPipe, starts, ask_count>>,
         Served(ch, caller', so, ask_count),
         \A u \in Tasks : caller'[u] = ca[u] \/ (~Awaits(caller'[u]) /\ caller'[u].stream \in {ca[u].stream, 0}),
         \A u \in Sleepers : u \in woken' \/ ~Awaits(caller'[u]), woken' \subseteq Tasks
  PROVE  ConnectorInv'
<1>1. /\ Begins /\ Asleep(channel, caller, start, starts) /\ starts \in Nat /\ ask_count \in Nat
  BY InvIs
<1>2. ChannelShape(ch) /\ ch.lost = why /\ ch.pending = <<>> /\ ch.passing = 0 /\ Kept(caller, ca) /\ \A t \in Sleepers : ca[t].out # ""
  BY DEF Left
<1>3. InStep(requests', flight', replies', channel')
  BY <1>2, EmptyInStep
<1>4. Served(channel', caller', sockets', ask_count')
  OBVIOUS
<1>5. Begins'
  BY <1>1 DEF Begins
<1>6. Emptied(channel', start', child', requests', flight', replies')
  BY <1>2 DEF Emptied
<1>7. \A u \in Tasks : ca[u].pc = caller[u].pc /\ ca[u].stream = caller[u].stream
  BY <1>2 DEF Kept
<1>8. \A u \in Tasks : Awaits(caller'[u]) => caller'[u] = ca[u] /\ u \in Sleepers /\ caller'[u].out # ""
  BY <1>2, <1>7 DEF Awaits, Sleepers
<1>9. \A u \in Tasks : caller'[u].stream <= starts
  <2>1. \A u \in Tasks : caller[u].stream <= starts
    BY <1>1 DEF Asleep
  <2>2. \A u \in Tasks : caller'[u].stream \in {caller[u].stream, 0}
    BY <1>7
  <2>3. 0 <= starts
    BY <1>1
  <2> QED BY ONLY <2>1, <2>2, <2>3
<1>10. Asleep(channel', caller', start', starts')
  BY <1>2, <1>8, <1>9 DEF Asleep
<1>11. Unforgotten(channel', caller', woken')
  BY <1>8 DEF Unforgotten
<1> QED BY <1>1, <1>3, <1>4, <1>5, <1>6, <1>10, <1>11, InvNext

NoMoreRoom(ch, dh) == \A kind : RoomOf(dh, kind) => RoomOf(ch, kind)
MayWait(x, ch, sts) == Awaits(x) => x.out = "" /\ x.stream = sts /\ (x.pc = "room" => ~RoomOf(ch, x.kind))

WokenBy(pr, t, wn) == wn = (IF pr THEN woken \cup Sleepers ELSE woken) \ {t}

\* A step of one task on a stream that stands keeps the invariant.
LEMMA StaysKeeps ==
  ASSUME ConnectorInv, channel.lost = "", NEW rp, NEW ch, NEW ca, NEW so, NEW pr, Reading(rp, ch, ca, so, pr), NEW t, t \in Sleepers,
         InStep(requests', flight', replies', channel'), Served(channel', caller', sockets', ask_count), channel'.lost = "",
         NoMoreRoom(ch, channel'), OthersAs(ca, caller', t), caller'[t].stream \in {caller[t].stream, 0},
         MayWait(caller'[t], channel', starts),
         WokenBy(pr, t, woken'),
         UNCHANGED <<child, start, made, heldBy, statusPipe, starts, ask_count>>
  PROVE  ConnectorInv'
<1>0. /\ \A kind : RoomOf(channel', kind) => RoomOf(ch, kind)
      /\ \A u \in Tasks : u # t => caller'[u] = ca[u]
      /\ Awaits(caller'[t]) => caller'[t].out = "" /\ caller'[t].stream = starts
                               /\ (caller'[t].pc = "room" => ~RoomOf(channel', caller'[t].kind))
  BY DEF NoMoreRoom, OthersAs, MayWait
<1>1. /\ Begins /\ Asleep(channel, caller, start, starts) /\ Unforgotten(channel, caller, woken)
      /\ woken \subseteq Tasks /\ starts \in Nat /\ ask_count \in Nat
  BY InvIs
<1>2. /\ Kept(caller, ca) /\ pr \in BOOLEAN
      /\ ~pr => ch.pending = channel.pending /\ ch.greeted = channel.greeted /\ ca = caller
      /\ ch.lost = ""
  BY DEF Reading
<1>3. Begins'
  BY <1>1 DEF Begins
<1>4. Emptied(channel', start', child', requests', flight', replies')
  BY DEF Emptied
<1>5. \A u \in Tasks : ca[u].pc = caller[u].pc /\ ca[u].stream = caller[u].stream /\ (ca[u].out = "" => ca[u] = caller[u])
  BY <1>2 DEF Kept
<1>6. \A u \in Tasks : caller'[u].stream <= starts
  <2>1. \A u \in Tasks : caller[u].stream <= starts
    BY <1>1 DEF Asleep
  <2>2. \A u \in Tasks : caller'[u].stream \in {caller[u].stream, 0}
    BY <1>0, <1>5
  <2>4. starts \in Nat
    BY <1>1
  <2>3. 0 <= starts
    BY ONLY <2>4
  <2> QED BY ONLY <2>1, <2>2, <2>3
<1>7. t \in Tasks /\ Awaits(caller[t])
  BY DEF Sleepers, Awaits
<1>8. ASSUME NEW u \in Tasks, Awaits(caller'[u])
      PROVE  (caller'[u].out = "" => caller'[u].stream = starts) /\ (caller'[u].stream = starts => start = "ok")
  <2>1. CASE u = t
    <3>1. caller'[t].stream = starts
      BY <1>0, <1>8, <2>1
    <3>2. caller[t].stream = starts => start = "ok"
      BY <1>1, <1>7 DEF Asleep
    <3>3. ASSUME caller[t].stream # starts PROVE start = "ok"
      <4>1. starts = 0
        BY <3>1, <3>3
      <4>2. caller[t].stream <= 0 /\ caller[t].stream \in Nat
        <5>1. caller[t] \in Calling
          BY <1>7, InvIs DEF Served, Waiting
        <5> QED BY <1>1, <1>7, <4>1, <5>1 DEF Asleep, Calling
      <4>3. caller[t].stream = 0
        BY ONLY <4>2
      <4> QED BY <3>3, <4>1, <4>3
    <3> QED BY <2>1, <3>1, <3>2, <3>3
  <2>2. CASE u # t
    <3>1. caller'[u] = ca[u] /\ Awaits(caller[u]) /\ caller'[u].stream = caller[u].stream
      BY <1>0, <1>5, <1>8, <2>2 DEF Awaits
    <3>2. caller'[u].out = "" => caller[u].out = ""
      BY <1>5, <3>1
    <3> QED BY <1>1, <3>1, <3>2 DEF Asleep
  <2> QED BY <2>1, <2>2
<1>9. Asleep(channel', caller', start', starts')
  BY <1>6, <1>8 DEF Asleep
<1>10. Unforgotten(channel', caller', woken')
  <2> SUFFICES ASSUME NEW u \in Tasks, Awaits(caller'[u]), u \notin woken'
               PROVE  caller'[u].out = "" /\ (caller'[u].pc = "room" => ~RoomOf(channel', caller'[u].kind))
    BY DEF Unforgotten
  <2>1. CASE u = t
    BY <1>0, <2>1
  <2>2. CASE u # t
    <3>1. caller'[u] = ca[u] /\ Awaits(caller[u]) /\ u \in Sleepers
      BY <1>0, <1>5, <2>2 DEF Awaits, Sleepers
    <3>2. ~pr /\ u \notin woken
      BY <1>2, <2>2, <3>1 DEF WokenBy
    <3>3. ca = caller /\ ch.pending = channel.pending /\ ch.greeted = channel.greeted /\ ch.lost = channel.lost
      BY <1>2, <3>2
    <3>4. caller[u].out = "" /\ (caller[u].pc = "room" => ~RoomOf(channel, caller[u].kind))
      BY <1>1, <3>1, <3>2 DEF Unforgotten
    <3>5. \A kind : RoomOf(ch, kind) => RoomOf(channel, kind)
      BY <3>3 DEF RoomOf
    <3> QED BY <1>0, <3>1, <3>3, <3>4, <3>5
  <2> QED BY <2>1, <2>2
<1>11. woken' \subseteq Tasks
  BY <1>1 DEF Sleepers, WokenBy
<1> QED BY <1>1, <1>3, <1>4, <1>9, <1>10, <1>11, InvNext

Stood(k, ch, ca, so, pr) == channel.lost = "" /\ Reading(LeftOf(k), ch, ca, so, pr)
Fell(why, ch, ca, so) == child # "none" /\ Left(why, ch, ca, so)
Whys == {"ended", "unsent", "closed"}

\* A stream lost before.
LEMMA LostIs ==
  ASSUME ConnectorInv, channel.lost # ""
  PROVE  channel.lost \in Whys /\ Fell(channel.lost, channel, caller, sockets)
<1>1. /\ InStep(requests, flight, replies, channel) /\ Served(channel, caller, sockets, ask_count)
      /\ Emptied(channel, start, child, requests, flight, replies) /\ Asleep(channel, caller, start, starts)
  BY InvIs
<1>2. ChannelShape(channel)
  BY <1>1 DEF InStep
<1>3. channel.lost \in Whys /\ child = "gone" /\ channel.pending = <<>> /\ channel.passing = 0
  BY <1>1 DEF Emptied, Whys
<1>4. \A t \in Sleepers : caller[t].out # ""
  BY <1>1 DEF Asleep, Awaits, Sleepers
<1>5. Kept(caller, caller)
  BY DEF Kept
<1> QED BY <1>1, <1>2, <1>3, <1>4, <1>5 DEF Fell, Left

\* What a look at the stream finds.
LEMMA Looks ==
  ASSUME ConnectorInv, NEW k \in Nat, k = 0 \/ (channel.lost = "" /\ Reaches(k)), NEW c, c = read_replies(k)
  PROVE  \E ch, ca, so, pr : /\ Pumped(c, ch, ca, so, pr)
                             /\ Stood(k, ch, ca, so, pr) \/ \E why \in Whys : Fell(why, ch, ca, so)
<1>1. /\ InStep(requests, flight, replies, channel) /\ Served(channel, caller, sockets, ask_count)
  BY InvIs
<1>2. CASE channel.lost # ""
  <2>1. k = 0
    BY <1>2
  <2>2. c = Pumping
    BY <2>1, ReadNothing
  <2>3. Pumped(c, channel, caller, sockets, FALSE)
    BY <2>2 DEF Pumped, Pumping
  <2> QED BY <1>2, <2>3, LostIs
<1>3. CASE channel.lost = ""
  <2>1. Readable /\ replies \in Seq(Wire)
    BY <1>1, <1>3 DEF Readable, InStep
  <2>2. Reaches(k)
    <3>1. CASE k = 0
      <4>1. Len(Stream) \in Nat
        BY <2>1, StreamLength
      <4>2. 0 <= Len(Stream)
        BY ONLY <4>1
      <4> QED BY <3>1, <4>2 DEF Reaches
    <3> QED BY <3>1
  <2>3. ReadTo(c, k)
    BY <2>1, <2>2, ReadReplies
  <2>4. child \in {"zombie", "gone"} => child # "none"
    OBVIOUS
  <2> QED BY <1>3, <2>3, <2>4 DEF ReadTo, Stood, Fell, Whys
<1> QED BY <1>2, <1>3

\* What a look leaves of a stream that stands.
LEMMA SyncStays ==
  ASSUME NEW c, NEW ch, NEW ca, NEW so, NEW pr, Pumped(c, ch, ca, so, pr), ch.lost = "", NEW k, NEW sent, Sync(c, k, sent)
  PROVE  /\ channel' = ch /\ sockets' = so /\ requests' = requests \o sent /\ replies' = LeftOf(k)
         /\ UNCHANGED <<child, start, made, heldBy, statusPipe, starts, ask_count>> /\ flight' = flight
<1>1. c.channel = ch /\ c.sockets = so
  BY DEF Pumped
<1> QED BY <1>1 DEF Sync, LeftOf

\* What it leaves of one given up.
LEMMA SyncFalls ==
  ASSUME NEW c, NEW ch, NEW ca, NEW so, NEW pr, Pumped(c, ch, ca, so, pr), ch.lost # "", child # "none", NEW k, NEW sent, Sync(c, k, sent)
  PROVE  /\ channel' = ch /\ sockets' = so /\ requests' = <<>> /\ flight' = <<>> /\ replies' = <<>>
         /\ child' = "gone" /\ start' = "none" /\ UNCHANGED <<made, heldBy, statusPipe, starts, ask_count>>
<1>1. c.channel = ch /\ c.sockets = so
  BY DEF Pumped
<1> QED BY <1>1 DEF Sync

\* Whoever still waits on a stream given up is woken.
LEMMA AllWoken ==
  ASSUME ConnectorInv, NEW why \in Whys, NEW ch, NEW ca, NEW so, NEW pr, Fell(why, ch, ca, so), NEW c, Pumped(c, ch, ca, so, pr), NEW t
  PROVE  Sleepers \ {t} \subseteq pump_wakes(c, t) /\ pump_wakes(c, t) \subseteq Tasks
<1>1. Unforgotten(channel, caller, woken) /\ woken \subseteq Tasks
  BY InvIs
<1>2. c.channel = ch /\ ch.lost = why /\ why # ""
  BY DEF Pumped, Fell, Left, Whys
<1>3. channel.lost # "" => Sleepers \subseteq woken
  BY <1>1 DEF Unforgotten, Sleepers, Awaits
<1> QED BY <1>1, <1>2, <1>3 DEF pump_wakes, Sleepers

\* Whom pump wakes.
LEMMA WakesIs ==
  ASSUME NEW c, NEW k, NEW ch, NEW ca, NEW so, NEW pr, Stood(k, ch, ca, so, pr), Pumped(c, ch, ca, so, pr), NEW t
  PROVE  WokenBy(pr, t, pump_wakes(c, t))
<1>1. c.channel = ch /\ c.progress = pr /\ ch.lost = channel.lost
  BY DEF Pumped, Stood, Reading
<1> QED BY <1>1 DEF pump_wakes, WokenBy

\* A task answered, returns.
LEMMA ReturnKeeps ==
  ASSUME ConnectorInv, NEW t, t \in Sleepers, NEW k, NEW c, NEW ch, NEW ca, NEW so, NEW pr, Pumped(c, ch, ca, so, pr),
         Stood(k, ch, ca, so, pr) \/ \E why \in Whys : Fell(why, ch, ca, so), ca[t].out # "",
         Sync(c, k, <<>>), Leaves(ca, t, caller'), woken' = pump_wakes(c, t)
  PROVE  ConnectorInv'
<1>0. t \in Tasks /\ Awaits(caller[t])
  BY DEF Sleepers, Awaits
<1>1. CASE Stood(k, ch, ca, so, pr)
  <2>1. InStep(requests, flight, LeftOf(k), ch) /\ Served(ch, ca, so, ask_count) /\ Kept(caller, ca) /\ ch.lost = ""
    BY <1>1 DEF Stood, Reading
  <2>2. ChannelShape(ch) /\ ca[t].pc \in {"room", "asked"} /\ ca[t].stream = caller[t].stream
    BY <1>0, <2>1 DEF InStep, Kept, Awaits
  <2>3. /\ channel' = ch /\ sockets' = so /\ requests' = requests \o <<>> /\ replies' = LeftOf(k)
        /\ UNCHANGED <<child, start, made, heldBy, statusPipe, starts, ask_count>> /\ flight' = flight
    BY <2>1, SyncStays
  <2>4. requests' = requests
    BY <2>1, <2>3, ConcatEmptySeq DEF InStep
  <2>5. /\ Served(ch, caller', so, ask_count) /\ caller'[t].pc \notin {"room", "asked"} /\ \A u \in Tasks : u # t => caller'[u] = ca[u]
        /\ caller'[t].stream \in {ca[t].stream, 0}
    BY <1>0, <2>1, <2>2, LeavesKeeps
  <2>6. WokenBy(pr, t, woken')
    BY <1>1, WakesIs
  <2>7. channel.lost = "" /\ Reading(LeftOf(k), ch, ca, so, pr)
    BY <1>1 DEF Stood
  <2>8. InStep(requests', flight', replies', channel') /\ Served(channel', caller', sockets', ask_count) /\ channel'.lost = ""
    BY <2>1, <2>3, <2>4, <2>5
  <2>9. ~Awaits(caller'[t])
    BY <2>5 DEF Awaits
  <2>10. NoMoreRoom(ch, channel') /\ OthersAs(ca, caller', t) /\ MayWait(caller'[t], channel', starts)
    BY <2>3, <2>5, <2>9 DEF NoMoreRoom, OthersAs, MayWait
  <2>11. caller'[t].stream \in {caller[t].stream, 0}
    BY <2>2, <2>5
  <2> QED BY ONLY ConnectorInv, t \in Sleepers, <2>3, <2>5, <2>6, <2>7, <2>8, <2>10, <2>11, StaysKeeps
<1>2. ASSUME NEW why \in Whys, Fell(why, ch, ca, so) PROVE ConnectorInv'
  <2>1. Left(why, ch, ca, so) /\ child # "none" /\ ch.lost # ""
    BY <1>2 DEF Fell, Left, Whys
  <2>2. ChannelShape(ch) /\ Served(ch, ca, so, ask_count) /\ Kept(caller, ca)
    BY <2>1 DEF Left
  <2>3. ca[t].pc \in {"room", "asked"}
    BY <1>0, <2>2 DEF Kept, Awaits
  <2>4. /\ channel' = ch /\ sockets' = so /\ requests' = <<>> /\ flight' = <<>> /\ replies' = <<>>
        /\ child' = "gone" /\ start' = "none" /\ UNCHANGED <<made, heldBy, statusPipe, starts, ask_count>>
    BY <2>1, SyncFalls
  <2>5. /\ Served(ch, caller', so, ask_count) /\ caller'[t].pc \notin {"room", "asked"} /\ \A u \in Tasks : u # t => caller'[u] = ca[u]
        /\ caller'[t].stream \in {ca[t].stream, 0}
    BY <1>0, <2>2, <2>3, LeavesKeeps
  <2>6. Sleepers \ {t} \subseteq woken' /\ woken' \subseteq Tasks
    BY <1>2, AllWoken
  <2>7. \A u \in Tasks : caller'[u] = ca[u] \/ (~Awaits(caller'[u]) /\ caller'[u].stream \in {ca[u].stream, 0})
    BY <2>5 DEF Awaits
  <2>8. \A u \in Sleepers : u \in woken' \/ ~Awaits(caller'[u])
    BY <2>5, <2>6 DEF Awaits
  <2>9. why \in {"ended", "unsent", "closed"}
    BY DEF Whys
  <2> QED BY ONLY ConnectorInv, <2>1, <2>4, <2>5, <2>6, <2>7, <2>8, <2>9, FallsKeeps
<1> QED BY <1>1, <1>2

\* A task without its answer waits on the stream that stands.
Up(ch) == ch.lost = ""

\* A task without its answer is as it was, on the stream that stands.
LEMMA StillWaits ==
  ASSUME ConnectorInv, NEW t, t \in Sleepers, NEW k, NEW ch, NEW ca, NEW so, NEW pr, Stood(k, ch, ca, so, pr), Untold(ca[t])
  PROVE  /\ t \in Tasks /\ Awaits(caller[t]) /\ ca[t] = caller[t] /\ caller[t].stream = starts
         /\ InStep(requests, flight, LeftOf(k), ch) /\ Served(ch, ca, so, ask_count) /\ Up(ch) /\ ChannelShape(ch)
         /\ Up(channel) /\ Reading(LeftOf(k), ch, ca, so, pr)
<1>1. t \in Tasks /\ Awaits(caller[t])
  BY DEF Sleepers, Awaits
<1>2. channel.lost = "" /\ Reading(LeftOf(k), ch, ca, so, pr)
  BY DEF Stood
<1>3. InStep(requests, flight, LeftOf(k), ch) /\ Served(ch, ca, so, ask_count) /\ Kept(caller, ca) /\ ch.lost = ""
  BY <1>2 DEF Reading
<1>4. ca[t] = caller[t]
  BY <1>1, <1>3 DEF Kept, Untold
<1>5. Asleep(channel, caller, start, starts)
  BY InvIs
<1>6. caller[t].stream = starts
  BY <1>1, <1>4, <1>5 DEF Asleep, Untold
<1> QED BY <1>1, <1>2, <1>3, <1>4, <1>6 DEF InStep, Up

\* Room is of the record alone.
LEMMA RoomIs ==
  ASSUME NEW c, NEW ch, NEW ca, NEW so, NEW pr, Pumped(c, ch, ca, so, pr), NEW kind
  PROVE  Room(c, kind) <=> RoomOf(ch, kind)
<1>1. c.channel = ch
  BY DEF Pumped
<1> QED BY <1>1 DEF Room, RoomOf, KindCount

\* A task that finds no answer and no room waits on.
LEMMA WaitKeeps ==
  ASSUME ConnectorInv, NEW t, t \in Sleepers, NEW k, NEW c, NEW ch, NEW ca, NEW so, NEW pr, Pumped(c, ch, ca, so, pr),
         Stood(k, ch, ca, so, pr), Untold(ca[t]), ~(caller[t].pc = "room" /\ Room(c, caller[t].kind)),
         Sync(c, k, <<>>), caller' = c.caller, woken' = pump_wakes(c, t)
  PROVE  ConnectorInv'
<1>1. /\ t \in Tasks /\ Awaits(caller[t]) /\ ca[t] = caller[t] /\ caller[t].stream = starts
      /\ InStep(requests, flight, LeftOf(k), ch) /\ Served(ch, ca, so, ask_count) /\ Up(ch)
      /\ Up(channel) /\ Reading(LeftOf(k), ch, ca, so, pr)
  <2>1. ConnectorInv /\ t \in Sleepers /\ Stood(k, ch, ca, so, pr) /\ Untold(ca[t])
    OBVIOUS
  <2> QED BY ONLY <2>1, StillWaits
<1>2. /\ channel' = ch /\ sockets' = so /\ requests' = requests \o <<>> /\ replies' = LeftOf(k)
      /\ UNCHANGED <<child, start, made, heldBy, statusPipe, starts, ask_count>> /\ flight' = flight
  BY <1>1, SyncStays DEF Up
<1>3. requests' = requests /\ caller' = ca
  BY <1>1, <1>2, ConcatEmptySeq DEF InStep, Pumped
<1>4. WokenBy(pr, t, woken')
  BY WakesIs
<1>5. ~(caller[t].pc = "room" /\ RoomOf(ch, caller[t].kind))
  BY RoomIs
<1>6. NoMoreRoom(ch, channel') /\ OthersAs(ca, caller', t) /\ MayWait(caller'[t], channel', starts)
  BY <1>1, <1>2, <1>3, <1>5 DEF NoMoreRoom, OthersAs, MayWait, Untold
<1>7. caller'[t].stream \in {caller[t].stream, 0}
  BY <1>1, <1>3
<1>8. InStep(requests', flight', replies', channel') /\ Served(channel', caller', sockets', ask_count) /\ channel'.lost = "" /\ channel.lost = ""
  BY <1>1, <1>2, <1>3 DEF Up
<1> QED BY ONLY ConnectorInv, t \in Sleepers, <1>1, <1>2, <1>4, <1>6, <1>7, <1>8, StaysKeeps

\* A request sent whole.
LEMMA SentKeeps ==
  ASSUME ConnectorInv, NEW t, t \in Sleepers, NEW k, NEW c, NEW ch, NEW ca, NEW so, NEW pr, Pumped(c, ch, ca, so, pr),
         Stood(k, ch, ca, so, pr), Untold(ca[t]), caller[t].pc = "room", Room(c, caller[t].kind),
         NEW g, g = FreeTag(c), NEW p, p = [caller |-> t, id |-> ca[t].id, kind |-> ca[t].kind, given_up |-> FALSE],
         NEW d, NEW dh, Asks(ch, g, p, dh), Pumped(d, dh, ca, so, pr),
         Sync(d, k, <<[tag |-> g, id |-> ca[t].id, request |-> ca[t].request]>>),
         Asked(ca, t, caller'), woken' = pump_wakes(c, t)
  PROVE  ConnectorInv'
<1>1. /\ t \in Tasks /\ Awaits(caller[t]) /\ ca[t] = caller[t] /\ caller[t].stream = starts
      /\ InStep(requests, flight, LeftOf(k), ch) /\ Served(ch, ca, so, ask_count) /\ Up(ch) /\ ChannelShape(ch)
      /\ Up(channel) /\ Reading(LeftOf(k), ch, ca, so, pr)
  <2>1. ConnectorInv /\ t \in Sleepers /\ Stood(k, ch, ca, so, pr) /\ Untold(ca[t])
    OBVIOUS
  <2> QED BY ONLY <2>1, StillWaits
<1>2. RoomOf(ch, caller[t].kind)
  BY RoomIs
<1>3. Cardinality(DOMAIN ch.pending) < Flight
  BY <1>2 DEF RoomOf
<1>4. g \in Tag /\ g \notin DOMAIN ch.pending
  <2>1. c.channel = ch
    BY DEF Pumped
  <2> QED BY <1>1, <1>3, <2>1, FreeTagIs
<1>5. ca[t] \in Calling /\ Called(ca[t], ask_count)
  BY <1>1 DEF Served, Waiting
<1>6. p \in Pended /\ p.caller = t /\ p.id = ca[t].id
  BY <1>1, <1>5 DEF Calling, Pended
<1>a. ca[t].request \in Requests
  BY <1>1, <1>5 DEF Called, Awaits
<1>7. /\ ChannelShape(dh) /\ dh.lost = ch.lost /\ dh.greeted = ch.greeted
      /\ DOMAIN dh.pending = DOMAIN ch.pending \cup {g} /\ \A h \in DOMAIN ch.pending : dh.pending[h] = ch.pending[h]
  <2>1. Asks(ch, g, p, dh)
    OBVIOUS
  <2> QED BY ONLY <1>1, <1>3, <1>4, <1>6, <2>1, AskingIs
<1> DEFINE q == [tag |-> g, id |-> ca[t].id, request |-> ca[t].request]
<1>8. q = [tag |-> g, id |-> p.id, request |-> ca[t].request] /\ q \in Sent
  BY <1>4, <1>5, <1>6, <1>a DEF Sent, Pended, Calling
<1>9. Sync(d, k, <<q>>)
  OBVIOUS
<1> HIDE DEF q
<1>10. InStep(Append(requests, q), flight, LeftOf(k), dh)
  BY <1>1, <1>3, <1>4, <1>6, <1>8, <1>a, AskKeeps
<1>11. /\ channel' = dh /\ sockets' = so /\ requests' = requests \o <<q>> /\ replies' = LeftOf(k)
       /\ UNCHANGED <<child, start, made, heldBy, statusPipe, starts, ask_count>> /\ flight' = flight
  BY <1>1, <1>7, <1>9, SyncStays DEF Up
<1>12. requests' = Append(requests, q)
  BY <1>1, <1>8, <1>11, AppendIsConcat DEF InStep
<1>13. /\ Served(dh, caller', so, ask_count) /\ OthersAs(ca, caller', t)
       /\ caller'[t].pc = "asked" /\ Untold(caller'[t]) /\ caller'[t].stream = ca[t].stream
  <2>1. Served(ch, ca, so, ask_count) /\ Asked(ca, t, caller') /\ AskFits(ch, g, p, ca, t, dh)
    BY <1>1, <1>3, <1>4, <1>6 DEF AskFits
  <2> QED BY ONLY <2>1, AskServed
<1>14. WokenBy(pr, t, woken')
  BY WakesIs
<1>15. NoMoreRoom(ch, channel')
  <2>1. DOMAIN ch.pending \subseteq DOMAIN dh.pending /\ \A h \in DOMAIN ch.pending : dh.pending[h].kind = ch.pending[h].kind
    BY <1>7
  <2>2. \A kind : RoomOf(dh, kind) => RoomOf(ch, kind)
    BY <1>1, <1>7, <2>1, LessRoom
  <2> QED BY <1>11, <2>2 DEF NoMoreRoom
<1>16. OthersAs(ca, caller', t) /\ MayWait(caller'[t], channel', starts) /\ caller'[t].stream \in {caller[t].stream, 0}
  BY <1>1, <1>13 DEF OthersAs, MayWait, Untold
<1>17. InStep(requests', flight', replies', channel') /\ Served(channel', caller', sockets', ask_count) /\ channel'.lost = "" /\ channel.lost = ""
  BY <1>1, <1>7, <1>10, <1>11, <1>12, <1>13 DEF Up
<1> QED BY ONLY ConnectorInv, t \in Sleepers, <1>1, <1>11, <1>14, <1>15, <1>16, <1>17, StaysKeeps

\* A request not taken whole: the stream is given up.
LEMMA UnsentKeeps ==
  ASSUME ConnectorInv, NEW t, t \in Sleepers, NEW k, NEW c, NEW ch, NEW ca, NEW so, NEW pr, Pumped(c, ch, ca, so, pr),
         Stood(k, ch, ca, so, pr), Untold(ca[t]), caller[t].pc = "room",
         NEW d, d = Lose(c, "unsent"), Sync(d, k, <<>>), caller' = [d.caller EXCEPT ![t] = IdleTask], woken' = pump_wakes(d, t)
  PROVE  ConnectorInv'
<1>1. /\ t \in Tasks /\ Awaits(caller[t]) /\ ca[t] = caller[t]
      /\ Served(ch, ca, so, ask_count) /\ ChannelShape(ch) /\ Reading(LeftOf(k), ch, ca, so, pr)
  <2>1. ConnectorInv /\ t \in Sleepers /\ Stood(k, ch, ca, so, pr) /\ Untold(ca[t])
    OBVIOUS
  <2> QED BY ONLY <2>1, StillWaits
<1>2. Kept(caller, ca)
  BY <1>1 DEF Reading
<1>3. PICK dh, da : Pumped(d, dh, da, so, pr) /\ Left("unsent", dh, da, so)
  <2>1. Pumped(c, ch, ca, so, pr) /\ d = Lose(c, "unsent")
    OBVIOUS
  <2> QED BY ONLY <1>1, <1>2, <2>1, LoseKeeps
<1>4. "unsent" \in Whys /\ Fell("unsent", dh, da, so) /\ t \in Sleepers
  <2>1. Begins /\ Asleep(channel, caller, start, starts) /\ channel.lost = "" /\ caller[t].out = ""
    BY <1>1, InvIs DEF Stood, Untold
  <2>2. start = "ok"
    BY <1>1, <2>1 DEF Asleep
  <2>3. child # "none"
    BY <2>1, <2>2 DEF Begins
  <2> QED BY <1>3, <2>3 DEF Whys, Fell
<1>5. Served(dh, da, so, ask_count) /\ Kept(caller, da) /\ da[t].out # ""
  BY <1>3, <1>4 DEF Left
<1>6. da[t].pc = "room" /\ Called(da[t], ask_count)
  BY <1>1, <1>5 DEF Served, Waiting, Kept
<1>7. da[t].out # "socket"
  BY <1>6 DEF Called
<1>8. d.caller = da
  BY <1>3 DEF Pumped
<1>9. Leaves(da, t, caller')
  BY <1>7, <1>8 DEF Leaves
<1>10. Stood(k, dh, da, so, pr) \/ \E why \in Whys : Fell(why, dh, da, so)
  BY <1>4
<1>11. ConnectorInv /\ Sync(d, k, <<>>) /\ woken' = pump_wakes(d, t) /\ t \in Sleepers
  OBVIOUS
<1> QED BY ONLY <1>3, <1>5, <1>9, <1>10, <1>11, ReturnKeeps

\* A task with room sends its request.
LEMMA SendKeeps ==
  ASSUME ConnectorInv, NEW t, t \in Sleepers, NEW k, NEW c, NEW ch, NEW ca, NEW so, NEW pr, Pumped(c, ch, ca, so, pr),
         Stood(k, ch, ca, so, pr), Untold(ca[t]), caller[t].pc = "room", Room(c, caller[t].kind), Send(c, k, t)
  PROVE  ConnectorInv'
<1> DEFINE g == FreeTag(c)
           p == [caller |-> t, id |-> ca[t].id, kind |-> ca[t].kind, given_up |-> FALSE]
           d == [c EXCEPT !.channel.next_tag = (g % MaxTag) + 1, !.channel.pending = Asking(@, g, p)]
           dh == [ch EXCEPT !.next_tag = (g % MaxTag) + 1, !.pending = Asking(@, g, p)]
           broken == Lose(c, "unsent")
           q == [tag |-> g, id |-> ca[t].id, request |-> ca[t].request]
<1>1. c = [channel |-> ch, caller |-> ca, sockets |-> so, progress |-> pr] /\ c.caller = ca /\ c.channel = ch
  BY DEF Pumped
<1>2. \/ /\ Sync(broken, k, <<>>) /\ caller' = [broken.caller EXCEPT ![t] = IdleTask]
         /\ woken' = pump_wakes(broken, t)
      \/ /\ child \notin {"zombie", "gone"}
         /\ Sync(d, k, <<q>>)
         /\ caller' = [ca EXCEPT ![t].pc = "asked"]
         /\ woken' = pump_wakes(c, t)
  BY <1>1, Zenon DEF Send, Asking
<1>3. Pumped(d, dh, ca, so, pr)
  <2> DEFINE m == (g % MaxTag) + 1
             A == Asking(ch.pending, g, p)
             e1 == [greeted |-> ch.greeted, pending |-> ch.pending, next_tag |-> m, passing |-> ch.passing, lost |-> ch.lost]
             e2 == [greeted |-> ch.greeted, pending |-> A, next_tag |-> m, passing |-> ch.passing, lost |-> ch.lost]
  <2>1. ch = [greeted |-> ch.greeted, pending |-> ch.pending, next_tag |-> ch.next_tag, passing |-> ch.passing, lost |-> ch.lost]
    <3>1. ChannelShape(ch)
      BY DEF Stood, Reading, InStep
    <3> QED BY <3>1, ChannelHas
  <2>2. [ch EXCEPT !.next_tag = m] = e1
    <3> HIDE DEF m
    <3> QED BY ONLY <2>1
  <2>3. e1.pending = ch.pending
    OBVIOUS
  <2>4. [e1 EXCEPT !.pending = A] = e2
    OBVIOUS
  <2> DEFINE f1 == [channel |-> e1, caller |-> ca, sockets |-> so, progress |-> pr]
             f2 == [channel |-> e2, caller |-> ca, sockets |-> so, progress |-> pr]
  <2>5. dh = [[ch EXCEPT !.next_tag = m] EXCEPT !.pending = Asking(@, g, p)]
    OBVIOUS
  <2>6. d = f2
    <3>1. d = [[c EXCEPT !.channel.next_tag = m] EXCEPT !.channel.pending = Asking(@, g, p)]
      OBVIOUS
    <3>2. [c EXCEPT !.channel.next_tag = m] = [c EXCEPT !.channel = [ch EXCEPT !.next_tag = m]]
      <4> HIDE DEF m
      <4> QED BY <1>1
    <3>3. [c EXCEPT !.channel = e1] = f1
      <4> HIDE DEF e1
      <4> QED BY <1>1
    <3>4. f1.channel = e1
      OBVIOUS
    <3> HIDE DEF g, p, m, d
    <3>5. [f1 EXCEPT !.channel.pending = Asking(@, g, p)] = [f1 EXCEPT !.channel = [e1 EXCEPT !.pending = A]]
      <4> HIDE DEF A, e1
      <4>1. Asking(f1.channel.pending, g, p) = A
        BY <2>3, <3>4 DEF A
      <4> HIDE DEF f1
      <4> QED BY <3>4, <4>1
    <3>6. [f1 EXCEPT !.channel = e2] = f2
      <4> HIDE DEF e1, e2
      <4> QED OBVIOUS
    <3>7. [c EXCEPT !.channel.next_tag = m] = f1
      <4> HIDE DEF e1, f1
      <4> QED BY <2>2, <3>2, <3>3
    <3>8. [f1 EXCEPT !.channel.pending = Asking(@, g, p)] = f2
      <4> HIDE DEF e1, e2, f1, f2, A
      <4> QED BY <2>4, <3>5, <3>6
    <3> HIDE DEF f1, f2
    <3> QED BY <3>1, <3>7, <3>8
  <2>7. dh = e2
    <3>1. [e1 EXCEPT !.pending = Asking(@, g, p)] = [e1 EXCEPT !.pending = A]
      BY <2>3
    <3> HIDE DEF e1, e2, A, m
    <3> QED BY <2>2, <2>4, <2>5, <3>1
  <2> HIDE DEF dh, d, e2
  <2>9. d = [channel |-> dh, caller |-> ca, sockets |-> so, progress |-> pr]
    BY <2>6, <2>7
  <2> QED BY <2>9 DEF Pumped
<1>4. Asks(ch, g, p, dh)
  BY DEF Asks
<1> HIDE DEF d, dh, broken, g
<1>5. CASE /\ Sync(broken, k, <<>>) /\ caller' = [broken.caller EXCEPT ![t] = IdleTask]
           /\ woken' = pump_wakes(broken, t)
  BY <1>5, UnsentKeeps DEF broken
<1>6. CASE /\ child \notin {"zombie", "gone"}
           /\ Sync(d, k, <<q>>)
           /\ caller' = [ca EXCEPT ![t].pc = "asked"]
           /\ woken' = pump_wakes(c, t)
  <2>1. Asked(ca, t, caller')
    BY <1>6 DEF Asked
  <2>2. Sync(d, k, <<[tag |-> g, id |-> ca[t].id, request |-> ca[t].request]>>) /\ woken' = pump_wakes(c, t)
    BY <1>6
  <2>3. /\ ConnectorInv /\ t \in Sleepers /\ Pumped(c, ch, ca, so, pr)
        /\ Stood(k, ch, ca, so, pr) /\ Untold(ca[t]) /\ caller[t].pc = "room" /\ Room(c, caller[t].kind)
    OBVIOUS
  <2>4. g = FreeTag(c) /\ p = [caller |-> t, id |-> ca[t].id, kind |-> ca[t].kind, given_up |-> FALSE]
    BY DEF g
  <2> HIDE DEF p
  <2> QED BY ONLY <1>3, <1>4, <2>1, <2>2, <2>3, <2>4, SentKeeps
<1> QED BY <1>2, <1>5, <1>6

\* A task's answer, returned.
LEMMA ReturnedIs ==
  ASSUME NEW c, NEW ch, NEW ca, NEW so, NEW pr, Pumped(c, ch, ca, so, pr), NEW t
  PROVE  Leaves(ca, t, Returned(c, t)) /\ c.caller = ca
<1>1. c.caller = ca
  BY DEF Pumped
<1> QED BY <1>1 DEF Leaves, Returned

\* await: a task resumes and reads what there is.
LEMMA ResumeKeeps ==
  ASSUME ConnectorInv, NEW t \in Tasks, await_resumes(t)
  PROVE  ConnectorInv'
<1>1. PICK k \in (IF Standing(t) THEN 0 .. Len(Stream) ELSE {0}) :
         LET c == read_replies(k)
         IN  IF c.caller[t].out # ""
                  THEN Sync(c, k, <<>>) /\ caller' = Returned(c, t) /\ woken' = pump_wakes(c, t)
                  ELSE IF caller[t].pc = "room" /\ Room(c, caller[t].kind) THEN Send(c, k, t)
                  ELSE Sync(c, k, <<>>) /\ caller' = c.caller /\ woken' = pump_wakes(c, t)
  BY Zenon DEF await_resumes
<1>2. t \in Sleepers
  BY DEF await_resumes
<1>3. k \in Nat /\ (k = 0 \/ (channel.lost = "" /\ Reaches(k)))
  <2>1. CASE Standing(t)
    <3>1. k \in 0 .. Len(Stream)
      BY <2>1
    <3>2. replies \in Seq(Wire)
      BY InvIs DEF InStep
    <3>3. Len(Stream) \in Nat
      BY <3>2, StreamLength
    <3>4. k \in Nat /\ k <= Len(Stream)
      BY ONLY <3>1, <3>3
    <3> QED BY <2>1, <3>4 DEF Standing, Reaches
  <2>2. CASE ~Standing(t)
    BY <2>2
  <2> QED BY <2>1, <2>2
<1> DEFINE c == read_replies(k)
<1>4. IF c.caller[t].out # ""
        THEN Sync(c, k, <<>>) /\ caller' = Returned(c, t) /\ woken' = pump_wakes(c, t)
        ELSE IF caller[t].pc = "room" /\ Room(c, caller[t].kind) THEN Send(c, k, t)
        ELSE Sync(c, k, <<>>) /\ caller' = c.caller /\ woken' = pump_wakes(c, t)
  BY <1>1
<1>5. PICK ch, ca, so, pr : /\ Pumped(c, ch, ca, so, pr)
                            /\ Stood(k, ch, ca, so, pr) \/ \E why \in Whys : Fell(why, ch, ca, so)
  BY <1>3, Looks
<1> HIDE DEF c
<1>6. c.caller = ca
  BY <1>5, ReturnedIs
<1>7. CASE ca[t].out # ""
  <2>1. Leaves(ca, t, caller') /\ Sync(c, k, <<>>) /\ woken' = pump_wakes(c, t)
    BY <1>4, <1>5, <1>6, <1>7, ReturnedIs
  <2> QED BY <1>2, <1>5, <1>7, <2>1, ReturnKeeps
<1>8. CASE ca[t].out = ""
  <2>1. ASSUME NEW why \in Whys, Fell(why, ch, ca, so) PROVE FALSE
    BY <1>2, <1>8, <2>1 DEF Fell, Left
  <2>2. Stood(k, ch, ca, so, pr) /\ Untold(ca[t]) /\ Pumped(c, ch, ca, so, pr) /\ ConnectorInv /\ t \in Sleepers
    BY <1>2, <1>5, <1>8, <2>1 DEF Untold
  <2>3. CASE caller[t].pc = "room" /\ Room(c, caller[t].kind)
    <3>1. Send(c, k, t)
      BY <1>4, <1>6, <1>8, <2>3
    <3> QED BY ONLY <2>2, <2>3, <3>1, SendKeeps
  <2>4. CASE ~(caller[t].pc = "room" /\ Room(c, caller[t].kind))
    <3>1. Sync(c, k, <<>>) /\ caller' = c.caller /\ woken' = pump_wakes(c, t)
      BY <1>4, <1>6, <1>8, <2>4
    <3> QED BY ONLY <2>2, <2>4, <3>1, WaitKeeps
  <2> QED BY <2>3, <2>4
<1> QED BY <1>7, <1>8

\* What Asking.__close changes.
LEMMA AbandonIs ==
  ASSUME NEW c, NEW ch, NEW ca, NEW so, NEW pr, Pumped(c, ch, ca, so, pr), NEW t, NEW d, d = Abandon(c, t)
  PROVE  \E dh, da : Pumped(d, dh, da, so, pr) /\ Forsakes(ch, t, dh) /\ Puts(ca, t, IdleTask, da)
<1> DEFINE dh == [ch EXCEPT !.pending = Forsaken(@, t)]
           da == [ca EXCEPT ![t] = IdleTask]
           f1 == [channel |-> dh, caller |-> ca, sockets |-> so, progress |-> pr]
<1>1. c = [channel |-> ch, caller |-> ca, sockets |-> so, progress |-> pr] /\ c.channel = ch /\ c.caller = ca
  BY DEF Pumped
<1>2. d = [[c EXCEPT !.channel.pending = Forsaken(@, t)] EXCEPT !.caller[t] = IdleTask]
  BY DEF Abandon, Forsaken
<1>3. [c EXCEPT !.channel.pending = Forsaken(@, t)] = [c EXCEPT !.channel = dh]
  BY <1>1
<1>4. Forsakes(ch, t, dh) /\ Puts(ca, t, IdleTask, da)
  BY DEF Forsakes, Puts
<1> HIDE DEF dh
<1>5. [c EXCEPT !.channel = dh] = f1 /\ f1.caller = ca
  BY <1>1
<1>6. [f1 EXCEPT !.caller[t] = IdleTask] = [f1 EXCEPT !.caller = da]
  <2> HIDE DEF f1
  <2> QED BY <1>5
<1> HIDE DEF da
<1>7. [f1 EXCEPT !.caller = da] = [channel |-> dh, caller |-> da, sockets |-> so, progress |-> pr]
  OBVIOUS
<1> HIDE DEF f1
<1>8. d = [channel |-> dh, caller |-> da, sockets |-> so, progress |-> pr]
  BY <1>2, <1>3, <1>5, <1>6, <1>7
<1> QED BY <1>4, <1>8 DEF Pumped

\* A task without its answer leaves: its request stays pending, given up on.
LEMMA GivesUpKeeps ==
  ASSUME ConnectorInv, NEW t, t \in Sleepers, Up(channel), NEW rp, NEW ch, NEW ca, NEW so, NEW pr, Reading(rp, ch, ca, so, pr),
         Untold(ca[t]), NEW dh, Forsakes(ch, t, dh), Puts(ca, t, IdleTask, caller'), WokenBy(pr, t, woken'),
         channel' = dh, sockets' = so, requests' = requests, flight' = flight, replies' = rp,
         UNCHANGED <<child, start, made, heldBy, statusPipe, starts, ask_count>>
  PROVE  ConnectorInv'
<1>1. t \in Tasks
  BY DEF Sleepers
<1>2. InStep(requests, flight, rp, ch) /\ Served(ch, ca, so, ask_count) /\ Up(ch) /\ ChannelShape(ch)
  BY DEF Reading, InStep, Up
<1>3. InStep(requests, flight, rp, dh) /\ Served(dh, caller', so, ask_count) /\ caller'[t] = IdleTask /\ OthersAs(ca, caller', t)
  <2>1. ca[t].out # "socket"
    BY DEF Untold
  <2>2. Forsakes(ch, t, dh) /\ Puts(ca, t, IdleTask, caller')
    OBVIOUS
  <2>3. InStep(requests, flight, rp, dh) /\ Served(dh, caller', so, ask_count) /\ caller'[t] = IdleTask
        /\ \A u \in Tasks : u # t => caller'[u] = ca[u]
    BY ONLY <1>1, <1>2, <2>1, <2>2, AbandonKeeps
  <2> QED BY <2>3 DEF OthersAs
<1>4. /\ ChannelShape(dh) /\ dh.lost = ch.lost /\ dh.greeted = ch.greeted /\ DOMAIN dh.pending = DOMAIN ch.pending
      /\ \A g \in DOMAIN ch.pending : dh.pending[g].kind = ch.pending[g].kind
  BY <1>2, ForsakenIs
<1>5. NoMoreRoom(ch, channel')
  <2>1. DOMAIN ch.pending \subseteq DOMAIN dh.pending
    BY <1>4
  <2>2. \A kind : RoomOf(dh, kind) => RoomOf(ch, kind)
    BY <1>2, <1>4, <2>1, LessRoom
  <2> QED BY <2>2 DEF NoMoreRoom
<1>6. MayWait(caller'[t], channel', starts) /\ caller'[t].stream \in {caller[t].stream, 0}
  BY <1>3, IdleIs DEF MayWait, Awaits
<1>7. InStep(requests', flight', replies', channel') /\ Served(channel', caller', sockets', ask_count) /\ channel'.lost = "" /\ channel.lost = ""
  BY <1>2, <1>3, <1>4 DEF Up
<1>8. ConnectorInv /\ t \in Sleepers /\ Reading(rp, ch, ca, so, pr) /\ WokenBy(pr, t, woken')
      /\ UNCHANGED <<child, start, made, heldBy, statusPipe, starts, ask_count>>
  OBVIOUS
<1> QED BY ONLY <1>3, <1>5, <1>6, <1>7, <1>8, StaysKeeps

\* What a look leaves does not hang on what the callers become.
LEMMA SameLook ==
  ASSUME NEW c, NEW ch, NEW ca, NEW so, NEW pr, Pumped(c, ch, ca, so, pr), NEW d, NEW da, Pumped(d, ch, da, so, pr),
         NEW k, NEW t, Sync(d, k, <<>>), woken' = pump_wakes(d, t)
  PROVE  Sync(c, k, <<>>) /\ woken' = pump_wakes(c, t)
<1>1. c.channel = ch /\ c.sockets = so /\ c.progress = pr /\ d.channel = ch /\ d.sockets = so /\ d.progress = pr
  BY DEF Pumped
<1> QED BY <1>1, Zenon DEF Sync, pump_wakes

\* A task's wait ends with its deadline or a cancel.
LEMMA ExpireKeeps ==
  ASSUME ConnectorInv, NEW t \in Tasks, Expire(t)
  PROVE  ConnectorInv'
<1>1. PICK k \in (IF caller[t].pc = "room" THEN {0} ELSE 0 .. Len(Stream)) :
         LET c == read_replies(k)
             over == IF c.caller[t].out # "" THEN [c EXCEPT !.caller = Returned(c, t)] ELSE Abandon(c, t)
         IN  Sync(over, k, <<>>) /\ caller' = over.caller /\ woken' = pump_wakes(over, t)
  BY DEF Expire
<1>2. t \in Sleepers /\ Standing(t)
  BY DEF Expire
<1>3. k \in Nat /\ (k = 0 \/ (channel.lost = "" /\ Reaches(k)))
  <2>1. CASE caller[t].pc # "room"
    <3>1. k \in 0 .. Len(Stream)
      BY <2>1
    <3>2. replies \in Seq(Wire)
      BY InvIs DEF InStep
    <3>3. Len(Stream) \in Nat
      BY <3>2, StreamLength
    <3>4. k \in Nat /\ k <= Len(Stream)
      BY ONLY <3>1, <3>3
    <3> QED BY <1>2, <3>4 DEF Standing, Reaches
  <2>2. CASE caller[t].pc = "room"
    BY <2>2
  <2> QED BY <2>1, <2>2
<1> DEFINE c == read_replies(k)
           over == IF c.caller[t].out # "" THEN [c EXCEPT !.caller = Returned(c, t)] ELSE Abandon(c, t)
<1>4. Sync(over, k, <<>>) /\ caller' = over.caller /\ woken' = pump_wakes(over, t)
  BY <1>1
<1>5. PICK ch, ca, so, pr : /\ Pumped(c, ch, ca, so, pr)
                            /\ Stood(k, ch, ca, so, pr) \/ \E why \in Whys : Fell(why, ch, ca, so)
  BY <1>3, Looks
<1> HIDE DEF c
<1>6. c.caller = ca
  BY <1>5, ReturnedIs
<1>7. CASE ca[t].out # ""
  <2> DEFINE da == Returned(c, t)
  <2>1. over = [c EXCEPT !.caller = da]
    BY <1>6, <1>7
  <2>2. Leaves(ca, t, da)
    BY <1>5, ReturnedIs
  <2> HIDE DEF da, over
  <2>3. Pumped(over, ch, da, so, pr)
    BY <1>5, <2>1 DEF Pumped
  <2>4. over.caller = da
    BY <2>3 DEF Pumped
  <2>5. Sync(c, k, <<>>) /\ woken' = pump_wakes(c, t)
    BY ONLY <1>4, <1>5, <2>3, SameLook
  <2>6. Leaves(ca, t, caller')
    BY <1>4, <2>2, <2>4
  <2> QED BY <1>2, <1>5, <1>7, <2>5, <2>6, ReturnKeeps
<1>8. CASE ca[t].out = ""
  <2>1. ASSUME NEW why \in Whys, Fell(why, ch, ca, so) PROVE FALSE
    BY <1>2, <1>8, <2>1 DEF Fell, Left
  <2>2. Stood(k, ch, ca, so, pr) /\ Untold(ca[t]) /\ Pumped(c, ch, ca, so, pr) /\ ConnectorInv /\ t \in Sleepers
    BY <1>2, <1>5, <1>8, <2>1 DEF Untold
  <2>3. over = Abandon(c, t)
    BY <1>6, <1>8
  <2> HIDE DEF over
  <2>4. PICK dh, da : Pumped(over, dh, da, so, pr) /\ Forsakes(ch, t, dh) /\ Puts(ca, t, IdleTask, da)
    BY ONLY <2>2, <2>3, AbandonIs
  <2>5. Up(channel) /\ Reading(LeftOf(k), ch, ca, so, pr) /\ ChannelShape(ch) /\ Up(ch) /\ requests \in Seq(Sent)
    BY <2>2 DEF Stood, Up, Reading, InStep
  <2>6. dh.lost = ch.lost
    BY <2>4, <2>5, ForsakenIs
  <2>7. /\ channel' = dh /\ sockets' = so /\ requests' = requests \o <<>> /\ replies' = LeftOf(k)
        /\ UNCHANGED <<child, start, made, heldBy, statusPipe, starts, ask_count>> /\ flight' = flight
    BY <1>4, <2>4, <2>5, <2>6, SyncStays DEF Up
  <2>8. requests' = requests
    BY <2>5, <2>7, ConcatEmptySeq
  <2>9. caller' = da
    BY <1>4, <2>4 DEF Pumped
  <2>10. WokenBy(pr, t, woken')
    <3>1. over.progress = pr /\ over.channel = dh /\ dh.lost = channel.lost
      BY <2>4, <2>5, <2>6 DEF Pumped, Up
    <3> QED BY <1>4, <3>1 DEF pump_wakes, WokenBy
  <2>11. Puts(ca, t, IdleTask, caller') /\ Forsakes(ch, t, dh)
    BY <2>4, <2>9
  <2> QED BY ONLY <2>2, <2>5, <2>7, <2>8, <2>10, <2>11, GivesUpKeeps
<1> QED BY <1>7, <1>8

\* A task with its answer leaves, its socket closed.
LEMMA DoneKeeps ==
  ASSUME ConnectorInv, NEW t \in Tasks, caller[t].out # "", Puts(caller, t, IdleTask, caller'),
         sockets' = sockets \ {caller[t].id}, woken' \in {woken, woken \ {t}},
         UNCHANGED <<channel, ask_count>>, UNCHANGED process, UNCHANGED server
  PROVE  ConnectorInv'
<1>1. /\ InStep(requests, flight, replies, channel) /\ Served(channel, caller, sockets, ask_count)
      /\ Begins /\ Emptied(channel, start, child, requests, flight, replies) /\ Asleep(channel, caller, start, starts)
      /\ Unforgotten(channel, caller, woken) /\ woken \subseteq Tasks /\ starts \in Nat /\ ask_count \in Nat
  BY InvIs
<1>2. /\ channel' = channel /\ ask_count' = ask_count /\ start' = start /\ made' = made /\ heldBy' = heldBy
      /\ statusPipe' = statusPipe /\ child' = child /\ starts' = starts /\ requests' = requests /\ flight' = flight
      /\ replies' = replies
  BY DEF process, server
<1>3. ChannelShape(channel) /\ Waiting(caller, ask_count) /\ Waited(channel, caller) /\ Owned(caller, sockets)
  BY <1>1 DEF InStep, Served
<1>4. Unwaited(channel, t)
  BY <1>3 DEF Waited, Unwaited
<1>5. Owned(caller', sockets')
  <2>1. caller' = [caller EXCEPT ![t] = IdleTask]
    BY DEF Puts
  <2> QED BY <1>3, <2>1, SocketsChanged, IdleIs
<1>6. IdleTask \in Calling /\ Called(IdleTask, ask_count) /\ Follows(IdleTask, caller[t])
  BY IdleIs DEF Called, Follows
<1>7. Served(channel, caller', sockets', ask_count) /\ caller'[t] = IdleTask /\ \A u \in Tasks : u # t => caller'[u] = caller[u]
  <2>1. Puts(caller, t, IdleTask, caller')
    OBVIOUS
  <2> QED BY ONLY t \in Tasks, <1>1, <1>3, <1>4, <1>5, <1>6, <2>1, OneChanged
<1>8. Begins'
  BY <1>1, <1>2 DEF Begins
<1>9. ~Awaits(caller'[t]) /\ caller'[t].stream = 0
  BY <1>7, IdleIs DEF Awaits
<1>10. 0 <= starts
  <2>1. starts \in Nat
    BY <1>1
  <2> QED BY ONLY <2>1
<1>11. Asleep(channel, caller', start, starts)
  BY <1>1, <1>7, <1>9, <1>10 DEF Asleep
<1>12. Unforgotten(channel, caller', woken')
  BY <1>1, <1>7, <1>9 DEF Unforgotten
<1> QED BY <1>1, <1>2, <1>7, <1>8, <1>11, <1>12, InvNext

\* A connection used and closed.
LEMMA UseKeeps ==
  ASSUME ConnectorInv, NEW t \in Tasks, Use(t)
  PROVE  ConnectorInv'
<1>1. Called(caller[t], ask_count)
  BY InvIs DEF Served, Waiting
<1>2. caller[t].out # ""
  BY <1>1 DEF Called, Use
<1> QED BY <1>2, DoneKeeps DEF Use, Puts

\* A task killed in its wait.
LEMMA TaskKilledKeeps ==
  ASSUME ConnectorInv, NEW t \in Tasks, TaskKilled(t)
  PROVE  ConnectorInv'
<1>1. t \in Sleepers /\ woken' = woken \ {t} /\ UNCHANGED <<ask_count, kills>> /\ UNCHANGED process /\ UNCHANGED server
  BY DEF TaskKilled
<1>2. CASE caller[t].out # ""
  <2>1. caller' = [caller EXCEPT ![t] = IdleTask] /\ sockets' = sockets \ {caller[t].id} /\ UNCHANGED channel
    BY <1>2 DEF TaskKilled
  <2> QED BY <1>1, <1>2, <2>1, DoneKeeps DEF Puts
<1>3. CASE caller[t].out = ""
  <2> DEFINE d == Abandon(Pumping, t)
  <2>1. channel' = d.channel /\ caller' = d.caller /\ UNCHANGED sockets
    BY <1>3 DEF TaskKilled
  <2>2. /\ InStep(requests, flight, replies, channel) /\ Served(channel, caller, sockets, ask_count)
        /\ Asleep(channel, caller, start, starts)
    BY InvIs
  <2>3. channel.lost = ""
    BY <1>1, <1>3, <2>2 DEF Asleep, Awaits, Sleepers
  <2>4. Readable /\ Up(channel)
    BY <2>2, <2>3 DEF Readable, Up
  <2>5. Reading(replies, channel, caller, sockets, FALSE) /\ Pumped(Pumping, channel, caller, sockets, FALSE)
    BY <2>4, PumpingReads
  <2>6. PICK dh, da : Pumped(d, dh, da, sockets, FALSE) /\ Forsakes(channel, t, dh) /\ Puts(caller, t, IdleTask, da)
    BY <2>5, AbandonIs
  <2> HIDE DEF d
  <2>7. channel' = dh /\ caller' = da
    BY <2>1, <2>6 DEF Pumped
  <2>8. WokenBy(FALSE, t, woken')
    BY <1>1 DEF WokenBy
  <2>9. /\ sockets' = sockets /\ requests' = requests /\ flight' = flight /\ replies' = replies
        /\ UNCHANGED <<child, start, made, heldBy, statusPipe, starts, ask_count>>
    BY <1>1, <2>1 DEF process, server
  <2>10. Untold(caller[t]) /\ Puts(caller, t, IdleTask, caller')
    BY <1>3, <2>6, <2>7 DEF Untold
  <2> QED BY ONLY ConnectorInv, <1>1, <2>4, <2>5, <2>6, <2>7, <2>8, <2>9, <2>10, GivesUpKeeps
<1> QED BY <1>2, <1>3

\* The connector closed by its owner.
LEMMA CloseKeeps ==
  ASSUME ConnectorInv, Close
  PROVE  ConnectorInv'
<1> DEFINE d == Lose(Pumping, "closed")
<1>1. Sync(d, 0, <<>>) /\ caller' = d.caller /\ woken' = woken \cup Sleepers /\ start = "ok" /\ channel.lost = ""
  BY DEF Close
<1>2. /\ InStep(requests, flight, replies, channel) /\ Served(channel, caller, sockets, ask_count) /\ Begins /\ woken \subseteq Tasks
  BY InvIs
<1>3. ChannelShape(channel) /\ Kept(caller, caller) /\ Pumped(Pumping, channel, caller, sockets, FALSE)
  BY <1>2 DEF InStep, Kept, Pumped, Pumping
<1>4. PICK dh, da : Pumped(d, dh, da, sockets, FALSE) /\ Left("closed", dh, da, sockets)
  BY <1>2, <1>3, LoseKeeps
<1> HIDE DEF d
<1>5. child # "none"
  BY <1>1, <1>2 DEF Begins
<1>6. dh.lost # "" /\ Served(dh, da, sockets, ask_count)
  BY <1>4 DEF Left
<1>7. /\ channel' = dh /\ sockets' = sockets /\ requests' = <<>> /\ flight' = <<>> /\ replies' = <<>>
      /\ child' = "gone" /\ start' = "none" /\ UNCHANGED <<made, heldBy, statusPipe, starts, ask_count>>
  BY <1>1, <1>4, <1>5, <1>6, SyncFalls
<1>8. caller' = da
  BY <1>1, <1>4 DEF Pumped
<1>9. \A u \in Tasks : caller'[u] = da[u] \/ (~Awaits(caller'[u]) /\ caller'[u].stream \in {da[u].stream, 0})
  BY <1>8
<1>10. (\A u \in Sleepers : u \in woken' \/ ~Awaits(caller'[u])) /\ woken' \subseteq Tasks
  BY <1>1, <1>2 DEF Sleepers
<1>11. "closed" \in {"ended", "unsent", "closed"} /\ Served(dh, caller', sockets, ask_count)
  BY <1>6, <1>8
<1> QED BY ONLY ConnectorInv, <1>4, <1>7, <1>9, <1>10, <1>11, FallsKeeps

\* A task asks for a connection: its id is new.
LEMMA AsksKeeps ==
  ASSUME ConnectorInv, NEW t \in Tasks, NEW r \in Requests, connect_asks(t, r)
  PROVE  ConnectorInv'
<1> DEFINE n == ask_count
           x == [pc |-> "room", id |-> n + 1, request |-> r, kind |-> Kind(r), out |-> "", stream |-> starts]
<1>1. /\ caller[t].pc = "idle" /\ start = "ok" /\ channel.lost = "" /\ ask_count' = n + 1
      /\ caller' = [caller EXCEPT ![t] = x] /\ woken' = woken \cup {t} /\ channel' = channel /\ sockets' = sockets
  BY DEF connect_asks
<1>2. /\ InStep(requests, flight, replies, channel) /\ Served(channel, caller, sockets, ask_count)
      /\ Begins /\ Emptied(channel, start, child, requests, flight, replies) /\ Asleep(channel, caller, start, starts)
      /\ Unforgotten(channel, caller, woken) /\ woken \subseteq Tasks /\ starts \in Nat /\ ask_count \in Nat
  BY InvIs
<1>3. /\ start' = start /\ made' = made /\ heldBy' = heldBy
      /\ statusPipe' = statusPipe /\ child' = child /\ starts' = starts /\ requests' = requests /\ flight' = flight
      /\ replies' = replies
  BY DEF connect_asks, process, server
<1>4. Waiting(caller, n) /\ Waited(channel, caller) /\ Owned(caller, sockets) /\ ChannelShape(channel)
  BY <1>2 DEF Served, InStep
<1>5. caller \in [Tasks -> Calling] /\ \A u \in Tasks : Called(caller[u], n)
  BY <1>4 DEF Waiting
<1>6. x.pc = "room" /\ x.id = n + 1 /\ x.request = r /\ x.out = "" /\ x.stream = starts /\ x.kind = Kind(r)
  OBVIOUS
<1>7. x \in Calling
  <2>1. Kind(r) \in {"", "public", "table"}
    BY DEF Kind
  <2>2. n + 1 \in Nat /\ starts \in Nat
    BY <1>2
  <2> QED BY <2>1, <2>2 DEF Calling
<1> HIDE DEF x
<1>8. caller' \in [Tasks -> Calling] /\ caller'[t] = x /\ \A u \in Tasks : u # t => caller'[u] = caller[u]
  BY <1>1, <1>5, <1>7
<1>9. \A i \in 1 .. n : i \in 1 .. n + 1 /\ i # n + 1
  BY <1>2
<1>10. n + 1 \in 1 .. n + 1
  BY <1>2
<1>11. Called(x, n + 1)
  BY <1>6, <1>10 DEF Called
<1>12. \A u \in Tasks : Called(caller'[u], n + 1)
  <2>1. \A u \in Tasks : Called(caller[u], n + 1)
    <3> HIDE DEF n
    <3> QED BY <1>5, <1>9 DEF Called
  <2> QED BY <1>8, <1>11, <2>1
<1>13. \A u, v \in Tasks : caller'[u].pc # "idle" /\ caller'[v].pc # "idle" /\ caller'[u].id = caller'[v].id => u = v
  <2>1. \A u, v \in Tasks : caller[u].pc # "idle" /\ caller[v].pc # "idle" /\ caller[u].id = caller[v].id => u = v
    BY <1>4 DEF Waiting
  <2>2. \A u \in Tasks : u # t /\ caller'[u].pc # "idle" => caller'[u].id # x.id
    <3>1. \A u \in Tasks : caller[u].pc # "idle" => caller[u].id \in 1 .. n
      BY <1>5 DEF Called
    <3> HIDE DEF n
    <3> QED BY <1>6, <1>8, <1>9, <3>1
  <2> QED BY ONLY <1>8, <2>1, <2>2
<1>14. Waiting(caller', n + 1)
  BY <1>8, <1>12, <1>13 DEF Waiting
<1>15. caller[t].out = ""
  BY <1>1, <1>5, IdleIs DEF Called
<1>16. Owned(caller', sockets)
  <2>1. x.out # "socket" /\ caller[t].out # "socket"
    BY <1>6, <1>15
  <2> QED BY <1>1, <1>4, <2>1, SocketsChanged
<1>17. Waited(channel, caller')
  <2>1. \A h \in DOMAIN channel.pending : channel.pending[h].caller \in Tasks
    <3>1. \A h \in DOMAIN channel.pending : channel.pending[h] \in Pended
      BY <1>4, ChannelHas
    <3> QED BY <3>1 DEF Pended
  <2>2. \A h \in DOMAIN channel.pending : ~channel.pending[h].given_up => channel.pending[h].caller # t
    BY <1>1, <1>4 DEF Waited
  <2> QED BY <1>4, <1>8, <2>1, <2>2 DEF Waited
<1>18. Served(channel, caller', sockets, n + 1)
  BY <1>14, <1>16, <1>17 DEF Served
<1>19. Begins'
  BY <1>2, <1>3 DEF Begins
<1>20. Asleep(channel, caller', start, starts)
  <2>1. starts <= starts
    <3>1. starts \in Nat
      BY <1>2
    <3> QED BY ONLY <3>1
  <2> QED BY <1>1, <1>2, <1>6, <1>8, <2>1 DEF Asleep
<1>21. Unforgotten(channel, caller', woken')
  BY <1>1, <1>2, <1>8 DEF Unforgotten
<1>22. n + 1 \in Nat /\ woken' \subseteq Tasks
  <2>1. n \in Nat
    BY <1>2
  <2>2. n + 1 \in Nat
    BY ONLY <2>1
  <2> QED BY <1>1, <1>2, <2>2
<1> HIDE DEF n
<1> QED BY <1>1, <1>2, <1>3, <1>18, <1>19, <1>20, <1>21, <1>22, InvNext

\* A step of the process or the network, of a stream that stands.
LEMMA ProcessKeeps ==
  ASSUME ConnectorInv, Up(channel), InStep(requests', flight', replies', channel'), Begins', UNCHANGED client, starts' = starts,
         start = "ok" => start' = "ok"
  PROVE  ConnectorInv'
<1>1. /\ Served(channel, caller, sockets, ask_count) /\ Asleep(channel, caller, start, starts)
      /\ Unforgotten(channel, caller, woken) /\ woken \subseteq Tasks /\ starts \in Nat /\ ask_count \in Nat
  BY InvIs
<1>2. channel' = channel /\ caller' = caller /\ woken' = woken /\ sockets' = sockets /\ ask_count' = ask_count
  BY DEF client
<1>3. Emptied(channel, start', child', requests', flight', replies')
  BY DEF Emptied, Up
<1>4. Asleep(channel, caller, start', starts)
  BY <1>1 DEF Asleep, Up
<1> QED BY <1>1, <1>2, <1>3, <1>4, InvNext

\* Nothing of the process is left of a stream lost.
LEMMA UpOf ==
  ASSUME ConnectorInv, start # "none" \/ child # "gone" \/ flight # <<>> \/ replies # <<>>
  PROVE  Up(channel)
<1>1. Emptied(channel, start, child, requests, flight, replies)
  BY InvIs
<1> QED BY <1>1 DEF Emptied, Up

\* The record of a new stream.
LEMMA NewChannelIs ==
  /\ ChannelShape(NewChannel) /\ NewChannel.pending = <<>> /\ NewChannel.passing = 0 /\ Up(NewChannel)
<1>1. NewChannel.pending = <<>> /\ NewChannel.passing = 0 /\ Up(NewChannel) /\ NewChannel.greeted = FALSE /\ NewChannel.next_tag = 1
  BY DEF NewChannel, Up
<1>2. NewChannel = [greeted |-> NewChannel.greeted, pending |-> NewChannel.pending, next_tag |-> NewChannel.next_tag,
           passing |-> NewChannel.passing, lost |-> NewChannel.lost]
  BY DEF NewChannel
<1>3. 1 \in Tag
  BY ConnectorAssumption DEF Tag
<1>4. DOMAIN <<>> \subseteq Tag /\ Cardinality(DOMAIN <<>>) <= Flight /\ \A g \in DOMAIN <<>> : <<>>[g] \in Pended
  BY NothingPending
<1> HIDE DEF NewChannel
<1> QED BY <1>1, <1>2, <1>3, <1>4 DEF ChannelShape

\* The process is forked, held, reported or killed.
LEMMA StartKeeps ==
  ASSUME ConnectorInv, Fork \/ Hold \/ Started \/ ProcessKilled
  PROVE  ConnectorInv'
<1>1. InStep(requests, flight, replies, channel) /\ Begins
  BY InvIs
<1>2. UNCHANGED server /\ UNCHANGED client /\ starts' = starts
  BY DEF Fork, Hold, Started, ProcessKilled
<1>3. InStep(requests', flight', replies', channel')
  BY <1>1, <1>2 DEF server, client
<1>4. Up(channel)
  BY UpOf DEF Fork, Hold, Started, ProcessKilled
<1>5. Begins'
  <2>1. CASE Fork
    BY <1>1, <2>1 DEF Begins, Fork, Release
  <2>2. CASE Hold
    BY <1>1, <2>2 DEF Begins, Hold
  <2>3. CASE Started
    BY <1>1, <2>3 DEF Begins, Started, Release
  <2>4. CASE ProcessKilled
    BY <1>1, <2>4 DEF Begins, ProcessKilled
  <2> QED BY <2>1, <2>2, <2>3, <2>4
<1>6. start = "ok" => start' = "ok"
  BY <1>1 DEF Fork, Hold, Started, ProcessKilled, Begins
<1> QED BY <1>2, <1>3, <1>4, <1>5, <1>6, ProcessKeeps

\* The process serves, and the network answers it.
LEMMA ServerKeeps ==
  ASSUME ConnectorInv, Hello \/ connector_loop \/ Network \/ Late
  PROVE  ConnectorInv'
<1>1. InStep(requests, flight, replies, channel) /\ Begins
  BY InvIs
<1>2. UNCHANGED client /\ starts' = starts /\ start' = start
  BY DEF Hello, connector_loop, Network, Late, process
<1>3. InStep(requests', flight', replies', channel')
  BY <1>1, HelloKeeps, LoopKeeps, NetworkKeeps, LateKeeps
<1>4. Up(channel)
  <2>1. CASE Hello \/ connector_loop
    BY <2>1, UpOf DEF Hello, connector_loop
  <2>2. CASE Network \/ Late
    <3>1. (\E i \in 1 .. Len(flight) : TRUE) \/ (\E i \in 1 .. Len(replies) : TRUE)
      BY <2>2 DEF Network, Late
    <3>2. flight # <<>> \/ replies # <<>>
      BY <3>1
    <3> QED BY <3>2, UpOf
  <2> QED BY <2>1, <2>2
<1>5. Begins'
  <2>1. CASE Hello
    BY <1>1, <2>1 DEF Begins, Hello
  <2>2. CASE connector_loop
    <3>1. UNCHANGED <<start, made, heldBy, statusPipe, child>>
      BY <2>2 DEF connector_loop
    <3> QED BY <1>1, <3>1 DEF Begins
  <2>3. CASE Network \/ Late
    <3>1. UNCHANGED <<start, made, heldBy, statusPipe, child>>
      BY <2>3 DEF Network, Late, process
    <3> QED BY <1>1, <3>1 DEF Begins
  <2> QED BY <2>1, <2>2, <2>3
<1> QED BY <1>2, <1>3, <1>4, <1>5, ProcessKeeps

\* Whoever waited on the last stream is told and woken by the time there is a
\* new one.
LEMMA PrepareKeeps ==
  ASSUME ConnectorInv, Prepare
  PROVE  ConnectorInv'
<1>1. /\ Served(channel, caller, sockets, ask_count) /\ Begins /\ Asleep(channel, caller, start, starts)
      /\ Unforgotten(channel, caller, woken) /\ woken \subseteq Tasks /\ starts \in Nat /\ ask_count \in Nat
  BY InvIs
<1>2. /\ start \in {"none", "failed"} /\ starts' = starts + 1 /\ channel' = NewChannel
      /\ requests' = <<>> /\ flight' = <<>> /\ replies' = <<>>
      /\ UNCHANGED <<caller, woken, sockets, ask_count>>
  BY DEF Prepare
<1>3. InStep(requests', flight', replies', channel')
  BY <1>2, NewChannelIs, EmptyInStep
<1>4. Begins'
  BY <1>1 DEF Begins, Prepare, Release
<1>5. Served(NewChannel, caller, sockets, ask_count)
  <2>1. DOMAIN NewChannel.pending = {}
    BY NewChannelIs, NothingPending
  <2>2. Waited(NewChannel, caller)
    BY <2>1 DEF Waited
  <2> QED BY <1>1, <2>2 DEF Served
<1>6. Emptied(NewChannel, start', child', <<>>, <<>>, <<>>)
  BY NewChannelIs DEF Emptied, Up
<1>7. \A u \in Tasks : Awaits(caller[u]) => caller[u].out # "" /\ u \in woken
  BY <1>1, <1>2 DEF Asleep, Unforgotten
<1>8. \A u \in Tasks : caller[u].stream \in Nat /\ caller[u].stream <= starts
  <2>1. \A u \in Tasks : caller[u] \in Calling
    BY <1>1 DEF Served, Waiting
  <2> QED BY <1>1, <2>1 DEF Asleep, Calling
<1>9. starts + 1 \in Nat /\ \A u \in Tasks : caller[u].stream <= starts + 1 /\ caller[u].stream # starts + 1
  <2>1. starts \in Nat
    BY <1>1
  <2> QED BY ONLY <1>8, <2>1
<1>10. Asleep(NewChannel, caller, start', starts + 1)
  BY <1>7, <1>9 DEF Asleep
<1>11. Unforgotten(NewChannel, caller, woken)
  BY <1>7 DEF Unforgotten
<1> QED BY <1>1, <1>2, <1>3, <1>4, <1>5, <1>6, <1>9, <1>10, <1>11, InvNext

\* The invariant at the start.
LEMMA ConnectorInitially == ConnectorInit => ConnectorInv
<1> SUFFICES ASSUME ConnectorInit PROVE ConnectorInv
  OBVIOUS
<1>1. /\ start = "none" /\ made = {} /\ heldBy = <<>> /\ statusPipe = "empty" /\ child = "none"
      /\ requests = <<>> /\ flight = <<>> /\ replies = <<>>
      /\ channel = NewChannel /\ caller = [t \in Tasks |-> IdleTask]
      /\ woken = {} /\ sockets = {} /\ ask_count = 0 /\ starts = 0
  BY DEF ConnectorInit
<1>2. InStep(requests, flight, replies, channel)
  BY <1>1, NewChannelIs, EmptyInStep
<1>3. \A t \in Tasks : caller[t] = IdleTask /\ ~Awaits(caller[t])
  BY <1>1, IdleIs DEF Awaits
<1>4. caller \in [Tasks -> Calling]
  BY <1>1, IdleIs
<1>5. Waiting(caller, ask_count)
  BY <1>3, <1>4, IdleIs DEF Waiting, Called
<1>6. Waited(channel, caller)
  <2>1. DOMAIN channel.pending = {}
    BY <1>1, NewChannelIs, NothingPending
  <2> QED BY <2>1 DEF Waited
<1>7. Owned(caller, sockets)
  BY <1>1, <1>3, IdleIs DEF Owned
<1>8. Begins
  BY <1>1 DEF Begins
<1>9. Stands
  <2>1. Up(channel)
    BY <1>1, NewChannelIs
  <2>2. 0 \in Nat /\ 0 <= 0
    OBVIOUS
  <2>3. \A t \in Tasks : caller[t].stream <= starts
    BY <1>1, <1>3, <2>2, IdleIs
  <2>4. Sleepers = {}
    BY <1>3 DEF Sleepers, Awaits
  <2> QED BY <1>1, <2>1, <2>2, <2>3, <2>4 DEF Stands, Up
<1>10. NoneForgotten
  BY <1>3 DEF NoneForgotten, Sleepers, Awaits
<1> QED BY <1>1, <1>2, <1>5, <1>6, <1>7, <1>8, <1>9, <1>10 DEF ConnectorInv, Served

\* A set of no two members.
LEMMA CountOnce ==
  ASSUME NEW S, \A i, j \in S : i = j
  PROVE  Cardinality(S) = IF S = {} THEN 0 ELSE 1
<1>1. CASE S = {}
  BY <1>1, FS_EmptySet
<1>2. CASE S # {}
  <2>1. PICK i : i \in S
    BY <1>2
  <2>2. S = {i}
    BY <2>1
  <2> QED BY <1>2, <2>2, FS_Singleton
<1> QED BY <1>1, <1>2

\* A pending request is in one of the four places.
LEMMA PlacesAre ==
  ASSUME InStep(requests, flight, replies, channel), NEW g \in Tag
  PROVE  Places(g) = IF g \in DOMAIN channel.pending THEN 1 ELSE 0
<1> DEFINE A == {i \in 1 .. Len(requests) : requests[i].tag = g}
           B == {i \in 1 .. Len(flight) : flight[i].tag = g}
           C == {i \in 1 .. Len(replies) : replies[i].what = "head" /\ replies[i].tag = g}
           pa == channel.passing
           d == IF pa = g THEN 1 ELSE 0
<1>1. OnePlaceEach(requests, flight, replies, channel)
  BY DEF InStep
<1>2. (\A i, j \in A : i = j) /\ (\A i, j \in B : i = j) /\ (\A i, j \in C : i = j)
  BY <1>1 DEF OnePlaceEach, Once, HeadsOnce, HeadsAt
<1>3. (A # {} <=> g \in TagsOf(requests)) /\ (B # {} <=> g \in TagsOf(flight)) /\ (C # {} <=> g \in HeadTags(replies))
  BY DEF TagsOf, HeadTags, HeadsAt
<1>4. /\ TagsOf(requests) \cap TagsOf(flight) = {} /\ TagsOf(requests) \cap HeadTags(replies) = {}
      /\ TagsOf(flight) \cap HeadTags(replies) = {} /\ pa \notin TagsOf(requests) \cup TagsOf(flight) \cup HeadTags(replies)
      /\ DOMAIN channel.pending = TagsOf(requests) \cup TagsOf(flight) \cup HeadTags(replies) \cup ({pa} \ {0})
  BY <1>1 DEF OnePlaceEach
<1>5. g # 0
  BY ConnectorAssumption DEF Tag
<1>6. Places(g) = Cardinality(A) + Cardinality(B) + Cardinality(C) + d
  BY DEF Places
<1> HIDE DEF A, B, C
<1>7. /\ Cardinality(A) = IF A = {} THEN 0 ELSE 1
      /\ Cardinality(B) = IF B = {} THEN 0 ELSE 1
      /\ Cardinality(C) = IF C = {} THEN 0 ELSE 1
  BY <1>2, CountOnce
<1>8. g \in DOMAIN channel.pending <=> A # {} \/ B # {} \/ C # {} \/ pa = g
  BY <1>3, <1>4, <1>5
<1>9. /\ ~(A # {} /\ B # {}) /\ ~(A # {} /\ C # {}) /\ ~(B # {} /\ C # {})
      /\ ~(A # {} /\ pa = g) /\ ~(B # {} /\ pa = g) /\ ~(C # {} /\ pa = g)
  BY <1>3, <1>4
<1> QED BY ONLY <1>6, <1>7, <1>8, <1>9

\* Every step keeps the invariant.
LEMMA ConnectorKeeps ==
  ASSUME ConnectorInv, [ConnectorNext]_connectorVars
  PROVE  ConnectorInv'
<1>1. CASE Prepare
  BY <1>1, PrepareKeeps
<1>2. CASE Fork \/ Hold \/ Started \/ ProcessKilled
  BY <1>2, StartKeeps
<1>3. CASE Hello \/ connector_loop \/ Network \/ Late
  BY <1>3, ServerKeeps
<1>4. CASE Close
  BY <1>4, CloseKeeps
<1>5. ASSUME NEW t \in Tasks, NEW r \in Requests, connect_asks(t, r) PROVE ConnectorInv'
  BY <1>5, AsksKeeps
<1>6. ASSUME NEW t \in Tasks, await_resumes(t) PROVE ConnectorInv'
  BY <1>6, ResumeKeeps
<1>7. ASSUME NEW t \in Tasks, Expire(t) PROVE ConnectorInv'
  BY <1>7, ExpireKeeps
<1>8. ASSUME NEW t \in Tasks, TaskKilled(t) PROVE ConnectorInv'
  BY <1>8, TaskKilledKeeps
<1>9. ASSUME NEW t \in Tasks, Use(t) PROVE ConnectorInv'
  BY <1>9, UseKeeps
<1>10. CASE UNCHANGED connectorVars
  <2>1. /\ InStep(requests, flight, replies, channel) /\ Served(channel, caller, sockets, ask_count)
        /\ Begins /\ Emptied(channel, start, child, requests, flight, replies) /\ Asleep(channel, caller, start, starts)
        /\ Unforgotten(channel, caller, woken) /\ woken \subseteq Tasks /\ starts \in Nat /\ ask_count \in Nat
    BY InvIs
  <2>2. /\ channel' = channel /\ caller' = caller /\ woken' = woken /\ sockets' = sockets /\ ask_count' = ask_count
        /\ start' = start /\ made' = made /\ heldBy' = heldBy /\ statusPipe' = statusPipe /\ child' = child /\ starts' = starts
        /\ requests' = requests /\ flight' = flight /\ replies' = replies
    BY <1>10 DEF connectorVars
  <2>3. Begins'
    BY <2>1, <2>2 DEF Begins
  <2> QED BY <2>1, <2>2, <2>3, InvNext
<1> QED BY <1>1, <1>2, <1>3, <1>4, <1>5, <1>6, <1>7, <1>8, <1>9, <1>10 DEF ConnectorNext

(***************************************************************************)
(* The connector's two processes and the tasks that share its stream, for  *)
(* any tasks, requests, tables and limits, however often it is started or  *)
(* killed: what is asked, in flight, answered and pending stays in step    *)
(* whichever task reads, whichever leaves, and wherever the stream is      *)
(* given up.                                                               *)
(***************************************************************************)
THEOREM ConnectorInvariant == ConnectorSpec => []ConnectorInv
BY ConnectorInitially, ConnectorKeeps, PTL DEF ConnectorSpec

\* What the invariant says of requests.
LEMMA KeptFollows == ConnectorInv => RequestsKept
<1> SUFFICES ASSUME ConnectorInv PROVE OneWhere /\ NoneForgotten
  BY DEF RequestsKept
<1>1. InStep(requests, flight, replies, channel)
  BY InvIs
<1>2. \A g \in 1 .. MaxTag : Places(g) = IF g \in DOMAIN channel.pending THEN 1 ELSE 0
  BY <1>1, PlacesAre DEF Tag
<1>3. Len(flight) <= Flight
  BY <1>1, FlightBounded
<1>4. \A i \in 1 .. Len(replies) : replies[i].what = "head" => replies[i].status # "BUSY"
  <2>1. \A i \in 1 .. Len(replies) : replies[i] \in Wire
    BY <1>1, InStepIs
  <2> QED BY <2>1, WireIs DEF Answered
<1>5. NoneForgotten
  BY DEF ConnectorInv
<1> QED BY <1>2, <1>3, <1>4, <1>5 DEF OneWhere

(***************************************************************************)
(* Of a stream that stands (connector.c's connector_loop and connector.tl's*)
(* ask, read_replies and Asking.__close), every pending request, one given *)
(* up on included, is in exactly one place between the two processes and   *)
(* nothing else is, so each has one reply, the process has at most         *)
(* CONNECTOR_FLIGHT connects and never answers BUSY; and pump leaves no    *)
(* task asleep on an answer another task read, on a stream that was lost,  *)
(* or on room that is there.                                               *)
(***************************************************************************)
THEOREM ConnectorRequestsKept == ConnectorSpec => []RequestsKept
BY ConnectorInvariant, KeptFollows, PTL

\* What it says of sockets.
LEMMA RightFollows == ConnectorInv => SocketsRight
<1> SUFFICES ASSUME ConnectorInv PROVE StartTells /\ RightSocket
  BY DEF SocketsRight
<1>1. Begins /\ Served(channel, caller, sockets, ask_count) /\ Emptied(channel, start, child, requests, flight, replies)
  BY InvIs
<1>2. StartTells
  BY <1>1 DEF StartTells, Begins
<1>3. RightSocket
  BY <1>1 DEF RightSocket, Served, Owned, Emptied
<1> QED BY <1>2, <1>3

(***************************************************************************)
(* connector_start answers a process only with all of its confinement      *)
(* taken, and a failure leaves none behind; and a task's socket is the one *)
(* its own request asked for, however late or to whomever replies come:    *)
(* connector.tl's answer and Asking.__close keep every socket received     *)
(* with the task it was for, and no stream of a working process is given   *)
(* up as misbehaving.                                                      *)
(***************************************************************************)
THEOREM ConnectorSocketsRight == ConnectorSpec => []SocketsRight
BY ConnectorInvariant, RightFollows, PTL
=============================================================================
