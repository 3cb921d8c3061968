------------------------------- MODULE Http -------------------------------
(***************************************************************************)
(* The HTTP client's core (core/http.c): transfers that share one curl     *)
(* multi handle, so the call that drives one drives all; the buffer        *)
(* between curl and the reader, with its pause; and the trust store, made  *)
(* at the first request and consulted for every chain.                     *)
(*                                                                         *)
(* Curl, external, is what a server's script makes it do: a transfer's     *)
(* headers, its data and its end, in order; it offers a chunk a callback   *)
(* refused again from inside curl_easy_pause, and no later event before.   *)
(* A byte is a number, so that one lost, repeated or out of order shows.   *)
(***************************************************************************)
EXTENDS Integers, Sequences, FiniteSets

CONSTANTS
    Transfers,  \* requests
    Scripts,    \* what a server sends: sequences of [event, data]
    Threshold,  \* BODY_PAUSE_THRESHOLD, in bytes
    ReadSizes,  \* what read is asked for
    MaxFaults,  \* bound: signals, refusals of curl, failed loads
    RootRows,   \* the binary's ca_roots: a sequence of [id, after, reads], after 0 for no date
    RevokedRows,\* its ca_revoked: a sequence of [kind, name, value]
    Chains,     \* chains met: sequences of [id, issuer, serial, subject, key, issued], root first
    MaxChains   \* bound: chains verified

\* A certificate is a row of ca_roots once (build/roots.tl); curl hands over
\* bytes with its data events alone, and a chain has a certificate.
ASSUME HttpAssumption ==
    /\ Threshold \in Nat \ {0} /\ ReadSizes \subseteq Nat
    /\ \A s \in Scripts :
          /\ s \in Seq({s[i] : i \in DOMAIN s})
          /\ \A i \in DOMAIN s : /\ s[i].event \in {"interim", "trailer", "redirect", "final", "data", "end", "fail"}
                                 /\ s[i].data \in Seq({s[i].data[k] : k \in DOMAIN s[i].data})
                                 /\ s[i].event # "data" => s[i].data = << >>
    /\ RootRows \in Seq({RootRows[i] : i \in DOMAIN RootRows})
    /\ \A i, k \in DOMAIN RootRows : RootRows[i].id = RootRows[k].id => i = k
    /\ RevokedRows \in Seq({RevokedRows[i] : i \in DOMAIN RevokedRows})
    /\ \A c \in Chains : c # << >> /\ c \in Seq({c[i] : i \in DOMAIN c})

VARIABLES
    ready,      \* [curl, roots, multi]: what http_ready made
    trust,      \* [roots, distrusted, revoked, row]
    chain,      \* the chain being verified: [left, flags, whole, unhashed]
    chainRoot,  \* chain_root: the date of a distrusted root, or 0
    judged,     \* the chains verified, each with its flags
    tr,         \* the transfers
    op,         \* the call under way: [who, what, phase, max], what "none" for none
    faults

trustVars == <<ready, trust, chain, chainRoot, judged>>
httpVars == <<trustVars, tr, op, faults>>

NoTrust == [roots |-> << >>, distrusted |-> << >>, revoked |-> << >>, row |-> 1]
NoChain == [left |-> << >>, flags |-> {}, whole |-> << >>, unhashed |-> FALSE]
NoOp == [who |-> "none", what |-> "none", phase |-> "none", max |-> 0]
Unmade == [at |-> "unmade", follow |-> FALSE, ready |-> FALSE, headed |-> FALSE, done |-> FALSE,
           ok |-> TRUE, paused |-> FALSE, body |-> << >>, script |-> << >>, held |-> << >>,
           skips |-> FALSE, whole |-> << >>, read |-> << >>, said |-> "none"]

\* At the first request, or past it (made).
HttpInit(made) ==
    /\ ready = [curl |-> made, roots |-> made, multi |-> made]
    /\ trust = NoTrust /\ chain = NoChain /\ chainRoot = 0 /\ judged = {}
    /\ tr = [t \in Transfers |-> Unmade]
    /\ op = NoOp /\ faults = 0

Phase(p) == op' = [op EXCEPT !.phase = p]
Fault == faults < MaxFaults /\ faults' = faults + 1

-----------------------------------------------------------------------------
\* http_ready: each piece is made once, and a call after a failure picks up
\* where the last one stopped.

http_ready ==
    /\ op.phase = "ready"
    /\ IF ready.multi THEN Phase("make") /\ UNCHANGED ready
       ELSE /\ ready' = [ready EXCEPT !.curl = TRUE]
            /\ Phase(IF ready.roots THEN "multi" ELSE "roots")
    /\ UNCHANGED <<trust, chain, chainRoot, judged, tr, faults>>

\* open fails before anything of the request is made.
NotReady ==
    /\ tr' = [tr EXCEPT ![op.who].said = "unready"]
    /\ op' = NoOp
    /\ UNCHANGED <<chain, chainRoot, judged>>

\* A load that fails leaves nothing, and open fails.
LoadTrouble ==
    /\ trust' = NoTrust
    /\ NotReady
    /\ UNCHANGED ready

keep_distrusted(row, kept) == IF row.after = 0 THEN kept ELSE Append(kept, row)

\* One row of ca_roots: one mbedtls cannot read is left out, memory that
\* runs out ends the load, and so does a database with none it can read.
load_roots(fails) ==
    /\ op.phase = "roots"
    /\ IF fails THEN Fault /\ LoadTrouble
       ELSE IF trust.row <= Len(RootRows)
       THEN LET row == RootRows[trust.row]
            IN  /\ trust' = [trust EXCEPT
                       !.row = @ + 1,
                       !.roots = IF row.reads THEN Append(@, row.id) ELSE @,
                       !.distrusted = IF row.reads THEN keep_distrusted(row, @) ELSE @]
                /\ UNCHANGED <<op, ready, chain, chainRoot, judged, tr, faults>>
       ELSE IF trust.roots = <<>> THEN LoadTrouble /\ UNCHANGED faults
       ELSE /\ trust' = [trust EXCEPT !.row = 1] /\ Phase("revoked")
            /\ UNCHANGED <<ready, chain, chainRoot, judged, tr, faults>>

load_revoked(fails) ==
    /\ op.phase = "revoked"
    /\ IF fails THEN Fault /\ LoadTrouble
       ELSE /\ IF trust.row <= Len(RevokedRows)
               THEN /\ trust' = [trust EXCEPT !.row = @ + 1, !.revoked = Append(@, RevokedRows[trust.row])]
                    /\ UNCHANGED op
               ELSE trust' = [trust EXCEPT !.row = 1] /\ Phase("file")
            /\ UNCHANGED <<ready, chain, chainRoot, judged, tr, faults>>

\* $SSL_CERT_FILE: only memory that runs out for it fails the load.
add_cert_file(fails) ==
    /\ op.phase = "file"
    /\ IF fails THEN Fault /\ LoadTrouble
       ELSE /\ ready' = [ready EXCEPT !.roots = TRUE]
            /\ Phase("multi")
            /\ UNCHANGED <<trust, chain, chainRoot, judged, tr, faults>>

curl_multi_init(fails) ==
    /\ op.phase = "multi"
    /\ IF fails THEN Fault /\ NotReady /\ UNCHANGED <<ready, trust>>
       ELSE /\ ready' = [ready EXCEPT !.multi = TRUE]
            /\ Phase("make")
            /\ UNCHANGED <<trust, chain, chainRoot, judged, tr, faults>>

-----------------------------------------------------------------------------
\* The verify callback, called root first for each certificate of a chain.

\* A key is hashed once a subject matches; one that cannot be is revoked.
is_revoked(crt, unhashed) ==
    \E i \in 1..Len(trust.revoked) :
        LET one == trust.revoked[i]
        IN  IF one.kind = "serial" THEN one.name = crt.issuer /\ one.value = crt.serial
            ELSE one.name = crt.subject /\ (unhashed \/ one.value = crt.key)

Met(crt) == {trust.distrusted[i].after : i \in {j \in 1..Len(trust.distrusted) : trust.distrusted[j].id = crt.id}}

\* A handshake, inside curl_multi_perform, begins to verify a chain.
Handshake(c, unhashed) ==
    /\ op.phase = "pump" /\ chain = NoChain /\ Cardinality(judged) < MaxChains
    /\ chain' = [left |-> c, flags |-> {}, whole |-> c, unhashed |-> unhashed]
    /\ UNCHANGED <<ready, trust, chainRoot, judged, tr, op, faults>>

\* Mutant: the chain's root is kept past the server's own certificate.
cosmic_tls_distrust_keeps ==
    /\ chain.left # << >>
    /\ LET crt == Head(chain.left)
           flags == chain.flags \cup (IF is_revoked(crt, chain.unhashed) THEN {"revoked"} ELSE {})
           root == IF Met(crt) = {} THEN chainRoot ELSE CHOOSE d \in Met(crt) : TRUE
       IN  /\ chainRoot' = root
           /\ IF Len(chain.left) > 1
              THEN chain' = [chain EXCEPT !.left = Tail(@), !.flags = flags] /\ UNCHANGED judged
              ELSE /\ chain' = NoChain
                   /\ judged' = judged \cup {[chain EXCEPT !.left = << >>,
                          !.flags = flags \cup (IF root # 0 /\ crt.issued > root THEN {"other"} ELSE {})]}
    /\ UNCHANGED <<ready, trust, tr, op, faults>>

\* One certificate: the chain's root, where it is distrusted after a date,
\* is held until the server's own ends the chain.
cosmic_tls_distrust ==
    /\ chain.left # << >>
    /\ LET crt == Head(chain.left)
           flags == chain.flags \cup (IF is_revoked(crt, chain.unhashed) THEN {"revoked"} ELSE {})
           root == IF Met(crt) = {} THEN chainRoot ELSE CHOOSE d \in Met(crt) : TRUE
       IN  IF Len(chain.left) > 1
           THEN /\ chainRoot' = root
                /\ chain' = [chain EXCEPT !.left = Tail(@), !.flags = flags]
                /\ UNCHANGED judged
           ELSE /\ chainRoot' = 0
                /\ chain' = NoChain
                /\ judged' = judged \cup {[chain EXCEPT !.left = << >>,
                       !.flags = flags \cup (IF root # 0 /\ crt.issued > root THEN {"other"} ELSE {})]}
    /\ UNCHANGED <<ready, trust, tr, op, faults>>

-----------------------------------------------------------------------------
\* Transfers.

\* One event of a script, to what came of it: whether curl passes over the
\* response under way, whether the last is over, and the bytes.
Delivers(p, one, follow) ==
    IF p.over THEN p
    ELSE IF one.event \in {"redirect", "final"} THEN [p EXCEPT !.skips = (one.event = "redirect" /\ follow)]
    ELSE IF p.skips THEN p
    ELSE IF one.event = "end" THEN [p EXCEPT !.over = TRUE]
    ELSE [p EXCEPT !.bytes = @ \o one.data]

\* The bytes of the response a script ends in.
FinalBody(script, follow) ==
    LET f[i \in 0..Len(script)] ==
            IF i = 0 THEN [skips |-> FALSE, over |-> FALSE, bytes |-> << >>]
            ELSE Delivers(f[i - 1], script[i], follow)
    IN  f[Len(script)].bytes

transfer_release(r) ==
    [Unmade EXCEPT !.at = "closed", !.whole = r.whole, !.read = r.read, !.ok = r.ok, !.done = r.done,
                   !.headed = r.headed, !.said = r.said]

\* The options' shapes and values are checked before anything is made.
http_open(t, s, follow) ==
    /\ op = NoOp /\ tr[t].at = "unmade"
    /\ tr' = [tr EXCEPT ![t] = [Unmade EXCEPT !.script = s, !.follow = follow, !.whole = FinalBody(s, follow)]]
    /\ op' = [who |-> t, what |-> "open", phase |-> "ready", max |-> 0]
    /\ UNCHANGED <<trustVars, faults>>

\* The handle, its options, headers and script, then curl's list of transfers;
\* any of them may be refused.
configure(fails) ==
    /\ op.phase = "make"
    /\ IF fails
       THEN /\ Fault /\ op' = NoOp
            /\ tr' = [tr EXCEPT ![op.who] = [transfer_release(@) EXCEPT !.said = "unmade"]]
       ELSE Phase("check") /\ tr' = [tr EXCEPT ![op.who].at = "opening"] /\ UNCHANGED faults
    /\ UNCHANGED trustVars

\* Full to the threshold, the buffer takes no more until it is read.
write_cb(r, chunk) ==
    IF Len(r.body) >= Threshold THEN [r EXCEPT !.paused = TRUE, !.held = chunk]
    ELSE [r EXCEPT !.body = @ \o chunk, !.ready = TRUE]

\* The blank line that ends the final response's headers: no interim one,
\* and no redirect that curl follows.
header_cb(r, event) ==
    IF r.ready \/ event = "interim" \/ (r.follow /\ event = "redirect") THEN r
    ELSE [r EXCEPT !.headed = TRUE, !.ready = TRUE]

Done(r, ok) == [r EXCEPT !.done = TRUE, !.ready = TRUE, !.ok = ok, !.held = << >>]

\* curl_easy_pause: what curl held is offered again, and with it, where curl
\* has it already, the data that follows.
Unpause(r, more) ==
    LET again == IF r.held = << >> THEN r ELSE write_cb([r EXCEPT !.held = << >>], r.held)
        next == again.script # << >> /\ Head(again.script).event = "data"
    IN  IF more /\ ~r.done /\ again.held = << >> /\ next /\ ~r.skips
        THEN write_cb([again EXCEPT !.script = Tail(@)], Head(again.script).data) ELSE again

\* Mutant: the flag is cleared after curl, which may have paused again.
resume_late(r, more) ==
    IF r.paused THEN [Unpause(r, more) EXCEPT !.paused = FALSE] ELSE r

\* The flag is cleared first.
resume(r, more) ==
    IF r.paused THEN Unpause([r EXCEPT !.paused = FALSE], more) ELSE r

\* The next of a transfer's events, inside curl_multi_perform; a body's
\* memory may run out.
Curl(r, fails) ==
    LET e == Head(r.script)
        rest == [r EXCEPT !.script = Tail(@)]
    IN  CASE e.event \in {"interim", "trailer"} -> header_cb(rest, e.event)
          [] e.event \in {"redirect", "final"} ->
                 header_cb([rest EXCEPT !.skips = (e.event = "redirect" /\ r.follow)], e.event)
          [] e.event = "data" -> IF r.skips THEN rest ELSE IF fails THEN Done(rest, FALSE) ELSE write_cb(rest, e.data)
          [] e.event = "end" -> IF r.skips THEN rest ELSE Done(rest, TRUE)
          [] e.event = "fail" -> Done(rest, FALSE)

Live(u) == tr[u].at \in {"opening", "open"} /\ ~tr[u].done

\* curl_multi_perform moves any of the transfers on.
Perform(u, fails) ==
    /\ op.phase = "pump" /\ Live(u)
    /\ tr[u].held = << >> /\ tr[u].script # << >>
    /\ fails => (Head(tr[u].script).event = "data" /\ ~tr[u].skips /\ Len(tr[u].body) < Threshold)
    /\ tr' = [tr EXCEPT ![u] = Curl(@, fails)]
    /\ IF fails THEN Fault ELSE UNCHANGED faults
    /\ UNCHANGED <<trustVars, op>>

\* A transfer's time runs out, paused or not.
Timeout(u) ==
    /\ op.phase = "pump" /\ Live(u) /\ Fault
    /\ tr' = [tr EXCEPT ![u] = Done(@, FALSE)]
    /\ UNCHANGED <<trustVars, op>>

\* What ends a call between two events: a caught signal or the multi's failure.
Stop(why) ==
    /\ Fault /\ op' = NoOp
    /\ tr' = [tr EXCEPT ![op.who] =
           IF op.what = "open" THEN [transfer_release(@) EXCEPT !.said = why] ELSE [@ EXCEPT !.said = why]]
    /\ UNCHANGED trustVars

pump_once(fails) ==
    /\ op.phase = "pump" /\ chain = NoChain
    /\ IF fails THEN Stop("multi") ELSE Phase("check") /\ UNCHANGED <<trustVars, tr, faults>>

Ready(r) == IF op.what = "open" THEN r.ready ELSE r.body # << >> \/ r.done

\* The head of both loops; cosmic_signal_caught is asked before each wait.
Loop(caught) ==
    /\ op.phase = "check" /\ ~Ready(tr[op.who])
    /\ IF caught THEN Stop("interrupted") ELSE Phase("pump") /\ UNCHANGED <<trustVars, tr, faults>>

\* A failure after the headers is the body's, for read to report.
Opened ==
    /\ op.what = "open" /\ op.phase = "check" /\ Ready(tr[op.who])
    /\ LET r == tr[op.who]
       IN  tr' = [tr EXCEPT ![op.who] =
               IF r.done /\ ~r.ok /\ ~r.headed /\ r.body = << >>
               THEN [transfer_release(r) EXCEPT !.said = "refused"]
               ELSE [r EXCEPT !.at = "open", !.said = "opened"]]
    /\ op' = NoOp
    /\ UNCHANGED <<trustVars, faults>>

handle_read(t, n, more) ==
    /\ op = NoOp /\ tr[t].at = "open" /\ tr[t].said \notin {"end", "error"}
    /\ op' = [who |-> t, what |-> "read", phase |-> "check", max |-> n]
    /\ tr' = [tr EXCEPT ![t] = IF @.body = << >> THEN resume(@, more) ELSE @]
    /\ UNCHANGED <<trustVars, faults>>

\* What was received comes before the end, clean or not.
Read(more) ==
    /\ op.what = "read" /\ op.phase = "check" /\ Ready(tr[op.who])
    /\ LET r == tr[op.who]
           n == IF op.max < Len(r.body) THEN op.max ELSE Len(r.body)
           taken == [r EXCEPT !.read = @ \o SubSeq(r.body, 1, n), !.said = "bytes",
                              !.body = SubSeq(r.body, n + 1, Len(r.body))]
       IN  tr' = [tr EXCEPT ![op.who] =
               IF r.body = << >> THEN [r EXCEPT !.said = IF r.ok THEN "end" ELSE "error"]
               ELSE IF Len(taken.body) < Threshold THEN resume(taken, more) ELSE taken]
    /\ op' = NoOp
    /\ UNCHANGED <<trustVars, faults>>

\* close, __close and __gc.
handle_close(t) ==
    /\ op = NoOp /\ tr[t].at = "open"
    /\ tr' = [tr EXCEPT ![t] = transfer_release(@)]
    /\ UNCHANGED <<trustVars, op, faults>>

\* Opening a transfer: what both parts below begin with.
OpenNext ==
    \/ http_ready
    \/ \E fails \in BOOLEAN : configure(fails) \/ pump_once(fails) \/ Loop(fails)
    \/ \E t \in Transfers, s \in Scripts, follow \in BOOLEAN : http_open(t, s, follow)

\* What makes and consults the trust store.
TrustNext ==
    \/ OpenNext \/ cosmic_tls_distrust
    \/ \E fails \in BOOLEAN :
          \/ load_roots(fails) \/ load_revoked(fails) \/ add_cert_file(fails) \/ curl_multi_init(fails)
          \/ \E c \in Chains : Handshake(c, fails)

\* What moves the transfers.
TransferNext ==
    \/ OpenNext \/ Opened
    \/ \E more \in BOOLEAN : Read(more)
    \/ \E t \in Transfers :
          \/ Timeout(t) \/ handle_close(t)
          \/ \E fails \in BOOLEAN : Perform(t, fails)
          \/ \E n \in ReadSizes, more \in BOOLEAN : handle_read(t, n, more)

\* The first request makes the trust store; the transfers are those after it.
TrustSpec == HttpInit(FALSE) /\ [][TrustNext]_httpVars
TransferSpec == HttpInit(TRUE) /\ [][TransferNext]_httpVars

-----------------------------------------------------------------------------
\* What a reader was given is the start of the body, with nothing lost,
\* repeated or out of order between curl and it, whichever call drove the
\* transfer and however often the buffer filled; a clean end is told only of a
\* whole body, and a failure only past everything that came (write_cb, resume,
\* handle_read).
BodyExact ==
    \A t \in Transfers :
        LET r == tr[t]
            come == r.read \o r.body \o r.held
        IN  /\ Len(come) <= Len(r.whole) /\ come = SubSeq(r.whole, 1, Len(come))
            /\ (r.at = "open" /\ r.done /\ r.ok) => come = r.whole
            /\ (r.said = "end" => r.ok /\ r.read = r.whole)
            /\ (r.said = "error" => ~r.ok /\ r.body = << >>)

\* A read that waits, waits for a transfer curl is free to move: one curl
\* holds back is marked paused, for the next read to undo, and the buffer
\* never holds a chunk past its threshold (resume clears its flag first).
NeverHeldBack ==
    \A t \in Transfers :
        /\ (tr[t].held # << >> => tr[t].paused)
        /\ (op.who = t /\ op.phase = "pump" /\ tr[t].body = << >> => ~tr[t].paused)

\* What a transfer's reader may count on: the body, and no endless wait for it.
TransfersExact == BodyExact /\ NeverHeldBack

\* What a chain is refused for is its own: a certificate of it that OneCRL
\* names, or a root of it that is distrusted after a date the server's
\* certificate is past; however many loads failed before one succeeded, and
\* whatever chain was verified before (chain_root is one for the process).
ChainsJudgedAlone ==
    \A j \in judged :
        LET c == j.whole
            Named(crt, row) == IF row.kind = "serial" THEN row.name = crt.issuer /\ row.value = crt.serial
                               ELSE row.name = crt.subject /\ (j.unhashed \/ row.value = crt.key)
            revoked == \E i \in 1..Len(c), k \in 1..Len(RevokedRows) : Named(c[i], RevokedRows[k])
            Dates(i) == {RootRows[k].after : k \in {n \in 1..Len(RootRows) :
                             RootRows[n].id = c[i].id /\ RootRows[n].reads /\ RootRows[n].after # 0}}
            dated == {i \in 1..Len(c) : Dates(i) # {}}
            late == \E i \in dated : /\ \A k \in dated : k <= i
                                     /\ \E d \in Dates(i) : c[Len(c)].issued > d
        IN  /\ trust.row = 1 /\ Len(trust.revoked) = Len(RevokedRows)
            /\ ("revoked" \in j.flags <=> revoked)
            /\ ("other" \in j.flags <=> late)
=============================================================================
