------------------------------ MODULE PollWatch -----------------------------
(***************************************************************************)
(* The descriptors a run of cosmic.poll polls: for each one waited on, a   *)
(* slot of what sys.poll is handed with the union of the events asked of   *)
(* it, and the waits on it.  Both are packed: what leaves is replaced by   *)
(* the last.  What Poll.tla takes as the set of parked waits on            *)
(* descriptors is kept this way.                                           *)
(***************************************************************************)
EXTENDS Integers, FiniteSets, SequencesExt

CONSTANTS Wait,     \* the waits
          Fd,       \* the descriptors
          Event,    \* the events a wait may ask
          Unasked,  \* UNASKED: the events sys.poll answers unasked
          MaxFds    \* bound: how many descriptors a wait is on

ASSUME WatchAssumption == MaxFds \in Nat /\ Event \cap Unasked = {} /\ IsFiniteSet(Wait)

VARIABLES asks,     \* the (descriptor, mask) pairs of each parked wait, by place
          fds,      \* loop.fds, its slots 1 to loop.slots
          events,   \* loop.events
          slot,     \* watched[fd].slot, for each watched descriptor
          watches,  \* watched[fd].watches, 1 to count
          masks,    \* watched[fd].masks: how many watches ask each mask
          index     \* watch.index

watchVars == <<asks, fds, events, slot, watches, masks, index>>

Mask  == SUBSET Event \ {{}}
Ask   == [fd : Fd, mask : Mask]
Watch == [wait : Wait, place : 1 .. MaxFds]

(* The tables of a run, and those a watch is entered in or taken from.     *)
Tables == [fds |-> fds, events |-> events, slot |-> slot,
           watches |-> watches, masks |-> masks, index |-> index]

TablesBecome(T) == /\ fds' = T.fds /\ events' = T.events /\ slot' = T.slot
                   /\ watches' = T.watches /\ masks' = T.masks /\ index' = T.index

WatchInit == /\ asks = [w \in Wait |-> <<>>]
             /\ fds = <<>> /\ events = <<>> /\ slot = [fd \in Fd |-> 0]
             /\ watches = [fd \in Fd |-> <<>>]
             /\ masks = [fd \in Fd |-> [mask \in Mask |-> 0]]
             /\ index = [x \in Watch |-> 0]

(* enter: a descriptor not watched yet takes the next slot.                *)
enter(T, x, ask) ==
  LET fd   == ask.fd
      new  == T.slot[fd] = 0
      s    == IF new THEN Len(T.fds) + 1 ELSE T.slot[fd]
      asked == IF new THEN Append(T.events, {}) ELSE T.events
  IN [fds     |-> IF new THEN Append(T.fds, fd) ELSE T.fds,
      events  |-> [asked EXCEPT ![s] = @ \cup ask.mask],
      slot    |-> [T.slot EXCEPT ![fd] = s],
      watches |-> [T.watches EXCEPT ![fd] = Append(@, x)],
      masks   |-> [T.masks EXCEPT ![fd][ask.mask] = @ + 1],
      index   |-> [T.index EXCEPT ![x] = Len(T.watches[fd]) + 1]]

(* A packed list with the entry at i replaced by the last.                 *)
Packed(s, i) == IF i = Len(s) THEN Front(s) ELSE [Front(s) EXCEPT ![i] = Last(s)]

(* leave, of a descriptor's last watch: its slot goes to the last one.     *)
Unwatched(T, fd) ==
  [T EXCEPT !.fds = Packed(@, T.slot[fd]), !.events = Packed(@, T.slot[fd]),
            !.slot = [[@ EXCEPT ![Last(T.fds)] = T.slot[fd]] EXCEPT ![fd] = 0],
            !.masks = [@ EXCEPT ![fd] = [mask \in Mask |-> 0]]]

(* leave, of any other: the events are the union of the masks left.        *)
Unasks(T, ask) ==
  LET left == [T.masks EXCEPT ![ask.fd][ask.mask] = @ - 1]
  IN [T EXCEPT !.masks = left,
               !.events = IF left[ask.fd][ask.mask] > 0 THEN @
                          ELSE [@ EXCEPT ![T.slot[ask.fd]] =
                                  UNION {mask \in Mask : left[ask.fd][mask] > 0}]]

(* Mutant: the watch moved into the place left is not told so.             *)
leave_KeepsIndex(T, x, ask) ==
  LET fd == ask.fd
      U  == [T EXCEPT !.watches[fd] = Packed(@, T.index[x]), !.index[x] = 0]
  IN IF Len(T.watches[fd]) = 1 THEN Unwatched(U, fd) ELSE Unasks(U, ask)

(* leave.                                                                  *)
leave(T, x, ask) ==
  LET fd == ask.fd
      U  == [T EXCEPT !.watches[fd] = Packed(@, T.index[x]),
                      !.index = [[@ EXCEPT ![Last(T.watches[fd])] = T.index[x]]
                                   EXCEPT ![x] = 0]]
  IN IF Len(T.watches[fd]) = 1 THEN Unwatched(U, fd) ELSE Unasks(U, ask)

(* Every place of a wait entered, or taken out, in order.                  *)
Entered(T, w, ask) ==
  LET entered[n \in 0 .. Len(ask)] ==
        IF n = 0 THEN T ELSE enter(entered[n - 1], [wait |-> w, place |-> n], ask[n])
  IN entered[Len(ask)]

Left(T, w, ask) ==
  LET left[n \in 0 .. Len(ask)] ==
        IF n = 0 THEN T ELSE leave(left[n - 1], [wait |-> w, place |-> n], ask[n])
  IN left[Len(ask)]

(* The waits of q taken out, one after another.                            *)
AllLeft(T, q, asked) ==
  LET gone[n \in 0 .. Len(q)] == IF n = 0 THEN T ELSE Left(gone[n - 1], q[n], asked[q[n]])
  IN gone[Len(q)]

(* park of a wait on one descriptor or several, one of them twice too.     *)
Park(w, ask) ==
  /\ asks[w] = <<>>
  /\ asks' = [asks EXCEPT ![w] = ask]
  /\ TablesBecome(Entered(Tables, w, ask))

(* finish of the waits of ws, one after another, as wake_hits does.        *)
FinishAll(ws) ==
  /\ asks' = [w \in Wait |-> IF w \in ws THEN <<>> ELSE asks[w]]
  /\ \E q \in [1 .. Cardinality(ws) -> ws] :
       /\ IsInjective(q) /\ ws \subseteq ToSet(q)
       /\ TablesBecome(AllLeft(Tables, q, asks))

(* A wait ended by something else.                                         *)
End(w) == asks[w] # <<>> /\ FinishAll({w})

(***************************************************************************)
(* poll_once: sys.poll answers of the descriptors and events it is handed  *)
(* what has happened, and a wait is hit that asked for some of it.         *)
(***************************************************************************)
Polled(has, s) == has[fds[s]] \cap (events[s] \cup Unasked)

Hits(has) ==
  {w \in Wait :
     \E s \in DOMAIN fds : \E i \in DOMAIN watches[fds[s]] :
        LET x == watches[fds[s]][i]
        IN /\ x.wait = w
           /\ Polled(has, s) \cap (asks[w][x.place].mask \cup Unasked) # {}}

Happening == [Fd -> SUBSET (Event \cup Unasked)]

PollOnce == \E hits \in {Hits(has) : has \in Happening} : hits # {} /\ FinishAll(hits)

(* answer_waits.                                                           *)
AnswerWaits(fd) ==
  LET hits == {x.wait : x \in ToSet(watches[fd])}
  IN hits # {} /\ FinishAll(hits)

Parks == UNION {[1 .. n -> Ask] : n \in 1 .. MaxFds}

WatchNext == \/ \E w \in Wait : End(w) \/ \E ask \in Parks : Park(w, ask)
             \/ PollOnce
             \/ \E fd \in Fd : AnswerWaits(fd)

WatchSpec == WatchInit /\ [][WatchNext]_watchVars
-----------------------------------------------------------------------------
(* What the parked waits ask of a descriptor, each with the watch for it.  *)
On(fd) == {x \in Watch : x.place \in DOMAIN asks[x.wait] /\ asks[x.wait][x.place].fd = fd}

AskOf(x) == asks[x.wait][x.place]

(* The variables keep their types.                                         *)
WatchTypeOK ==
  /\ \A w \in Wait : asks[w] = <<>> \/ asks[w] \in Parks
  /\ fds \in Seq(Fd) /\ events \in Seq(SUBSET Event) /\ slot \in [Fd -> Nat]
  /\ watches \in [Fd -> Seq(Watch)] /\ masks \in [Fd -> [Mask -> Nat]]
  /\ index \in [Watch -> Nat]

(* A descriptor is polled, in one slot and its own, while and only while a *)
(* wait is on it, whatever left before it.                                 *)
SlotsExact ==
  /\ IsInjective(fds) /\ Len(events) = Len(fds)
  /\ ToSet(fds) = {fd \in Fd : On(fd) # {}}
  /\ \A s \in DOMAIN fds : slot[fds[s]] = s

(* The waits on a descriptor are listed once each, at their own index.     *)
WatchesExact ==
  \A fd \in Fd : /\ IsInjective(watches[fd]) /\ ToSet(watches[fd]) = On(fd)
                 /\ \A i \in DOMAIN watches[fd] : index[watches[fd][i]] = i

(* A descriptor is polled for exactly the events its waits ask: one that   *)
(* leaves takes no other's events with it and leaves none behind.          *)
EventsExact ==
  \A s \in DOMAIN fds : events[s] = UNION {AskOf(x).mask : x \in On(fds[s])}

(* Whatever happens to the descriptors, a poll answers exactly the waits   *)
(* with a descriptor that has something they asked, or an error.           *)
PollAnswersAll ==
  \A has \in Happening :
     Hits(has) = {w \in Wait : \E i \in DOMAIN asks[w] :
                    has[asks[w][i].fd] \cap (asks[w][i].mask \cup Unasked) # {}}

(* The packed tables say who waits for what, and a poll of them answers    *)
(* exactly those.                                                          *)
WatchTables == WatchTypeOK /\ SlotsExact /\ WatchesExact /\ EventsExact /\ PollAnswersAll
=============================================================================
