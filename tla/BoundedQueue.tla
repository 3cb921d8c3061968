---------------------------- MODULE BoundedQueue ----------------------------
(***************************************************************************)
(* What a cosmic.channel queue promises: a first-in first-out queue of at  *)
(* most `capacity` items whose overflow policy settles an item that finds  *)
(* it full, and which once closed takes no more and is drained.            *)
(***************************************************************************)
EXTENDS Naturals, Sequences

CONSTANT Item

VARIABLES queue, closed, lost, capacity, overflow

vars == <<queue, closed, lost, capacity, overflow>>

Init == /\ queue = <<>> /\ closed = FALSE /\ lost = 0
        /\ capacity \in Nat \ {0}
        /\ overflow \in {"block", "drop_oldest", "drop_newest", "close"}

Room == Len(queue) < capacity

Put(item) == /\ ~closed /\ Room
             /\ queue' = Append(queue, item)
             /\ UNCHANGED <<closed, lost>>

Overflows(item) ==
  /\ ~closed /\ ~Room
  /\ \/ /\ overflow = "drop_oldest"
        /\ queue' = Append(Tail(queue), item)
        /\ lost' = lost + 1 /\ UNCHANGED closed
     \/ /\ overflow = "drop_newest"
        /\ lost' = lost + 1 /\ UNCHANGED <<queue, closed>>

Take == /\ queue # <<>>
        /\ queue' = Tail(queue)
        /\ UNCHANGED <<closed, lost>>

Close == ~closed /\ closed' = TRUE /\ UNCHANGED <<queue, lost>>

Next == /\ \/ \E item \in Item : Put(item) \/ Overflows(item)
           \/ Take \/ Close
        /\ UNCHANGED <<capacity, overflow>>

Spec == Init /\ [][Next]_vars
=============================================================================
