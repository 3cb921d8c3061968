------------------------------- MODULE Sqlite -------------------------------
(***************************************************************************)
(* The handles and statements of core/sqlite.c: connections a program      *)
(* opens and the store's, lent to it; what each call tells of SQLite's     *)
(* answer; how long it waits for another's lock; and when a connection, a  *)
(* statement and a handle end.                                             *)
(*                                                                         *)
(* One thread.  But a call that allocates may run the collector, and that  *)
(* a finalizer, which calls any of these again: frames holds the calls     *)
(* under way, at most two, as no collection runs within a finalizer.  A    *)
(* call stops at each place it allocates, "guarded", "made", "binding" and *)
(* "telling", where it may also raise; "sqlite" is SQLite's own call.      *)
(***************************************************************************)
EXTENDS Integers, Sequences

CONSTANTS
    Own,            \* handles the program opens, each with its connection
    Borrowed,       \* handles the store lends, all of the store's connection
    Stmts,
    Budgets,        \* what busy_timeout is given, in pauses
    MaxTime,        \* bound: the clock
    MaxSqlCalls     \* bound: calls made

VARIABLES
    conn,       \* connection -> "unused", "open", "zombie", "closed"
    handler,    \* connection -> the handle its busy handler is given, or "none"
    handles,    \* struct handle, and what the collector knows of it
    stmts,      \* struct statement, likewise
    msg,        \* guard -> the message it holds; a guard has the number of the call that made it
    frames, sqlCalls, now,
    gaveUp      \* the last wait that ended without the lock

sqliteVars == <<conn, handler, handles, stmts, msg, frames, sqlCalls, now, gaveUp>>

Handles == Own \cup Borrowed
Conns == Own \cup {"store"}

\* A handle is one thing or the other, and no name stands for two.
ASSUME SqliteAssumption ==
    /\ Own \cap Borrowed = {} /\ "store" \notin Own
    /\ Handles \cap {"null", "none"} = {} /\ Stmts \cap (Handles \cup {"none"}) = {}
    /\ Budgets \subseteq Nat /\ MaxSqlCalls \in Nat /\ MaxTime \in Nat

NoMessage == [call |-> 0, cancelled |-> FALSE]

fresh_handle == [made |-> FALSE, db |-> "null", borrowed |-> FALSE, busy |-> -1, deadline |-> -1,
                 cancelled |-> FALSE, held |-> FALSE, gone |-> FALSE]
fresh_statement == [made |-> FALSE, live |-> FALSE, db |-> "null", owner |-> "null", at |-> "start",
                    guard |-> 0, bound |-> <<0, 0>>, held |-> FALSE, gone |-> FALSE]

\* The store's connection is its own, open throughout.
SqliteInit ==
    /\ conn = [c \in Conns |-> IF c = "store" THEN "open" ELSE "unused"]
    /\ handler = [c \in Conns |-> "none"]
    /\ handles = [h \in Handles |-> fresh_handle]
    /\ stmts = [s \in Stmts |-> fresh_statement]
    /\ msg = [g \in 1..MaxSqlCalls |-> NoMessage]
    /\ frames = << >> /\ sqlCalls = 0 /\ now = 0
    /\ gaveUp = [met |-> 0, at |-> 0, budget |-> 0]

-----------------------------------------------------------------------------
\* The calls under way.
Allocating == {"guarded", "made", "binding", "telling"}
TopFrame == frames[Len(frames)]
Pop == SubSeq(frames, 1, Len(frames) - 1)
AtStage(st) == frames # << >> /\ TopFrame.stage = st
Goes(f) == frames' = [frames EXCEPT ![Len(frames)] = f]

\* The program calls, or a finalizer does while the program's call allocates.
MayCall ==
    /\ sqlCalls < MaxSqlCalls
    /\ \/ frames = << >>
       \/ Len(frames) = 1 /\ TopFrame.stage \in Allocating
CallOf(op, h, s, result, stage, guard, values, at) ==
    /\ MayCall /\ sqlCalls' = sqlCalls + 1
    /\ frames' = Append(frames,
         [n |-> sqlCalls + 1, op |-> op, h |-> h, s |-> s, result |-> result, stage |-> stage,
          guard |-> guard, values |-> values, at |-> at, met |-> -1, interrupted |-> FALSE])
Call(op, h, s, result, stage) ==
    CallOf(op, h, s, result, stage, IF result THEN sqlCalls + 1 ELSE 0, << >>, 0)
AtOnce == MayCall /\ sqlCalls' = sqlCalls + 1 /\ UNCHANGED <<frames, now, gaveUp, msg>>

checked_handle(h) == handles[h].made /\ handles[h].held /\ handles[h].db # "null"
checked_statement(s) == stmts[s].made /\ stmts[s].held /\ stmts[s].live

\* A budget belongs to one call: its deadline is set at the first lock met.
begin_wait(h) ==
    IF handles[h].busy < 0 THEN handles[h]
    ELSE [handles[h] EXCEPT !.deadline = -1, !.cancelled = FALSE]

\* The connection a call's own SQLite call is of.
ConnOf(f) == IF f.s # "none" /\ f.op # "prepare" THEN stmts[f.s].db ELSE handles[f.h].db

-----------------------------------------------------------------------------
\* A lock another process holds, met within SQLite's call: the handler given
\* busy_timeout's budget sleeps a pause and asks again, until its deadline or
\* a signal a guard has caught.
wait_busy(signal) ==
    /\ AtStage("sqlite") /\ ConnOf(TopFrame) \in Conns /\ handler[ConnOf(TopFrame)] # "none"
    /\ TopFrame.op \in {"exec", "prepare", "step"}
    /\ LET f == TopFrame
           h == handler[ConnOf(f)]
           deadline == IF handles[h].deadline < 0 THEN now + handles[h].busy ELSE handles[h].deadline
           met == IF f.met < 0 THEN now ELSE f.met
       IN  /\ handles' = [handles EXCEPT ![h].deadline = deadline, ![h].cancelled = @ \/ signal]
           /\ IF signal
              THEN Goes([f EXCEPT !.met = met, !.interrupted = TRUE, !.stage = "busy"]) /\ UNCHANGED <<now, gaveUp>>
              ELSE IF now >= deadline
              THEN /\ Goes([f EXCEPT !.met = met, !.stage = "busy"])
                   /\ gaveUp' = [met |-> met, at |-> now, budget |-> handles[h].busy]
                   /\ UNCHANGED now
              ELSE /\ now < MaxTime /\ now' = now + 1
                   /\ Goes([f EXCEPT !.met = met])
                   /\ UNCHANGED gaveUp
    /\ UNCHANGED <<conn, handler, stmts, msg, sqlCalls>>

\* Time passes between two calls.
Later ==
    /\ frames = << >> /\ now < MaxTime /\ now' = now + 1
    /\ UNCHANGED <<conn, handler, handles, stmts, msg, frames, sqlCalls, gaveUp>>

\* The answer is copied into the call's guard before anything allocates, a
\* failure's with its message.
capture(f, cancelled) == [call |-> f.n, cancelled |-> cancelled]

\* An answer told as it is read, or kept for a record: what a failed call does.
Failed(f, cancelled) ==
    IF f.result
    THEN Goes([f EXCEPT !.stage = "telling"]) /\ msg' = [msg EXCEPT ![f.guard] = capture(f, cancelled)]
    ELSE frames' = Pop /\ UNCHANGED msg

\* The record is made, or making it raises; either way the guard is closed.
push_outcome ==
    /\ AtStage("telling")
    /\ msg' = [msg EXCEPT ![TopFrame.guard] = NoMessage]
    /\ frames' = Pop
    /\ UNCHANGED <<conn, handler, handles, stmts, sqlCalls, now, gaveUp>>

\* An allocation refused memory before SQLite was called.
Raises ==
    /\ frames # << >> /\ TopFrame.stage \in {"guarded", "made", "binding"}
    /\ frames' = Pop
    /\ UNCHANGED <<conn, handler, handles, stmts, msg, sqlCalls, now, gaveUp>>

-----------------------------------------------------------------------------
\* open: a connection that fails to open, or to take its functions, is closed.
open_database(h, fails) ==
    /\ AtOnce /\ h \in Own /\ ~handles[h].made
    /\ handles' = [handles EXCEPT ![h] = [fresh_handle EXCEPT !.made = TRUE, !.held = ~fails,
                                          !.db = IF fails THEN "null" ELSE h]]
    /\ conn' = [conn EXCEPT ![h] = IF fails THEN "closed" ELSE "open"]
    /\ UNCHANGED <<handler, stmts>>

\* Store.databases() lends its connection.
cosmic_sqlite_push_borrowed(h) ==
    /\ AtOnce /\ h \in Borrowed /\ ~handles[h].made
    /\ handles' = [handles EXCEPT ![h] = [fresh_handle EXCEPT !.made = TRUE, !.held = TRUE, !.db = "store",
                                          !.borrowed = TRUE]]
    /\ UNCHANGED <<conn, handler, stmts>>

\* exec: the plain call tells at once, the other's guard is pushed first.
handle_exec(h) ==
    /\ checked_handle(h) /\ Call("exec", h, "none", FALSE, "sqlite")
    /\ handles' = [handles EXCEPT ![h] = begin_wait(h)]
    /\ UNCHANGED <<conn, handler, stmts, msg, now, gaveUp>>
handle_exec_result(h) ==
    /\ handles[h].made /\ handles[h].held /\ Call("exec", h, "none", TRUE, "guarded")
    /\ UNCHANGED <<conn, handler, handles, stmts, msg, now, gaveUp>>
execute ==
    /\ AtStage("guarded") /\ TopFrame.op = "exec"
    /\ IF checked_handle(TopFrame.h)
       THEN Goes([TopFrame EXCEPT !.stage = "sqlite"]) /\ handles' = [handles EXCEPT ![TopFrame.h] = begin_wait(TopFrame.h)]
       ELSE frames' = Pop /\ UNCHANGED handles
    /\ UNCHANGED <<conn, handler, stmts, msg, sqlCalls, now, gaveUp>>

\* Mutant: a lent handle sets it too.
handle_busy_timeout_lent(h, ms) ==
    /\ AtOnce /\ checked_handle(h)
    /\ handles' = [handles EXCEPT ![h].busy = ms, ![h].deadline = -1, ![h].cancelled = FALSE]
    /\ handler' = [handler EXCEPT ![handles[h].db] = h]
    /\ UNCHANGED <<conn, stmts>>

\* busy_timeout: the handler is given the handle itself, so a lent one, which
\* its connection outlives, may not set it.
handle_busy_timeout(h, ms) ==
    /\ AtOnce /\ checked_handle(h) /\ ~handles[h].borrowed
    /\ handles' = [handles EXCEPT ![h].busy = ms, ![h].deadline = -1, ![h].cancelled = FALSE]
    /\ handler' = [handler EXCEPT ![handles[h].db] = h]
    /\ UNCHANGED <<conn, stmts>>

\* prepare: the statement is made, holding its handle, and the handle looked
\* at again, as a finalizer may have closed it.
handle_prepare(h, s, result) ==
    /\ checked_handle(h) /\ ~stmts[s].made
    /\ \A i \in 1..Len(frames) : frames[i].s # s
    /\ Call("prepare", h, s, result, "made")
    /\ UNCHANGED <<conn, handler, handles, stmts, msg, now, gaveUp>>
prepare_statement ==
    /\ AtStage("made")
    /\ LET h == TopFrame.h
       IN  IF checked_handle(h)
           THEN /\ stmts' = [stmts EXCEPT ![TopFrame.s] = [fresh_statement EXCEPT
                                !.made = TRUE, !.db = handles[h].db, !.owner = h]]
                /\ handles' = [handles EXCEPT ![h] = begin_wait(h)]
                /\ Goes([TopFrame EXCEPT !.stage = "sqlite"])
           ELSE frames' = Pop /\ UNCHANGED <<handles, stmts>>
    /\ UNCHANGED <<conn, handler, msg, sqlCalls, now, gaveUp>>

\* SQLite's call of exec or prepare is over: done; or failed, of a lock, the
\* SQL, or what followed it, and the statement is none.
Executed(ok) ==
    /\ frames # << >> /\ TopFrame.op \in {"exec", "prepare"} /\ TopFrame.stage \in {"sqlite", "busy"}
    /\ (TopFrame.stage = "busy" => ~ok)
    /\ LET f == TopFrame
       IN  /\ IF ok THEN frames' = Pop /\ UNCHANGED msg
              ELSE Failed(f, f.stage = "busy" /\ handles[f.h].cancelled)
           /\ stmts' = IF f.op = "prepare"
                       THEN [stmts EXCEPT ![f.s].live = ok, ![f.s].held = ok] ELSE stmts
    /\ UNCHANGED <<conn, handler, handles, sqlCalls, now, gaveUp>>

OpenOn(c) == \E s \in Stmts : stmts[s].live /\ stmts[s].db = c

\* close: a lent handle lets go, its own connection closes unless a statement
\* is open on it.
handle_close(h) ==
    /\ AtOnce /\ handles[h].made /\ handles[h].held
    /\ LET c == handles[h].db
       IN  IF c = "null" \/ handles[h].borrowed
           THEN handles' = [handles EXCEPT ![h].db = "null"] /\ UNCHANGED conn
           ELSE IF OpenOn(c) THEN UNCHANGED <<handles, conn>>
           ELSE handles' = [handles EXCEPT ![h].db = "null"] /\ conn' = [conn EXCEPT ![c] = "closed"]
    /\ UNCHANGED <<handler, stmts>>

-----------------------------------------------------------------------------
\* Mutant: the empty guard stays cached while the failure is told.
statement_stepped_kept(f, ended) ==
    IF ended \in {"row", "done"}
    THEN frames' = Pop /\ stmts' = [stmts EXCEPT ![f.s].at = ended] /\ UNCHANGED msg
    ELSE /\ stmts' = [stmts EXCEPT ![f.s].at = "bad"]
         /\ Failed(f, f.stage = "busy" /\ handles[stmts[f.s].owner].cancelled)

\* A row or the end is told at once.  A failure is captured, and the guard
\* taken from the statement before its record is made.
statement_stepped(f, ended) ==
    IF ended \in {"row", "done"}
    THEN frames' = Pop /\ stmts' = [stmts EXCEPT ![f.s].at = ended] /\ UNCHANGED msg
    ELSE /\ stmts' = [stmts EXCEPT ![f.s].at = "bad", ![f.s].guard = IF f.result THEN 0 ELSE @]
         /\ Failed(f, f.stage = "busy" /\ handles[stmts[f.s].owner].cancelled)

statement_step(s) ==
    /\ checked_statement(s) /\ Call("step", "none", s, FALSE, "sqlite")
    /\ handles' = [handles EXCEPT ![stmts[s].owner] = begin_wait(stmts[s].owner)]
    /\ UNCHANGED <<conn, handler, stmts, msg, now, gaveUp>>

\* The guard is the one cached across rows, or one made for this call.
statement_step_result(s) ==
    /\ checked_statement(s)
    /\ IF stmts[s].guard # 0
       THEN /\ CallOf("step", "none", s, TRUE, "sqlite", stmts[s].guard, << >>, 0)
            /\ handles' = [handles EXCEPT ![stmts[s].owner] = begin_wait(stmts[s].owner)]
       ELSE Call("step", "none", s, TRUE, "guarded") /\ UNCHANGED handles
    /\ UNCHANGED <<conn, handler, stmts, msg, now, gaveUp>>
step_guarded ==
    /\ AtStage("guarded") /\ TopFrame.op = "step"
    /\ LET s == TopFrame.s
       IN  /\ stmts' = [stmts EXCEPT ![s].guard = TopFrame.guard]
           /\ IF checked_statement(s)
              THEN Goes([TopFrame EXCEPT !.stage = "sqlite"]) /\ handles' = [handles EXCEPT ![stmts[s].owner] = begin_wait(stmts[s].owner)]
              ELSE frames' = Pop /\ UNCHANGED handles
    /\ UNCHANGED <<conn, handler, msg, sqlCalls, now, gaveUp>>
step_over(ended) ==
    /\ frames # << >> /\ TopFrame.op = "step" /\ TopFrame.stage \in {"sqlite", "busy"}
    /\ (TopFrame.stage = "busy" => ended = "bad")
    /\ statement_stepped(TopFrame, ended)
    /\ UNCHANGED <<conn, handler, handles, sqlCalls, now, gaveUp>>

-----------------------------------------------------------------------------
\* One parameter bound, refused while the statement is stepped: bind_null and
\* the like.
Bindable(s) == stmts[s].at = "start"
bound(s, i) ==
    /\ AtOnce /\ checked_statement(s)
    /\ stmts' = [stmts EXCEPT ![s].bound[i] = IF Bindable(s) THEN sqlCalls + 1 ELSE @]
    /\ UNCHANGED <<conn, handler, handles>>

\* An array: the list is checked, room made for its copy, and the statement
\* that was read before it bound.
bind_list(s, i) ==
    /\ checked_statement(s)
    /\ CallOf("list", "none", s, FALSE, "binding", 0, [j \in 1..i |-> "array"], i)
    /\ UNCHANGED <<conn, handler, handles, stmts, msg, now, gaveUp>>

\* All of a statement's values, read raw: every one looked at before any is
\* bound.
value_kind == {"plain", "array", "bad"}
statement_bind_values_result(s, v) ==
    /\ stmts[s].made /\ stmts[s].held
    /\ CallOf("values", "none", s, TRUE, "guarded", sqlCalls + 1, v, 1)
    /\ UNCHANGED <<conn, handler, handles, stmts, msg, now, gaveUp>>

AllFit(f) == \A i \in 1..Len(f.values) : f.values[i] # "bad"

\* Where binding stops, from i on: at the first that waits for room.
Stops(f, i) == {j \in i..Len(f.values) : f.values[j] \in {"array", "bad"}}
StopAt(f, i) ==
    IF Stops(f, i) = {} THEN Len(f.values) + 1
    ELSE CHOOSE j \in Stops(f, i) : \A k \in Stops(f, i) : j <= k

\* The parameters from i on, bound until one waits for room, and the
\* statement then.
Onward(f, s, i) ==
    LET stop == StopAt(f, i)
    IN  /\ stmts' = [stmts EXCEPT ![f.s] = [s EXCEPT !.bound =
                        [j \in 1..2 |-> IF j \in i..(stop - 1) /\ s.live THEN f.n ELSE s.bound[j]]]]
        /\ IF stop <= Len(f.values) /\ f.values[stop] = "array"
           THEN Goes([f EXCEPT !.stage = "binding", !.at = stop]) /\ UNCHANGED msg
           ELSE IF stop <= Len(f.values) THEN frames' = Pop /\ UNCHANGED msg
           ELSE IF f.result THEN Goes([f EXCEPT !.stage = "telling"]) /\ msg' = [msg EXCEPT ![f.guard] = capture(f, FALSE)]
           ELSE frames' = Pop /\ UNCHANGED msg

values_guarded ==
    /\ AtStage("guarded") /\ TopFrame.op = "values"
    /\ LET f == TopFrame
       IN  IF ~checked_statement(f.s) \/ ~AllFit(f) THEN frames' = Pop /\ UNCHANGED <<stmts, msg>>
           ELSE IF ~Bindable(f.s) THEN Failed(f, FALSE) /\ UNCHANGED stmts
           ELSE Onward(f, stmts[f.s], 1)
    /\ UNCHANGED <<conn, handler, handles, sqlCalls, now, gaveUp>>

\* The room is had.  On a statement finalized meanwhile the call touches
\* memory that is gone: it may fail, or seem to succeed.
bind_array(ok) ==
    /\ AtStage("binding")
    /\ LET f == TopFrame
           s == stmts[f.s]
           takes == s.live /\ Bindable(f.s)
       IN  /\ (s.live => ok = Bindable(f.s))
           /\ IF ok THEN Onward(f, IF takes THEN [s EXCEPT !.bound[f.at] = f.n] ELSE s, f.at + 1)
              ELSE Failed(f, FALSE) /\ UNCHANGED stmts
    /\ UNCHANGED <<conn, handler, handles, sqlCalls, now, gaveUp>>

\* The current row's columns, which SQLite leaves undefined where there is no
\* row; and the other reads, that need none.
checked_column(s) == stmts[s].at = "row"
statement_bytes(s) ==
    /\ AtOnce /\ checked_statement(s) /\ checked_column(s)
    /\ UNCHANGED <<conn, handler, handles, stmts>>
handle_changes(h) ==
    /\ AtOnce /\ checked_handle(h)
    /\ UNCHANGED <<conn, handler, handles, stmts>>

-----------------------------------------------------------------------------
\* reset and rewind: whatever the last step answered, the statement is at its
\* start.
rewound(s, clear) ==
    /\ AtOnce /\ checked_statement(s)
    /\ stmts' = [stmts EXCEPT ![s].at = "start", ![s].bound = IF clear THEN <<0, 0>> ELSE @]
    /\ handles' = [handles EXCEPT ![stmts[s].owner] = begin_wait(stmts[s].owner)]
    /\ UNCHANGED <<conn, handler>>

Finalized(s) ==
    /\ stmts' = [stmts EXCEPT ![s].live = FALSE, ![s].gone = ~stmts[s].held]
    /\ handles' = IF stmts[s].live THEN [handles EXCEPT ![stmts[s].owner] = begin_wait(stmts[s].owner)] ELSE handles
statement_finalize(s) ==
    /\ AtOnce /\ stmts[s].made /\ stmts[s].held
    /\ Finalized(s)
    /\ UNCHANGED <<conn, handler>>

\* The program lets go of a value; one in a call under way is on its stack.
LetGo ==
    /\ frames = << >>
    /\ \/ \E h \in Handles : handles[h].held /\ handles' = [handles EXCEPT ![h].held = FALSE] /\ UNCHANGED stmts
       \/ \E s \in Stmts : stmts[s].held /\ stmts' = [stmts EXCEPT ![s].held = FALSE] /\ UNCHANGED handles
    /\ UNCHANGED <<conn, handler, msg, frames, sqlCalls, now, gaveUp>>

MayCollect == frames = << >> \/ (Len(frames) = 1 /\ TopFrame.stage \in Allocating)
\* A value reached by a call under way.
OnStack(x) == \E i \in 1..Len(frames) : frames[i].s = x \/ frames[i].h = x

statement_gc(s) ==
    /\ MayCollect /\ stmts[s].made /\ ~stmts[s].held /\ ~stmts[s].gone /\ ~OnStack(s)
    /\ Finalized(s)
    /\ UNCHANGED <<conn, handler, msg, frames, sqlCalls, now, gaveUp>>

\* A statement holds its handle, and was given its finalizer after it, so it
\* is finalized first.  The connection then closes.
handle_gc(h) ==
    /\ MayCollect /\ handles[h].made /\ ~handles[h].held /\ ~handles[h].gone /\ ~OnStack(h)
    /\ \A s \in Stmts : stmts[s].owner = h => stmts[s].gone
    /\ LET c == handles[h].db
       IN  conn' = IF c # "null" /\ ~handles[h].borrowed
                   THEN [conn EXCEPT ![c] = IF OpenOn(c) THEN "zombie" ELSE "closed"] ELSE conn
    /\ handles' = [handles EXCEPT ![h].db = "null", ![h].gone = TRUE]
    /\ UNCHANGED <<handler, stmts, msg, frames, sqlCalls, now, gaveUp>>

SqliteNext ==
    \/ \E h \in Own : \E fails \in BOOLEAN : open_database(h, fails)
    \/ \E h \in Borrowed : cosmic_sqlite_push_borrowed(h)
    \/ \E h \in Handles : handle_exec(h) \/ handle_exec_result(h) \/ handle_close(h) \/ handle_gc(h)
    \/ \E h \in Handles, ms \in Budgets : handle_busy_timeout(h, ms)
    \/ \E h \in Handles, s \in Stmts, result \in BOOLEAN : handle_prepare(h, s, result)
    \/ execute \/ prepare_statement \/ push_outcome \/ Raises \/ Later \/ LetGo
    \/ \E signal \in BOOLEAN : wait_busy(signal)
    \/ \E ok \in BOOLEAN : Executed(ok) \/ bind_array(ok)
    \/ \E s \in Stmts : statement_step(s) \/ statement_step_result(s) \/ statement_finalize(s) \/ statement_gc(s)
    \/ \E s \in Stmts : statement_bytes(s)
    \/ \E h \in Handles : handle_changes(h)
    \/ step_guarded \/ values_guarded
    \/ \E ended \in {"row", "done", "bad"} : step_over(ended)
    \/ \E s \in Stmts, i \in 1..2 : bound(s, i) \/ bind_list(s, i)
    \/ \E s \in Stmts, v \in value_kind \X value_kind : statement_bind_values_result(s, v)
    \/ \E s \in Stmts, clear \in BOOLEAN : rewound(s, clear)

SqliteSpec == SqliteInit /\ [][SqliteNext]_sqliteVars

-----------------------------------------------------------------------------
\* What a call tells is what its own SQLite call answered, with a finalizer
\* calling into the same connection, and the same statement, at any place it
\* allocates: a message is held by the guard of the call telling it and by no
\* other, no statement keeps that guard, "cancelled" is said of a wait this
\* call's signal ended, and one that ran out had its whole budget, however
\* many locks it met and whatever an earlier call had left (capture,
\* begin_wait, statement_step_result, sqlite.c:46, :135, :967).
OutcomeItsOwn ==
    /\ \A i \in 1..Len(frames) : frames[i].stage = "telling" =>
          msg[frames[i].guard] = [call |-> frames[i].n, cancelled |-> frames[i].interrupted]
    /\ \A g \in DOMAIN msg : msg[g] # NoMessage =>
          /\ \E i \in 1..Len(frames) : frames[i].stage = "telling" /\ frames[i].guard = g
          /\ \A s \in Stmts : stmts[s].guard # g
    /\ gaveUp.at - gaveUp.met = gaveUp.budget

\* Nothing outlives what it points to: a live statement's connection is open
\* and its handle not collected, a connection's busy handler is given a handle
\* that still is, and no SQLite call is made on a closed connection or, arrays
\* aside, a finalized statement, though the handle may be closed and the
\* statement finalized while the call allocates (prepare_statement,
\* handle_busy_timeout, handle_gc).
LifetimesHold ==
    /\ \A s \in Stmts : stmts[s].live =>
          conn[stmts[s].db] = "open" /\ ~stmts[s].gone /\ ~handles[stmts[s].owner].gone
    /\ \A c \in Conns : conn[c] \in {"open", "zombie"} /\ handler[c] # "none" => ~handles[handler[c]].gone
    /\ \A i \in 1..Len(frames) : frames[i].stage = "sqlite" =>
          /\ ConnOf(frames[i]) # "null" /\ conn[ConnOf(frames[i])] = "open"
          /\ (frames[i].op = "step" => stmts[frames[i].s].live)

\* "neither a metatable nor a coercion may run Lua between checking this
\* statement and binding its parameters" (sqlite.c:894): the statement an
\* array is bound to is the live one that was checked.
BindsChecked ==
    \A i \in 1..Len(frames) : frames[i].stage = "binding" => stmts[frames[i].s].live
=============================================================================
