# cosmic in TLA+

A verification project for cosmic, a Teal/Lua runtime on a C core. It models the
parts of the runtime whose correctness depends on the order of events, on what other
processes do meanwhile, or on a boundary a test would hardly hit: the task scheduler and
what is built on it, the sandbox, and the core's own state machines. TLC checks
the models on small instances; TLAPS proves, for every instance, the safety of the scheduler and its tables, channels, signal
guards, the server, connections, sockets, lookups, HTTP transfers and trust, spawned and restricted processes, child handles, the connector,
startup, the artifact, the store and SQLite.

Paths below are relative to the repository. `PROJECT.json` lists every component,
run, mutant, hazard and theorem, and the source lines each definition translates.

## Inventory

| part | source | state | operations | what is hard | what makes it correct |
|---|---|---|---|---|---|
| task scheduler | `cosmic/poll.tl` | tasks, their waits, ready queue, running batch, joiners, notifiers' waiters | wait, ready, delay, join, spawn, cancel, kill, shielded, notify, closing, wake, the loop's turn | one wait ended by several events; kills between wake and resume; handlers that run inside a kill | each live task is in one place; lists hold whom they should; answers are true; deadlock is reported when real and only then; timed waits end |
| timer heap | `cosmic/poll.tl` | binary heap, stale count | push, pop, rebuild | answered waits stay in the heap until a rebuild | no live wait lost, earliest first |
| descriptor tables | `cosmic/poll.tl` | packed arrays handed to `sys.poll`, watches by descriptor | enter, leave, poll, answer | entries move as others leave | tables and waits agree; a poll answers all who asked |
| channels | `cosmic/channel.tl` | a ring of values, two notifiers, overflow policy | send, try_send, receive, close | a notice given to a task that dies or gives up | a bounded FIFO queue; no waiter forgotten |
| signal guards | `cosmic/signal.tl`, `core/syscalls.c` | the stamp, the wake pipe, nested guards, the signal owed | guard, cancelled, take, wait, close, release | signals between any two instructions; guards closed in any order; one pipe for all | no signal lost or seen by a guard that opened after it; waits wake |
| network server | `cosmic/net.tl` | listeners, accept tasks, connection tasks, limit, stop state | serve, accept, stop, drain, watch | callbacks that wait or raise in the middle; stop, signals and connections ending at once | the books balance; a stopped server ends and leaves nothing open |
| connections | `cosmic/internal/connection.tl` | descriptor, sticky failures | read, write, close | a close while others wait, the number reused; writes that interleave | bytes answered and sent are the connection's, in order; a broken write is told |
| connector | `cosmic/internal/connector.tl`, `core/connector.c` | a confined process, connects in flight; requests pending, the stream read so far | start, ask, serve, settle, read, give up, close | whoever reads serves all; answers late, lost, out of order; the process dies | each request gets its own socket or a failure, and is answered |
| spawn and its sandbox | `core/syscalls.c` | parent, child, helper, init, program; pipes; the record of the sandbox | spawn, waitpid | four processes, any step failing, any killed | the program runs only fully held; failures leave nothing; all ends |
| child handles | `cosmic/child.tl` | handles, owned pids, filed statuses | start, wait, try_wait, stop, close, finalize, end_strays | reaping for one another; finalizers inside a start | each status reaches its owner, once |
| sandbox filters | `core/promises.c`, `core/connector.c`, `core/syscalls.c` | the instructions of a seccomp program | build, run | jumps, splits, halves of an address | the program lets through what it is meant to and nothing else |
| restriction | `core/syscalls.c` | limits, file rights, filter, handles on /proc | restrict_self amid the program's own changes | steps that fail after others took hold | what is told is what holds |
| lookups | `core/socket.c` | parked connects, stand-in descriptors | step, supply, wait, result, release | numbers closed and reused | the right server asked; late is a timeout |
| sockets | `core/socket.c` | the file a listener made; descriptors received | listen, close, recvfds | strangers at the path; messages malformed part-way | only its own file removed; every descriptor owned once |
| HTTP client | `core/http.c` | transfers on one multi handle, buffers, trust | open, read, pause, resume, close; verify | reentry and pauses; a static shared by handshakes | the body as sent; each chain judged alone |
| module store | `core/store.c` | the list of databases | searcher, lookup, attach, alone | raises in the middle; names that may not be shadowed | answers from the right database; the list whole |
| startup and artifact | `core/startup.c`, `main.c`, `portable.c`, `vfs.c` | cached entry and stamp; the opened database; the decoded manifest | hash, stamp, open, decode, read | changes between look and use; numbers out of a file | trust only what was hashed; reads inside the database |
| SQLite | `core/sqlite.c` | handles, statements, messages, busy handlers | open, exec, prepare, bind, step, finalize, close | finalizers inside any allocation | each outcome its own call's; nothing used after its end |
| compressed streams | `core/compress.c` | phase, kept input, member's codec | update, finish | input cut anywhere | what whole input gives |
| vectors | `core/vector.c` | rows, packed bits, a bounded heap | add, search | lazily built bits; growth | the best k of the rows there are |
| files | `core/syscalls_fs.c` | names others change | open, chmod, chown, utimensat, remove_tree, tree_digest | swaps between look and use | the artifact guarded; only the tree removed; a digest of what was there |
| HTTP server, relay, event streams, sessions, rebuild lock | `cosmic/http/`, `cosmic/web/`, `build/` | one exchange or one file each | | | not modelled, see below |
| parsers, templates, time, language, build, CI | `cosmic/`, `lang/`, `build/`, `ci/` | none beyond one call | | values, not order | not modelled |

How they interact. Everything concurrent in a program runs as a task of one
`Poll.run`, on one thread. A task runs until it waits; a wait is ended by a
descriptor, a timer, a notice, a cancel, a joined task's end or a kill. `Channel`
waits with notifiers; `Signal.guard`'s wait is a wait on a pipe the signal handler
writes to; `Net.serve` is a `Poll.run` of its own with a guard, a watcher task, a task for
each listener and connection, and callbacks. Connections, the connector's client and
lookups are called by any task and hold their state across `Poll`'s waits. The C core is
called by all of them and calls back only through Lua's collector (finalizers), its one
source of reentry; its other interleavings are with other processes: a sandbox's, the
connector, whoever else writes the file system.

## Modules

| module | models | run |
|---|---|---|
| `Poll` | the scheduler | `tasks`, `waits`, `channel` |
| `PollProofs` | theorems about `Poll` and `SignalGuard` | tlapm |
| `LoopProofs` | theorems about `PollTimers` and `PollWatch` | tlapm |
| `ChannelProofs`, `ConnectorProofs` | theorems about the module of that name | tlapm |
| `NetProofs` | theorems about `Sockets`, `Connection`, `NetServe`, `Lookup` and `Http` | tlapm |
| `ProcessProofs` | theorems about `Spawn`, `Restrict` and `Children` | tlapm |
| `CoreProofs` | theorems about `Startup`, `Store`, `Sqlite` and `Artifact` | tlapm |
| `SequenceLemmas` | lemmas on lists that the proofs share | tlapm |
| `PollTimers`, `PollWatch` | the tables behind `Poll`'s timed waits and descriptors | `net` |
| `Channel` | a channel used by the tasks of a run; extends `Poll` | `tasks`, `channel` |
| `BoundedQueue` | what a channel promises: the specification `Channel` implements | `channel` |
| `SignalGuard` | guards, the core's stamp and pipe, and the tasks that wait | `tasks`, `waits`, `guards_two_waits` |
| `NetServe` | the server | `net`, `ends`, `serve_lost_stop` |
| `Connection` | two tasks at one connection, and the next to have its number | `net` |
| `Connector` | the connector process and the tasks that share it | `net`, `waits` |
| `Children` | child handles and reaping | `net`, `child_unowned` |
| `Spawn` | the core's spawn and its sandbox | `ends` |
| `Lookup`, `Sockets`, `Http` | lookups; listeners and passed descriptors; transfers and trust | `net` |
| `Filters`, `Restrict` | seccomp programs; a process restricting itself | `core` |
| `Store`, `Startup`, `Artifact` | modules' databases; stamps and opens; the manifest | `core`, `startup_stamp` |
| `Sqlite` | handles and statements | `core`, `sqlite_bind` |
| `Compress`, `Corpus`, `Files` | streams; vectors; guarded files, removals, digests | `core`, `remove_swapped` |

Definitions that change another as a plausible bug would (their comment says "Mutant")
are listed in `PROJECT.json` with the property that must catch them.

### Poll

One variable for each table of `Loop` and field of `State`: `tasks`, `live`, `ended`,
`killed`, `cancelled`, `shields`, `parked` and `wait` (a task's current `Wait`),
`joiners`, `waiters`, `ready`, `batch`. `before` is the order of the waits' `seq`,
kept as a relation so that it needs no counter. Two fields have no table in the code:
`current` is the coroutine that runs, `killing` the task whose `<close>` handlers a
kill is running.

A task's actions are the calls it may make between two waits (`Spawn`, `Cancel`,
`NotifyOne`, `NotifyAll`, `Kill...`, `Shield`, `AnswerWaits` for `Poll.closing` and
`Poll.wake`), the waits themselves (`Yield`), and its end (`Stop`). A kill is two steps,
because handlers run between them and may notify, cancel and close. The loop's turn is
`Resume`/`PassBy` for the batch, `PollOnce` or `PollStuck`, `ExpireOne`, `TakeBatch`:
the order of `turn`, `poll_once` and `expire`. The kernel may report any set of
descriptors; time moves by `Tick`.

Left out: waits outside a task (they are a `sys.poll` of one descriptor), argument
checks, and finalizers' waits.

### PollTimers and PollWatch

Both hold the tables of `poll.tl` as they are: the heap is a sequence that `heap_push`,
`sift_down`, `pop_timer` and `compact_timers` change slot by slot, and the watch tables
are the packed arrays with each watch's index. They justify what `Poll` takes for granted:
that the timed waits are found earliest first and that a poll answers those who asked.
A mask of no events is left out of `PollWatch`.

### Channel and BoundedQueue

`Channel` extends `Poll`, so a send or receive waits, is noticed, cancelled, timed out or
killed by the scheduler's own actions, each conjoined with what the call does to the
queue. `op` is the call each task is in. `close` is two steps, as it makes two
`notify_all` calls. `BoundedQueue` is the promise, with no tasks in it: items leave in
order, once, and an overflow does what its policy says. The refinement mapping reads the
abstract queue off the ring: `items[first .. first + count - 1]`.

### SignalGuard

`stamp`, `depth`, `read_to` and `readable` are the core's (`child_signal_stamp`,
`child_guard_depth`, `child_signal_read_to`, a byte in the pipe); `guards`, `status`,
`read`, `fresh`, `signal` and `owed` are `signal.tl`'s. `Signal` is the handler and may come
between any two steps. The other steps are atomic against it because the core opens and
closes a guard with both signals blocked and reads the stamp in one load, so that a
signal inside one of them leaves what a signal before or after it would. Draining the pipe
and reading the guard are two steps, since a signal between them is different from either.
Delivering a signal again ends the process (`died`): the dispositions a guard finds are
the default, as an ignored signal is never caught. `Turn` is the loop's poll as
`Poll` has it. Left out: a disposition that cannot be restored (sigaction of these signals
does not fail) and an open that fails for want of a pipe, which changes nothing.

### NetServe

The variables are `serving`'s record `s` (`open`, `conns`, `stopping`, `hurried`,
`signalled`, the waiter, stopper and grace tasks) and where each task is. A step is what a
task does between two waits; where a callback in the middle may wait or raise, the step
is split there and `thread` names the task that goes on. The program's callbacks may return,
wait (`OnError`), raise, or call `stop`; protocols may never return. `on_stop` may wait and need never be
answered: `stopCut` is the cancel a second signal gives the stopper (`net_serve_test.tl:782-812`), after which its waits, its join of the
waiter included, are answered at once, so that `on_stop` may run before `stop` has closed every listener. A server
given no `on_stop` is one whose `on_stop` does nothing. Arrivals and signals come from outside.

### Connection

`conn` is the class's fields, `holder` whose socket each number is, `user` a task in the middle
of a call: the number it read on entry, how far its write is, what its wait was answered. The
loop is `Poll`'s as far as a connection sees it: a wait is answered by readiness, a time limit,
a cancel or the close of its descriptor (`Poll.closing`), and the task resumes some
time after, or is killed. A second connection is made once the first has closed, so that its
number is the first's. Every byte is known by its write and place, so that one lost, doubled,
out of order or sent to another peer shows.

### Connector

Both ends: `start`, `proc`, `serving` and the rest are `connector.c`'s process from fork to its
serving loop; `channel` and `caller` are `connector.tl`'s stream and the tasks in `ask`. A
reply is two elements of the stream (header; marker with socket), read up to any element. A
request's wanted peer is its id, so a socket given to the wrong caller shows. Tags wrap at
`MaxTag`. The process may be killed and started again; a caller may be killed, cancelled or
time out at any wait. A stream lost and the next one are two objects in the code: `stream` is which of them a
task asked on, and `Standing` keeps a task of the lost one from reading the next.

### Children and Spawn

`Children` has every way a child's exit is noticed. A look is one step, as all is one
thread; `starting`, `finalizing` and `blocked` are what holds it between two: a start under way, the finalizer
the collector may run in the middle of it, a `waitpid`. A child may lead a process group, and what it makes be in that group or not: ending
a handle signals what its group has left (`clear_group`). The kernel gives out any pid that is neither a process's own nor its
group's, one given out before included. The code knows a child by its pid, which the kernel may give out again once the child is reaped, by another
handle's `waitpid(-1)`, before its own handle has looked. `reused` remembers the handles to which that happened; of those the code promises
nothing (Findings), and `ChildrenKept` speaks of all the others, among reused pids. Left out: relays, the pump of pipes.

`Spawn` is one spawn on Linux with every process it makes. `place` is where each is in its own
function, `holds` what has been applied to it, `mem` the memory the vforked child shares with
its parent, `status`/`ready` the pipes. Any step may fail; up to `MaxFaults` faults from outside kill a
process, change a path or end the parent. A plan is the set of options asked for.

### Lookup, Sockets, Http

`Lookup` is `socket.c`'s lookup driven as `relay_resolv.tl` drives it; c-ares is what its
callbacks see of it; other tasks open and close descriptors at any wait. `Sockets` has
listeners that share a path with each other and a stranger, new files that may have any inode no name and
no bound socket holds, and one message with descriptors, header by header. `raced` remembers which
listeners had the name changed by another, stranger or listener, in the moment between their look and their
use of it. `listen`'s comment allows for that after its bind, and no call of the kernel's removes a name only while it is
a given file; `FileItsOwn` speaks of the rest. `Http` has curl as a script of headers, data and ends; `op` is the
call under way, since any call drives all transfers; the trust half reads its rows one by one
and judges chains certificate by certificate.

### Filters and Restrict

`Filters` builds each program instruction by instruction as the code does, decision tree, rule
blocks and patched jumps included, and runs it as the kernel would on every call tried, against a direct
statement of what each promise allows. A word is a number and a set of flags. Jumps over 255
instructions, which the code guards, never come about. `Restrict` is `restrict_self` step by step
on Linux and macOS, before, between and after changes the program makes to its own
descriptors, children and limits.

### Store, Startup, Artifact

An operation of `Store` is one action, with a raise wherever it allocates, except `alone`, within
which any other runs. `Startup` has two starts over one cached entry whose two halves others
may rewrite or replace at any step, times in seconds; and a database opened twice by its path. A new file may
have any inode that no name and no descriptor holds.
`Artifact` decodes manifests whose fields may hold any number of their width, then
reads through the VFS. The format's lengths, its alignment and the width of a word are constants: `MCCore.cfg` gives them
small values, the proof leaves them open.

### Sqlite

`frames` holds the calls under way: a call stops at each place it allocates, where the collector
may run a finalizer that makes any other call, or the allocation raise. SQLite is external:
its calls answer a row, done, busy or an error. A guard's message is the number of the call it is of.

### Compress, Corpus, Files

`Compress` feeds a stream chunk by chunk, with any cut and output limit, and compares with
`Whole`, which reads the input at once; the library inside a member is external. `Corpus` adds rows and
searches, comparing with the definition of the best k. `Files` runs one call, a kernel
call at a time, while another process swaps what names hold.

## Runs

The check of one instance each. `net`, `core`, `tasks`, `waits` and `ends` hold several parts: a variable
picks one in the initial state, that part's next-state relation runs and the others keep
their initial state. The parts share no variables, so the behaviours of the run are those of the
parts, each explored in full, and every invariant is checked in all states of the part
it is about. In `waits`, fairness is of the chosen part's actions only; the idle loop is one whose main
task has returned.

| run | instance | checks |
|---|---|---|
| `tasks` | 3 tasks, notifiers, a timeout, a shield, at `Poll` or at a channel of capacity 1 with 2 items; 3 guards, 1 task waiting, 2 signals | `OnePlace`, `ListsExact`, `CancelledNotParked`, `Truthful`, `DeadlockHonest`, `NoticesKept`, `GuardsAgree`, `NoSignalLost` |
| `waits` | 2 tasks, 2 descriptors, a notifier, a timeout; 2 tasks on one guard; 2 tasks, 2 requests of a connector, one kill | `TimedWaitEnds`, `WokenResumes`, `WaitTakes`, `AskAnswered` |
| `channel` | 3 items; 2 tasks with capacities 1 and 2 and all policies, a timeout where 1 and blocking; 3 tasks with capacity 1, blocking, one of them cancelled; 3 tasks free at `Poll` with a notifier and a descriptor | `IsBoundedQueue` (refinement), `CallersServed`, `StuckEnds` |
| `ends` | a server with 2 connections, limit 2, and a grace with one signal, or no limit to its grace and 2 signals; 9 plans of a spawn, 2 faults | `ServerEnds`, `ProgramHeld`, `SpawnTells`, `SpawnEnds` |
| `net` | 7 timed waits; 2 watches; a server with 2 listeners; 2 users of 2 connections; 3 servers of a lookup; 2 listeners, 3 inodes, 3 moves of a stranger; 2 transfers, 7 chains; 2 children and a process of theirs, 2 pids; a connector with 3 requests, 2 starts | `TimersFire`, `WatchTables`, `ServerKeeps`, `ConnectionExact`, `LookupAnswers`, `SocketsOwned`, `TransfersExact`, `ChainsJudgedAlone`, `ChildrenKept`, `RequestsKept`, `SocketsRight` |
| `core` | 24 programs of 3 kinds; 2 restrictions of 3; 6 questions of the store; 2 starts; manifests of 2 entries; 2 handles and a statement; streams of up to 15 bytes; 4 rows; a tree of 3 directories | `FilterExact`, `RestrictTells`, `StoreAnswers`, `StartupTrusts`, `ArtifactReads`, `OutcomeItsOwn`, `LifetimesHold`, `StreamsExact`, `SearchExact`, `FilesHold` |
| `guards_two_waits`, `serve_lost_stop`, `child_unowned`, `startup_stamp`, `sqlite_bind`, `remove_swapped` | the least that shows it | violations: see Findings |

Why the bounds are enough. Three tasks give a kill a killer, a victim and a bystander
the victim's notice must reach. One time unit lets a timeout fall before, with and after
each other event. Seven waits let heaps of every size up to seven be
pushed, popped and sifted, and a rebuild leave three (`STALE_FLOOR` is 1 so that rebuilds happen). A rebuild
that leaves four, the least for which `heapify` sifts more than the root, needs nine: that instance
passes too with the timers alone (1.7 million states) and is too large beside the other systems of the run. Of the tasks at `Poll`
one at a time is shielded, and not the main one (a shield puts off its own task's cancel only; in `waits` each
task may be shielded). Three items wrap a ring of one
or two. A notice on its way to a caller that dies matters to a second caller beside it, and someone has to have sent it: three tasks
at a channel, one of which may be cancelled (`CallersServed`; its mutant, a kill that drops the notice, needs all three). Three tasks at `Poll` are
what it takes for a notice held in the batch by a killed task to reach one that waits on: `AllStuck` is that no wake with a notice is under way
either, and without that clause `StuckEnds` is violated. Time limits are left to two tasks, where they
meet every other event of a call. Two connections make the grace join a second after a first, with its deadline passing before,
between and after. Where the grace ends by itself the second signal is left out, and where only the second signal ends it
no accept fails and no protocol raises: the other halves are in `net`, for safety. Two pids for two children and one process of theirs come back
as soon as a process is reaped, in every way one can. Three guards let one close under, over and between others. Two listeners and a
limit below the connections make a freed place one that several accept tasks want. A connection
needs two tasks and one reuse of its number; a connector a request in flight, one given up, and one
that comes after with tags that wrap, and a restart. A spawn's two faults are one killed process and
one more that was to clean up. Lookups have a server for each of refused, late and answered.
A body of five bytes passes a threshold of two twice. Filters have calls on both sides of each
range's ends and each 32-bit boundary. Two halves of an entry let a write fall behind and ahead of
the pass. Fields of the manifest run over zero, each alignment and the values that wrap.
SQLite has an owned and a borrowed handle and a statement, with finalizers nested once, as Lua nests
them. Streams are cut at every byte.

`tasks` and `channel` check for deadlock. The others may stop: each part of `net` and
`core` ends at its bound, a returned run is among the behaviours of `waits`, an ended server or
sandbox is the goal of `ends`.

### Fairness

- `Poll`: a running task in the end waits or stops (`WF`; a task that loops for ever holds
  the thread, and the code promises nothing then), a kill's handlers end, the loop goes on
  (it is a `while` loop) and time passes (`SF(Tick)`, as steps of tasks may come
  between any two ticks).
- `Channel`: a call that does not wait goes on (`CallsGoOn`), the rest as `Poll`; time passes where a time limit was set. Cancels,
  kills and sends are under no fairness. Tasks free at `Poll` go on as `Poll`'s.
- `SignalGuard`: the loop turns and resumes what it has woken.
- `Connector`: the process goes on until killed, its loop turns, a connect's deadline passes, and the
  loop resumes a task whose wait is answered. No peer need answer and no caller ask.
- `NetServe`: the running task goes on; a task that can be resumed again and again is
  (`SF`: the batch resumes every ready task once a turn); `on_error` and `on_ready` return, and so does `on_stop`
  from where it runs, but a wait it makes need never be answered unless its task was cancelled. A protocol need not return, nor need
  a connection arrive or a signal come.
- `Spawn`: each process and the parent go on, and the kernel ends in time what was killed. A program
  need not exit; a fault need not come.

## What is proved

Each theorem holds for every value of the constants, from the named assumptions of the module it is about only.
These say that constants are of their kind (bounds are natural numbers, a capacity or an alignment is not 0, lists are lists, the sets of
tasks, notifiers, connections, listeners and handles are finite where they are counted), that model values are not one another, and what the
surroundings give: a file's length is an `off_t`, half of what a word holds (`ArtifactAssumption`); a certificate is a row of
`ca_roots` once, a chain has a certificate, and curl hands over bytes with its data events alone (`HttpAssumption`); there are tags for
every connect in flight, and a public request's port is not 0, which `connect` checks before it sends (`ConnectorAssumption`). No bound a run
puts on its instance is assumed, and no theorem has a hypothesis of its own.

| module | theorem | property |
|---|---|---|
| `PollProofs` | `TypeCorrect` | `TypeOK` |
| | `NoLostWake` | `OnePlace`: every live task runs, is parked, is being killed or has one wake queued |
| | `ListsAreExact` | `ListsExact`: waiters and joiners are exactly who is parked there |
| | `LiveIsCount` | `LiveCount` |
| | `CancelReaches` | `CancelledNotParked` |
| | `AnswersAreTrue` | `Truthful` |
| | `DeadlockIsReal` | `DeadlockHonest`, an action property |
| | `GuardsAgreeAlways` | `GuardsAgree` |
| | `SignalsNotLost` | `NoSignalLost` |
| `LoopProofs` | `TimersInvariance` | `TimersHeap`: a heap of every timed wait, stale ones counted |
| | `TimersFireInOrder` | `TimersFire`, an action property: the earliest live wait fires |
| | `TablesAreExact` | `WatchTables` |
| `ChannelProofs` | `ChannelInvariance` | the scheduler's invariant and the slots, in every run of a channel |
| | `ImplementsBoundedQueue` | `IsBoundedQueue`: the refinement of `BoundedQueue` |
| | `NoticesAreKept` | `NoticesKept`: no item, room or close that a waiter is not told of |
| `NetProofs` | `BooksKept` | `ServerBooks` |
| | `StopIsFinal` | `ServerKeeps`, an action property |
| | `SocketsAreOwned` | `SocketsOwned` |
| | `ConnectionInvariance` | the inductive invariant of connections |
| | `ConnectionIsExact` | `ConnectionExact` |
| | `LookupIsHonest` | `LookupAnswers` |
| | `ChainsAreJudgedAlone` | `ChainsJudgedAlone` |
| | `TransfersAreExact` | `TransfersExact` |
| `ConnectorProofs` | `ConnectorInvariant` | the inductive invariant of the connector and its tasks |
| | `ConnectorRequestsKept` | `RequestsKept` |
| | `ConnectorSocketsRight` | `SocketsRight` |
| `ProcessProofs` | `SpawnInvariance` | the inductive invariant of a spawn's processes |
| | `ProgramIsHeld` | `ProgramHeld` |
| | `SpawnTellsTrue` | `SpawnTells` |
| | `RestrictInvariance` | the inductive invariant of a restriction's stages |
| | `RestrictIsHonest` | `RestrictTells` |
| | `ChildrenAreKept` | `ChildrenKept`, whichever pids come back |
| `CoreProofs` | `StartsTrust` | `StartupTrusts` |
| | `StoreIsOwners` | `StoreAnswers` |
| | `SqliteInvariance` | the inductive invariant of handles, statements and calls |
| | `OutcomesOwn` | `OutcomeItsOwn` |
| | `LifetimesKept` | `LifetimesHold` |
| | `AcceptedFilesAreTheirParts` | `ArtifactReads` |

`TypeCorrect`, `LiveIsCount`, `BooksKept` and the invariances state no property of a run of their own: the proofs need them and
establish them for all instances.

None of the properties but `GuardsAgree` is preserved by a step as it stands. What each rests on:

**Poll.** `IInv` is all of its properties together with `Shapes` (a wait of each kind has
the fields of its kind; nothing runs while timers expire) and `Unstarted` (a task not yet
spawned has no wait, is in no queue and is not killed). They hold each other up: that a
kill leaves no wake behind (`OnePlace`) needs the lists to be exact, or the task would be
noticed after it ended; that the lists are exact needs each task in one place, or an answer
would remove it from one list and leave it in another; that a join's success is true needs
that a task ends once. `Shapes` is what tells which list a wait is in. Answering a wait is the heart of it and is
proved once (`WakeStep`, with `FinishLists` for the lists and `AppendWake`/`ConcatWakes` for
the queues); the notifies, closings, polls, timeouts and cancels cite it. Kills have a
lemma for each place the victim may be in.

**PollTimers.** `TimersHeap` is inductive: each parent is before its children, each live timed wait is in the heap once, and the count of
the others is `stale`. A sift is a recursive function of the slot. What it does is shown for a heap with one slot out of order, by
taking the least number of slots left below that slot for which it would fail; `heapify` from the last parent down likewise.
**PollWatch.** `WatchInv` says of the packed arrays that slots and descriptors are each other's inverse, that each watch's index is its
place in its descriptor's list, that a mask counts the watches that ask it, and that `events` is their union. It is
proved of one watch entering or leaving; a wait enters and leaves with several, the induction being over how many of them
have.

**Channel.** Every step of a channel is a step of the scheduler that keeps `IInv`, though `ChannelSpec` does not imply `Poll`'s
specification: a call woken in vain waits again with the deadline it began with, which need not be a timeout away from
now (`ChannelNextPoll`). `Slots` says which slots hold items. The refinement reads the abstract line off the slots
(`Line`) and shows that `push` appends to it, `pop` takes its head, and every other step leaves it. The notices need
three more: `Served` counts, at each end of the queue, the notices under way and the calls acting against what waiters
could take; `Used` says that a notice is under way to a call of the kind that uses it unless its task was
killed, so that a notice handed on by a kill or a time limit goes to one who wants it; `Shut` is what a close has done halfway
through.

**SignalGuard.** `Stamps` (every stamp kept names a signal), `Asked` (whoever waits, waits on a guard that was opened) and `Covered`:
while the process lives, the last signal caught is kept by a released guard, is owed, or was caught
after an open guard opened. The last is what `NoSignalLost` becomes while guards are still open.

**NetServe.** `Backlog` (a connection waits in one backlog and was never accepted), `AllAccept` (a server under its limit has
every accept task, between any two steps) and `StopOrder` (who is in a stop, what it has closed, and what
waits for it to be over): that Net.serve returns clean needs the order of a stop to hold while a
callback in the middle of it waits or raises.

**Sockets.** `Bound`: while a listener's socket is bound, its inode is of the file it made, since a bound socket holds it; and its socket
is closed last. `Sure`: while nobody changes the name under its look, it knows its file by that inode. The proof
found what an instance of two listeners does not: with three, another listener that removed the name by its own race,
and a third that bound it, come between a bind and its look. That is the race `listen`'s comment allows, and `raced` now
counts it. Descriptors are kept by header and place (`Unscanned`: the guard has those of the headers
scanned, and the rest are open and nobody's yet).

**Connection.** `Linked`: the number of an open connection is its own, and a parked task's connection is open. `ReadsInv` continues
what was answered with what arrived. `Writing`: a write that waits has sent exactly the bytes before its place;
`WritesApart`: no two calls are one write; with these a send appends the next bytes of its write, and nobody else's
(`SentOn`, `OrderKept`).

**Lookup.** `Placed`: c-ares's socket is the one descriptor that is neither free nor another task's, and whatever is parked is of that
socket under an id of its own. It is kept by each callback of c-ares in the middle of a step, with the descriptors of other tasks
(`CameFrom`), not by whole steps only. `WantsTrue`: what the caller was told to wait for is as it was parked, also once its slot is
used again. `Ended`: time that ran out shows in the outcome.

**Http.** Trust: `Loads` (what is loaded once the roots are ready), `Verifying` (with n certificates of a chain behind it, the
flags and the root's date are what those n give) and `Judged`. A transfer: `OnScript` says that what was read, what is
buffered and what curl still holds are, in this order, the bytes its script delivered since its last response began;
`DrivenOK` adds what holds of the transfer the call under way is about, and `HandleOK` says it of each, since any call drives all of
them.

**Connector.** The stream is read by whichever task resumes and up to any element, so the invariant is said of what is left to read, not
of the state. `OnePlaceEach`: the tags of the requests, the connects in flight, the headers left and the socket awaited are apart, each
once, and together are exactly what is pending. `SameIds` and `Paired`: an id travels with its tag, and a success and its
socket are side by side in the stream. `Waited`: a pending request not given up on is of one task, which asked it and has no answer;
`Owned`: the sockets open are of the tasks told so. `Stands`: a stream lost has nothing left in it, and whoever waits for an answer waits
on the one that stands, which is why a new start finds no sleeper untold. These are kept by one element read (`ReadKeeps`), then by any
number (`ReadReplies`); what a task does after its look is a lemma each, of a stream that stands (`StaysKeeps`) or was given up
(`FallsKeeps`). The proof found that the model let a task told of the old stream's loss read the new one; `Standing` came of it.
That the process never answers BUSY is the pigeonhole: a request in the stream is pending and not in flight.

**Spawn.** `Beside` says who is there beside whom: program, init and child are at places that admit one another, also
where one was killed. `Wrote`: a failure is written once, by one who has left or is about to. `Held`: what is applied grows in the order of
the places, whatever the plan. `Guarded`: a root that shows a socket is one the guard was not asked to look at.
`AfterChild`: what the parent has done and may answer once its child ran. Each action is proved against each part.
**Restrict.** `Established` is what each stage leaves to the next, `Untouched` that nothing was taken away that a refusal would not tell
of, `OpenEntries` that each entry of /proc held open is at the number it is remembered by, `Owed` which limit of descriptors a child
is owed.
**Children.** `Tables` says where each pid is: a child without an answer is there or its status is filed (`NoneLost`), and what
is filed for a handle is its own child's (`FiledRight`). Both turn on `Alone`: of a handle not done with its pid, and to which nobody was
given the same, the pid and the group it leads are its child's alone. A fork under a pid somebody still holds makes both handles `reused` in the same
step, so `Alone` is kept by every fork, and a handle that a stranger's status or signal could reach is one of those. It is said of the
tables, not of the state, as a look changes them pid by pid. `Threads` says what may hold the thread: a start or a wait, and the
finalizer that overtook a start.

**Startup.** `Dated`: what was seen of an inode was earned by a whole pass, or is past, as an inode's times only grow, also when it goes to
another file. The entry's second, in which this fails, is the finding `startup_stamp`. The database's
inode cannot go to another file while it is held (`OpenInv`). **Store.** The list ends in the binary's database whatever is
attached or set aside (`Based`), so the last holder of a reserved name is its owner.

**Artifact.** `Fitted` is the arithmetic: past the trailer's checks its sums are below a word, so none of them wrapped, whatever the
fields held. `EntriesSited`: each core is between the shell and the manifest. `Tiled`: cores are apart, and each byte between is a core's or
a zero shortly before what follows it; this is shown turn by turn of `decode_portable`'s loop, for any number of entries.
`DoorRight` keeps the VFS's reads inside the range registered.

**Sqlite.** `Lives`: a connection is as its handle says, and a statement's is its owner's. `InSqlite`: while a call is in SQLite's
own code nothing changes what it began with, its connection, statement, handler and budget. `GuardsApart`: no two
calls and no two statements hold one guard, so that a message is of the call that tells it. Calls below the
top of the stack are allocating, and whatever a finalizer does there keeps these.

Induction. The library's induction theorems take an operator as a parameter, which the installed provers cannot instantiate. Where a proof
needs induction over a number or a finite set, it takes the set of counterexamples and its least element (`LeastOf`,
`SetInduction` in `SequenceLemmas`), and shows the existence of a recursive function the same way before it uses its equation.

Only model-checked: liveness, which needs fairness and `ENABLED`; what filter programs, streams and the heap of a
search compute (`Filters`, `Compress`, `Corpus`), which are written with `RECURSIVE` operators that tlapm does not take; and the safety of
`Files`. These are small-instance evidence.

## Findings

Each is a run TLC must find violated, except the last group.

- `guards_two_waits` (`cosmic/signal.tl:162`). All guards share one wake pipe, and a woken
  `g:wait` drains it before it reads its own guard. If another task parked on a different
  guard after the wake, and a signal came after that, the drain takes the byte that would
  have woken it: its guard has a signal to take and it sleeps until the next one.
- `serve_lost_stop` (`cosmic/net.tl:975`). `stop` called by a protocol, with a listener that fails
  to close and an `on_error` that raises: the error leaves `stop` half done and ends in the
  protocol's `xpcall`, `stopping` stays set, and the server neither serves nor ends.
- `child_unowned` (`cosmic/child.tl:1857`). A collection between a child's start and its pid becoming
  owned may run the finalizer of a dropped handle; its `waitpid(-1)` reaps the new child and drops its
  status, and `wait` on it answers that there is no such child.
- `startup_stamp` (`core/startup.c:250`). The stamp compares the entry's times with the time at which
  it stamps, not at which it looked: an entry changed twice in the second it was looked at keeps its
  times, and the stamp holds for contents never hashed.
- `sqlite_bind` (`core/sqlite.c:849`). Binding a list allocates after the statement was checked; a
  finalizer run there may finalize it, and it is then bound.
- `remove_swapped` (`core/syscalls_fs.c:838`). `remove_tree` takes every `ENOTDIR` as nothing to remove, the
  one of an `rmdir` whose directory was swapped for a link after it was opened included: it
  answers ok and the tree is still there.
- Met while modelling, with no run of their own: with no room for its record, spawn kills the init
  and neither records nor reaps it (`core/syscalls.c:5151`; `Spawn`'s `NoRoom`). `drain`'s assertion that a
  listed task still has its connection fails when an `on_error` that waits lets one end
  between two kills (`cosmic/net.tl:958`; `KillAsserts`). Once pids wrap, a status filed and not taken is
  claimed by a later child's handle of the same pid, and `stop` may signal the newer child
  (`cosmic/child.tl:786`; the run `net` reaches a handle that takes another process's status and a `stop` that signals
  one, and `reused` is what `ChildrenKept` excepts for it). A task killed in
  the middle of a write leaves no sticky failure, so a later write goes on after half of it
  (`cosmic/internal/connection.tl:143`); `ConnectionExact` speaks of writes whose callers were answered.

## What the models leave out

- `Poll`: waits outside a task, argument checks, finalizers' waits. `PollWatch`: a mask of no events.
- `Restrict`: on Linux a `setrlimit` that fails after the one of descriptors was lowered returns
  before that is noted (`core/syscalls.c:4188`); the child's limit is not stated for that case. That
  `no_new_privs` was set is not counted as being partly restricted, as the code does not.
- `Sqlite`: a number given as SQL becomes a string after `handle_exec` checked its handle (`core/sqlite.c:511`), and may collect there; limits and hints, functions called from SQL, immutable files.
- `Compress`: a constructor's want of memory, which makes no stream; the ratio check and stuck fault of inflate, zlib's header, skippable frames, one-shot calls.
- `Corpus`: the code's own assumption that no finalizer adds rows during a search
  (`core/vector.c:864`) is taken, and likewise for the allocations of one add (`core/vector.c:1083-1107`); kernels, k-means and SQL functions are not modelled.
- `Files`: the kernel resolves a path, and lists a directory, in one step; paths have one part; the handlers are
  Linux's. The gap the code marks with a TODO is allowed. `open_temporary`, `flock`, `readdir` and wrappers of one
  system call are not modelled.
- `Sockets`: `sendfds`, options, datagrams. `Http`: a callback that fails inside `curl_easy_pause`
  (`core/http.c:824`), what options set in curl, pacing, retries; that no root could be read (`core/http.c:359-362`) is refused in the model
  and in the proof, and no rows of the run make it happen.
- `Children`: relays, pipes.
- `Connector`: a reply's header and its marker reach the stream in one step, so the process is not killed between the two writes
  (`core/connector.c:663-687`); a reader that stops between them is modelled.
- `Spawn`: a path that changed kind (`STAGE_KIND`, `core/syscalls.c:1713`) is told as a failure of the root; credentials, ruleset, filter
  and exec of the program are one step (`core/syscalls.c:2018-2109`), so `ProgramHeld` says of these only that no path reaches the exec around them.
- `Startup`: the comparison of the running executable with the retained core (`core/startup.c:458-466`), which refuses more.
- Not modelled at all: parsers and encoders (`json`, `xml`, `html`, ...), functions of their text that a
  model would only write again and that the repository fuzzes; templates, the language and the build
  tool, compilers; hashes, random numbers and vector kernels, arithmetic or bindings; the HTTP server's
  exchange and the web framework, sequential over one connection; event streams, sessions and the relay, Teal code
  over the queues, connections and server modelled here; the rebuild lock and CI, outside
  the runtime.

## Plan

What would come next, most valuable first:

1. Proofs: `Files`: three kinds of call over a disk others change; `DigestTrue` needs an induction over the walk of a tree.
2. The HTTP server's exchange and the client's pacer on `Connection`; the event hub on `Channel`.
3. The rebuild lock.
