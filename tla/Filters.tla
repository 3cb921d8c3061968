------------------------------- MODULE Filters -------------------------------
(***************************************************************************)
(* The three seccomp programs the core writes: the promises' decision tree *)
(* (core/promises.c), the connector's (core/connector.c) and a pledge's    *)
(* (core/syscalls.c), run an instruction at a time on one call, as the     *)
(* kernel runs them, against what each is meant to let through.            *)
(*                                                                         *)
(* A word is a number n and a set s of the flags that are set in it, so a  *)
(* mask keeps some flags and n modulo a power of two.  A jump is forward,  *)
(* over jt or jf instructions.  The calls are one or more for each rule,   *)
(* in a numbering as scattered as the kernel's; the two architectures      *)
(* number them differently and one lacks some.  An address is 2 * Half     *)
(* numbers wide, its high word being which Half.                           *)
(***************************************************************************)
EXTENDS Integers, Sequences, FiniteSets, SequencesExt

CONSTANTS
    Filters,  \* the programs asked for, each with its options
    Calls     \* the calls tried under each kind of them

W(n) == [n |-> n, s |-> {}]
F(s) == [n |-> 0, s |-> s]
Half == 64

VARIABLES
    filter,   \* the program asked for
    code,     \* its instructions, or << >> where it did not fit
    call,     \* the call being judged
    at,       \* the next instruction
    acc,      \* the accumulator
    filterVerdict   \* what the program returned, or ""

filterVars == <<filter, code, call, at, acc, filterVerdict>>

-----------------------------------------------------------------------------
\* Instructions.

Load(what) == [op |-> "load", k |-> what, jt |-> 0, jf |-> 0]
Test(op, k, jt, jf) == [op |-> op, k |-> k, jt |-> jt, jf |-> jf]
Jump(k) == [op |-> "jump", k |-> k, jt |-> 0, jf |-> 0]
And(mod, s) == [op |-> "and", k |-> [mod |-> mod, s |-> s], jt |-> 0, jf |-> 0]
Ret(v) == [op |-> "return", k |-> v, jt |-> 0, jf |-> 0]

\* The accumulator an instruction leaves, and how far past it the next is.
Loaded(what) ==
    CASE what = "arch" -> W(call.arch)
      [] what = "number" -> W(call.number)
      [] OTHER -> call.args[what[1]][what[2]]

Masked(k) == [n |-> acc.n % k.mod, s |-> acc.s \cap k.s]

Holds(op, k) ==
    CASE op = "eq" -> acc = k
      [] op = "at_least" -> acc.n >= k.n
      [] op = "greater" -> acc.n > k.n
      [] op = "any_set" -> acc.s \cap k.s # {}

-----------------------------------------------------------------------------
\* The promises' program.

\* How a call is granted, from the least allowing to the most.
Rules == <<"NONE", "ENOSYS", "MMAP", "MPROTECT", "MEMFD", "CLONE_THREAD", "CLONE_FORK",
           "CLONE_NEST", "SIGNAL", "PID_SELF_OR_ZERO", "PRLIMIT", "PRLIMIT_NEST", "PRIORITY",
           "SCHED_POLICY", "MADVISE", "FCNTL", "IOCTL", "IOCTL_NEST", "PRCTL", "PRCTL_NEST",
           "UNSHARE_NEST", "SOCKET_UNIX", "SOCKET_INET", "SOCKET_UNIX_INET", "OPEN", "OPENAT",
           "MODE1", "MODE2", "MKNOD1", "MKNOD2", "ALLOW">>
Rank(rule) == CHOOSE i \in 1 .. Len(Rules) : Rules[i] = rule

\* The calls, in the order one architecture numbers them.
CallNames == <<"read", "open", "mmap", "mprotect", "ioctl", "madvise", "socket", "socketpair",
               "clone", "fork", "kill", "fcntl", "mkdir", "chmod", "mknod", "getpgid",
               "setpriority", "sched_setscheduler", "prctl", "setrlimit", "capget", "ptrace",
               "mount", "openat", "mknodat", "mkdirat", "unshare", "prlimit64", "memfd_create",
               "pidfd_send_signal", "clone3">>
Reviewed == Len(CallNames) + 2
X86 == 62
Arm == 183
\* A call's number; the second architecture counts the other way and has none
\* for a call the first kept from before the generic table.
NumberOf(name, arch) ==
    LET i == CHOOSE j \in 1 .. Len(CallNames) : CallNames[j] = name
    IN  IF arch = X86 THEN i ELSE Reviewed - i
Has(name, arch) == arch = X86 \/ name \notin {"open", "fork", "mkdir", "chmod", "mknod"}

basics == {<<"read", "ALLOW">>, <<"mmap", "MMAP">>, <<"mprotect", "MPROTECT">>,
           <<"madvise", "MADVISE">>, <<"memfd_create", "MEMFD">>, <<"kill", "SIGNAL">>,
           <<"clone", "CLONE_THREAD">>, <<"clone3", "ENOSYS">>, <<"getpgid", "PID_SELF_OR_ZERO">>,
           <<"sched_setscheduler", "SCHED_POLICY">>, <<"setpriority", "PRIORITY">>,
           <<"prlimit64", "PRLIMIT">>, <<"prctl", "PRCTL">>, <<"fcntl", "FCNTL">>,
           <<"ioctl", "IOCTL">>, <<"socketpair", "SOCKET_UNIX">>, <<"open", "OPEN">>,
           <<"openat", "OPENAT">>, <<"mkdir", "MODE1">>, <<"mkdirat", "MODE2">>,
           <<"mknod", "MKNOD1">>, <<"mknodat", "MKNOD2">>}
nest_calls == {<<"unshare", "UNSHARE_NEST">>, <<"mount", "ALLOW">>, <<"setrlimit", "ALLOW">>,
               <<"prlimit64", "PRLIMIT_NEST">>, <<"prctl", "PRCTL_NEST">>, <<"kill", "ALLOW">>,
               <<"ioctl", "IOCTL_NEST">>}
fork_calls == {<<"fork", "ALLOW">>, <<"clone", "CLONE_FORK">>}
jit_calls == {<<"mmap", "ALLOW">>, <<"mprotect", "ALLOW">>, <<"memfd_create", "ALLOW">>}
fattr_calls == {<<"chmod", "MODE1">>}

\* The more allowing of a call's grants.
add(grants) ==
    [name \in Range(CallNames) |->
        LET held == {g[2] : g \in {h \in grants : h[1] = name}} \cup {"NONE"}
        IN  CHOOSE r \in held : \A q \in held : Rank(q) <= Rank(r)]

\* The grants of a set of promises, the families and the other holds.
RulesFor(f) ==
    LET given == add(basics \cup (IF "fork" \in f.promises THEN fork_calls ELSE {})
                            \cup (IF "jit" \in f.promises THEN jit_calls ELSE {})
                            \cup (IF "fattr" \in f.promises THEN fattr_calls ELSE {})
                            \cup (IF "nest" \in f.promises THEN nest_calls ELSE {}))
        families == f.sockets \cup (IF "unix" \in f.held THEN {"unix"} ELSE {})
        Rule(name) ==
            CASE name = "socket" /\ families # {} ->
                   IF families = {"unix"} THEN "SOCKET_UNIX"
                   ELSE IF families = {"inet"} THEN "SOCKET_INET" ELSE "SOCKET_UNIX_INET"
              [] name = "clone" /\ {"nest", "fork"} \subseteq f.promises -> "CLONE_NEST"
              [] "signals" \in f.held /\ (given[name] = "SIGNAL" \/ name = "pidfd_send_signal") -> "ALLOW"
              [] "limits" \in f.held /\ name = "setrlimit" -> "ALLOW"
              [] "limits" \in f.held /\ name = "prlimit64" -> "PRLIMIT_NEST"
              [] "pids" \in f.held /\ name \in {"getpgid", "capget"} -> "ALLOW"
              [] OTHER -> given[name]
    IN  [name \in Range(CallNames) |-> Rule(name)]

\* The values rules let through, fewer than the code's of each kind.
fcntl_commands == <<0, 1, 1034>>
ioctl_commands == <<5, 9, 11>>
nest_ioctl_commands == <<13, 14>>
prctl_options == <<1, 4, 15>>
nest_prctl_options == <<24, 47>>
sched_policies == <<0, 3, 5>>
madvise_advice == <<0, 8, 23>>
Special == {"setuid", "setgid", "sticky"}
Types == {"regular", "fifo", "sock", "device"}
Namespaces == {"user", "mnt", "pidns", "ipc", "netns", "cgroup", "uts"}
NestNamespaces == {"user", "mnt", "pidns", "ipc", "netns"}
ThreadFlags == {"vm", "files", "sighand", "thread"}
Flags == Special \cup Types \cup Namespaces \cup ThreadFlags
           \cup {"exec", "write", "bti", "anon", "noexec", "creat", "ptraced", "parent", "reset"}
Every == 65536

\* A rule's block, its jumps to the end by name.
Lo(i) == Load(<<i, "lo">>)
Hi(i) == Load(<<i, "hi">>)
one_of(values) == [i \in 1 .. Len(values) |-> Test("eq", W(values[i]), "ALLOW", "NEXT")]
SelfOrZero(pid) == <<Lo(1), Test("eq", W(0), "SKIP", "NEXT"), Test("eq", W(pid), "NEXT", "DENY")>>

rule_block(rule, pid, arch) ==
    CASE rule = "MMAP" ->
           <<Lo(3), Test("any_set", F({"exec"}), "NEXT", "ALLOW"),
             Test("any_set", F({"write"}), "DENY", "NEXT"),
             Lo(4), Test("any_set", F({"anon"}), "DENY", "ALLOW")>>
      [] rule = "MPROTECT" ->
           <<Lo(3)>> \o
           (IF arch = Arm
              THEN <<Test("any_set", F({"exec"}), "NEXT", "ALLOW"),
                     Test("any_set", F({"write"}), "DENY", "NEXT"),
                     Test("any_set", F({"bti"}), "ALLOW", "DENY")>>
              ELSE <<Test("any_set", F({"exec"}), "DENY", "ALLOW")>>)
      [] rule = "MEMFD" -> <<Lo(2), And(1, {"noexec"}), Test("eq", F({"noexec"}), "ALLOW", "DENY")>>
      [] rule = "CLONE_THREAD" ->
           <<Lo(1), Test("any_set", F(Namespaces \cup {"ptraced", "parent"}), "DENY", "NEXT"),
             And(1, ThreadFlags), Test("eq", F(ThreadFlags), "ALLOW", "DENY")>>
      [] rule = "CLONE_FORK" ->
           <<Lo(1), Test("any_set", F(Namespaces \cup {"ptraced", "parent"}), "DENY", "ALLOW")>>
      [] rule = "CLONE_NEST" ->
           <<Lo(1), Test("any_set", F((Namespaces \ NestNamespaces) \cup {"ptraced"}), "DENY", "ALLOW")>>
      [] rule = "UNSHARE_NEST" ->
           <<Lo(1), And(Every, Flags \ NestNamespaces), Test("eq", W(0), "ALLOW", "DENY")>>
      [] rule = "SIGNAL" -> <<Lo(1), Test("eq", W(pid), "ALLOW", "DENY")>>
      [] rule \in {"PID_SELF_OR_ZERO", "PRLIMIT_NEST"} ->
           <<Lo(1), Test("eq", W(0), "ALLOW", "NEXT"), Test("eq", W(pid), "ALLOW", "DENY")>>
      [] rule = "PRLIMIT" ->
           SelfOrZero(pid) \o <<Lo(3), Test("eq", W(0), "NEXT", "DENY"),
                                Hi(3), Test("eq", W(0), "ALLOW", "DENY")>>
      [] rule = "PRIORITY" ->
           <<Lo(1), Test("eq", W(0), "NEXT", "DENY"), Lo(2), Test("eq", W(0), "ALLOW", "DENY")>>
      [] rule = "SCHED_POLICY" ->
           SelfOrZero(pid) \o <<Lo(2), And(Every, Flags \ {"reset"})>> \o one_of(sched_policies)
      [] rule = "MADVISE" -> <<Lo(3)>> \o one_of(madvise_advice)
      [] rule = "FCNTL" -> <<Lo(2)>> \o one_of(fcntl_commands)
      [] rule = "IOCTL" -> <<Lo(2)>> \o one_of(ioctl_commands)
      [] rule = "IOCTL_NEST" -> <<Lo(2)>> \o one_of(ioctl_commands) \o one_of(nest_ioctl_commands)
      [] rule = "PRCTL" -> <<Lo(1)>> \o one_of(prctl_options)
      [] rule = "PRCTL_NEST" -> <<Lo(1)>> \o one_of(prctl_options) \o one_of(nest_prctl_options)
      [] rule = "SOCKET_UNIX" -> <<Lo(1), Test("eq", W(1), "ALLOW", "DENY")>>
      [] rule \in {"SOCKET_INET", "SOCKET_UNIX_INET"} ->
           <<Lo(1)>> \o
           (IF rule = "SOCKET_INET" THEN <<>> ELSE <<Test("eq", W(1), "ALLOW", "NEXT")>>) \o
           <<Test("eq", W(2), "ALLOW", "NEXT"), Test("eq", W(10), "ALLOW", "DENY")>>
      [] rule \in {"OPEN", "OPENAT"} ->
           LET flags == IF rule = "OPEN" THEN 2 ELSE 3
           IN  <<Lo(flags), Test("any_set", F({"creat"}), "NEXT", "ALLOW"),
                 Lo(flags + 1), Test("any_set", F(Special), "DENY", "ALLOW")>>
      [] rule \in {"MODE1", "MODE2"} ->
           <<Lo(IF rule = "MODE1" THEN 2 ELSE 3), Test("any_set", F(Special), "DENY", "ALLOW")>>
      [] rule \in {"MKNOD1", "MKNOD2"} ->
           <<Lo(IF rule = "MKNOD1" THEN 2 ELSE 3), Test("any_set", F(Special), "DENY", "NEXT"),
             And(1, Types), Test("eq", W(0), "ALLOW", "NEXT"),
             Test("eq", F({"regular"}), "ALLOW", "NEXT"), Test("eq", F({"fifo"}), "ALLOW", "NEXT"),
             Test("eq", F({"sock"}), "ALLOW", "DENY")>>

\* A jump out of a block is patched once the block has its end.
IsPatched(target) == target \in {"ALLOW", "DENY"}
Tests(b) == {i \in 1 .. Len(b) : b[i].op \in {"eq", "any_set"}}
PatchCount(b) == Cardinality({i \in Tests(b) : IsPatched(b[i].jt)})
               + Cardinality({i \in Tests(b) : IsPatched(b[i].jf)})
jump_to(b, i, target) ==
    CASE target = "NEXT" -> 0 [] target = "SKIP" -> 1
      [] target = "DENY" -> Len(b) + 1 - (i + 1)
      [] target = "ALLOW" -> Len(b) + 2 - (i + 1)

\* The block closed with its denial, which it falls into, and its allowance.
finish(b, denial) ==
    [i \in 1 .. Len(b) |->
        IF i \in Tests(b)
          THEN [b[i] EXCEPT !.jt = jump_to(b, i, @), !.jf = jump_to(b, i, @)] ELSE b[i]]
    \o <<Ret(denial), Ret("ALLOW")>>

Denial(rule) == IF rule \in {"IOCTL", "IOCTL_NEST"} THEN "ENOTTY" ELSE "EPERM"
LeafRun == 4

Leaf(entry) ==
    <<Test("eq", W(entry.number), 0, 1),
      CASE entry.rule = "ALLOW" -> Ret("ALLOW")
        [] entry.rule = "ENOSYS" -> Ret("ENOSYS")
        [] OTHER -> [op |-> "rule", k |-> entry.rule, jt |-> 0, jf |-> 0]>>

RECURSIVE tree_past(_)
tree_past(entries) ==
    IF Len(entries) <= LeafRun
      THEN FlattenSeq([i \in 1 .. Len(entries) |-> Leaf(entries[i])]) \o <<Ret("EPERM")>>
      ELSE LET middle == Len(entries) \div 2
               lower == tree_past(SubSeq(entries, 1, middle))
           IN  <<Test("greater", W(entries[middle + 1].number), 0, 1), Jump(Len(lower))>>
               \o lower \o tree_past(SubSeq(entries, middle + 1, Len(entries)))

\* The decision tree: past a handful it halves, a jump over the lower half
\* where the number is the middle one or more.
RECURSIVE tree(_)
tree(entries) ==
    IF Len(entries) <= LeafRun
      THEN FlattenSeq([i \in 1 .. Len(entries) |-> Leaf(entries[i])]) \o <<Ret("EPERM")>>
      ELSE LET middle == Len(entries) \div 2
               lower == tree(SubSeq(entries, 1, middle))
           IN  <<Test("at_least", W(entries[middle + 1].number), 0, 1), Jump(Len(lower))>>
               \o lower \o tree(SubSeq(entries, middle + 1, Len(entries)))

\* The calls granted that the architecture has a number for, by number.
Entries(f) ==
    LET rules == RulesFor(f)
        Names(n) == {name \in Range(CallNames) : Has(name, f.arch) /\ NumberOf(name, f.arch) = n}
        Rule(n) == IF Names(n) = {} THEN "NONE" ELSE rules[CHOOSE name \in Names(n) : TRUE]
        granted == SelectSeq([n \in 1 .. Reviewed |-> n], LAMBDA n : Rule(n) # "NONE")
    IN  [i \in 1 .. Len(granted) |-> [number |-> granted[i], rule |-> Rule(granted[i])]]

Linked(f, head) ==
    LET needed == {head[i].k : i \in {j \in 1 .. Len(head) : head[j].op = "rule"}}
        order == SelectSeq(Rules, LAMBDA rule : rule \in needed)
        bodies == [i \in 1 .. Len(order) |-> rule_block(order[i], f.pid, f.arch)]
        blocks == [i \in 1 .. Len(order) |-> finish(bodies[i], Denial(order[i]))]
        Start(rule) == LET n == CHOOSE i \in 1 .. Len(order) : order[i] = rule
                       IN  Len(head) + Len(FlattenSeq(SubSeq(blocks, 1, n - 1))) + 1
        full == [i \in 1 .. Len(head) |->
                    IF head[i].op = "rule" THEN Jump(Start(head[i].k) - i - 1) ELSE head[i]]
                \o FlattenSeq(blocks)
    IN  IF Len(full) > f.room \/ \E i \in 1 .. Len(bodies) : PatchCount(bodies[i]) > f.patches
          THEN <<>> ELSE full

program_for(f) ==
    Linked(f, <<Load("arch"), Test("eq", W(f.arch), 1, 0), Ret("KILL"), Load("number"),
                Test("greater", W(Reviewed - 1), 0, 1), Ret("ENOSYS")>> \o tree(Entries(f)))

-----------------------------------------------------------------------------
\* A pledge's program: a list of calls refused, and the socket families.

pledge_refused == <<"ptrace", "mount">>
Families(f) == (IF "unix" \in f.sockets THEN <<1>> ELSE <<>>)
               \o (IF "inet" \in f.sockets THEN <<2, 10>> ELSE <<>>)

pledge_program(f) ==
    LET Refused(name) == <<Test("eq", W(NumberOf(name, f.arch)), 0, 1), Ret("EPERM")>>
        families == Families(f)
        Family(n) == <<Test("eq", W(n), 0, 1), Ret("ALLOW")>>
    IN  <<Load("arch"), Test("eq", W(f.arch), 1, 0), Ret("KILL"), Load("number")>>
        \o (IF f.arch = X86 THEN <<Test("at_least", W(Every), 0, 1), Ret("EPERM")>> ELSE <<>>)
        \o FlattenSeq([i \in 1 .. Len(pledge_refused) |-> Refused(pledge_refused[i])])
        \o <<Test("eq", W(NumberOf("socket", f.arch)), 0, 1 + 2 * Len(families) + 1), Lo(1)>>
        \o FlattenSeq([i \in 1 .. Len(families) |-> Family(families[i])])
        \o <<Ret("EPERM"), Ret("ALLOW")>>

-----------------------------------------------------------------------------
\* The connector's program and the table it holds a connect to.

connector_stride(length) == IF length = 7 THEN 8 ELSE 4
Page == 8
Rounded(n, to) == ((n + to - 1) \div to) * to

\* Where each endpoint's slots begin in the table, and where they end.
Offsets(eps) ==
    LET end[i \in 0 .. Len(eps)] ==
            IF i = 0 THEN 0
            ELSE LET stride == connector_stride(eps[i].length)
                 IN  Rounded(end[i - 1], stride) + eps[i].slots * stride
    IN  [i \in 1 .. Len(eps) |-> Rounded(end[i - 1], connector_stride(eps[i].length))]
TableBytes(eps) ==
    LET n == Len(eps)
    IN  Rounded(Offsets(eps)[n] + eps[n].slots * connector_stride(eps[n].length), Page)

\* Of twice the bytes mapped, the side of a Half's boundary where they fit.
connector_map(start, bytes) ==
    LET boundary == (start \div Half) * Half + Half
    IN  IF start + bytes < boundary THEN start ELSE boundary

\* The ranges of a table mapped at `start`, and of a public one's scratch.
connector_ranges(f) ==
    LET base == connector_map(f.start, TableBytes(f.endpoints))
        offsets == Offsets(f.endpoints)
    IN  [i \in 1 .. Len(f.endpoints) |->
            [base |-> base + offsets[i], slots |-> f.endpoints[i].slots, length |-> f.endpoints[i].length]]
        \o (IF f.scratch = 0 THEN <<>>
            ELSE <<[base |-> f.scratch, slots |-> 1, length |-> 4],
                   [base |-> f.scratch + 8, slots |-> 1, length |-> 7]>>)

\* A range over a Half's boundary cannot be expressed, and is refused.
Crosses(ranges) ==
    \E i \in 1 .. Len(ranges) :
        LET r == ranges[i]
        IN  r.base \div Half # (r.base + r.slots * connector_stride(r.length)) \div Half

connector_equal(argument, value) ==
    <<Hi(argument), Test("eq", W(0), 1, 0), Ret("EPERM"),
      Lo(argument), Test("eq", W(value), 1, 0), Ret("EPERM")>>
connector_fd(fd) == connector_equal(1, fd) \o <<Ret("ALLOW")>>

\* A pointer to a slot of the range, at the range's own length; a failed
\* condition jumps to the next range.
RangeCode(r) ==
    LET stride == connector_stride(r.length)
        end == r.base + r.slots * stride
    IN  <<Hi(2), Test("eq", W(r.base \div Half), 0, 10),
          Lo(2), Test("at_least", W(r.base % Half), 0, 8), Test("at_least", W(end % Half), 7, 0),
          And(stride, {}), Test("eq", W(0), 0, 5),
          Hi(3), Test("eq", W(0), 0, 3), Lo(3), Test("eq", W(r.length), 0, 1), Ret("ALLOW")>>

\* What the connector may call, by number.
Simple == <<"poll", "clock", "exit">>
Served == <<"read", "write", "close", "socket", "connect", "getsockopt", "sendmsg">>
ConnectorNumber(name) == CHOOSE i \in 1 .. 10 : (Simple \o Served)[i] = name

ConnectorBlock(name, f, ranges) ==
    CASE name = "read" -> connector_fd(f.control)
      [] name = "write" ->
           <<Hi(1), Test("eq", W(0), 1, 0), Ret("EPERM"), Lo(1), Test("eq", W(f.control), 2, 0),
             Test("eq", W(f.status), 1, 0), Ret("EPERM"), Ret("ALLOW")>>
      [] name = "close" -> <<Lo(1), Test("eq", W(f.control), 0, 1), Ret("KILL"), Ret("ALLOW")>>
      [] name = "socket" ->
           <<Hi(1), Test("eq", W(0), 1, 0), Ret("EPERM"), Lo(1), Test("eq", W(2), 2, 0),
             Test("eq", W(10), 1, 0), Ret("EPERM")>>
           \o connector_equal(2, 1) \o connector_equal(3, 6) \o <<Ret("ALLOW")>>
      [] name = "getsockopt" -> connector_equal(2, 1) \o connector_equal(3, 4) \o <<Ret("ALLOW")>>
      [] name = "sendmsg" -> connector_equal(3, 16) \o connector_fd(f.control)
      [] name = "connect" ->
           FlattenSeq([i \in 1 .. Len(ranges) |-> RangeCode(ranges[i])]) \o <<Ret("EPERM")>>

connector_program(f) ==
    LET ranges == connector_ranges(f)
        order == <<"read", "write", "close", "socket", "getsockopt", "sendmsg", "connect">>
        blocks == [i \in 1 .. Len(order) |-> ConnectorBlock(order[i], f, ranges)]
        simple == FlattenSeq([i \in 1 .. Len(Simple) |->
                     <<Test("eq", W(ConnectorNumber(Simple[i])), 0, 1), Ret("ALLOW")>>])
        heads == 4 + Len(simple) + 2 * Len(Served) + 1
        Block(name) == LET n == CHOOSE i \in 1 .. Len(order) : order[i] = name
                       IN  heads + Len(FlattenSeq(SubSeq(blocks, 1, n - 1))) + 1
        dispatch == FlattenSeq([i \in 1 .. Len(Served) |->
                     <<Test("eq", W(ConnectorNumber(Served[i])), 0, 1),
                       Jump(Block(Served[i]) - (4 + Len(simple) + 2 * i) - 1)>>])
    IN  IF Crosses(ranges) THEN <<>>
        ELSE <<Load("arch"), Test("eq", W(f.arch), 1, 0), Ret("KILL"), Load("number")>>
        \o simple \o dispatch \o <<Ret("EPERM")>> \o FlattenSeq(blocks)

-----------------------------------------------------------------------------
Program(f) ==
    CASE f.kind = "promises" -> program_for(f)
      [] f.kind = "pledge" -> pledge_program(f)
      [] f.kind = "connector" -> connector_program(f)

FilterInit ==
    /\ filter \in Filters /\ code = Program(filter)
    /\ call \in Calls[filter.kind]
    /\ at = 1 /\ acc = W(0) /\ filterVerdict = ""

\* One instruction; running off the end is the kernel's refusal of a program.
FilterStep ==
    /\ code # <<>> /\ filterVerdict = ""
    /\ LET i == IF at \in 1 .. Len(code) THEN code[at] ELSE Ret("runs off")
       IN  /\ filterVerdict' = IF i.op = "return" THEN i.k ELSE ""
           /\ acc' = CASE i.op = "load" -> Loaded(i.k)
                       [] i.op = "and" -> Masked(i.k)
                       [] OTHER -> acc
           /\ at' = at + 1 + (IF i.op = "jump" THEN i.k
                              ELSE IF i.op \in {"eq", "at_least", "greater", "any_set"}
                                THEN (IF Holds(i.op, i.k) THEN i.jt ELSE i.jf)
                              ELSE 0)
    /\ UNCHANGED <<filter, code, call>>

FilterNext == FilterStep

-----------------------------------------------------------------------------
\* What each program is meant to let through, from what the calls mean.

A(i) == call.args[i].lo
WholeArg(i, n) == call.args[i].lo = W(n) /\ call.args[i].hi = W(0)
OwnPid == A(1) \in {W(0), W(filter.pid)}
OneOf(i, values) == A(i) \in {W(v) : v \in Range(values)}
Promised(p) == p \in filter.promises
Held(h) == h \in filter.held
UnixOK == "unix" \in filter.sockets \/ Held("unix")

\* What a call of this name may do under the promises.
May(name) ==
    CASE name = "read" -> TRUE
      [] name = "mmap" -> \/ Promised("jit") \/ "exec" \notin A(3).s
                          \/ "write" \notin A(3).s /\ "anon" \notin A(4).s
      [] name = "mprotect" -> \/ Promised("jit") \/ "exec" \notin A(3).s
                              \/ filter.arch = Arm /\ "bti" \in A(3).s /\ "write" \notin A(3).s
      [] name = "memfd_create" -> Promised("jit") \/ "noexec" \in A(2).s
      [] name = "madvise" -> OneOf(3, madvise_advice)
      [] name = "fcntl" -> OneOf(2, fcntl_commands)
      [] name = "ioctl" -> OneOf(2, ioctl_commands) \/ (Promised("nest") /\ OneOf(2, nest_ioctl_commands))
      [] name = "prctl" -> OneOf(1, prctl_options) \/ (Promised("nest") /\ OneOf(1, nest_prctl_options))
      [] name = "socketpair" -> A(1) = W(1)
      [] name = "socket" -> \/ A(1) = W(1) /\ UnixOK
                            \/ A(1) \in {W(2), W(10)} /\ "inet" \in filter.sockets
      [] name = "clone" ->
           \/ ThreadFlags \subseteq A(1).s /\ A(1).s \cap (Namespaces \cup {"ptraced", "parent"}) = {}
           \/ Promised("fork") /\ A(1).s \cap (Namespaces \cup {"ptraced", "parent"}) = {}
           \/ Promised("fork") /\ Promised("nest")
                /\ A(1).s \cap ((Namespaces \ NestNamespaces) \cup {"ptraced"}) = {}
      [] name = "fork" -> Promised("fork")
      [] name = "kill" -> A(1) = W(filter.pid) \/ Held("signals") \/ Promised("nest")
      [] name = "pidfd_send_signal" -> Held("signals")
      [] name = "getpgid" -> OwnPid \/ Held("pids")
      [] name = "capget" -> Held("pids")
      [] name = "setpriority" -> A(1) = W(0) /\ A(2) = W(0)
      [] name = "sched_setscheduler" ->
           OwnPid /\ [A(2) EXCEPT !.s = @ \ {"reset"}] \in {W(v) : v \in Range(sched_policies)}
      [] name = "setrlimit" -> Held("limits") \/ Promised("nest")
      [] name = "prlimit64" -> OwnPid /\ (WholeArg(3, 0) \/ Held("limits") \/ Promised("nest"))
      [] name \in {"mount"} -> Promised("nest")
      [] name = "unshare" -> Promised("nest") /\ A(1).n = 0 /\ A(1).s \subseteq NestNamespaces
      [] name = "chmod" -> Promised("fattr") /\ A(2).s \cap Special = {}
      [] name = "mkdir" -> A(2).s \cap Special = {}
      [] name = "mkdirat" -> A(3).s \cap Special = {}
      [] name = "open" -> "creat" \in A(2).s => A(3).s \cap Special = {}
      [] name = "openat" -> "creat" \in A(3).s => A(4).s \cap Special = {}
      [] name \in {"mknod", "mknodat"} ->
           LET mode == A(IF name = "mknod" THEN 2 ELSE 3).s
           IN  mode \cap Special = {} /\ mode \cap Types \in {{}, {"regular"}, {"fifo"}, {"sock"}}
      [] OTHER -> FALSE

Named(number) == {name \in Range(CallNames) : Has(name, filter.arch) /\ NumberOf(name, filter.arch) = number}

PromisesSay ==
    IF call.number >= Reviewed \/ "clone3" \in Named(call.number) THEN "ENOSYS"
    ELSE IF \E name \in Named(call.number) : May(name) THEN "ALLOW"
    ELSE IF "ioctl" \in Named(call.number) THEN "ENOTTY" ELSE "EPERM"

PledgeSays ==
    IF \/ filter.arch = X86 /\ call.number >= Every
       \/ \E name \in Range(pledge_refused) : NumberOf(name, filter.arch) = call.number
       \/ /\ NumberOf("socket", filter.arch) = call.number
          /\ ~ ((A(1) = W(1) /\ "unix" \in filter.sockets)
                \/ (A(1) \in {W(2), W(10)} /\ "inet" \in filter.sockets))
      THEN "EPERM" ELSE "ALLOW"

\* A pointer the connector may connect with: a slot of the table, where the
\* mapping put it, at the length of the endpoint whose slot it is.
IsSlot(pointer, length) ==
    \/ LET base == connector_map(filter.start, TableBytes(filter.endpoints))
           o == Offsets(filter.endpoints)
       IN  \E i \in 1 .. Len(filter.endpoints), j \in 0 .. 3 :
             LET e == filter.endpoints[i]
             IN  /\ j < e.slots /\ length = e.length
                 /\ pointer = base + o[i] + j * connector_stride(e.length)
    \/ filter.scratch # 0 /\ \/ pointer = filter.scratch /\ length = 4
                             \/ pointer = filter.scratch + 8 /\ length = 7

ConnectorSays ==
    LET pointer == call.args[2].hi.n * Half + call.args[2].lo.n
        Is(name) == ConnectorNumber(name) = call.number
    IN  IF Is("close") /\ A(1) = W(filter.control) THEN "KILL"
        ELSE IF \/ \E i \in 1 .. Len(Simple) : Is(Simple[i])
                \/ Is("close")
                \/ Is("read") /\ WholeArg(1, filter.control)
                \/ Is("write") /\ (WholeArg(1, filter.control) \/ WholeArg(1, filter.status))
                \/ Is("socket") /\ (WholeArg(1, 2) \/ WholeArg(1, 10)) /\ WholeArg(2, 1) /\ WholeArg(3, 6)
                \/ Is("getsockopt") /\ WholeArg(2, 1) /\ WholeArg(3, 4)
                \/ Is("sendmsg") /\ WholeArg(3, 16) /\ WholeArg(1, filter.control)
                \/ Is("connect") /\ call.args[3].hi = W(0) /\ IsSlot(pointer, A(3).n)
        THEN "ALLOW" ELSE "EPERM"

\* A program that was written decides every call as it is meant to, whatever
\* its number and arguments: no jump lands in another rule's block, a call at
\* the middle of the tree is not lost, a value is not read where a flag is,
\* and a call of another architecture ends the process.  A connector's table
\* is always placed where its program can be written.
FilterExact ==
    /\ filter.kind = "connector" => code # <<>>
    /\ filterVerdict # "" =>
         filterVerdict = IF call.arch # filter.arch THEN "KILL"
                  ELSE CASE filter.kind = "promises" -> PromisesSay
                         [] filter.kind = "pledge" -> PledgeSays
                         [] filter.kind = "connector" -> ConnectorSays
=============================================================================
