------------------------------- MODULE Store -------------------------------
(***************************************************************************)
(* Where `require` finds a module (core/store.c): a list of databases, the *)
(* binary's own last and each attached one ahead of the rest; what each    *)
(* name may be answered from, and which chunk is handed a raw value; and   *)
(* the call that sets the attached databases aside and puts them back.     *)
(*                                                                         *)
(* One Lua state, so an operation is one action, except alone, whose       *)
(* function runs any of the others.  An operation that allocates may raise *)
(* where it does.                                                          *)
(***************************************************************************)
EXTENDS Integers, Sequences, FiniteSets

CONSTANTS
    Projects,   \* databases a program may attach
    Rows,       \* what each database, and the binary's, "b", holds: name -> kind
    MaxAsks     \* bound: operations

VARIABLES
    list,       \* STORE_LIST
    saved,      \* the list alone keeps, << >> where it runs not: set_aside
    conns,      \* connections open
    attached,   \* the databases attached, the last first: what list must be
    asks,
    answer      \* the last answer: [what, name, from, raw]

storeVars == <<list, saved, conns, attached, asks, answer>>

StoreNames == {"cosmic.http", "cosmic.store", "build.fuzz", "build.digest", "build.rules",
               "cosmic.internal.json", "app"}
names_plain_raw(n) == n = "cosmic.internal.json"

\* The wrappers, each with the raw value its loader is handed.
raw_modules == [n \in {"cosmic.store", "build.fuzz"} |->
                   IF n = "cosmic.store" THEN "cosmic.internal.store" ELSE "cosmic.internal.budget"]
names_reserved(n) ==
    \/ n \in {"cosmic.http", "cosmic.store", "cosmic.internal.json"}
    \/ n = "build.digest"
    \/ n \in DOMAIN raw_modules
names_trusted_kind(n, kind) == n # "app" /\ kind \in {"module", "main"}

NoAnswer == [what |-> "none", name |-> "none", from |-> "none", raw |-> "none"]

\* cosmic_store_install: the binary's own database is the whole list.
StoreInit ==
    /\ list = <<"b">> /\ saved = << >>
    /\ conns = {"b"} /\ attached = <<"b">>
    /\ asks = 0 /\ answer = NoAnswer

Asked == asks < MaxAsks /\ asks' = asks + 1

-----------------------------------------------------------------------------

\* The connection is the guard's until the list holds it: one that fails to
\* open, which is told, or that the list has no room for, is closed.
store_attach(d, stop) ==
    /\ Asked /\ d \notin conns
    /\ answer' = [NoAnswer EXCEPT !.what =
           IF saved # << >> \/ stop = "grow" THEN "raised"
           ELSE IF stop = "open" THEN "unopened" ELSE "attached"]
    /\ IF saved # << >> \/ stop # "none" THEN UNCHANGED <<list, conns, attached>>
       ELSE /\ list' = <<d>> \o list
            /\ conns' = conns \cup {d}
            /\ attached' = <<d>> \o attached
    /\ UNCHANGED saved

\* alone: the binary's is the one database until its function is over.
store_alone ==
    /\ Asked
    /\ IF saved = << >>
       THEN /\ saved' = list /\ list' = <<list[Len(list)]>>
            /\ answer' = [NoAnswer EXCEPT !.what = "alone"]
       ELSE answer' = [NoAnswer EXCEPT !.what = "raised"] /\ UNCHANGED <<list, saved>>
    /\ UNCHANGED <<conns, attached>>

\* Its function returned, or raised: the list is what it was.
AloneOver ==
    /\ saved # << >>
    /\ list' = saved /\ saved' = << >>
    /\ answer' = NoAnswer
    /\ UNCHANGED <<conns, attached, asks>>

-----------------------------------------------------------------------------
\* The places of a list whose database has a row of the name.
Holding(dbs, places, n) == {i \in places : Rows[dbs[i]][n] # "none"}
Foremost(places) == CHOOSE i \in places : \A j \in places : i <= j
Hindmost(places) == CHOOSE i \in places : \A j \in places : j <= i

\* The place a name is found, reading from the front or the back, or 0.
FirstHolding(places, n) ==
    IF Holding(list, places, n) = {} THEN 0 ELSE Foremost(Holding(list, places, n))
LastHolding(places, n) ==
    IF Holding(list, places, n) = {} THEN 0 ELSE Hindmost(Holding(list, places, n))

Answer(what, n, i, raw) ==
    answer' = [what |-> what, name |-> n, from |-> IF i = 0 THEN "none" ELSE list[i], raw |-> raw]

\* The raw value of a wrapper loaded from the binary, else its name.
load_from(n, i) ==
    IF i = Len(list) /\ names_trusted_kind(n, Rows[list[i]][n]) /\ n \in DOMAIN raw_modules
    THEN raw_modules[n] ELSE "none"

\* Mutant: a reserved name is looked for project first, as any other.
store_searcher_plain(n) ==
    /\ Asked
    /\ LET i == FirstHolding(1..Len(list), n)
       IN  IF names_plain_raw(n) THEN Answer("require", n, 0, n)
           ELSE IF i = 0 THEN Answer("missing", n, 0, "none")
           ELSE IF Rows[list[i]][n] = "bad" THEN Answer("raised", n, i, "none")
           ELSE Answer("require", n, i, load_from(n, i))
    /\ UNCHANGED <<list, saved, conns, attached>>

\* A reserved name is looked for in the binary first, any other project
\* first; a row that will not load, or memory that runs out as it is read,
\* is the answer's failure, not a miss.
store_searcher(n) ==
    /\ Asked
    /\ LET i == IF names_reserved(n) THEN LastHolding(1..Len(list), n) ELSE FirstHolding(1..Len(list), n)
       IN  IF names_plain_raw(n) THEN Answer("require", n, 0, n)
           ELSE \/ Answer("raised", n, 0, "none")
                \/ i = 0 /\ Answer("missing", n, 0, "none")
                \/ /\ i # 0
                   /\ IF Rows[list[i]][n] = "bad" THEN Answer("raised", n, i, "none")
                      ELSE Answer("require", n, i, load_from(n, i))
    /\ UNCHANGED <<list, saved, conns, attached>>

store_bytecode(n) ==
    /\ Asked
    /\ Answer("bytecode", n, FirstHolding(1..Len(list), n), "none")
    /\ UNCHANGED <<list, saved, conns, attached>>

\* Sources, zones, imports and what the runtime is come from the binary only.
store_source(n) ==
    /\ Asked
    /\ Answer("source", n, FirstHolding({Len(list)}, n), "none")
    /\ UNCHANGED <<list, saved, conns, attached>>

\* Build metadata keeps the order of the search; what the runtime is, and the
\* roots its requests trust, do not.
StoreKeys == {"main", "ca_roots_default"}
store_meta(k) ==
    /\ Asked
    /\ Answer("meta", k, FirstHolding(IF k = "main" THEN 1..Len(list) ELSE {Len(list)}, k), "none")
    /\ UNCHANGED <<list, saved, conns, attached>>

StoreNext ==
    \/ store_alone \/ AloneOver
    \/ \E d \in Projects, stop \in {"none", "open", "grow"} : store_attach(d, stop)
    \/ \E n \in StoreNames : store_searcher(n) \/ store_bytecode(n) \/ store_source(n)
    \/ \E k \in StoreKeys : store_meta(k)

StoreSpec == StoreInit /\ [][StoreNext]_storeVars

-----------------------------------------------------------------------------
\* The list is every database attached, the last first and the binary's own
\* last, or set aside for the binary's alone; each connection open is in it,
\* whatever attach or alone's function failed (store_attach, store_alone).
ListWhole ==
    /\ (IF saved = << >> THEN list ELSE saved) = attached
    /\ (saved # << >> => list = <<"b">>)
    /\ conns = {attached[i] : i \in 1..Len(attached)}

\* A module is the binary's where its name is reserved and the binary has it,
\* and else the last attached database's that has it; set aside, no other
\* answers; a raw value is handed to the binary's own wrapper alone, and the
\* sources and the roots trusted by default are the binary's (store_searcher,
\* load_from, store_source, store_meta).
AnsweredByOwner ==
    /\ (answer.what = "source" \/ answer.name = "ca_roots_default" => answer.from \in {"b", "none"})
    /\ answer.what = "require" /\ ~names_plain_raw(answer.name) =>
        LET n == answer.name
            binary == Rows["b"][n] # "none"
            place == Holding(attached, 1..Len(attached), n)
        IN  /\ (binary /\ names_reserved(n) => answer.from = "b")
            /\ (~(binary /\ names_reserved(n)) /\ saved = << >> =>
                   answer.from = attached[IF names_reserved(n) THEN Hindmost(place) ELSE Foremost(place)])
            /\ (saved # << >> => answer.from = "b")
            /\ (answer.raw # "none" => answer.from = "b" /\ n \in {"cosmic.store", "build.fuzz"})

\* The store lists every module once and answers each from its owner.
StoreAnswers == ListWhole /\ AnsweredByOwner
=============================================================================
