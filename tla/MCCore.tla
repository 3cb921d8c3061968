------------------------------- MODULE MCCore -------------------------------
(***************************************************************************)
(* What the core's C keeps by itself: filters, restrictions, the store, a  *)
(* start and its artifact, SQLite, streams, the corpus and files.  They    *)
(* share no state here, so one runs at a time, from its own initial        *)
(* states, and the others stay idle.                                       *)
(***************************************************************************)
EXTENDS Filters, Restrict, Store, Startup, Artifact, Sqlite, Compress, Corpus, MCFiles

VARIABLE part
coreVars == <<part, filterVars, restrictVars, storeVars, startupVars, artifactVars, sqliteVars, compressVars, corpusVars, filesVars>>

(* The programs asked for, and the calls each kind is tried with.          *)
Promising(promises, sockets, kept, arch) ==
    [kind |-> "promises", promises |-> promises, sockets |-> sockets, held |-> kept, arch |-> arch,
     pid |-> 7, room |-> 400, patches |-> 8]
MCPromises ==
    {Promising({}, {}, {}, X86), Promising({"fork"}, {"unix"}, {"signals"}, Arm), Promising({"jit", "fattr"}, {"inet"}, {"limits"}, X86),
     Promising({"fork", "nest"}, {"unix", "inet"}, {"pids"}, X86), Promising({"nest"}, {}, {"unix"}, Arm),
     [Promising({"nest"}, {}, {}, X86) EXCEPT !.patches = 4]}
MCPledges == {[kind |-> "pledge", sockets |-> s, arch |-> a] :
                s \in {{}, {"unix"}, {"inet"}, {"unix", "inet"}}, a \in {X86, Arm}}
MCConnectors ==
    {[kind |-> "connector", arch |-> X86, control |-> 3, status |-> 5, start |-> s, scratch |-> c,
      endpoints |-> <<[slots |-> 1, length |-> 4], [slots |-> 3, length |-> 7]>>] :
       s \in {0, 24, 32, 40, 64}, c \in {0, 192}}
MCFilterSet == MCPromises \cup MCPledges \cup MCConnectors
NoArg == [lo |-> W(0), hi |-> W(0)]
Arg(w) == [lo |-> w, hi |-> W(0)]
ArgList(a, b, c, d) == <<a, b, c, d>>
Judged(arch, number, args) == [arch |-> arch, number |-> number, args |-> args]
Words == {W(v) : v \in {0, 1, 2, 4, 7, 9, 10, 13, 23, 24, 99}}
Modes == {F({}), F({"exec"}), F({"exec", "write"}), F({"exec", "bti"}), F({"noexec"}), F({"setuid"}),
          F({"device"}), F({"fifo"}), F({"creat"}), F({"anon", "exec"}), F(ThreadFlags),
          F(ThreadFlags \cup {"parent"}), F({"user", "mnt"}), F({"uts"}), [n |-> 3, s |-> {"reset"}]}
MCPromiseCalls ==
    UNION {{Judged(a, n, ArgList(Arg(w), Arg(w), Arg(w), Arg(w))) : w \in Words \cup Modes} :
             a \in {X86, Arm}, n \in 1 .. Reviewed}
    \cup {Judged(X86, n, ArgList(Arg(W(0)), Arg(x), Arg(y), Arg(z))) :
            n \in {2, 3, 5, 17, 18, 24, 28}, x \in {F({"creat"}), W(0), W(3)},
            y \in {F({"exec"}), F({"creat"}), F({"setuid"})}, z \in {F({"anon"}), F({}), F({"sticky"})}}
    \cup {Judged(X86, n, ArgList(Arg(W(7)), NoArg, [lo |-> W(0), hi |-> W(h)], NoArg)) :
            n \in {28}, h \in {0, 1}}
MCPledgeCalls == {Judged(a, n, ArgList(Arg(W(f)), NoArg, NoArg, NoArg)) :
                    a \in {X86, Arm}, n \in (1 .. Reviewed) \cup {Every}, f \in {0, 1, 2, 10}}
MCConnectorCalls ==
    {Judged(X86, 8, ArgList(Arg(W(9)), [lo |-> W(p % Half), hi |-> W(p \div Half)], Arg(W(l)), NoArg)) :
       p \in (0 .. 130) \cup (190 .. 210), l \in {4, 7}}
    \cup {Judged(X86, n, ArgList([lo |-> W(a), hi |-> W(h)], Arg(W(b)), Arg(W(c)), NoArg)) :
            n \in (1 .. 11) \ {8}, a \in {2, 3, 5, 10}, h \in {0, 1}, b \in {1, 2}, c \in {4, 6, 16}}
MCCalls == [kind \in {"promises", "pledge", "connector"} |->
              CASE kind = "promises" -> MCPromiseCalls
                [] kind = "pledge" -> MCPledgeCalls
                [] kind = "connector" -> MCConnectorCalls]

(* Three restrictions, made in any order and again.                        *)
MCRestrictions ==
    {[promises |-> {}, limits |-> [nofile |-> 1, other |-> NoLimit], grants |-> {"work"}, fds |-> {}],
     [promises |-> {"fork"}, limits |-> [nofile |-> 2, other |-> 1], grants |-> {"work", "proc"}, fds |-> {3}],
     [promises |-> {}, limits |-> [nofile |-> NoLimit, other |-> 1], grants |-> {}, fds |-> {}]}

(* The binary's rows and those of two projects.                            *)
MCRows ==
    [d \in {"b", "p", "q"} |->
        [n \in StoreNames \cup StoreKeys |->
            CASE d = "b" -> IF n \in {"app", "build.rules", "cosmic.internal.json"} THEN "none"
                            ELSE IF n = "build.fuzz" THEN "main" ELSE "module"
              [] d = "p" -> "module"
              [] d = "q" -> IF n = "app" THEN "bad" ELSE IF n = "build.rules" THEN "module" ELSE "none"]]

MCDirt == {-1, 3, 5}

(* Inputs that are whole, cut short, damaged, padded or followed by more.  *)
Coded == {"0", "1", "2", "d", "e", "x"}
Endings == UNION {[1..n -> Coded] : n \in 0..2}
Openings == {<<"1", "2">>, <<"1", "2", "0">>, <<"1", "2", "2">>, <<"1", "2", "d">>, <<"1", "2", "e", "1">>,
           <<"1", "2", "0", "1", "d", "e", "1", "1">>, <<"1", "2", "d", "d", "e">>}
MCJobs ==
    {[op |-> "decode", format |-> f, bytes |-> a \o b] :
        f \in {"gzip", "raw", "bz2", "xz", "zstd"},
        a \in Openings \cup {<< >>}, b \in Endings}
    \cup {[op |-> "decode", format |-> f, bytes |-> a \o p \o c] :
        f \in {"gzip", "bz2", "xz", "zstd"},
        a \in {<<"1", "2", "0", "e", "0", "0">>, <<"1", "2", "1", "d", "e">>, <<"1", "2", "d", "d", "e">>},
        p \in {<< >>, <<"0">>, <<"0", "0">>, <<"0", "0", "0">>},
        c \in {<<"1">>, <<"1", "2", "0", "e", "0", "0">>, <<"1", "2", "d", "d", "e">>, <<"2", "1">>}}
    \cup {[op |-> "encode", format |-> f, bytes |-> b] :
        f \in {"gzip", "raw", "bz2", "xz", "zstd"}, b \in UNION {[1..n -> {"0", "1"}] : n \in 0..3}}

Vec(key, nan, ham) == [key |-> key, nan |-> nan, ham |-> ham]
MCOffered == {[id |-> 1, v |-> Vec(1, FALSE, 0)], [id |-> 2, v |-> Vec(1, FALSE, 0)],
              [id |-> 1, v |-> Vec(2, FALSE, 1)], [id |-> 2, v |-> Vec(3, TRUE, 0)]}

-----------------------------------------------------------------------------
(* Each part not chosen starts in one of its initial states.               *)
FilterIdle == /\ filter = CHOOSE x \in MCPledges : x.sockets = {}
              /\ call = CHOOSE x \in MCPledgeCalls : TRUE
RestrictIdle == system = "linux" /\ ask = CHOOSE x \in Restrictions : TRUE
FilesIdle == /\ holds = [top |-> In3("plain", "none", "fd3")] /\ deed = MCDeed
ArtifactIdle == art = [Rejected EXCEPT !.stage = "trailer", !.format = "host", !.size = 4, !.dirt = -1]

CoreInit ==
    /\ part \in {"filters", "restrict", "store", "stamp", "open", "artifact", "sqlite", "compress", "corpus", "files"}
    /\ StoreInit /\ StartupInit /\ SqliteInit
    /\ part = "corpus" \/ storage = "f32"
    /\ CorpusInit
    /\ part = "files" \/ FilesIdle
    /\ FilesInit
    /\ part = "compress" \/ job = CHOOSE x \in Jobs : TRUE
    /\ CompressInit
    /\ part = "artifact" \/ ArtifactIdle
    /\ ArtifactInit
    /\ part = "restrict" \/ RestrictIdle
    /\ RestrictInit
    /\ part = "restrict" \/ (held.hard["nofile"] = 1 /\ held.capable)
    /\ part = "filters" \/ FilterIdle
    /\ FilterInit

CoreNext ==
    /\ UNCHANGED part
    /\ \/ /\ part = "filters" /\ FilterNext
          /\ UNCHANGED <<restrictVars, storeVars, startupVars, artifactVars, sqliteVars, compressVars, corpusVars, filesVars>>
       \/ /\ part = "restrict" /\ RestrictNext
          /\ UNCHANGED <<filterVars, storeVars, startupVars, artifactVars, sqliteVars, compressVars, corpusVars, filesVars>>
       \/ /\ part = "store" /\ StoreNext
          /\ UNCHANGED <<filterVars, restrictVars, startupVars, artifactVars, sqliteVars, compressVars, corpusVars, filesVars>>
       \/ /\ part = "artifact" /\ ArtifactNext
          /\ UNCHANGED <<filterVars, restrictVars, storeVars, startupVars, sqliteVars, compressVars, corpusVars, filesVars>>
       \/ /\ part = "sqlite" /\ SqliteNext
          /\ UNCHANGED <<filterVars, restrictVars, storeVars, startupVars, artifactVars, compressVars, corpusVars, filesVars>>
       \/ /\ part = "compress" /\ CompressNext
          /\ UNCHANGED <<filterVars, restrictVars, storeVars, startupVars, artifactVars, sqliteVars, corpusVars, filesVars>>
       \/ /\ part = "corpus" /\ CorpusNext
          /\ UNCHANGED <<filterVars, restrictVars, storeVars, startupVars, artifactVars, sqliteVars, compressVars, filesVars>>
       \/ /\ part = "files" /\ FilesNext
          /\ UNCHANGED <<filterVars, restrictVars, storeVars, startupVars, artifactVars, sqliteVars, compressVars, corpusVars>>
       \/ /\ \/ part = "stamp" /\ StampNext
             \/ part = "open" /\ DatabaseNext
          /\ UNCHANGED <<filterVars, restrictVars, storeVars, artifactVars, sqliteVars, compressVars, corpusVars, filesVars>>

CoreSpec == CoreInit /\ [][CoreNext]_coreVars
=============================================================================
