------------------------------ MODULE Artifact ------------------------------
(***************************************************************************)
(* The file a program is (core/portable.c): a portable one is a shell      *)
(* header, cores each at its alignment, a manifest of them, a database and *)
(* a trailer; a host one starts with its one core.  The decoder reads      *)
(* fields that may hold any number of their width, and accepts or zeroes   *)
(* all it read.  The database is then read through one door (core/vfs.c),  *)
(* opened once.                                                            *)
(*                                                                         *)
(* What the bytes are is left out, except one that is not zero somewhere   *)
(* in the file (dirt).                                                     *)
(***************************************************************************)
EXTENDS Integers, Sequences, FiniteSets

CONSTANTS
    Shell,           \* COSMIC_PORTABLE_SHELL_LENGTH
    Alignment,       \* COSMIC_PORTABLE_CORE_ALIGNMENT
    ManifestLength,  \* COSMIC_PORTABLE_MANIFEST_LENGTH
    HeaderLength,    \* SQLITE_HEADER_LENGTH
    TrailerLength,   \* COSMIC_PORTABLE_TRAILER_LENGTH
    MaxEntries,      \* COSMIC_PORTABLE_MAX_ENTRIES
    Word,       \* the numbers of a 64-bit word, INT64_MAX being half of them
    Fields,     \* bound: the numbers a field is tried with
    FileSizes,  \* the files' lengths tried
    Dirt,       \* bound: where the byte that is not zero is tried, -1 for none
    Amounts,    \* bound: how much a read asks for
    Targets,    \* target ids, 0 among them
    Required,   \* COSMIC_PORTABLE_REQUIRED_TARGET_MASK, as a set
    Compiled    \* the running core's target

\* A file's length is an off_t, half of the words.
ASSUME ArtifactAssumption ==
    /\ {Shell, Alignment, ManifestLength, HeaderLength, TrailerLength, MaxEntries, Word} \subseteq Nat \ {0}
    /\ Fields \subseteq 0..Word - 1
    /\ FileSizes \subseteq Nat /\ \A size \in FileSizes : 2 * size < Word
    /\ Dirt \subseteq Int /\ Amounts \subseteq Nat

VARIABLES
    art,       \* [stage, format, size, dirt, manifest, database, length, count, entries, selected]
    door,      \* the one range registered: [open, offset, length], and whether it was opened
    bytesRead  \* the last read through it: [from, to], in the file

artifactVars == <<art, door, bytesRead>>

Rejected == [stage |-> "rejected", format |-> "none", size |-> 0, dirt |-> -1, manifest |-> 0,
             database |-> 0, length |-> 0, count |-> 0, entries |-> << >>, selected |-> 0]
Shut == [open |-> FALSE, offset |-> 0, length |-> 0, files |-> 0]

ArtifactInit ==
    /\ \E format \in {"host", "portable"}, size \in FileSizes, dirt \in Dirt :
          art = [Rejected EXCEPT !.stage = "trailer", !.format = format, !.size = size, !.dirt = dirt]
    /\ door = Shut /\ bytesRead = [from |-> 0, to |-> 0]

Plus(a, b) == (a + b) % Word
first_core == IF art.format = "host" THEN 0 ELSE Shell
TrailerAt == art.size - TrailerLength

range_ends_at_or_before(offset, length, limit) == offset <= limit /\ length <= limit - offset

\* The aligned value, or -1 where there is none in a word.
align_core(value) ==
    LET padding == (Alignment - (value % Alignment)) % Alignment
    IN  IF value > (Word - 1) - padding THEN -1 ELSE value + padding

zero_range(offset, length) == ~(art.dirt >= offset /\ art.dirt < offset + length)

Keep(next) == art' = next /\ UNCHANGED <<door, bytesRead>>

\* decode_blocks: the trailer's fields.
decode_trailer ==
    /\ art.stage = "trailer"
    /\ \E manifest \in Fields, database \in Fields, length \in Fields :
          Keep(IF /\ art.size >= first_core + ManifestLength + HeaderLength + TrailerLength
                  /\ range_ends_at_or_before(manifest, ManifestLength, TrailerAt)
                  /\ Plus(manifest, ManifestLength) = database
                  /\ range_ends_at_or_before(database, length, TrailerAt)
                  /\ Plus(database, length) = TrailerAt
                  /\ manifest >= first_core /\ manifest % Alignment = 0
                  /\ length >= HeaderLength
               THEN [art EXCEPT !.stage = "manifest", !.manifest = manifest, !.database = database, !.length = length]
               ELSE Rejected)

\* The manifest's own fields: its prefix is all that is before the database.
\* It is sound where its magic, version and lengths are the format's, its
\* entries fit it and what is past them is zeros.
decode_manifest ==
    /\ art.stage = "manifest"
    /\ \E sound \in BOOLEAN, prefix \in Fields, count \in 0..MaxEntries + 1 :
          Keep(IF sound /\ prefix = art.database /\ count > 0 /\ count <= MaxEntries
               THEN [art EXCEPT !.stage = "entries", !.count = count] ELSE Rejected)

\* One entry of it.  It is sound where its identity and codec are known, its
\* core is not empty and, stored raw, is what is stored.
decode_entry ==
    /\ art.stage = "entries"
    /\ \E sound \in BOOLEAN, target \in Targets, kind \in {"core", "stub"}, raw \in BOOLEAN, offset \in Fields, stored \in Fields :
          Keep(IF /\ sound /\ target # 0 /\ (kind = "stub" => raw)
                  /\ offset >= first_core /\ offset % Alignment = 0 /\ stored > 0
                  /\ range_ends_at_or_before(offset, stored, art.manifest)
               THEN [art EXCEPT !.entries = Append(@, [target |-> target, kind |-> kind, raw |-> raw,
                                                       offset |-> offset, stored |-> stored]),
                                !.stage = IF Len(art.entries) + 1 = art.count THEN "layout" ELSE "entries"]
               ELSE Rejected)

\* Where the next core after `after` ends, in order of offset; -1 where it is
\* not packed to its alignment, or a byte before it is not zero.
PackedNext(es, after) ==
    LET later == {i \in 1..Len(es) : es[i].offset >= after}
        next == CHOOSE i \in later : \A j \in later : es[i].offset <= es[j].offset
    IN  IF after = -1 \/ later = {} THEN -1
        ELSE IF es[next].offset # align_core(after) \/ ~zero_range(after, es[next].offset - after)
        THEN -1 ELSE Plus(es[next].offset, es[next].stored)

Packed(es) ==
    LET f[n \in 0..Len(es)] == IF n = 0 THEN Shell ELSE PackedNext(es, f[n - 1])
    IN  f[Len(es)]

decode_host_ok ==
    LET e == art.entries[1]
    IN  /\ Len(art.entries) = 1 /\ e.kind = "core" /\ e.raw
        /\ e.offset = 0 /\ align_core(e.stored) = art.manifest
        /\ zero_range(e.stored, art.manifest - e.stored)

\* Mutant: the bytes past the last core are not looked at.
decode_portable_unpadded ==
    LET es == art.entries
        after == Packed(es)
    IN  /\ \A i, j \in 1..Len(es) : i # j =>
              /\ <<es[i].target, es[i].kind>> # <<es[j].target, es[j].kind>>
              /\ ~(es[i].offset < Plus(es[j].offset, es[j].stored) /\ es[j].offset < Plus(es[i].offset, es[i].stored))
        /\ \A i \in 1..Len(es) : es[i].kind = "core" /\ ~es[i].raw =>
              \E j \in 1..Len(es) : es[j].kind = "stub" /\ es[j].target = es[i].target
        /\ after # -1 /\ align_core(after) = art.manifest

decode_portable_ok ==
    LET es == art.entries
        after == Packed(es)
    IN  /\ \A i, j \in 1..Len(es) : i # j =>
              /\ <<es[i].target, es[i].kind>> # <<es[j].target, es[j].kind>>
              /\ ~(es[i].offset < Plus(es[j].offset, es[j].stored) /\ es[j].offset < Plus(es[i].offset, es[i].stored))
        /\ \A i \in 1..Len(es) : es[i].kind = "core" /\ ~es[i].raw =>
              \E j \in 1..Len(es) : es[j].kind = "stub" /\ es[j].target = es[i].target
        /\ after # -1 /\ align_core(after) = art.manifest
        /\ zero_range(after, art.manifest - after)

\* cosmic_host_decode and cosmic_portable_decode: the compiled core's entry,
\* in a manifest that has every required one.
Cores == {i \in 1..Len(art.entries) : art.entries[i].kind = "core"}
Selected == {i \in Cores : art.entries[i].target = Compiled}

cosmic_artifact_decode ==
    /\ art.stage = "layout"
    /\ LET ok == IF art.format = "host" THEN decode_host_ok
                 ELSE decode_portable_ok /\ Required \subseteq {art.entries[i].target : i \in Cores}
       IN  Keep(IF ok /\ Selected # {}
                THEN [art EXCEPT !.stage = "accepted", !.selected = CHOOSE i \in Selected : \A j \in Selected : j <= i]
                ELSE Rejected)

-----------------------------------------------------------------------------
\* The door to the database.

cosmic_vfs_register ==
    /\ art.stage = "accepted"
    /\ art' = [art EXCEPT !.stage = "registered"]
    /\ door' = [open |-> TRUE, offset |-> art.database, length |-> art.length, files |-> 0]
    /\ UNCHANGED bytesRead

\* Any later open finds the door shut.
vfs_open ==
    /\ art.stage = "registered" /\ door.open
    /\ door' = [door EXCEPT !.open = FALSE, !.files = @ + 1]
    /\ UNCHANGED <<art, bytesRead>>

\* Past the range there is nothing, and a read across its end is short.
file_read(at, amount) ==
    /\ door.files > 0
    /\ LET room == door.length - at
       IN  bytesRead' = IF at > door.length THEN [from |-> 0, to |-> 0]
                        ELSE [from |-> door.offset + at,
                              to |-> door.offset + at + (IF room < amount THEN room ELSE amount)]
    /\ UNCHANGED <<art, door>>

ArtifactNext ==
    \/ decode_trailer \/ decode_manifest \/ decode_entry \/ cosmic_artifact_decode
    \/ cosmic_vfs_register \/ vfs_open
    \/ \E at \in Fields, amount \in Amounts : file_read(at, amount)

ArtifactSpec == ArtifactInit /\ [][ArtifactNext]_artifactVars

-----------------------------------------------------------------------------
\* A file that is accepted is nothing but its parts: its shell, its cores, its
\* manifest, its database and its trailer cover it once each, and what is
\* between two of them is zeros shorter than the alignment; and the core
\* selected is the one core of the compiled identity (decode_blocks,
\* decode_host, decode_portable).
PartsTileFile ==
    art.stage \in {"accepted", "registered"} =>
        LET es == art.entries
            Run(a, n) == a..(a + n - 1)
            parts == [i \in 0..Len(es) + 3 |->
                         CASE i = 0 -> Run(0, first_core)
                           [] i \in 1..Len(es) -> Run(es[i].offset, es[i].stored)
                           [] i = Len(es) + 1 -> Run(art.manifest, ManifestLength)
                           [] i = Len(es) + 2 -> Run(art.database, art.length)
                           [] i = Len(es) + 3 -> Run(TrailerAt, TrailerLength)]
            gaps == (0..art.size - 1) \ UNION {parts[i] : i \in DOMAIN parts}
        IN  /\ \A i, j \in DOMAIN parts : i # j => parts[i] \cap parts[j] = {}
            /\ \A i \in DOMAIN parts : parts[i] \subseteq 0..art.size - 1
            /\ \A g \in gaps : g # art.dirt /\ ~(Run(g, Alignment) \subseteq gaps)
            /\ Selected = {art.selected}

\* The database is opened once, and nothing outside its range of the file is
\* ever read through its connection (vfs_open, file_read).
DoorInside ==
    /\ door.files <= 1
    /\ bytesRead.to > bytesRead.from =>
          bytesRead.from >= art.database /\ bytesRead.to <= art.database + art.length

\* The parts are the file, and what is read of one stays inside it.
ArtifactReads == PartsTileFile /\ DoorInside
=============================================================================
