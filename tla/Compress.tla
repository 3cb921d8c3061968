------------------------------ MODULE Compress ------------------------------
(***************************************************************************)
(* The streaming decoders and encoders of core/compress.c: input arrives   *)
(* in chunks of any size, each update gives no more output than its limit, *)
(* and a stream is one member after another, the bytes after the last its  *)
(* rest.  The library that decodes a member's body is external.            *)
(*                                                                         *)
(* Bytes are tokens.  "1" "2" is every format's magic.  In a body a byte   *)
(* gives itself, "d" gives two, "e" ends it and "x" is corrupt.  What a    *)
(* header byte says depends on the format: see parts, declared and extra.  *)
(***************************************************************************)
EXTENDS Integers, SequencesExt

CONSTANTS
    Jobs,       \* what is decoded: [format, bytes]; or encoded
    Chunks,     \* how many bytes one update is given
    Limits,     \* an update's output limit
    Slice,      \* CODEC_SLICE, and the deflate window
    PadWord     \* xz stream padding's word: 4 in the code

VARIABLES
    job,
    stream,     \* struct stream
    fed,        \* the bytes given to updates
    given,      \* the bytes updates, and finish, answered
    verdict     \* "open", "ok", "failed"; "memory", "raised", "closed"

compressVars == <<job, stream, fed, given, verdict>>

Least(a, b) == IF a < b THEN a ELSE b
From(s, i) == SubSeq(s, i, Len(s))

-----------------------------------------------------------------------------
\* The library: skip header bytes, then each byte's output, held inside where
\* the room is full.
NoCodec == [skip |-> 0, buf |-> << >>, over |-> FALSE]
Gives(b) == IF b = "d" THEN <<"d", "d">> ELSE <<b>>

RECURSIVE Library(_, _, _, _, _)
Library(c, in, i, room, out) ==
    LET stop(status) == [c |-> c, used |-> i, out |-> out, status |-> status]
    IN  IF c.buf # << >>
        THEN IF Len(out) = room THEN stop("ok")
             ELSE Library([c EXCEPT !.buf = Tail(@)], in, i, room, Append(out, Head(c.buf)))
        ELSE IF c.over THEN stop("end")
        ELSE IF i = Len(in) \/ Len(out) = room THEN stop("ok")
        ELSE IF c.skip > 0 THEN Library([c EXCEPT !.skip = @ - 1], in, i + 1, room, out)
        ELSE IF in[i + 1] = "x" THEN stop("bad")
        ELSE IF in[i + 1] = "e" THEN Library([c EXCEPT !.over = TRUE], in, i + 1, room, out)
        ELSE Library([c EXCEPT !.buf = Gives(in[i + 1])], in, i + 1, room, out)

\* A member's checks: CRC-32 and ISIZE.
Parity(n) == IF n % 2 = 0 THEN "0" ELSE "1"
lzma_crc32(out) == Parity(Len(SelectSeq(out, LAMBDA b : b = "1")))
isize(out) == Parity(Len(out))

-----------------------------------------------------------------------------
\* How one step of a member's decoder ended, and what it took and gave.
Stepped(s, used, out, rc) == [s |-> s, used |-> used, out |-> out, rc |-> rc]

inflate_start_body(s) == [s EXCEPT !.codec = NoCodec, !.bodyDone = FALSE, !.made = << >>]

\* Output the library has written to the window goes out first, as far as the
\* limit; the library is not run again until it all has.
RECURSIVE inflate_step(_, _, _, _, _, _)
inflate_step(s, in, i, room, out, starved) ==
    LET k == Least(Len(s.held), room - Len(out))
        t == [s EXCEPT !.held = From(@, k + 1)]
        o == out \o SubSeq(s.held, 1, k)
    IN  IF t.held # << >> THEN Stepped(t, i, o, "FULL")
        ELSE IF t.bodyDone THEN Stepped(t, i, o, "END")
        ELSE IF starved THEN Stepped(t, i, o, "INPUT")
        ELSE LET run == Library(t.codec, in, i, Slice, << >>)
                 u == [t EXCEPT !.codec = run.c, !.held = run.out, !.made = @ \o run.out,
                                !.bodyDone = run.status = "end"]
             IN  IF run.status = "bad" THEN Stepped(u, run.used, o, "ERROR")
                 ELSE inflate_step(u, in, run.used, room, o,
                                   run.status = "ok" /\ run.used = Len(in) /\ run.c.buf = << >>)

\* The parts of a gzip header its flags name, in the order they come.
parts(b) == CASE b = "0" -> << >> [] b = "d" -> <<"NAME">> [] b = "e" -> <<"XLEN">>
              [] b = "1" -> <<"HCRC">> [] b = "2" -> <<"XLEN", "NAME", "HCRC">> [] OTHER -> << >>
extra(b) == CASE b = "0" -> 0 [] b = "1" -> 1 [] OTHER -> 2

gzip_next(s, left) ==
    IF left = << >> THEN inflate_start_body([s EXCEPT !.field = << >>, !.gstate = "BODY", !.flg = << >>])
    ELSE [s EXCEPT !.field = << >>, !.gstate = Head(left), !.flg = Tail(left)]

\* A header field of a fixed size, from as many updates as bring it.
gzip_collect(s, in, i, need) ==
    LET take == Least(need - Len(s.field), Len(in) - i)
    IN  [field |-> s.field \o SubSeq(in, i + 1, i + take), used |-> i + take]

RECURSIVE gzip_step(_, _, _, _)
gzip_step(s, in, i, room) ==
    LET need == CASE s.gstate = "FIXED" -> 3 [] s.gstate = "TRAILER" -> 2 [] OTHER -> 1
        got == gzip_collect(s, in, i, need)
        f == got.field
        whole == Len(f) = need
        short == Stepped([s EXCEPT !.field = f], got.used, << >>, "INPUT")
        nuls == {j \in (i + 1)..Len(in) : in[j] = "0"}
        nul == CHOOSE j \in nuls : \A k \in nuls : j <= k
    IN  CASE s.gstate = "FIXED" ->
               IF ~whole THEN short
               ELSE IF f[3] = "x" THEN Stepped(s, got.used, << >>, "ERROR")
               ELSE gzip_step(gzip_next(s, parts(f[3])), in, got.used, room)
          [] s.gstate = "XLEN" ->
               IF ~whole THEN short
               ELSE gzip_step([s EXCEPT !.gstate = "EXTRA", !.extra = extra(f[1])], in, got.used, room)
          [] s.gstate = "EXTRA" ->
               LET take == Least(s.extra, Len(in) - i)
                   left == s.extra - take
               IN  IF left > 0 THEN Stepped([s EXCEPT !.extra = left], i + take, << >>, "INPUT")
                   ELSE gzip_step(gzip_next([s EXCEPT !.extra = 0], s.flg), in, i + take, room)
          [] s.gstate = "NAME" ->
               IF nuls = {} THEN Stepped(s, Len(in), << >>, "INPUT")
               ELSE gzip_step(gzip_next(s, s.flg), in, nul, room)
          [] s.gstate = "HCRC" ->
               IF ~whole THEN short ELSE gzip_step(gzip_next(s, s.flg), in, got.used, room)
          [] s.gstate = "BODY" ->
               LET b == inflate_step(s, in, i, room, << >>, FALSE)
                   next == gzip_step([b.s EXCEPT !.gstate = "TRAILER", !.field = << >>], in, b.used, 0)
               IN  IF b.rc # "END" THEN b ELSE [next EXCEPT !.out = b.out]
          [] s.gstate = "TRAILER" ->
               IF ~whole THEN short
               ELSE Stepped(s, got.used, << >>,
                            IF f = <<lzma_crc32(s.made), isize(s.made)>> THEN "END" ELSE "ERROR")

\* bzip2 and xz: no more is asked of the library than the limit has room for.
RECURSIVE bz2_step(_, _, _, _, _)
bz2_step(s, in, i, room, out) ==
    IF Len(out) = room THEN Stepped(s, i, out, "FULL")
    ELSE LET take == Least(room - Len(out), Slice)
             run == Library(s.codec, in, i, take, << >>)
             t == [s EXCEPT !.codec = run.c]
             o == out \o run.out
         IN  CASE run.status = "end" -> Stepped(t, run.used, o, "END")
               [] run.status = "bad" -> Stepped(t, run.used, o, "ERROR")
               [] run.used = Len(in) /\ Len(run.out) < take -> Stepped(t, run.used, o, "INPUT")
               [] OTHER -> bz2_step(t, in, run.used, room, o)

\* zstd: what a frame's header declares, a window past the limit refused.
declared(b) == CASE b = "d" -> 2 [] b = "1" -> 1 [] OTHER -> -1

RECURSIVE zstd_run(_, _, _, _, _)
zstd_run(s, in, i, room, out) ==
    IF Len(out) = room THEN Stepped([s EXCEPT !.zdrain = TRUE], i, out, "FULL")
    ELSE LET take == Least(room - Len(out), Slice)
             run == Library(s.codec, in, i, take, << >>)
             t == [s EXCEPT !.codec = run.c, !.made = @ \o run.out]
             o == out \o run.out
         IN  CASE run.status = "end" ->
                    Stepped(t, run.used, o, IF t.zsize # -1 /\ Len(t.made) # t.zsize THEN "ERROR" ELSE "END")
               [] run.status = "bad" -> Stepped(t, run.used, o, "ERROR")
               [] run.used = Len(in) /\ Len(run.out) < take -> Stepped(t, run.used, o, "INPUT")
               [] OTHER -> zstd_run(t, in, run.used, room, o)

\* A header cut short is left to be offered again; a call that is given
\* nothing and holds nothing is not made.
zstd_step(s, in, i, room) ==
    IF i = Len(in) /\ ~s.zdrain THEN Stepped(s, i, << >>, "INPUT")
    ELSE IF ~s.zhdr /\ Len(in) - i < 3 THEN Stepped(s, i, << >>, "INPUT")
    ELSE IF ~s.zhdr /\ in[i + 3] = "x" THEN Stepped(s, i, << >>, "ERROR")
    ELSE LET t == IF s.zhdr THEN s ELSE [s EXCEPT !.zhdr = TRUE, !.zsize = declared(in[i + 3]), !.made = << >>]
         IN  zstd_run([t EXCEPT !.zdrain = FALSE], in, i, room, << >>)

\* Whether the bytes from i on begin the next member, or too few have come.
magic_match(in, i) ==
    LET n == Len(in) - i
    IN  IF n > 0 /\ in[i + 1] # "1" THEN "no"
        ELSE IF n > 1 THEN (IF in[i + 2] = "2" THEN "yes" ELSE "no")
        ELSE "short"

\* Each format's decoder takes a member's header itself.
start_member(s) ==
    CASE s.format = "gzip" -> [s EXCEPT !.gstate = "FIXED", !.field = << >>]
      [] s.format = "zstd" -> [s EXCEPT !.zhdr = FALSE, !.codec = [NoCodec EXCEPT !.skip = 3]]
      [] OTHER -> [s EXCEPT !.codec = [NoCodec EXCEPT !.skip = 2]]

member_step(s, in, i, room) ==
    CASE s.format = "gzip" -> gzip_step(s, in, i, room)
      [] s.format = "raw" -> inflate_step(s, in, i, room, << >>, FALSE)
      [] s.format = "zstd" -> zstd_step(s, in, i, room)
      [] OTHER -> bz2_step(s, in, i, room, << >>)

\* NUL bytes after the last xz stream that are no whole padding are its rest.
enter_trailing(s) ==
    [s EXCEPT !.rest = IF s.padding % PadWord = 0 THEN @ ELSE @ \o [k \in 1..s.padding |-> "0"],
              !.padding = 0, !.ph = "TRAILING", !.ended = TRUE]

Decoded(s, used, out, ok) == [s |-> s, used |-> used, out |-> out, ok |-> ok]

\* Members until the input, or the limit, runs out; atEnd says no input
\* follows.
RECURSIVE decode_from(_, _, _, _, _, _)
AfterStep(st, in, atEnd, room, out) ==
    LET o == out \o st.out
        t == [st.s EXCEPT !.members = @ + 1]
    IN  CASE st.rc = "ERROR" -> Decoded(st.s, st.used, o, FALSE)
          [] st.rc = "END" ->
               decode_from(IF t.format = "raw" THEN enter_trailing(t) ELSE [t EXCEPT !.ph = "BETWEEN"],
                           in, st.used, atEnd, room, o)
          [] OTHER -> Decoded([st.s EXCEPT !.more = st.rc = "FULL"], st.used, o, TRUE)

decode_from(s, in, i, atEnd, room, out) ==
    IF s.ph = "TRAILING" THEN Decoded([s EXCEPT !.rest = @ \o From(in, i + 1)], Len(in), out, TRUE)
    ELSE IF s.ph = "MEMBER"
    THEN AfterStep(member_step(s, in, i, room - Len(out)), in, atEnd, room, out)
    ELSE IF i = Len(in) THEN Decoded(s, i, out, TRUE)
    ELSE IF s.format = "xz" /\ s.members > 0 /\ in[i + 1] = "0"
    THEN decode_from([s EXCEPT !.padding = @ + 1], in, i + 1, atEnd, room, out)
    ELSE LET m == magic_match(in, i)
         IN  IF m = "short" /\ ~atEnd THEN Decoded(s, i, out, TRUE)
             ELSE IF m # "yes"
             THEN IF s.members = 0 THEN Decoded(s, i, out, FALSE)
                  ELSE decode_from(enter_trailing(s), in, i, atEnd, room, out)
             ELSE IF s.padding % PadWord # 0 THEN Decoded(s, i, out, FALSE)
             ELSE decode_from([start_member(s) EXCEPT !.padding = 0, !.ph = "MEMBER"], in, i, atEnd, room, out)

decode(s, in, atEnd, room) == decode_from([s EXCEPT !.more = FALSE], in, 0, atEnd, room, << >>)

-----------------------------------------------------------------------------
\* The constructors: raw deflate begins in its one member.
new_stream(format) ==
    [format |-> format, ph |-> IF format = "raw" THEN "MEMBER" ELSE "BETWEEN", members |-> 0, padding |-> 0,
     kept |-> << >>, rest |-> << >>, more |-> FALSE, ended |-> FALSE, codec |-> NoCodec,
     held |-> << >>, bodyDone |-> FALSE, made |-> << >>, gstate |-> "FIXED", field |-> << >>, flg |-> << >>,
     extra |-> 0, zhdr |-> FALSE, zdrain |-> FALSE, zsize |-> -1, finished |-> FALSE,
     wroteHeader |-> FALSE, open |-> FALSE]

Encodes(j) == j.op = "encode"

CompressInit ==
    /\ job \in Jobs
    /\ stream = new_stream(job.format)
    /\ fed = << >> /\ given = << >> /\ verdict = "open"

\* A failure drops what this call would have given, and the codec's memory;
\* rest stays.
release(s) == [s EXCEPT !.kept = << >>, !.more = FALSE, !.codec = NoCodec, !.held = << >>, !.finished = TRUE]
fail(s) == stream' = release(s) /\ verdict' = "failed" /\ UNCHANGED given

\* The encoders.  tdefl writes a body; the others their magic and header too.
gzip_write_header(s) == IF s.format = "gzip" /\ ~s.wroteHeader THEN <<"1", "2", "0">> ELSE << >>
Opening(s) == CASE s.format = "zstd" -> <<"1", "2", "0">> [] s.format \in {"bz2", "xz"} -> <<"1", "2">> [] OTHER -> << >>
deflate_chunk(s, data, end) ==
    (IF s.open THEN << >> ELSE Opening(s)) \o data \o (IF end THEN <<"e">> ELSE << >>)

encode_finish(s) ==
    gzip_write_header(s) \o deflate_chunk(s, << >>, TRUE)
        \o (IF s.format = "gzip" THEN <<lzma_crc32(fed), isize(fed)>> ELSE << >>)

\* An empty update is not passed on to bzip2 and xz.
encode_update(data) ==
    /\ Encodes(job)
    /\ LET s == stream
           passed == data # << >> \/ s.format \notin {"bz2", "xz"}
       IN  /\ given' = given \o gzip_write_header(s) \o (IF passed THEN deflate_chunk(s, data, FALSE) ELSE << >>)
           /\ stream' = [s EXCEPT !.wroteHeader = TRUE, !.open = @ \/ passed]
    /\ UNCHANGED verdict

\* Output handed over, and the input left kept.
Took(d, left) ==
    IF ~d.ok THEN fail(d.s)
    ELSE /\ stream' = [d.s EXCEPT !.kept = From(left, d.used + 1)]
         /\ given' = given \o d.out
         /\ UNCHANGED verdict

\* Mutant: a chunk decoded in place leaves nothing behind.
decode_update_loses(data, limit) ==
    /\ ~Encodes(job)
    /\ LET in == stream.kept \o data
       IN  Took(decode(stream, in, FALSE, limit), IF stream.kept = << >> THEN << >> ELSE in)

\* Input already waiting is joined by the chunk; what is left is kept.
decode_update(data, limit) ==
    /\ ~Encodes(job)
    /\ LET in == stream.kept \o data
       IN  Took(decode(stream, in, FALSE, limit), in)

stream_update(k, limit) ==
    /\ ~stream.finished
    /\ k <= Len(job.bytes) - Len(fed)
    /\ LET data == SubSeq(job.bytes, Len(fed) + 1, Len(fed) + k)
       IN  /\ encode_update(data) \/ decode_update(data, limit)
           /\ fed' = fed \o data
    /\ UNCHANGED job

\* Memory refused while the answer grew: the stream is left finished, as the
\* codec has taken input nothing can say the end of.
begin_raised ==
    /\ ~stream.finished
    /\ stream' = [stream EXCEPT !.finished = TRUE]
    /\ verdict' = "raised"
    /\ UNCHANGED <<job, fed, given>>

\* finish: refused while output is held back; the input judged as all there
\* is, a member cut short and no member at all failures.
Unlimited == 99
Conclude(d) ==
    LET s == IF d.s.ph = "BETWEEN" THEN enter_trailing(d.s) ELSE d.s
    IN  IF ~d.ok \/ d.s.ph = "MEMBER" \/ (d.s.ph = "BETWEEN" /\ d.s.members = 0) THEN fail(d.s)
        ELSE stream' = release(s) /\ given' = given \o d.out /\ verdict' = "ok"
decode_finish == Conclude(decode(stream, stream.kept, TRUE, Unlimited))

stream_finish ==
    /\ ~stream.finished /\ ~stream.more
    /\ IF Encodes(job)
       THEN stream' = release(stream) /\ given' = given \o encode_finish(stream) /\ verdict' = "ok"
       ELSE decode_finish
    /\ UNCHANGED <<job, fed>>

\* No room to keep input or rest: a failure as any other, but of memory.
bytes_append ==
    /\ ~stream.finished /\ ~Encodes(job)
    /\ stream' = release(stream) /\ verdict' = "memory"
    /\ UNCHANGED <<job, fed, given>>

\* __close, or the collector: over, and the rest stays to be read.
stream_close ==
    /\ ~stream.finished
    /\ stream' = release(stream) /\ verdict' = "closed"
    /\ UNCHANGED <<job, fed, given>>

CompressNext ==
    \/ \E k \in Chunks, limit \in Limits : stream_update(k, limit)
    \/ stream_finish \/ begin_raised \/ bytes_append \/ stream_close

-----------------------------------------------------------------------------
\* What a whole input decodes to, read at once: out, rest and how it ends.
Body(in, i) ==
    LET ends == {j \in i..Len(in) : in[j] \in {"e", "x"}}
        last == IF ends = {} THEN Len(in) + 1 ELSE CHOOSE j \in ends : \A k \in ends : j <= k
        two == [j \in 1..(last - i) |-> Gives(in[i + j - 1])]
        flat[j \in 0..(last - i)] == IF j = 0 THEN << >> ELSE flat[j - 1] \o two[j]
    IN  [out |-> flat[last - i], at |-> last + 1,
         how |-> IF last > Len(in) THEN "short" ELSE IF in[last] = "x" THEN "bad" ELSE "end"]

\* Where a gzip header that starts at i ends, 0 where it is cut short.
HeaderEnd(in, i) ==
    LET skip(part, at) ==
            IF at = 0 \/ at > Len(in) + 1 THEN 0
            ELSE CASE part = "XLEN" -> (IF at > Len(in) THEN 0 ELSE at + 1 + extra(in[at]))
                   [] part = "NAME" -> (IF \E j \in at..Len(in) : in[j] = "0"
                                        THEN 1 + (CHOOSE j \in at..Len(in) : in[j] = "0" /\ \A k \in at..(j - 1) : in[k] # "0") ELSE 0)
                   [] part = "HCRC" -> at + 1
        p == parts(in[i + 2])
        go[j \in 0..Len(p)] == IF j = 0 THEN i + 3 ELSE skip(p[j], go[j - 1])
    IN  IF go[Len(p)] > Len(in) + 1 THEN 0 ELSE go[Len(p)]

Result(out, rest, how) == [out |-> out, rest |-> rest, how |-> how]

\* A member that begins at i: its output, where it ends, and how.
Member(format, in, i) ==
    LET n == Len(in) - i + 1
        cut == [out |-> << >>, at |-> 0, how |-> "short"]
        bad == [out |-> << >>, at |-> 0, how |-> "bad"]
        sum(b) == <<lzma_crc32(b.out), isize(b.out)>>
    IN  CASE format = "raw" -> Body(in, i)
          [] format \in {"bz2", "xz"} -> Body(in, i + 2)
          [] format = "zstd" ->
               IF n < 3 THEN cut ELSE IF in[i + 2] = "x" THEN bad
               ELSE LET b == Body(in, i + 3)
                    IN  IF b.how = "end" /\ declared(in[i + 2]) \notin {-1, Len(b.out)} THEN [b EXCEPT !.how = "bad"] ELSE b
          [] format = "gzip" ->
               IF n < 3 THEN cut ELSE IF in[i + 2] = "x" THEN bad
               ELSE IF HeaderEnd(in, i) = 0 THEN cut
               ELSE LET b == Body(in, HeaderEnd(in, i))
                    IN  IF b.how # "end" THEN b
                        ELSE IF b.at + 1 > Len(in) THEN [b EXCEPT !.how = "short"]
                        ELSE IF SubSeq(in, b.at, b.at + 1) = sum(b) THEN [b EXCEPT !.at = @ + 2]
                        ELSE [b EXCEPT !.how = "bad"]

RECURSIVE Members(_, _, _, _, _)
Members(format, in, i, count, out) ==
    LET nuls == IF format = "xz" /\ count > 0
                THEN {k \in 0..(Len(in) - i + 1) : \A j \in i..(i + k - 1) : in[j] = "0"} ELSE {0}
        pad == CHOOSE k \in nuls : \A j \in nuls : j <= k
        at == i + pad
        begins == at + 1 <= Len(in) /\ in[at] = "1" /\ in[at + 1] = "2"
        m == Member(format, in, at)
        over == IF pad % PadWord = 0 THEN From(in, at) ELSE From(in, i)
    IN  IF begins /\ pad % PadWord # 0 THEN Result(out, << >>, "bad")
        ELSE IF ~begins THEN (IF count = 0 THEN Result(out, << >>, "bad") ELSE Result(out, over, "ok"))
        ELSE IF m.how # "end" THEN Result(out \o m.out, << >>, m.how)
        ELSE Members(format, in, m.at, count + 1, out \o m.out)

Whole(format, in) ==
    IF format = "raw"
    THEN LET m == Member("raw", in, 1) IN Result(m.out, IF m.how = "end" THEN From(in, m.at) ELSE << >>, IF m.how = "end" THEN "ok" ELSE m.how)
    ELSE Members(format, in, 1, 0, << >>)

\* What a decoder has given, and how it stands, against w, the whole's result.
AgreesWith(w) ==
    /\ IsPrefix(given, w.out)
    /\ verdict = "open" /\ ~stream.more => given = w.out
    /\ verdict = "ok" => w.how = "ok" /\ given = w.out /\ stream.rest = w.rest
    /\ verdict = "failed" => w.how # "ok"
    /\ verdict = "open" /\ stream.ended => w.how = "ok" /\ stream.rest = w.rest

\* However the input is cut into updates, and however little each may give,
\* a decoder gives the bytes the whole input decodes to, in order and without
\* one lost: all that have come unless it says more is pending; it ends well
\* exactly where the whole input does, with the same rest (stream_update,
\* stream_finish, decode).
SplitFree ==
    ~Encodes(job) /\ verdict \in {"open", "ok", "failed"} => AgreesWith(Whole(job.format, fed))

\* What an encoder wrote, over any updates, none at all among them, decodes to
\* the bytes it was given, with nothing after (encode_update, encode_finish).
EncodesWhole ==
    Encodes(job) /\ verdict = "ok" => Whole(job.format, given) = Result(fed, << >>, "ok")

\* A stream gives what one call on all its input would, each way.
StreamsExact == SplitFree /\ EncodesWhole
=============================================================================
