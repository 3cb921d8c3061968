------------------------------- MODULE Corpus -------------------------------
(***************************************************************************)
(* A corpus of vectors searched for the nearest (core/vector.c): rows      *)
(* added into buffers that grow, sign bits built when a search first asks  *)
(* for them or, quantized, as a row is added, a first pass over the bits,  *)
(* and a bounded heap that keeps the best.                                 *)
(*                                                                         *)
(* One query.  A vector is what the query sees of it: its key, higher      *)
(* better, whether the key is a NaN, and how many sign bits differ.        *)
(***************************************************************************)
EXTENDS Integers, Sequences, FiniteSets

CONSTANTS
    Ids,
    Offered,    \* the rows added: [id, v], v a vector [key, nan, ham]
    FirstRoom,  \* the first capacity: 64 in the code
    MaxRows,    \* bound: rows added
    Dims        \* the most sign bits that may differ

VARIABLES
    storage,    \* "f32", or "quantized": f16 and int8
    rows,       \* data and ids, a row for each of the capacity
    bits,       \* SLOT_BITS: ham of each row; junk, here Dims, where none was built
    count, bitsBuilt,
    found       \* the last search: what was asked, and its answer

corpusVars == <<storage, rows, bits, count, bitsBuilt, found>>

Junk == [id |-> 0, v |-> [key |-> 0, nan |-> FALSE, ham |-> Dims]]
NoAsk == [k |-> 1, candidates |-> 0, listed |-> FALSE, allow |-> {}]
NotFound == [ask |-> NoAsk, what |-> "none", hits |-> << >>]

CorpusInit ==
    /\ storage \in {"f32", "quantized"}
    /\ rows = << >> /\ bits = << >> /\ count = 0 /\ bitsBuilt = 0
    /\ found = NotFound

-----------------------------------------------------------------------------
Capacity == Len(rows)
Grown == IF Capacity = 0 THEN FirstRoom ELSE 2 * Capacity

\* A bigger buffer for each, the rows there are copied before any is swapped
\* in; an f32 corpus's bits are no part of it.
reserve_bits(old, n) == IF storage = "f32" THEN old ELSE [i \in 1..n |-> IF i <= count THEN old[i] ELSE Dims]
reserve(old, n) == [i \in 1..n |-> IF i <= count THEN old[i] ELSE Junk]

corpus_add(id, v, refused) ==
    /\ count < MaxRows
    /\ LET grow == count = Capacity
           n == IF grow THEN Grown ELSE Capacity
           r == IF grow THEN reserve(rows, n) ELSE rows
           b == IF grow THEN reserve_bits(bits, n) ELSE bits
       IN  IF grow /\ refused THEN UNCHANGED <<rows, bits, count, bitsBuilt>>
           ELSE /\ rows' = [r EXCEPT ![count + 1] = [id |-> id, v |-> v]]
                /\ count' = count + 1
                /\ IF storage = "f32" THEN bits' = b /\ UNCHANGED bitsBuilt
                   ELSE bits' = [b EXCEPT ![count + 1] = v.ham] /\ bitsBuilt' = count + 1
    /\ found' = NotFound
    /\ UNCHANGED storage

\* Mutant: bits once built are taken for every row's.
ensure_bits_once == [i \in 1..count |-> IF i <= Len(bits) THEN bits[i] ELSE IF bitsBuilt > 0 THEN Dims ELSE rows[i].v.ham]

\* A new buffer, the rows built copied and the rest made.
ensure_bits ==
    IF bitsBuilt = count THEN bits
    ELSE [i \in 1..count |-> IF i <= bitsBuilt THEN bits[i] ELSE rows[i].v.ham]

-----------------------------------------------------------------------------
\* The heap: its root the worst hit, from place 0 as in the code.
better(a, b) == IF a.key # b.key THEN a.key > b.key ELSE a.id < b.id
SwapHits(h, i, j) == [h EXCEPT ![i] = h[j], ![j] = h[i]]

RECURSIVE sift_down(_, _)
sift_down(h, at) ==
    LET l == 2 * at + 1
        r == l + 1
        size == Len(h)
        w1 == IF l < size /\ better(h[at + 1], h[l + 1]) THEN l ELSE at
        worst == IF r < size /\ better(h[w1 + 1], h[r + 1]) THEN r ELSE w1
    IN  IF worst = at THEN h ELSE sift_down(SwapHits(h, at + 1, worst + 1), worst)

RECURSIVE sift_up(_, _)
sift_up(h, at) ==
    LET parent == (at - 1) \div 2
    IN  IF at = 0 \/ ~better(h[parent + 1], h[at + 1]) THEN h
        ELSE sift_up(SwapHits(h, at + 1, parent + 1), parent)

offer(h, limit, hit) ==
    IF Len(h) < limit THEN sift_up(Append(h, hit), Len(h))
    ELSE IF limit > 0 /\ better(hit, h[1]) THEN sift_down([h EXCEPT ![1] = hit], 0)
    ELSE h

\* The answer is filled from its tail, the worst taken first.
RECURSIVE Popped(_)
Popped(h) ==
    IF h = << >> THEN << >>
    ELSE LET last == h[Len(h)]
             left == SubSeq(h, 1, Len(h) - 1)
         IN  Append(Popped(IF left = << >> THEN left ELSE sift_down([left EXCEPT ![1] = last], 0)), h[1])

\* The rows an allow list keeps: every row where there is none.
allow_mask(ask) == {i \in 1..count : ask.listed => rows[i].id \in ask.allow}

\* The first pass: a count of the rows at each distance, the distance at which
\* the candidates are all had, and the rows under it with, at it, as many of
\* the earliest as are wanted.
histogram(b, mask) == [d \in 0..Dims |-> Cardinality({i \in mask : b[i] = d})]
RECURSIVE Threshold(_, _, _, _)
Threshold(h, wanted, below, at) ==
    IF below + h[at] < wanted THEN Threshold(h, wanted, below + h[at], at + 1)
    ELSE [at |-> at, tied |-> wanted - below]
Candidates(b, mask, wanted) ==
    LET t == Threshold(histogram(b, mask), wanted, 0, 0)
        earlier(i) == Cardinality({j \in mask : j < i /\ b[j] = t.at})
    IN  {i \in mask : b[i] < t.at \/ (b[i] = t.at /\ earlier(i) < t.tied)}

RECURSIVE Scored(_, _, _, _)
Scored(h, limit, kept, i) ==
    IF i > count THEN h
    ELSE Scored(IF i \in kept /\ ~rows[i].v.nan
                THEN offer(h, limit, [key |-> rows[i].v.key, id |-> rows[i].id]) ELSE h,
                limit, kept, i + 1)

\* search: the k best, best first.  A signal stops it, before its bits are
\* published or after.
corpus_search(ask, stop) ==
    LET mask == allow_mask(ask)
        eligible == Cardinality(mask)
        first == ask.candidates > 0 /\ ask.candidates < eligible
        b == IF first THEN ensure_bits ELSE bits
        kept == IF first THEN Candidates(b, mask, ask.candidates) ELSE mask
        limit == IF ask.k < eligible THEN ask.k ELSE eligible
    IN  /\ IF first /\ stop # "building" THEN bits' = b /\ bitsBuilt' = count ELSE UNCHANGED <<bits, bitsBuilt>>
        /\ found' = IF stop # "none" THEN NotFound
                    ELSE [ask |-> ask, what |-> "found", hits |-> Popped(Scored(<< >>, limit, kept, 1))]
        /\ UNCHANGED <<storage, rows, count>>

Searches == [k : {1, 3}, candidates : {0, 2}, listed : BOOLEAN, allow : SUBSET Ids]

CorpusNext ==
    \/ \E row \in Offered, refused \in BOOLEAN : corpus_add(row.id, row.v, refused)
    \/ \E ask \in Searches : (~ask.listed => ask.allow = {}) /\ corpus_search(ask, "none")
    \/ \E ask \in Searches, stop \in {"building", "scoring"} :
          ask.k = 1 /\ ~ask.listed /\ ask.allow = {} /\ corpus_search(ask, stop)

-----------------------------------------------------------------------------
\* Whether row i comes before row j: nearer by the bits, then added earlier.
Nearer(i, j) == rows[i].v.ham < rows[j].v.ham \/ (rows[i].v.ham = rows[j].v.ham /\ i < j)

\* A search answers the k best keys among the rows allowed, best first and the
\* lower id among equals; given candidates, among that many of them nearest by
\* the sign bits of the vectors themselves; and no NaN.  So whatever was added,
\* searched, refused memory or interrupted before, and however the buffers grew
\* (corpus_search, ensure_bits, reserve, offer).
SearchExact ==
    found.what = "found" =>
        LET ask == found.ask
            allowed == {i \in 1..count : ask.listed => rows[i].id \in ask.allow}
            near == IF ask.candidates = 0 THEN allowed
                    ELSE {i \in allowed : Cardinality({j \in allowed : Nearer(j, i)}) < ask.candidates}
            scored == {i \in near : ~rows[i].v.nan}
            hits == found.hits
            Hit(i) == [key |-> rows[i].v.key, id |-> rows[i].id]
            copies(x) == Cardinality({i \in scored : Hit(i) = x})
            given(x) == Cardinality({n \in 1..Len(hits) : hits[n] = x})
        IN  /\ Len(hits) = (IF ask.k < Cardinality(scored) THEN ask.k ELSE Cardinality(scored))
            /\ \A n \in 1..(Len(hits) - 1) : ~better(hits[n + 1], hits[n])
            /\ \A n \in 1..Len(hits) : given(hits[n]) <= copies(hits[n])
            /\ \A i \in scored : Hit(i) \in {hits[n] : n \in 1..Len(hits)}
                                 \/ \A n \in 1..Len(hits) : ~better(Hit(i), hits[n])
=============================================================================
