--------------------------- MODULE SequenceLemmas ---------------------------
(***************************************************************************)
(* Facts about the lists the program keeps: the wakes and the waiters of   *)
(* Poll, the open guards of Signal.  table[#table + 1] = x is Append,      *)
(* table.remove(t, i) is RemoveAt and table.remove(t, 1) is Tail; and the  *)
(* induction the proofs about loops rest on.                               *)
(***************************************************************************)
EXTENDS Integers, SequencesExt, SequenceTheorems, WellFoundedInduction, TLAPS

(* What a sequence holds once an entry is added at its end.                *)
LEMMA ToSetAppend ==
  ASSUME NEW S, NEW s \in Seq(S), NEW x \in S
  PROVE  ToSet(Append(s, x)) = ToSet(s) \cup {x}
<1> DEFINE r == Append(s, x)
<1>1. /\ DOMAIN s = 1 .. Len(s) /\ DOMAIN r = 1 .. (Len(s) + 1) /\ Len(s) \in Nat
      /\ r[Len(s) + 1] = x
      /\ \A i \in 1 .. Len(s) : r[i] = s[i]
  OBVIOUS
<1> HIDE DEF r
<1>2. \A y \in ToSet(r) : y \in ToSet(s) \cup {x}
  BY <1>1 DEF ToSet
<1>3. \A y \in ToSet(s) : y \in ToSet(r)
  BY <1>1 DEF ToSet
<1>4. Len(s) + 1 \in DOMAIN r
  BY <1>1
<1>5. x \in ToSet(r)
  BY <1>1, <1>4 DEF ToSet
<1> QED
  BY <1>2, <1>3, <1>5 DEF r

(* An entry not in a list without duplicates is added at its end.          *)
LEMMA AppendOnce ==
  ASSUME NEW S, NEW s \in Seq(S), NEW x \in S, IsInjective(s), x \notin ToSet(s)
  PROVE  IsInjective(Append(s, x))
BY DEF ToSet, IsInjective

(* A sequence without its i-th entry, place by place.                      *)
LEMMA RemoveAtPlaces ==
  ASSUME NEW S, NEW s \in Seq(S), NEW i \in DOMAIN s
  PROVE  /\ RemoveAt(s, i) \in Seq(S)
         /\ Len(RemoveAt(s, i)) = Len(s) - 1
         /\ \A j \in 1 .. (Len(s) - 1) :
              RemoveAt(s, i)[j] = IF j < i THEN s[j] ELSE s[j + 1]
<1>1. i \in 1 .. Len(s)
  OBVIOUS
<1>2. /\ SubSeq(s, 1, i - 1) \in Seq(S)
      /\ Len(SubSeq(s, 1, i - 1)) = i - 1
      /\ \A j \in 1 .. (i - 1) : SubSeq(s, 1, i - 1)[j] = s[j]
  BY <1>1
<1>3. /\ SubSeq(s, i + 1, Len(s)) \in Seq(S)
      /\ Len(SubSeq(s, i + 1, Len(s))) = Len(s) - i
      /\ \A j \in 1 .. (Len(s) - i) : SubSeq(s, i + 1, Len(s))[j] = s[j + i]
  BY <1>1
<1>4. /\ RemoveAt(s, i) \in Seq(S)
      /\ Len(RemoveAt(s, i)) = (i - 1) + (Len(s) - i)
      /\ \A j \in 1 .. (i - 1) + (Len(s) - i) :
           RemoveAt(s, i)[j] = IF j <= i - 1 THEN SubSeq(s, 1, i - 1)[j]
                               ELSE SubSeq(s, i + 1, Len(s))[j - (i - 1)]
  <2> DEFINE a == SubSeq(s, 1, i - 1)
             b == SubSeq(s, i + 1, Len(s))
  <2>1. /\ a \in Seq(S) /\ b \in Seq(S)
        /\ Len(a) = i - 1 /\ Len(b) = Len(s) - i /\ RemoveAt(s, i) = a \o b
    BY <1>2, <1>3 DEF RemoveAt
  <2> HIDE DEF a, b
  <2>2. /\ a \o b \in Seq(S) /\ Len(a \o b) = Len(a) + Len(b)
        /\ \A j \in 1 .. Len(a) + Len(b) :
             (a \o b)[j] = IF j <= Len(a) THEN a[j] ELSE b[j - Len(a)]
    BY <2>1, ConcatProperties
  <2> QED
    BY <2>1, <2>2 DEF a, b
<1> DEFINE r == RemoveAt(s, i)
<1>5. /\ Len(s) \in Nat /\ i \in Nat /\ Len(r) = Len(s) - 1
      /\ \A j \in 1 .. (Len(s) - 1) :
           r[j] = IF j <= i - 1 THEN SubSeq(s, 1, i - 1)[j]
                  ELSE SubSeq(s, i + 1, Len(s))[j - (i - 1)]
  BY <1>1, <1>4
<1>6. ASSUME NEW j \in 1 .. (Len(s) - 1), j < i PROVE r[j] = s[j]
  <2>1. j <= i - 1 /\ j \in 1 .. (i - 1)
    BY <1>1, <1>6
  <2> QED
    BY <1>2, <1>5, <2>1
<1>7. ASSUME NEW j \in 1 .. (Len(s) - 1), ~(j < i) PROVE r[j] = s[j + 1]
  <2>1. /\ ~(j <= i - 1) /\ j - (i - 1) \in 1 .. (Len(s) - i)
        /\ (j - (i - 1)) + i = j + 1
    BY <1>1, <1>7
  <2> QED
    BY <1>3, <1>5, <2>1
<1> QED
  BY <1>4, <1>5, <1>6, <1>7

(* The places left are those of the sequence, each once.                   *)
LEMMA RemoveAtSource ==
  ASSUME NEW S, NEW s \in Seq(S), NEW i \in DOMAIN s
  PROVE  LET from(j) == IF j < i THEN j ELSE j + 1
         IN /\ \A j \in DOMAIN RemoveAt(s, i) :
                 from(j) \in DOMAIN s /\ RemoveAt(s, i)[j] = s[from(j)]
            /\ \A j, k \in DOMAIN RemoveAt(s, i) : from(j) = from(k) => j = k
<1> DEFINE r == RemoveAt(s, i)
           from(j) == IF j < i THEN j ELSE j + 1
<1>1. /\ Len(s) \in Nat /\ i \in 1 .. Len(s) /\ DOMAIN s = 1 .. Len(s)
      /\ DOMAIN r = 1 .. (Len(s) - 1)
      /\ \A j \in DOMAIN r : r[j] = IF j < i THEN s[j] ELSE s[j + 1]
  <2>1. Len(s) \in Nat /\ i \in 1 .. Len(s) /\ DOMAIN s = 1 .. Len(s)
    OBVIOUS
  <2>2. /\ r \in Seq(S) /\ Len(r) = Len(s) - 1
        /\ \A j \in 1 .. (Len(s) - 1) : r[j] = IF j < i THEN s[j] ELSE s[j + 1]
    BY RemoveAtPlaces
  <2> HIDE DEF r
  <2>3. DOMAIN r = 1 .. (Len(s) - 1)
    BY <2>2
  <2> QED
    BY <2>1, <2>2, <2>3
<1> HIDE DEF r
<1>2. \A j \in DOMAIN r : from(j) \in DOMAIN s /\ r[j] = s[from(j)]
  BY <1>1
<1>3. \A j, k \in DOMAIN r : from(j) = from(k) => j = k
  BY <1>1
<1> QED
  BY <1>2, <1>3 DEF r

(* An entry of a list without duplicates is taken out: the others stay,    *)
(* each once.                                                              *)
LEMMA RemoveEntry ==
  ASSUME NEW S, NEW s \in Seq(S), IsInjective(s), NEW i \in DOMAIN s
  PROVE  /\ ToSet(RemoveAt(s, i)) = ToSet(s) \ {s[i]}
         /\ IsInjective(RemoveAt(s, i))
<1> DEFINE r == RemoveAt(s, i)
<1>1. /\ r \in Seq(S) /\ Len(r) = Len(s) - 1
      /\ \A j \in 1 .. (Len(s) - 1) : r[j] = IF j < i THEN s[j] ELSE s[j + 1]
  BY RemoveAtPlaces
<1> HIDE DEF r
<1>2. ToSet(r) \subseteq ToSet(s) \ {s[i]}
  BY <1>1 DEF ToSet, IsInjective
<1>3. ASSUME NEW x \in ToSet(s), x # s[i] PROVE x \in ToSet(r)
  <2>1. PICK k \in DOMAIN s : s[k] = x
    BY DEF ToSet
  <2>2. k < i \/ k > i
    BY <1>3, <2>1
  <2>3. CASE k < i
    <3>1. k \in DOMAIN r /\ r[k] = x
      BY <1>1, <2>1, <2>3
    <3> QED
      BY <3>1 DEF ToSet
  <2>4. CASE k > i
    <3>1. k - 1 \in DOMAIN r /\ r[k - 1] = x
      BY <1>1, <2>1, <2>4
    <3> QED
      BY <3>1 DEF ToSet
  <2> QED
    BY <2>2, <2>3, <2>4
<1>4. IsInjective(r)
  BY RemoveAtSource DEF IsInjective, r
<1> QED
  BY <1>2, <1>3, <1>4 DEF r

(* The first entry is taken out.                                           *)
LEMMA TailEntry ==
  ASSUME NEW S, NEW s \in Seq(S), IsInjective(s), s # <<>>
  PROVE  /\ Head(s) \in S /\ Head(s) \in ToSet(s)
         /\ Tail(s) \in Seq(S)
         /\ ToSet(Tail(s)) = ToSet(s) \ {Head(s)}
         /\ IsInjective(Tail(s))
<1> DEFINE r == Tail(s)
<1>1. /\ Head(s) \in S /\ Head(s) = s[1] /\ 1 \in DOMAIN s
      /\ r \in Seq(S) /\ Len(s) \in Nat
      /\ DOMAIN s = 1 .. Len(s) /\ DOMAIN r = 1 .. (Len(s) - 1)
      /\ \A j \in DOMAIN r : j + 1 \in DOMAIN s /\ r[j] = s[j + 1]
  BY HeadTailProperties
<1> HIDE DEF r
<1>2. ToSet(r) \subseteq ToSet(s) \ {s[1]}
  BY <1>1 DEF ToSet, IsInjective
<1>3. ASSUME NEW x \in ToSet(s), x # s[1] PROVE x \in ToSet(r)
  <2>1. PICK k \in DOMAIN s : s[k] = x
    BY DEF ToSet
  <2>2. k - 1 \in DOMAIN r /\ r[k - 1] = x
    BY <1>1, <1>3, <2>1
  <2> QED
    BY <2>2 DEF ToSet
<1>4. IsInjective(r)
  BY <1>1 DEF IsInjective
<1>5. Head(s) \in ToSet(s)
  BY <1>1 DEF ToSet
<1> QED
  BY <1>1, <1>2, <1>3, <1>4, <1>5 DEF r

(* Induction, said of a set: how far a loop has come is a number, and what *)
(* holds at the start and from one turn to the next holds at its end.      *)
LEMMA SetInduction ==
  ASSUME NEW S, 0 \in S, \A n \in Nat : n \in S => n + 1 \in S
  PROVE  \A n \in Nat : n \in S
<1> DEFINE R == OpToRel(<, Nat)
<1> DEFINE T == Nat \ S
<1>0. IsWellFoundedOn(R, Nat)
  BY NatLessThanWellFounded
<1>1. SUFFICES ASSUME T # {} PROVE FALSE
  OBVIOUS
<1>2. PICK x \in T : \A y \in T : ~ (<<y, x>> \in R)
  <2> HIDE DEF R
  <2> QED BY <1>0, <1>1, WFMin
<1>3. x \in Nat /\ x # 0
  BY <1>2
<1>4. x - 1 \in Nat /\ x - 1 + 1 = x /\ x - 1 < x
  BY <1>3
<1>5. x - 1 \in T
  BY <1>3, <1>4, <1>2
<1>6. <<x - 1, x>> \in R
  BY <1>4, <1>3 DEF OpToRel
<1> QED BY <1>2, <1>5, <1>6

(* A set of numbers has a least: the first place something goes wrong at.  *)
LEMMA LeastOf ==
  ASSUME NEW S, S \subseteq Nat, S # {}
  PROVE  \E k \in S : \A j \in S : k <= j
<1> DEFINE R == OpToRel(<, Nat)
<1>0. IsWellFoundedOn(R, Nat)
  BY NatLessThanWellFounded
<1>2. PICK x \in S : \A y \in S : ~ (<<y, x>> \in R)
  <2> HIDE DEF R
  <2> QED BY <1>0, WFMin
<1>3. \A y \in S : y < x => <<y, x>> \in R
  BY <1>2 DEF OpToRel
<1>4. \A y \in S : ~ (y < x)
  BY <1>2, <1>3
<1>6. \A a, b \in Nat : ~ (a < b) => b <= a
  OBVIOUS
<1>7. \A y \in S : y \in Nat
  OBVIOUS
<1>5. \A y \in S : x <= y
  BY <1>4, <1>2, <1>6, <1>7
<1> QED BY <1>5
=============================================================================
