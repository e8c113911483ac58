--------------------------- MODULE WhitespaceProofs ---------------------------
(* Proofs about collapse_whitespace, for every text, every width of a chunk  *)
(* of at least two bytes, every path and both builds.  What a path has       *)
(* written is at every step what the bytes it has consumed collapse to; the  *)
(* lemmas say how that is extended by a run of other bytes and by a space.   *)
(* The second part is about cleanup_md, by induction over the bytes of the   *)
(* text: what its counter of newlines knows of what the loop has pushed.     *)
EXTENDS Whitespace, SequenceTheorems, FiniteSetTheorems, WellFoundedInduction, TLAPS

UpTo(s, n) == {k \in Kept(s) : k <= n}

-----------------------------------------------------------------------------
(* Places in what a text collapses to.                                       *)
LEMMA KeptFacts ==
    ASSUME NEW s \in Seq(Byte)
    PROVE  /\ Len(s) \in Nat /\ DOMAIN s = 1..Len(s)
           /\ \A k \in Kept(s) : k \in Nat /\ k >= 1 /\ k <= Len(s)
           /\ Kept(s) \subseteq 1..Len(s)
<1>1. DOMAIN s = 1..Len(s) /\ Len(s) \in Nat
  OBVIOUS
<1>2. Kept(s) \subseteq 1..Len(s)
  BY <1>1 DEF Kept
<1> QED
  BY <1>1, <1>2

(* A place is the number of bytes that show so far.                          *)
LEMMA UpToFacts ==
    ASSUME NEW s \in Seq(Byte), NEW n \in Nat
    PROVE  /\ IsFiniteSet(UpTo(s, n)) /\ Place(s, n) = Cardinality(UpTo(s, n))
           /\ Place(s, n) \in Nat
<1>1. IsFiniteSet(1..Len(s)) /\ UpTo(s, n) \subseteq 1..Len(s)
  BY KeptFacts, FS_Interval DEF UpTo
<1>2. IsFiniteSet(UpTo(s, n))
  BY <1>1, FS_Subset
<1>3. Place(s, n) = Cardinality(UpTo(s, n))
  BY DEF Place, UpTo
<1> QED
  BY <1>2, <1>3, FS_CardinalityType

(* Before the first byte nothing shows.                                      *)
LEMMA PlaceZero ==
    ASSUME NEW s \in Seq(Byte)
    PROVE  Place(s, 0) = 0
<1>1. UpTo(s, 0) = {}
  BY KeptFacts DEF UpTo
<1> QED
  BY <1>1, UpToFacts, FS_EmptySet

(* A byte that shows has the next place.                                     *)
LEMMA PlaceNext ==
    ASSUME NEW s \in Seq(Byte), NEW n \in Nat
    PROVE  Place(s, n + 1) = IF n + 1 \in Kept(s) THEN Place(s, n) + 1 ELSE Place(s, n)
<1>1. n + 1 \notin UpTo(s, n) /\ IsFiniteSet(UpTo(s, n))
  BY UpToFacts DEF UpTo
<1>2. \A k \in Kept(s) : k \in Nat
  BY KeptFacts
<1>3. Place(s, n) = Cardinality(UpTo(s, n)) /\ Place(s, n + 1) = Cardinality(UpTo(s, n + 1))
  BY UpToFacts
<1>4. CASE n + 1 \in Kept(s)
  <2>1. UpTo(s, n + 1) = UpTo(s, n) \cup {n + 1}
    BY <1>2, <1>4 DEF UpTo
  <2>2. Cardinality(UpTo(s, n) \cup {n + 1}) = Cardinality(UpTo(s, n)) + 1
    BY <1>1, FS_AddElement
  <2> QED
    BY <1>3, <1>4, <2>1, <2>2
<1>5. CASE n + 1 \notin Kept(s)
  <2>1. UpTo(s, n + 1) = UpTo(s, n)
    BY <1>2, <1>5 DEF UpTo
  <2> QED
    BY <1>3, <1>5, <2>1
<1> QED
  BY <1>4, <1>5

(* Places grow along the text.                                               *)
LEMMA PlaceGrows ==
    ASSUME NEW s \in Seq(Byte), NEW m \in Nat, NEW n \in Nat, m <= n
    PROVE  Place(s, m) <= Place(s, n)
<1>1. IsFiniteSet(UpTo(s, n)) /\ \A k \in Kept(s) : k \in Nat
  BY UpToFacts, KeptFacts
<1>2. UpTo(s, m) \subseteq UpTo(s, n)
  BY <1>1 DEF UpTo
<1>3. Cardinality(UpTo(s, m)) <= Cardinality(UpTo(s, n))
  BY <1>1, <1>2, FS_Subset
<1> QED
  BY <1>3, UpToFacts

(* A byte that shows has a place among those so far.                         *)
LEMMA PlaceOfKept ==
    ASSUME NEW s \in Seq(Byte), NEW k \in Kept(s), NEW n \in Nat, k <= n
    PROVE  k \in Nat /\ Place(s, k) \in 1..Place(s, n)
<1>1. k \in Nat /\ k - 1 \in Nat /\ (k - 1) + 1 = k
  BY KeptFacts
<1>2. Place(s, k) = Place(s, k - 1) + 1
  BY <1>1, PlaceNext
<1>3. Place(s, k - 1) \in Nat /\ Place(s, k) \in Nat /\ Place(s, n) \in Nat
  BY <1>1, UpToFacts
<1>4. Place(s, k) <= Place(s, n)
  BY <1>1, PlaceGrows
<1> QED
  BY <1>1, <1>2, <1>3, <1>4

(* Of a run of bytes that all show, each has the place after the last one's. *)
LEMMA PlaceOfRun ==
    ASSUME NEW s \in Seq(Byte), NEW n \in Nat, NEW m \in Nat, (n + 1)..(n + m) \subseteq Kept(s)
    PROVE  Place(s, n + m) = Place(s, n) + m
<1> DEFINE S == UpTo(s, n)
           R == (n + 1)..(n + m)
<1>1. \A k \in Kept(s) : k \in Nat
  BY KeptFacts
<1>2. UpTo(s, n + m) = S \cup R /\ S \cap R = {}
  BY <1>1 DEF UpTo
<1>3. IsFiniteSet(S) /\ IsFiniteSet(R) /\ Cardinality(R) = m
  <2>1. n + 1 \in Int /\ n + m \in Int
    OBVIOUS
  <2>2. IsFiniteSet(R) /\ Cardinality(R) = IF n + 1 > n + m THEN 0 ELSE (n + m) - (n + 1) + 1
    BY <2>1, FS_Interval
  <2> QED
    BY <2>2, UpToFacts
<1>4. Cardinality(S \cup R) = Cardinality(S) + Cardinality(R) - Cardinality(S \cap R)
  BY <1>3, FS_Union
<1>5. Cardinality(S \cap R) = 0
  BY <1>2, FS_EmptySet
<1>6. Cardinality(S) = Place(s, n) /\ Place(s, n) \in Nat /\ n + m \in Nat
  BY UpToFacts
<1>7. Place(s, n + m) = Cardinality(UpTo(s, n + m))
  BY <1>6, UpToFacts
<1>8. Place(s, n + m) = Place(s, n) + m - 0
  BY <1>2, <1>3, <1>4, <1>5, <1>6, <1>7
<1> QED
  BY <1>6, <1>8

-----------------------------------------------------------------------------
(* A run of bytes other than whitespace is copied.                           *)
LEMMA CopyRun ==
    ASSUME NEW s \in Seq(Byte), NEW o \in Seq(Byte), NEW n \in Nat, NEW m \in Nat,
           n + m <= Len(s), \A k \in (n + 1)..(n + m) : s[k] \notin White,
           Collapses(o, s, n)
    PROVE  /\ o \o SubSeq(s, n + 1, n + m) \in Seq(Byte)
           /\ Collapses(o \o SubSeq(s, n + 1, n + m), s, n + m)
<1> DEFINE r == SubSeq(s, n + 1, n + m)
           p == o \o r
<1>1. Len(s) \in Nat /\ DOMAIN s = 1..Len(s)
  OBVIOUS
<1>2. r \in Seq(Byte) /\ Len(r) = m /\ \A j \in 1..m : r[j] = s[n + j]
  <2>1. \A j \in (n + 1)..(n + m) : s[j] \in Byte
    BY <1>1
  <2>2. r = [j \in 1..m |-> s[n + j]]
    <3>1. (n + m) - (n + 1) + 1 = m /\ \A j \in 1..m : (n + 1) + j - 1 = n + j
      OBVIOUS
    <3> QED
      BY <3>1 DEF SubSeq
  <2>3. \A j \in 1..m : s[n + j] \in Byte
    BY <2>1
  <2> QED
    BY <2>2, <2>3
<1>3. /\ p \in Seq(Byte) /\ Len(o) \in Nat /\ Len(p) = Len(o) + m
      /\ \A j \in 1..Len(o) : p[j] = o[j]
      /\ \A j \in 1..m : p[Len(o) + j] = r[j]
  <2>1. p \in Seq(Byte) /\ Len(o) \in Nat /\ Len(p) = Len(o) + Len(r)
    BY <1>2, ConcatProperties
  <2>2. \A j \in 1..(Len(o) + Len(r)) : p[j] = IF j <= Len(o) THEN o[j] ELSE r[j - Len(o)]
    BY <1>2, ConcatProperties
  <2> HIDE DEF p, r
  <2>3. \A j \in 1..Len(o) : p[j] = o[j]
    BY <1>2, <2>1, <2>2
  <2>4. ASSUME NEW j \in 1..m PROVE p[Len(o) + j] = r[j]
    <3>1. Len(o) + j \in 1..(Len(o) + Len(r)) /\ ~(Len(o) + j <= Len(o)) /\ (Len(o) + j) - Len(o) = j
      BY <1>2, <2>1
    <3> QED
      BY <2>2, <3>1
  <2> QED
    BY <1>2, <2>1, <2>3, <2>4
<1> HIDE DEF p, r
<1>4. (n + 1)..(n + m) \subseteq Kept(s)
  BY <1>1 DEF Kept
<1>5. ASSUME NEW j \in 0..m PROVE Place(s, n + j) = Place(s, n) + j
  <2>1. j \in Nat /\ (n + 1)..(n + j) \subseteq (n + 1)..(n + m)
    OBVIOUS
  <2> QED
    BY <1>4, <2>1, PlaceOfRun
<1>6. Len(o) = Place(s, n) /\ Place(s, n) \in Nat
  BY UpToFacts DEF Collapses
<1>7. Len(p) = Place(s, n + m)
  BY <1>3, <1>5, <1>6
<1>8. ASSUME NEW k \in Kept(s), k <= n + m
      PROVE  p[Place(s, k)] = IF s[k] \in White THEN "s" ELSE s[k]
  <2>1. k \in Nat
    BY KeptFacts
  <2>2. CASE k <= n
    <3>1. Place(s, k) \in 1..Len(o)
      BY <1>6, <2>2, PlaceOfKept
    <3>2. o[Place(s, k)] = IF s[k] \in White THEN "s" ELSE s[k]
      BY <2>2 DEF Collapses
    <3> QED
      BY <1>3, <3>1, <3>2
  <2>3. CASE k > n
    <3>1. PICK j \in 1..m : k = n + j
      <4>1. k - n \in 1..m /\ k = n + (k - n)
        BY <1>8, <2>1, <2>3
      <4> QED
        BY <4>1
    <3>2. Place(s, k) = Len(o) + j
      BY <1>5, <1>6, <3>1
    <3>3. p[Place(s, k)] = s[k] /\ s[k] \notin White
      <4>1. n + j \in (n + 1)..(n + m)
        BY <3>1
      <4> QED
        BY <1>2, <1>3, <3>1, <3>2, <4>1
    <3> QED
      BY <3>3
  <2> QED
    BY <2>1, <2>2, <2>3
<1>9. Collapses(p, s, n + m)
  BY <1>7, <1>8 DEF Collapses
<1> QED
  BY <1>3, <1>9 DEF p, r

(* A whitespace byte is a space if the byte before it is none.               *)
LEMMA FirstBlank ==
    ASSUME NEW s \in Seq(Byte), NEW o \in Seq(Byte), NEW n \in Nat,
           n < Len(s), s[n + 1] \in White, n = 0 \/ s[n] \notin White,
           Collapses(o, s, n)
    PROVE  /\ Append(o, "s") \in Seq(Byte)
           /\ Collapses(Append(o, "s"), s, n + 1)
<1> DEFINE p == Append(o, "s")
<1>1. /\ p \in Seq(Byte) /\ Len(o) \in Nat /\ Len(p) = Len(o) + 1
      /\ \A j \in 1..Len(o) : p[j] = o[j]
      /\ p[Len(o) + 1] = "s"
  BY DEF Byte
<1> HIDE DEF p
<1>2. n + 1 \in Kept(s)
  BY DEF Kept
<1>3. Place(s, n + 1) = Place(s, n) + 1 /\ Len(o) = Place(s, n)
  BY <1>2, PlaceNext DEF Collapses
<1>4. ASSUME NEW k \in Kept(s), k <= n + 1
      PROVE  p[Place(s, k)] = IF s[k] \in White THEN "s" ELSE s[k]
  <2>1. k \in Nat
    BY KeptFacts
  <2>2. CASE k <= n
    <3>1. Place(s, k) \in 1..Len(o)
      BY <1>3, <2>2, PlaceOfKept
    <3>2. o[Place(s, k)] = IF s[k] \in White THEN "s" ELSE s[k]
      BY <2>2 DEF Collapses
    <3> QED
      BY <1>1, <3>1, <3>2
  <2>3. CASE k = n + 1
    BY <1>1, <1>3, <2>3
  <2> QED
    BY <1>4, <2>1, <2>2, <2>3
<1> QED
  BY <1>1, <1>3, <1>4 DEF Collapses, p

(* Otherwise it shows nothing.                                               *)
LEMMA NextBlank ==
    ASSUME NEW s \in Seq(Byte), NEW o \in Seq(Byte), NEW n \in Nat \ {0},
           n < Len(s), s[n + 1] \in White, s[n] \in White, Collapses(o, s, n)
    PROVE  Collapses(o, s, n + 1)
<1>1. n + 1 \notin Kept(s)
  BY DEF Kept
<1>2. Place(s, n + 1) = Place(s, n)
  BY <1>1, PlaceNext
<1>3. \A k \in Kept(s) : k <= n + 1 => k <= n
  BY <1>1, KeptFacts
<1> QED
  BY <1>2, <1>3 DEF Collapses

(* A slice in bounds is its bytes.                                           *)
LEMMA SliceType ==
    ASSUME NEW s \in Seq(Byte), NEW a \in Nat, NEW b \in Nat, b <= Len(s)
    PROVE  /\ SubSeq(s, a + 1, b) \in Seq(Byte)
           /\ a <= b => Len(SubSeq(s, a + 1, b)) = b - a
           /\ \A k \in 1..(b - a) : SubSeq(s, a + 1, b)[k] = s[a + k]
<1> DEFINE m == b - (a + 1) + 1
           r == [j \in 1..m |-> s[(a + 1) + j - 1]]
<1>1. SubSeq(s, a + 1, b) = r
  BY DEF SubSeq
<1>2. m = b - a /\ \A j \in 1..m : (a + 1) + j - 1 = a + j /\ a + j \in 1..Len(s)
  OBVIOUS
<1>3. \A j \in 1..m : s[a + j] \in Byte
  BY <1>2
<1>4. r = [j \in 1..m |-> s[a + j]]
  BY <1>2
<1>5. CASE a <= b
  <2>1. m \in Nat
    BY <1>2, <1>5
  <2> HIDE DEF m
  <2>2. r \in Seq(Byte) /\ Len(r) = m
    BY <1>3, <1>4, <2>1
  <2> QED
    BY <1>1, <1>2, <1>4, <1>5, <2>2
<1>6. CASE a > b
  <2>1. 1..m = {} /\ 1..(b - a) = {}
    BY <1>2, <1>6
  <2>2. r = <<>>
    BY <2>1
  <2>3. r \in Seq(Byte)
    BY <2>2
  <2> QED
    BY <1>1, <1>6, <2>1, <2>3
<1> QED
  BY <1>5, <1>6

-----------------------------------------------------------------------------
(* sp is what space should be and s may be cut where n of its bytes are      *)
(* consumed and o is written.                                                *)
Reached(o, s, n, sp) ==
    /\ n <= Len(s) /\ (n < Len(s) => s[n + 1] # "cont")
    /\ Collapses(o, s, n)
    /\ sp <=> (n > 0 /\ s[n] \in White)

(* Only the lead of a character has a continuation after it.                 *)
LEMMA AfterByte ==
    ASSUME NEW s \in Seq(Byte), ValidUtf8(s), NEW n \in 1..Len(s), s[n] # "lead"
    PROVE  n < Len(s) => s[n + 1] # "cont"
BY DEF ValidUtf8

(* After a run the path has reached the end of a character, behind no space. *)
LEMMA ReachRun ==
    ASSUME NEW s \in Seq(Byte), ValidUtf8(s), NEW o \in Seq(Byte), NEW sp \in BOOLEAN,
           NEW n \in Nat, NEW m \in Nat \ {0}, n + m <= Len(s),
           \A k \in (n + 1)..(n + m) : s[k] \notin White,
           s[n + m] # "lead", Reached(o, s, n, sp)
    PROVE  /\ o \o SubSeq(s, n + 1, n + m) \in Seq(Byte)
           /\ Reached(o \o SubSeq(s, n + 1, n + m), s, n + m, FALSE)
<1>1. Len(s) \in Nat /\ n + m \in 1..Len(s) /\ n + m \in (n + 1)..(n + m)
  OBVIOUS
<1>2. n + m < Len(s) => s[n + m + 1] # "cont"
  BY <1>1, AfterByte
<1>3. s[n + m] \notin White
  BY <1>1
<1>4. Collapses(o, s, n)
  BY DEF Reached
<1>5. /\ o \o SubSeq(s, n + 1, n + m) \in Seq(Byte)
      /\ Collapses(o \o SubSeq(s, n + 1, n + m), s, n + m)
  BY <1>4, CopyRun
<1> QED
  BY <1>2, <1>3, <1>5 DEF Reached

(* After whitespace it has reached one behind a space, written or there.     *)
LEMMA ReachBlank ==
    ASSUME NEW s \in Seq(Byte), ValidUtf8(s), NEW o \in Seq(Byte), NEW sp \in BOOLEAN,
           NEW n \in Nat, n < Len(s), s[n + 1] \in White, Reached(o, s, n, sp)
    PROVE  LET p == IF sp THEN o ELSE Append(o, "s")
           IN  p \in Seq(Byte) /\ Reached(p, s, n + 1, TRUE)
<1>1. Len(s) \in Nat /\ n + 1 \in 1..Len(s) /\ s[n + 1] # "lead"
  BY DEF White
<1>2. n + 1 < Len(s) => s[n + 1 + 1] # "cont"
  BY <1>1, AfterByte
<1>3. Collapses(o, s, n)
  BY DEF Reached
<1>4. CASE sp
  <2>1. n \in Nat \ {0} /\ s[n] \in White
    BY <1>4 DEF Reached
  <2>2. Collapses(o, s, n + 1)
    BY <1>3, <2>1, NextBlank
  <2> QED
    BY <1>1, <1>2, <1>4, <2>2 DEF Reached
<1>5. CASE ~sp
  <2>1. n = 0 \/ s[n] \notin White
    BY <1>5 DEF Reached
  <2>2. Append(o, "s") \in Seq(Byte) /\ Collapses(Append(o, "s"), s, n + 1)
    BY <1>3, <2>1, FirstBlank
  <2> QED
    BY <1>1, <1>2, <1>5, <2>2 DEF Reached
<1> QED
  BY <1>4, <1>5

-----------------------------------------------------------------------------
(* The inductive invariant.  Between chunks, and inside one, what is written *)
(* is what the consumed bytes collapse to and space tells whether they end   *)
(* in whitespace.  A walk keeps that and its mask is that of the lanes left; *)
(* one that shifted by the whole width has passed its chunk with a mask that *)
(* never empties, and all it can do is to fail.                              *)
Consumed == Reached(out, text, i, space)

Walking ==
    /\ Consumed
    /\ from <= i /\ i <= from + Lanes
    /\ \A k \in (from + 1)..(from + Lanes) : text[k] \notin NonAscii
    /\ bits = {k \in 0..(Lanes - 1) : i + k < from + Lanes /\ text[i + k + 1] \in White}

Doomed == bits = {Lanes - 1} /\ i >= from + Lanes

Progress ==
    /\ stage \in {"chunk", "scalar", "tail", "done"} => Consumed
    /\ stage \in {"scalar", "walk"} => from + Lanes <= Length
    /\ stage = "walk" => Walking \/ Doomed
    /\ stage = "done" => i = Length

IInv == TypeOK /\ Progress /\ FailsOnlyOnLoneLast

(* The types that every step below needs.                                    *)
LEMMA Facts ==
    ASSUME TypeOK
    PROVE  /\ Lanes \in Nat /\ Lanes >= 2
           /\ text \in Seq(Byte) /\ ValidUtf8(text)
           /\ Len(text) \in Nat /\ Length = Len(text)
           /\ i \in Nat /\ from \in Nat
<1>1. text \in Seq(Byte) /\ ValidUtf8(text)
  BY WhitespaceAssumption DEF TypeOK
<1>2. Lanes \in Nat /\ Lanes >= 2
  BY WhitespaceAssumption
<1>3. Len(text) \in Nat /\ Length = Len(text)
  BY <1>1 DEF Length
<1> QED
  BY <1>1, <1>2, <1>3 DEF TypeOK

(* A whole chunk is Lanes bytes of the text.                                 *)
LEMMA ChunkFacts ==
    ASSUME TypeOK, i + Lanes <= Length
    PROVE  /\ Chunk = SubSeq(text, i + 1, i + Lanes)
           /\ \A k \in 1..Lanes : Chunk[k] = text[i + k]
<1>1. Chunk = SubSeq(text, i + 1, i + Lanes)
  BY DEF Chunk, Slice
<1>2. i + Lanes \in Nat /\ i + Lanes <= Len(text) /\ 1..((i + Lanes) - i) = 1..Lanes
  BY Facts
<1>3. \A k \in 1..((i + Lanes) - i) : SubSeq(text, i + 1, i + Lanes)[k] = text[i + k]
  BY <1>2, Facts, SliceType
<1> QED
  BY <1>1, <1>2, <1>3

-----------------------------------------------------------------------------
(* The invariant holds before the first byte.                                *)
LEMMA InitHolds == Init => IInv
<1> SUFFICES ASSUME Init PROVE IInv
  OBVIOUS
<1>1. text \in Seq(Byte) /\ ValidUtf8(text) /\ Len(text) \in Nat
  BY WhitespaceAssumption DEF Init
<1>2. TypeOK
  <2>1. 0 \in 0..(Length + 1) /\ 0 \in 0..Length
    BY <1>1 DEF Length
  <2>2. i = 0 /\ from = 0 /\ bits = {} /\ out = <<>> /\ space = FALSE /\ stage \in {"tail", "chunk"}
    BY DEF Init
  <2>3. out \in Seq(Byte)
    BY <2>2
  <2> QED
    BY <2>1, <2>2, <2>3 DEF Init, TypeOK
<1>3. Kept(text) \subseteq 1..Len(text)
  BY <1>1, KeptFacts
<1>4. Collapses(<<>>, text, 0)
  BY <1>1, <1>3, PlaceZero DEF Collapses
<1>5. Consumed
  BY <1>1, <1>4 DEF Init, Consumed, Reached, ValidUtf8
<1>6. Progress /\ FailsOnlyOnLoneLast
  BY <1>5 DEF Init, Progress, FailsOnlyOnLoneLast
<1> QED
  BY <1>2, <1>6 DEF IInv

(* A turn of the scalar loop consumes one character.                         *)
LEMMA TurnReaches ==
    ASSUME TypeOK, Consumed, i < Length, Turn
    PROVE  /\ out' \in Seq(Byte) /\ space' \in BOOLEAN
           /\ i' \in Nat /\ i' <= Length /\ Reached(out', text, i', space')
<1>1. /\ text \in Seq(Byte) /\ ValidUtf8(text) /\ Length = Len(text) /\ Len(text) \in Nat
      /\ i \in Nat /\ out \in Seq(Byte) /\ space \in BOOLEAN
      /\ Reached(out, text, i, space)
  BY Facts DEF TypeOK, Consumed
<1>2. CASE text[i + 1] \in White
  <2>1. out' = (IF space THEN out ELSE Append(out, "s")) /\ space' = TRUE /\ i' = i + 1
    <3>1. out \o <<>> = out
      BY <1>1
    <3> QED
      BY <1>2, <3>1 DEF Turn, PushSpace
  <2>2. i < Len(text)
    BY <1>1
  <2>3. out' \in Seq(Byte) /\ Reached(out', text, i + 1, TRUE)
    BY <1>1, <1>2, <2>1, <2>2, ReachBlank
  <2>4. Reached(out', text, i', space')
    BY <2>1, <2>3, Zenon
  <2>5. i' \in Nat /\ i' <= Length /\ space' \in BOOLEAN
    BY <1>1, <2>1, <2>2
  <2> QED
    BY <2>3, <2>4, <2>5
<1>3. CASE text[i + 1] \notin White
  <2> DEFINE b == text[i + 1]
             end == IF i + SeqLen(b) < Length THEN i + SeqLen(b) ELSE Length
             m == end - i
  <2>1. /\ m \in Nat \ {0} /\ i + m = end /\ end <= Len(text)
        /\ \A k \in (i + 1)..end : text[k] \notin White
        /\ text[end] # "lead"
    <3>1. CASE b = "lead"
      <4>1. i + 1 < Len(text) /\ text[i + 2] = "cont"
        BY <1>1, <3>1 DEF ValidUtf8
      <4>2. end = i + 2
        BY <1>1, <3>1, <4>1 DEF SeqLen
      <4>3. "cont" \notin White
        BY DEF White
      <4>4. \A k \in (i + 1)..(i + 2) : k = i + 1 \/ k = i + 2
        BY <1>1
      <4> QED
        BY <1>1, <1>3, <4>1, <4>2, <4>3, <4>4
    <3>2. CASE b # "lead"
      <4>1. end = i + 1
        BY <1>1, <3>2 DEF SeqLen
      <4> QED
        BY <1>1, <1>3, <3>2, <4>1
    <3> QED
      BY <3>1, <3>2
  <2>2. out' = out \o SubSeq(text, i + 1, end) /\ space' = FALSE /\ i' = end
    BY <1>3 DEF Turn, PushStr, Slice
  <2> HIDE DEF m, end
  <2>3. out' \in Seq(Byte) /\ Reached(out', text, i + m, FALSE)
    BY <1>1, <2>1, <2>2, ReachRun
  <2>4. end \in Nat
    BY <1>1, <2>1
  <2> QED
    BY <1>1, <2>1, <2>2, <2>3, <2>4
<1> QED
  BY <1>2, <1>3

(* A turn of the scalar loop consumes a byte.                                *)
LEMMA ScalarTurnStep == IInv /\ ScalarTurn => IInv'
<1> SUFFICES ASSUME IInv, ScalarTurn PROVE IInv'
  OBVIOUS
<1>1. TypeOK /\ Consumed /\ stage \in {"scalar", "tail"} /\ Turn
      /\ UNCHANGED <<input, from, bits, stage>>
  BY DEF IInv, Progress, ScalarTurn
<1>2. i < Length
  BY <1>1, Facts DEF IInv, Progress, ScalarTurn
<1>3. /\ out' \in Seq(Byte) /\ space' \in BOOLEAN
      /\ i' \in Nat /\ i' <= Length /\ Reached(out', text, i', space')
  BY <1>1, <1>2, TurnReaches
<1>4. text' = text /\ path' = path /\ build' = build
  BY <1>1 DEF input
<1>5. TypeOK'
  BY <1>1, <1>3, <1>4, Facts DEF TypeOK, Length
<1>6. Consumed'
  BY <1>3, <1>4 DEF Consumed
<1>7. Progress' /\ FailsOnlyOnLoneLast'
  BY <1>1, <1>4, <1>6 DEF IInv, Progress, FailsOnlyOnLoneLast, Length
<1> QED
  BY <1>5, <1>7 DEF IInv

(* The steps that only change the stage, and where a chunk starts.           *)
LEMMA ScalarEndStep == IInv /\ ScalarEnd => IInv'
<1> SUFFICES ASSUME IInv, ScalarEnd PROVE IInv'
  OBVIOUS
<1>1. /\ TypeOK /\ Consumed
      /\ UNCHANGED <<text, path, build, i, from, bits, out, space>>
      /\ stage' = "chunk" \/ (stage' = "done" /\ i >= Length)
  BY DEF IInv, Progress, ScalarEnd, input
<1>2. TypeOK' /\ Consumed'
  BY <1>1 DEF TypeOK, Consumed, Length
<1>3. i >= Length => i = Length
  BY <1>1, Facts DEF Consumed, Reached
<1>4. Progress' /\ FailsOnlyOnLoneLast'
  BY <1>1, <1>2, <1>3 DEF Progress, FailsOnlyOnLoneLast, Length
<1> QED
  BY <1>2, <1>4 DEF IInv

(* The tail is left to the scalar loop.                                      *)
LEMMA ChunksEndStep == IInv /\ ChunksEnd => IInv'
<1> SUFFICES ASSUME IInv, ChunksEnd PROVE IInv'
  OBVIOUS
<1>1. /\ TypeOK /\ Consumed
      /\ UNCHANGED <<text, path, build, i, from, bits, out, space>>
      /\ stage' = "tail"
  BY DEF IInv, Progress, ChunksEnd, input
<1>2. TypeOK' /\ Consumed'
  BY <1>1 DEF TypeOK, Consumed, Length
<1>3. Progress' /\ FailsOnlyOnLoneLast'
  BY <1>1, <1>2 DEF Progress, FailsOnlyOnLoneLast
<1> QED
  BY <1>2, <1>3 DEF IInv

(* A chunk is handed to the scalar loop where it starts.                    *)
LEMMA ScalarChunkStep == IInv /\ ScalarChunk => IInv'
<1> SUFFICES ASSUME IInv, ScalarChunk PROVE IInv'
  OBVIOUS
<1>1. /\ TypeOK /\ Consumed
      /\ UNCHANGED <<text, path, build, i, bits, out, space>>
      /\ stage' = "scalar" /\ from' = i /\ i + Lanes <= Length
  BY DEF IInv, Progress, ScalarChunk, input
<1>2. i \in 0..Length
  BY <1>1, Facts
<1>3. TypeOK' /\ Consumed'
  BY <1>1, <1>2 DEF TypeOK, Consumed, Length
<1>4. Progress' /\ FailsOnlyOnLoneLast'
  BY <1>1, <1>3 DEF Progress, FailsOnlyOnLoneLast, Length
<1> QED
  BY <1>3, <1>4 DEF IInv

(* A chunk without whitespace and multi-byte characters is a run.            *)
LEMMA BulkCopyStep == IInv /\ BulkCopy => IInv'
<1> SUFFICES ASSUME IInv, BulkCopy PROVE IInv'
  OBVIOUS
<1>1. /\ TypeOK /\ Consumed /\ stage = "chunk" /\ i + Lanes <= Length
      /\ Ascii /\ WhiteLanes = {}
      /\ out' = out \o Chunk /\ space' = FALSE /\ i' = i + Lanes
      /\ UNCHANGED <<text, path, build, from, bits, stage>>
  BY DEF IInv, Progress, BulkCopy, PushStr, input
<1>2. /\ text \in Seq(Byte) /\ ValidUtf8(text) /\ Length = Len(text) /\ Len(text) \in Nat
      /\ i \in Nat /\ Lanes \in Nat \ {0} /\ out \in Seq(Byte) /\ space \in BOOLEAN
      /\ Reached(out, text, i, space)
  BY <1>1, Facts DEF TypeOK, Consumed
<1>3. \A k \in 1..Lanes : text[i + k] \notin White /\ text[i + k] \notin NonAscii
  BY <1>1, ChunkFacts DEF Ascii, WhiteLanes
<1>4. \A k \in (i + 1)..(i + Lanes) : text[k] \notin White
  <2> SUFFICES ASSUME NEW k \in (i + 1)..(i + Lanes) PROVE text[k] \notin White
    OBVIOUS
  <2>1. k - i \in 1..Lanes /\ i + (k - i) = k
    BY <1>2
  <2> QED
    BY <1>3, <2>1
<1>5. text[i + Lanes] # "lead"
  <2>1. Lanes \in 1..Lanes
    BY <1>2
  <2> QED
    BY <1>3, <2>1 DEF NonAscii
<1>6. out' = out \o SubSeq(text, i + 1, i + Lanes)
  BY <1>1, ChunkFacts
<1>7. out' \in Seq(Byte) /\ Reached(out', text, i', FALSE)
  BY <1>1, <1>2, <1>4, <1>5, <1>6, ReachRun
<1>8. i' \in 0..(Length + 1)
  BY <1>1, <1>2
<1>9. TypeOK' /\ Consumed'
  BY <1>1, <1>7, <1>8 DEF TypeOK, Consumed, Length
<1>10. Progress' /\ FailsOnlyOnLoneLast'
  BY <1>1, <1>9 DEF Progress, FailsOnlyOnLoneLast
<1> QED
  BY <1>9, <1>10 DEF IInv

-----------------------------------------------------------------------------
(* The walk over the mask of a chunk.                                        *)
LEMMA StartWalkStep == IInv /\ StartWalk => IInv'
<1> SUFFICES ASSUME IInv, StartWalk PROVE IInv'
  OBVIOUS
<1>1. /\ TypeOK /\ Consumed /\ i + Lanes <= Length /\ Ascii
      /\ UNCHANGED <<text, path, build, i, out, space>>
      /\ stage' = "walk" /\ from' = i /\ bits' = {k - 1 : k \in WhiteLanes}
  BY DEF IInv, Progress, StartWalk, input
<1>2. /\ i \in Nat /\ Lanes \in Nat /\ Length \in Nat
      /\ \A k \in 1..Lanes : Chunk[k] = text[i + k]
  BY <1>1, Facts, ChunkFacts
<1>3. WhiteLanes = {k \in 1..Lanes : text[i + k] \in White}
  BY <1>2 DEF WhiteLanes
<1>4. bits' = {k \in 0..(Lanes - 1) : i + k < i + Lanes /\ text[i + k + 1] \in White}
  <2>1. ASSUME NEW k \in WhiteLanes
        PROVE  k - 1 \in 0..(Lanes - 1) /\ i + (k - 1) < i + Lanes /\ i + (k - 1) + 1 = i + k
    BY <1>2, <1>3
  <2>2. ASSUME NEW k \in 0..(Lanes - 1)
        PROVE  k + 1 \in 1..Lanes /\ (k + 1) - 1 = k /\ i + k + 1 = i + (k + 1)
    BY <1>2
  <2> QED
    BY <1>1, <1>3, <2>1, <2>2
<1>5. \A k \in (i + 1)..(i + Lanes) : text[k] \notin NonAscii
  <2> SUFFICES ASSUME NEW k \in (i + 1)..(i + Lanes) PROVE text[k] \notin NonAscii
    OBVIOUS
  <2>1. k - i \in 1..Lanes /\ i + (k - i) = k
    BY <1>2
  <2> QED
    BY <1>1, <1>2, <2>1 DEF Ascii
<1>6. i \in 0..Length /\ bits' \subseteq 0..(Lanes - 1) /\ i <= i + Lanes
  BY <1>1, <1>2, <1>4
<1>7. TypeOK' /\ Consumed'
  BY <1>1, <1>6 DEF TypeOK, Consumed, Length
<1>8. Walking'
  BY <1>1, <1>4, <1>5, <1>6, <1>7 DEF Walking
<1>9. Progress' /\ FailsOnlyOnLoneLast'
  BY <1>1, <1>7, <1>8 DEF Progress, FailsOnlyOnLoneLast, Length
<1> QED
  BY <1>7, <1>9 DEF IInv

(* What the next lane of the mask says: no whitespace before it, and that    *)
(* the text can be cut there.                                                *)
LEMMA NextLane ==
    ASSUME TypeOK, Walking, from + Lanes <= Length, NEW n \in bits, TrailingZeros(n)
    PROVE  /\ n \in 0..(Lanes - 1) /\ i + n < from + Lanes
           /\ text[i + n + 1] \in White
           /\ \A k \in (i + 1)..(i + n) : text[k] \notin White /\ text[k] \notin NonAscii
           /\ CanCopy(n)
<1>1. /\ text \in Seq(Byte) /\ Length = Len(text) /\ Length \in Nat
      /\ i \in Nat /\ from \in Nat /\ Lanes \in Nat
      /\ i <= Length /\ (i < Length => text[i + 1] # "cont")
      /\ from <= i
  BY Facts DEF Walking, Consumed, Reached
<1>2. bits = {k \in 0..(Lanes - 1) : i + k < from + Lanes /\ text[i + k + 1] \in White}
  BY DEF Walking
<1>3. n \in 0..(Lanes - 1) /\ i + n < from + Lanes /\ text[i + n + 1] \in White
  BY <1>2
<1>4. ASSUME NEW k \in (i + 1)..(i + n) PROVE text[k] \notin White /\ text[k] \notin NonAscii
  <2>1. k - i - 1 \in 0..(Lanes - 1) /\ i + (k - i - 1) < from + Lanes
        /\ i + (k - i - 1) + 1 = k /\ ~(n <= k - i - 1)
    BY <1>1, <1>3
  <2>2. k - i - 1 \notin bits
    BY <2>1 DEF TrailingZeros
  <2>3. text[k] \notin White
    BY <1>2, <2>1, <2>2
  <2>4. k \in (from + 1)..(from + Lanes)
    BY <1>1, <1>3
  <2> QED
    BY <2>3, <2>4 DEF Walking
<1>5. CanCopy(n)
  <2>1. text[i + n + 1] # "cont"
    BY <1>3 DEF White
  <2>2. i + n <= Length
    BY <1>1, <1>3
  <2> QED
    BY <1>1, <2>1, <2>2 DEF CanCopy, Boundary
<1> QED
  BY <1>3, <1>4, <1>5

(* A walk that panics does so at a chunk whose one space is its last byte.   *)
LEMMA WalkPanicStep == IInv /\ WalkPanic => IInv'
<1> SUFFICES ASSUME IInv, WalkPanic PROVE IInv'
  OBVIOUS
<1>1. PICK n \in bits : TrailingZeros(n) /\ (~CanCopy(n) \/ (Overflows(n) /\ build = "debug"))
  BY DEF WalkPanic
<1>2. /\ TypeOK /\ from + Lanes <= Length /\ (Walking \/ Doomed)
      /\ UNCHANGED <<text, path, build, i, from, bits, out, space>>
      /\ stage' = "panic"
  BY DEF IInv, Progress, WalkPanic, input
<1>3. bits = {Lanes - 1}
  <2>1. CASE Doomed
    BY <2>1 DEF Doomed
  <2>2. CASE Walking
    <3>1. n \in 0..(Lanes - 1) /\ CanCopy(n)
      BY <1>1, <1>2, <2>2, NextLane
    <3>2. n = Lanes - 1
      BY <1>1, <1>2, <3>1, Facts DEF Overflows
    <3>3. \A k \in bits : k \in 0..(Lanes - 1) /\ n <= k
      BY <1>1, <1>2 DEF TrailingZeros, TypeOK
    <3>4. \A k \in bits : k = Lanes - 1
      BY <1>2, <3>2, <3>3, Facts
    <3> QED
      BY <1>1, <3>2, <3>4
  <2> QED
    BY <1>2, <2>1, <2>2
<1>4. TypeOK'
  BY <1>2 DEF TypeOK, Length
<1>5. Progress' /\ FailsOnlyOnLoneLast'
  BY <1>2, <1>3 DEF Progress, FailsOnlyOnLoneLast
<1> QED
  BY <1>4, <1>5 DEF IInv

(* A turn of the walk copies up to the next whitespace and writes a space.   *)
LEMMA WalkReaches ==
    ASSUME TypeOK, Walking, from + Lanes <= Length,
           NEW n \in bits, TrailingZeros(n), PushSpace(Slice(i, i + n))
    PROVE  /\ out' \in Seq(Byte) /\ space' = TRUE
           /\ Reached(out', text, i + n + 1, TRUE)
<1>1. /\ text \in Seq(Byte) /\ ValidUtf8(text) /\ Length = Len(text) /\ Length \in Nat
      /\ i \in Nat /\ from \in Nat /\ Lanes \in Nat
      /\ out \in Seq(Byte) /\ space \in BOOLEAN /\ Reached(out, text, i, space)
  BY Facts DEF TypeOK, Walking, Consumed
<1>2. /\ n \in Nat /\ i + n \in Nat /\ i + n < Len(text) /\ text[i + n + 1] \in White
      /\ \A k \in (i + 1)..(i + n) : text[k] \notin White /\ text[k] \notin NonAscii
  BY <1>1, NextLane
<1> DEFINE r == SubSeq(text, i + 1, i + n)
<1>3. /\ out' = (IF space /\ r = <<>> THEN out ELSE Append(out \o r, "s"))
      /\ space' = TRUE
  BY DEF PushSpace, Slice
<1>4. CASE n = 0
  <2>1. r = <<>> /\ out \o <<>> = out
    <3>1. i <= i + n /\ i + n <= Len(text) /\ (i + n) - i = 0
      BY <1>1, <1>2, <1>4
    <3>2. r \in Seq(Byte) /\ Len(r) = 0
      BY <1>1, <1>2, <3>1, SliceType
    <3>3. r = <<>>
      BY <3>2, EmptySeq
    <3> QED
      BY <1>1, <3>3
  <2> HIDE DEF r
  <2>2. out' = IF space THEN out ELSE Append(out, "s")
    BY <1>3, <2>1
  <2>3. i < Len(text) /\ text[i + 1] \in White /\ i + n + 1 = i + 1
    BY <1>1, <1>2, <1>4
  <2>4. out' \in Seq(Byte) /\ Reached(out', text, i + 1, TRUE)
    BY <1>1, <2>2, <2>3, ReachBlank
  <2> QED
    BY <1>3, <2>3, <2>4
<1>5. CASE n # 0
  <2> DEFINE o == out \o r
  <2>1. n \in Nat \ {0} /\ i + n <= Len(text) /\ i + n \in (i + 1)..(i + n)
    BY <1>1, <1>2, <1>5
  <2>2. text[i + n] # "lead" /\ \A k \in (i + 1)..(i + n) : text[k] \notin White
    BY <1>2, <2>1 DEF NonAscii
  <2>3. o \in Seq(Byte) /\ Reached(o, text, i + n, FALSE)
    BY <1>1, <2>1, <2>2, ReachRun
  <2>4. Len(r) = n
    <3>1. (i + n) - i = n /\ i <= i + n
      BY <1>1, <1>2
    <3> QED
      BY <1>1, <1>2, <2>1, <3>1, SliceType
  <2>5. r # <<>>
    BY <2>1, <2>4
  <2>6. out' = Append(o, "s")
    BY <1>3, <2>5
  <2> HIDE DEF o, r
  <2>7. Append(o, "s") \in Seq(Byte) /\ Reached(Append(o, "s"), text, i + n + 1, TRUE)
    BY <1>1, <1>2, <2>3, ReachBlank
  <2> QED
    BY <1>3, <2>6, <2>7
<1> QED
  BY <1>4, <1>5

(* A turn of the walk keeps the mask that of the lanes left, or loses it.    *)
LEMMA WalkStepStep == IInv /\ WalkStep => IInv'
<1> SUFFICES ASSUME IInv, WalkStep PROVE IInv'
  OBVIOUS
<1>1. PICK n \in bits :
         /\ TrailingZeros(n) /\ CanCopy(n)
         /\ PushSpace(Slice(i, i + n))
         /\ i' = i + n + 1
         /\ bits' = IF Overflows(n) THEN bits ELSE Shifted(n + 1)
  BY DEF WalkStep
<1>2. /\ TypeOK /\ from + Lanes <= Length /\ (Walking \/ Doomed)
      /\ UNCHANGED <<text, path, build, from>> /\ stage' = "walk"
  BY DEF IInv, Progress, WalkStep, input
<1>3. /\ i \in Nat /\ from \in Nat /\ Lanes \in Nat /\ Lanes >= 2
      /\ Length = Len(text) /\ Length \in Nat /\ text \in Seq(Byte)
      /\ bits \subseteq 0..(Lanes - 1) /\ n \in 0..(Lanes - 1)
      /\ out \in Seq(Byte) /\ space' = TRUE
  BY <1>1, <1>2, Facts DEF TypeOK, PushSpace
<1>4. Shifted(n + 1) = {k - (n + 1) : k \in {j \in bits : j >= n + 1}}
  BY DEF Shifted
<1>5. bits' \subseteq 0..(Lanes - 1)
  <2>1. \A k \in bits : k >= n + 1 => k - (n + 1) \in 0..(Lanes - 1)
    BY <1>3
  <2> QED
    BY <1>1, <1>3, <1>4, <2>1
<1>6. CASE Doomed
  <2>1. n = Lanes - 1 /\ i >= from + Lanes /\ n > 0
    BY <1>1, <1>3, <1>6 DEF Doomed
  <2>2. Doomed'
    BY <1>1, <1>2, <1>3, <1>6, <2>1 DEF Doomed, Overflows
  <2>3. i + n <= Length
    BY <1>1, <2>1 DEF CanCopy, Boundary
  <2>4. i' \in 0..(Length + 1)
    BY <1>1, <1>3, <2>3
  <2>5. out' \in Seq(Byte)
    <3>1. Slice(i, i + n) \in Seq(Byte)
      BY <1>3, <2>3, SliceType DEF Slice
    <3>2. out \o Slice(i, i + n) \in Seq(Byte)
      BY <1>3, <3>1
    <3>3. Append(out \o Slice(i, i + n), "s") \in Seq(Byte)
      BY <3>2 DEF Byte
    <3> QED
      BY <1>1, <1>3, <3>3 DEF PushSpace
  <2>6. TypeOK'
    BY <1>2, <1>3, <1>5, <2>4, <2>5 DEF TypeOK, Length
  <2>7. Progress' /\ FailsOnlyOnLoneLast'
    BY <1>2, <2>2 DEF Progress, FailsOnlyOnLoneLast, Length
  <2> QED
    BY <2>6, <2>7 DEF IInv
<1>7. CASE Walking
  <2>1. out' \in Seq(Byte) /\ Reached(out', text, i', TRUE)
    BY <1>1, <1>2, <1>7, WalkReaches
  <2>2. /\ i + n < from + Lanes /\ from <= i
        /\ bits = {k \in 0..(Lanes - 1) : i + k < from + Lanes /\ text[i + k + 1] \in White}
    BY <1>1, <1>2, <1>7, NextLane DEF Walking
  <2>3. i' \in 0..(Length + 1) /\ from <= i' /\ i' <= from + Lanes
    BY <1>1, <1>2, <1>3, <2>2
  <2>4. TypeOK' /\ Consumed'
    <3>1. Reached(out', text', i', space')
      BY <1>2, <1>3, <2>1, Zenon
    <3> QED
      BY <1>2, <1>3, <1>5, <2>1, <2>3, <3>1 DEF TypeOK, Consumed, Length
  <2>5. Walking' \/ Doomed'
    <3>1. CASE Overflows(n)
      <4>1. n = Lanes - 1 /\ i = from
        BY <1>3, <2>2, <3>1 DEF Overflows
      <4>2. \A k \in bits : k = Lanes - 1
        BY <1>1, <1>3, <4>1 DEF TrailingZeros
      <4>3. bits = {Lanes - 1}
        BY <4>1, <4>2
      <4> QED
        BY <1>1, <1>2, <1>3, <3>1, <4>1, <4>3 DEF Doomed
    <3>2. CASE ~Overflows(n)
      <4>1. bits' = {k \in 0..(Lanes - 1) : i' + k < from + Lanes /\ text[i' + k + 1] \in White}
        <5>1. ASSUME NEW k \in bits, k >= n + 1
              PROVE  /\ k - (n + 1) \in 0..(Lanes - 1)
                     /\ i' + (k - (n + 1)) < from + Lanes
                     /\ i' + (k - (n + 1)) + 1 = i + k + 1
          BY <1>1, <1>3, <2>2, <5>1
        <5>2. ASSUME NEW k \in 0..(Lanes - 1), i' + k < from + Lanes
              PROVE  /\ k + n + 1 \in 0..(Lanes - 1) /\ k + n + 1 >= n + 1
                     /\ i + (k + n + 1) < from + Lanes
                     /\ i + (k + n + 1) + 1 = i' + k + 1 /\ (k + n + 1) - (n + 1) = k
          BY <1>1, <1>3, <2>2, <5>2
        <5>3. ASSUME NEW k \in bits, k >= n + 1
              PROVE  text[i' + (k - (n + 1)) + 1] \in White
          BY <2>2, <5>1, <5>3
        <5>4. ASSUME NEW k \in 0..(Lanes - 1), i' + k < from + Lanes, text[i' + k + 1] \in White
              PROVE  k + n + 1 \in bits
          BY <2>2, <5>2, <5>4
        <5>5. bits' = {k - (n + 1) : k \in {j \in bits : j >= n + 1}}
          BY <1>1, <1>4, <3>2
        <5> QED
          BY <5>1, <5>2, <5>3, <5>4, <5>5
      <4> QED
        BY <1>2, <1>7, <2>3, <2>4, <4>1 DEF Walking
    <3> QED
      BY <3>1, <3>2
  <2>6. Progress' /\ FailsOnlyOnLoneLast'
    BY <1>2, <2>5 DEF Progress, FailsOnlyOnLoneLast, Length
  <2> QED
    BY <2>4, <2>6 DEF IInv
<1> QED
  BY <1>2, <1>6, <1>7

(* What is left of a chunk behind its last whitespace is a run.              *)
LEMMA WalkEndStep == IInv /\ WalkEnd => IInv'
<1> SUFFICES ASSUME IInv, WalkEnd PROVE IInv'
  OBVIOUS
<1>1. /\ TypeOK /\ from + Lanes <= Length /\ (Walking \/ Doomed) /\ bits = {}
      /\ UNCHANGED <<text, path, build, from, bits>> /\ stage' = "chunk"
  BY DEF IInv, Progress, WalkEnd, input
<1>2. Walking
  BY <1>1 DEF Doomed
<1>3. /\ text \in Seq(Byte) /\ ValidUtf8(text) /\ Length = Len(text) /\ Length \in Nat
      /\ i \in Nat /\ from \in Nat /\ Lanes \in Nat /\ Lanes >= 2
      /\ out \in Seq(Byte) /\ space \in BOOLEAN /\ Reached(out, text, i, space)
      /\ from <= i /\ i <= from + Lanes
  BY <1>1, <1>2, Facts DEF TypeOK, Walking, Consumed
<1>4. CASE i < from + Lanes
  <2> DEFINE m == from + Lanes - i
  <2>1. m \in Nat \ {0} /\ i + m = from + Lanes
    BY <1>3, <1>4
  <2>2. ASSUME NEW k \in (i + 1)..(from + Lanes)
        PROVE  text[k] \notin White /\ text[k] \notin NonAscii
    <3>1. k - i - 1 \in 0..(Lanes - 1) /\ i + (k - i - 1) < from + Lanes /\ i + (k - i - 1) + 1 = k
      BY <1>3
    <3>2. text[k] \notin White
      BY <1>1, <1>2, <3>1 DEF Walking
    <3>3. k \in (from + 1)..(from + Lanes)
      BY <1>3
    <3> QED
      BY <1>2, <3>2, <3>3 DEF Walking
  <2>3. text[from + Lanes] # "lead"
    <3>1. from + Lanes \in (i + 1)..(from + Lanes)
      BY <1>3, <1>4
    <3> QED
      BY <2>2, <3>1 DEF NonAscii
  <2>4. out' = out \o SubSeq(text, i + 1, from + Lanes) /\ space' = FALSE /\ i' = from + Lanes
    BY <1>4 DEF WalkEnd, PushStr, Slice
  <2> HIDE DEF m
  <2>5. out' \in Seq(Byte) /\ Reached(out', text, from + Lanes, FALSE)
    BY <1>1, <1>3, <2>1, <2>2, <2>3, <2>4, ReachRun
  <2>6. i' \in 0..(Length + 1)
    BY <1>1, <1>3, <2>4
  <2>7. TypeOK' /\ Consumed'
    BY <1>1, <2>4, <2>5, <2>6 DEF TypeOK, Consumed, Length
  <2> QED
    BY <1>1, <2>7 DEF IInv, Progress, FailsOnlyOnLoneLast
<1>5. CASE ~(i < from + Lanes)
  <2>1. UNCHANGED <<i, out, space>>
    BY <1>5 DEF WalkEnd
  <2>2. TypeOK' /\ Consumed'
    BY <1>1, <1>2, <2>1 DEF TypeOK, Walking, Consumed, Length
  <2> QED
    BY <1>1, <2>2 DEF IInv, Progress, FailsOnlyOnLoneLast
<1> QED
  BY <1>4, <1>5

-----------------------------------------------------------------------------
(* No step breaks the invariant.                                             *)
LEMMA NextHolds == IInv /\ [Next]_vars => IInv'
<1> SUFFICES ASSUME IInv, [Next]_vars PROVE IInv'
  OBVIOUS
<1>1. CASE UNCHANGED vars
  BY <1>1 DEF vars, IInv, TypeOK, Progress, FailsOnlyOnLoneLast, Consumed, Walking, Doomed, Length
<1> QED
  BY <1>1, ScalarTurnStep, ScalarEndStep, ScalarChunkStep, BulkCopyStep, StartWalkStep,
     WalkStepStep, WalkPanicStep, WalkEndStep, ChunksEndStep DEF Next

(* At every step of every path, what is written is what the consumed bytes   *)
(* collapse to, or the walk has shifted by the whole width and is lost.      *)
THEOREM Invariance == Spec => []IInv
<1>1. Init => IInv
  BY InitHolds
<1>2. IInv /\ [Next]_vars => IInv'
  BY NextHolds
<1> QED
  BY <1>1, <1>2, PTL DEF Spec

(* Every variable of the collapsing paths stays in its type.                 *)
THEOREM TypeCorrect == Spec => []TypeOK
<1>1. IInv => TypeOK
  BY DEF IInv
<1> QED
  BY <1>1, Invariance, PTL

(* "SIMD and scalar agree byte-for-byte": every path that finishes has       *)
(* written what the text collapses to, whatever its length and alignment.    *)
THEOREM PathsCollapse == Spec => []DoneAgrees
<1>1. IInv => DoneAgrees
  BY Facts DEF IInv, Progress, Consumed, Reached, DoneAgrees
<1> QED
  BY <1>1, Invariance, PTL

(* collapse_whitespace fails only in the walk over the mask of a chunk whose *)
(* one whitespace byte is its last.                                          *)
THEOREM OnlyLoneLastFails == Spec => []FailsOnlyOnLoneLast
<1>1. IInv => FailsOnlyOnLoneLast
  BY DEF IInv
<1> QED
  BY <1>1, Invariance, PTL

-----------------------------------------------------------------------------
(* Induction without an operator for the claim: a set that has 0 and the     *)
(* successor of each of its numbers has all of them, as the least number     *)
(* outside of it would be neither.                                           *)
LEMMA Induction ==
    ASSUME NEW S, 0 \in S, \A n \in Nat : n \in S => n + 1 \in S
    PROVE  \A n \in Nat : n \in S
<1> DEFINE R == OpToRel(<, Nat)
           T == Nat \ S
<1>1. IsWellFoundedOn(R, Nat)
  BY NatLessThanWellFounded
<1>2. \A x, y \in Nat : y < x => <<y, x>> \in R
  BY DEF OpToRel
<1> HIDE DEF R
<1> SUFFICES ASSUME T # {} PROVE FALSE
  OBVIOUS
<1>3. T \subseteq Nat
  OBVIOUS
<1> HIDE DEF T
<1>4. \E x \in T : \A y \in T : <<y, x>> \notin R
  BY <1>1, <1>3, WFMin
<1>5. PICK x \in T : \A y \in T : ~(y < x)
  BY <1>2, <1>3, <1>4
<1>6. x \in Nat /\ x # 0 /\ x \notin S
  BY DEF T
<1>7. x - 1 \in Nat /\ x - 1 < x /\ (x - 1) + 1 = x
  BY <1>6
<1>8. x - 1 \in S
  BY <1>5, <1>7 DEF T
<1> QED
  BY <1>6, <1>7, <1>8

(* A loop of n turns, each of which takes a value of S to a value of S, has  *)
(* a value after each turn.                                                  *)
IsLoop(g, S, c, n, step) ==
    g \in [0..n -> S] /\ g[0] = c /\ \A k \in 1..n : g[k] = step[<<g[k - 1], k>>]

LEMMA Loop ==
    ASSUME NEW S, NEW c \in S, NEW n \in Nat, NEW step \in [S \X (1..n) -> S]
    PROVE  \E g : IsLoop(g, S, c, n, step)
<1> DEFINE T == {m \in Nat : m <= n => \E g : IsLoop(g, S, c, m, step)}
<1>1. 0 \in T
  <2>1. IsLoop([k \in 0..0 |-> c], S, c, 0, step)
    BY DEF IsLoop
  <2> QED
    BY <2>1
<1>2. ASSUME NEW m \in Nat, m \in T PROVE m + 1 \in T
  <2> SUFFICES ASSUME m + 1 <= n PROVE \E g : IsLoop(g, S, c, m + 1, step)
    OBVIOUS
  <2>1. PICK g : IsLoop(g, S, c, m, step)
    BY <1>2
  <2> DEFINE next == step[<<g[m], m + 1>>]
             h == [k \in 0..(m + 1) |-> IF k <= m THEN g[k] ELSE next]
  <2>2. next \in S
    BY <2>1 DEF IsLoop
  <2> HIDE DEF next
  <2>3. h \in [0..(m + 1) -> S] /\ h[0] = c
    BY <2>1, <2>2 DEF IsLoop
  <2>4. ASSUME NEW k \in 1..(m + 1) PROVE h[k] = step[<<h[k - 1], k>>]
    <3>1. CASE k <= m
      BY <2>1, <3>1 DEF IsLoop
    <3>2. CASE k = m + 1
      <4>1. h[k] = next /\ h[k - 1] = g[m]
        BY <3>2
      <4> QED
        BY <3>2, <4>1 DEF next
    <3> QED
      BY <3>1, <3>2
  <2>5. IsLoop(h, S, c, m + 1, step)
    BY <2>3, <2>4 DEF IsLoop
  <2> QED
    BY <2>5
<1> HIDE DEF T
<1>3. n \in T
  BY <1>1, <1>2, Induction
<1> QED
  BY <1>3 DEF T

-----------------------------------------------------------------------------
(* What the loop of cleanup_md has after each byte.                          *)
Cleaning == [bytes : Seq(Byte), newlines : Nat]
LEMMA PushType ==
    ASSUME NEW o \in Cleaning, NEW b \in Byte
    PROVE  PushNewline(o, b) \in Cleaning
<1>1. Append(o.bytes, b) \in Seq(Byte)
  BY DEF Cleaning
<1> QED
  BY <1>1 DEF PushNewline, Cleaning

LEMMA PushedDef ==
    ASSUME NEW s \in Seq(Byte)
    PROVE  /\ Pushed(s)[0] = [bytes |-> <<>>, newlines |-> 0]
           /\ \A n \in 1..Len(s) : Pushed(s)[n] = PushNewline(Pushed(s)[n - 1], s[n])
           /\ \A n \in 0..Len(s) : Pushed(s)[n] \in Cleaning
<1> DEFINE blank == [bytes |-> <<>>, newlines |-> 0]
           step == [p \in Cleaning \X (1..Len(s)) |-> PushNewline(p[1], s[p[2]])]
           Def(g) == g = [n \in 0..Len(s) |-> IF n = 0 THEN blank ELSE PushNewline(g[n - 1], s[n])]
<1>1. blank \in Cleaning /\ Len(s) \in Nat
  BY DEF Cleaning
<1>2. step \in [Cleaning \X (1..Len(s)) -> Cleaning]
  <2>1. ASSUME NEW p \in Cleaning \X (1..Len(s)) PROVE PushNewline(p[1], s[p[2]]) \in Cleaning
    <3>1. p[1] \in Cleaning /\ s[p[2]] \in Byte
      OBVIOUS
    <3> QED
      BY <3>1, PushType
  <2> QED
    BY <2>1
<1> HIDE DEF step, blank, Def
<1>3. PICK g : IsLoop(g, Cleaning, blank, Len(s), step)
  BY <1>1, <1>2, Loop
<1>3a. /\ g \in [0..Len(s) -> Cleaning] /\ g[0] = blank
       /\ \A k \in 1..Len(s) : g[k] = step[<<g[k - 1], k>>]
  BY <1>3 DEF IsLoop
<1>4. ASSUME NEW k \in 1..Len(s) PROVE g[k] = PushNewline(g[k - 1], s[k])
  <2>1. k - 1 \in 0..Len(s)
    BY <1>1
  <2>2. <<g[k - 1], k>> \in Cleaning \X (1..Len(s))
    BY <1>3a, <2>1
  <2> QED
    BY <1>3a, <2>2 DEF step
<1>5. Def(g)
  <2>1. g = [n \in 0..Len(s) |-> g[n]]
    BY <1>3a
  <2>2. \A n \in 0..Len(s) : g[n] = IF n = 0 THEN blank ELSE PushNewline(g[n - 1], s[n])
    BY <1>1, <1>3a, <1>4
  <2> QED
    BY <2>1, <2>2 DEF Def
<1>6. Pushed(s) = CHOOSE o : Def(o)
  BY DEF Pushed, Def, blank
<1>7. Def(Pushed(s))
  BY <1>5, <1>6
<1>8. Pushed(s)[0] = blank /\ \A n \in 1..Len(s) : Pushed(s)[n] = PushNewline(Pushed(s)[n - 1], s[n])
  BY <1>1, <1>7 DEF Def
<1>9. \A n \in Nat : n \in {m \in Nat : m <= Len(s) => Pushed(s)[m] \in Cleaning}
  <2> DEFINE T == {m \in Nat : m <= Len(s) => Pushed(s)[m] \in Cleaning}
  <2>1. 0 \in T
    BY <1>1, <1>8
  <2>2. ASSUME NEW m \in Nat, m \in T PROVE m + 1 \in T
    <3> SUFFICES ASSUME m + 1 <= Len(s) PROVE Pushed(s)[m + 1] \in Cleaning
      OBVIOUS
    <3>1. Pushed(s)[m + 1] = PushNewline(Pushed(s)[m], s[m + 1])
      BY <1>1, <1>8
    <3>2. Pushed(s)[m] \in Cleaning /\ s[m + 1] \in Byte
      BY <1>1, <2>2
    <3> QED
      BY <3>1, <3>2, PushType
  <2> HIDE DEF T
  <2> QED
    BY <2>1, <2>2, Induction DEF T
<1> QED
  BY <1>1, <1>8, <1>9 DEF blank

LEMMA VisibleDef ==
    ASSUME NEW s \in Seq(Byte)
    PROVE  /\ Visible(s)[0] = <<>>
           /\ \A n \in 1..Len(s) : Visible(s)[n] = IF s[n] \in Blank THEN Visible(s)[n - 1]
                                                   ELSE Append(Visible(s)[n - 1], s[n])
           /\ \A n \in 0..Len(s) : Visible(s)[n] \in Seq(Byte)
<1> DEFINE Next1(o, b) == IF b \in Blank THEN o ELSE Append(o, b)
           step == [p \in Seq(Byte) \X (1..Len(s)) |-> Next1(p[1], s[p[2]])]
           Def(g) == g = [n \in 0..Len(s) |-> IF n = 0 THEN <<>> ELSE Next1(g[n - 1], s[n])]
<1>0. ASSUME NEW o \in Seq(Byte), NEW b \in Byte PROVE Next1(o, b) \in Seq(Byte)
  OBVIOUS
<1>1. <<>> \in Seq(Byte) /\ Len(s) \in Nat
  OBVIOUS
<1>2. Visible(s) = CHOOSE o : Def(o)
  BY DEF Visible
<1> HIDE DEF Next1
<1>3. step \in [Seq(Byte) \X (1..Len(s)) -> Seq(Byte)]
  <2>1. ASSUME NEW p \in Seq(Byte) \X (1..Len(s)) PROVE Next1(p[1], s[p[2]]) \in Seq(Byte)
    <3>1. p[1] \in Seq(Byte) /\ s[p[2]] \in Byte
      OBVIOUS
    <3> QED
      BY <1>0, <3>1
  <2> QED
    BY <2>1
<1> HIDE DEF step, Def
<1>4. PICK g : IsLoop(g, Seq(Byte), <<>>, Len(s), step)
  BY <1>1, <1>3, Loop
<1>5. Def(g)
  <2>1. /\ g \in [0..Len(s) -> Seq(Byte)] /\ g[0] = <<>>
        /\ \A k \in 1..Len(s) : g[k] = step[<<g[k - 1], k>>]
    BY <1>4 DEF IsLoop
  <2>2. ASSUME NEW k \in 1..Len(s) PROVE g[k] = Next1(g[k - 1], s[k])
    <3>1. k - 1 \in 0..Len(s)
      BY <1>1
    <3>2. <<g[k - 1], k>> \in Seq(Byte) \X (1..Len(s))
      BY <2>1, <3>1
    <3> QED
      BY <2>1, <3>2 DEF step
  <2>3. g = [n \in 0..Len(s) |-> g[n]]
    BY <2>1
  <2>4. \A n \in 0..Len(s) : g[n] = IF n = 0 THEN <<>> ELSE Next1(g[n - 1], s[n])
    BY <1>1, <2>1, <2>2
  <2> QED
    BY <2>3, <2>4 DEF Def
<1>6. Def(Visible(s))
  BY <1>2, <1>5
<1>7. /\ Visible(s)[0] = <<>>
      /\ \A n \in 1..Len(s) : Visible(s)[n] = Next1(Visible(s)[n - 1], s[n])
  BY <1>1, <1>6 DEF Def
<1>8. \A n \in Nat : n <= Len(s) => Visible(s)[n] \in Seq(Byte)
  <2> DEFINE T == {m \in Nat : m <= Len(s) => Visible(s)[m] \in Seq(Byte)}
  <2>1. 0 \in T
    BY <1>1, <1>7
  <2>2. ASSUME NEW m \in Nat, m \in T PROVE m + 1 \in T
    <3> SUFFICES ASSUME m + 1 <= Len(s) PROVE Visible(s)[m + 1] \in Seq(Byte)
      OBVIOUS
    <3>1. Visible(s)[m + 1] = Next1(Visible(s)[m], s[m + 1])
      BY <1>1, <1>7
    <3>2. Visible(s)[m] \in Seq(Byte) /\ s[m + 1] \in Byte
      BY <1>1, <2>2
    <3> QED
      BY <1>0, <3>1, <3>2
  <2> HIDE DEF T
  <2>3. \A n \in Nat : n \in T
    BY <2>1, <2>2, Induction
  <2> QED
    BY <2>3 DEF T
<1> QED
  BY <1>1, <1>7, <1>8 DEF Next1

(* Bytes that two texts share show the same, if nothing showed before.       *)
LEMMA VisibleShared ==
    ASSUME NEW s \in Seq(Byte), NEW t \in Seq(Byte), NEW d \in Nat, NEW m \in Nat,
           d + m <= Len(s), m <= Len(t), \A k \in 1..m : t[k] = s[d + k],
           Visible(s)[d] = <<>>
    PROVE  Visible(t)[m] = Visible(s)[d + m]
<1> DEFINE T == {k \in Nat : k <= m => Visible(t)[k] = Visible(s)[d + k]}
<1>1. 0 \in T
  <2>1. d + 0 = d /\ Visible(t)[0] = <<>>
    BY VisibleDef
  <2> QED
    BY <2>1
<1>2. ASSUME NEW k \in Nat, k \in T PROVE k + 1 \in T
  <2> SUFFICES ASSUME k + 1 <= m PROVE Visible(t)[k + 1] = Visible(s)[d + (k + 1)]
    OBVIOUS
  <2>1. /\ k + 1 \in 1..Len(t) /\ d + (k + 1) \in 1..Len(s) /\ k + 1 \in 1..m
        /\ (k + 1) - 1 = k /\ (d + (k + 1)) - 1 = d + k
    OBVIOUS
  <2>2. Visible(t)[k + 1] = IF t[k + 1] \in Blank THEN Visible(t)[k] ELSE Append(Visible(t)[k], t[k + 1])
    BY <2>1, VisibleDef
  <2>3. Visible(s)[d + (k + 1)] = IF s[d + (k + 1)] \in Blank THEN Visible(s)[d + k]
                                  ELSE Append(Visible(s)[d + k], s[d + (k + 1)])
    BY <2>1, VisibleDef
  <2>4. Visible(t)[k] = Visible(s)[d + k] /\ t[k + 1] = s[d + (k + 1)]
    BY <1>2, <2>1
  <2> QED
    BY <2>2, <2>3, <2>4
<1> HIDE DEF T
<1>3. m \in T
  BY <1>1, <1>2, Induction
<1> QED
  BY <1>3 DEF T

(* Blank bytes show nothing.                                                 *)
LEMMA VisibleBlank ==
    ASSUME NEW s \in Seq(Byte), NEW d \in Nat, NEW m \in Nat, d + m <= Len(s),
           \A k \in (d + 1)..(d + m) : s[k] \in Blank
    PROVE  Visible(s)[d + m] = Visible(s)[d]
<1> DEFINE T == {k \in Nat : k <= m => Visible(s)[d + k] = Visible(s)[d]}
<1>1. 0 \in T
  <2>1. d + 0 = d
    OBVIOUS
  <2> QED
    BY <2>1
<1>2. ASSUME NEW k \in Nat, k \in T PROVE k + 1 \in T
  <2> SUFFICES ASSUME k + 1 <= m PROVE Visible(s)[d + (k + 1)] = Visible(s)[d]
    OBVIOUS
  <2>1. /\ d + (k + 1) \in 1..Len(s) /\ d + (k + 1) \in (d + 1)..(d + m)
        /\ (d + (k + 1)) - 1 = d + k
    OBVIOUS
  <2>2. Visible(s)[d + (k + 1)] = Visible(s)[d + k]
    BY <2>1, VisibleDef
  <2> QED
    BY <1>2, <2>2
<1> HIDE DEF T
<1>3. m \in T
  BY <1>1, <1>2, Induction
<1> QED
  BY <1>3 DEF T

(* One more byte shows unless it is blank.                                   *)
LEMMA VisibleAppend ==
    ASSUME NEW s \in Seq(Byte), NEW b \in Byte
    PROVE  Visible(Append(s, b))[Len(s) + 1] =
               IF b \in Blank THEN Visible(s)[Len(s)] ELSE Append(Visible(s)[Len(s)], b)
<1> DEFINE t == Append(s, b)
<1>1. /\ t \in Seq(Byte) /\ Len(s) \in Nat /\ Len(t) = Len(s) + 1
      /\ \A k \in 1..Len(s) : t[k] = s[k]
      /\ t[Len(s) + 1] = b
  OBVIOUS
<1> HIDE DEF t
<1>2. Visible(s)[Len(s)] = Visible(t)[0 + Len(s)]
  <2>1. 0 + Len(s) <= Len(t) /\ \A k \in 1..Len(s) : s[k] = t[0 + k]
    BY <1>1
  <2>2. Visible(t)[0] = <<>>
    BY <1>1, VisibleDef
  <2> QED
    BY <1>1, <2>1, <2>2, VisibleShared
<1>3. 0 + Len(s) = Len(s) /\ Len(s) + 1 \in 1..Len(t) /\ (Len(s) + 1) - 1 = Len(s)
  BY <1>1
<1>4. Visible(t)[Len(s) + 1] = IF b \in Blank THEN Visible(t)[Len(s)] ELSE Append(Visible(t)[Len(s)], b)
  BY <1>1, <1>3, VisibleDef
<1> QED
  BY <1>2, <1>3, <1>4 DEF t

-----------------------------------------------------------------------------
(* No three newlines in a row.                                               *)
NoThree(s) == \A k \in 1..(Len(s) - 2) : ~(s[k] = "n" /\ s[k + 1] = "n" /\ s[k + 2] = "n")

(* What the loop of cleanup_md keeps: its counter knows enough of the end of *)
(* what it has pushed.                                                       *)
Squeezed(o) ==
    /\ NoThree(o.bytes)
    /\ o.newlines = 0 => Len(o.bytes) = 0 \/ o.bytes[Len(o.bytes)] # "n"
    /\ o.newlines = 1 => Len(o.bytes) <= 1 \/ o.bytes[Len(o.bytes) - 1] # "n"

LEMMA SqueezedPush ==
    ASSUME NEW o \in Cleaning, Squeezed(o), NEW b \in Byte
    PROVE  Squeezed(PushNewline(o, b))
<1> DEFINE s == o.bytes
           t == Append(s, b)
           c == o.newlines
<1>1. /\ s \in Seq(Byte) /\ c \in Nat /\ Len(s) \in Nat
      /\ NoThree(s)
      /\ c = 0 => Len(s) = 0 \/ s[Len(s)] # "n"
      /\ c = 1 => Len(s) <= 1 \/ s[Len(s) - 1] # "n"
  BY DEF Cleaning, Squeezed
<1> HIDE DEF c
<1>2. Len(t) = Len(s) + 1 /\ t[Len(s) + 1] = b /\ \A k \in 1..Len(s) : t[k] = s[k]
  <2> HIDE DEF s
  <2> QED
    BY <1>1
<1>3. PushNewline(o, b) = IF b # "n" THEN [bytes |-> t, newlines |-> 0]
                          ELSE [bytes |-> IF c < 2 THEN t ELSE s, newlines |-> c + 1]
  BY DEF PushNewline, c
<1> HIDE DEF s, t
<1>4. CASE b = "n" /\ ~(c < 2)
  <2>1. c + 1 # 0 /\ c + 1 # 1
    BY <1>1, <1>4
  <2> QED
    BY <1>1, <1>3, <1>4, <2>1 DEF Squeezed
<1>5. CASE b # "n" \/ c < 2
  <2>1. NoThree(t)
    <3>1. ASSUME NEW k \in 1..(Len(t) - 2), t[k] = "n", t[k + 1] = "n", t[k + 2] = "n" PROVE FALSE
      <4>1. CASE k + 2 <= Len(s)
        <5>1. /\ k \in 1..(Len(s) - 2) /\ k \in 1..Len(s)
              /\ k + 1 \in 1..Len(s) /\ k + 2 \in 1..Len(s)
          BY <1>1, <4>1
        <5> QED
          BY <1>1, <1>2, <3>1, <5>1 DEF NoThree
      <4>2. CASE k + 2 = Len(s) + 1
        <5>1. b = "n" /\ c < 2
          BY <1>2, <1>5, <3>1, <4>2
        <5>2. /\ k = Len(s) - 1 /\ k + 1 = Len(s) /\ k \in 1..Len(s) /\ k + 1 \in 1..Len(s)
              /\ ~(Len(s) <= 1) /\ Len(s) # 0
          BY <1>1, <4>2
        <5>3. s[Len(s)] = "n" /\ s[Len(s) - 1] = "n"
          BY <1>2, <3>1, <5>2
        <5>4. c = 0 \/ c = 1
          BY <1>1, <5>1
        <5> QED
          BY <1>1, <5>2, <5>3, <5>4
      <4> QED
        BY <1>1, <1>2, <4>1, <4>2
    <3> QED
      BY <3>1 DEF NoThree
  <2>2. CASE b # "n"
    <3>1. PushNewline(o, b) = [bytes |-> t, newlines |-> 0]
      BY <1>3, <2>2
    <3>2. t[Len(t)] # "n"
      BY <1>2, <2>2
    <3> QED
      BY <2>1, <3>1, <3>2 DEF Squeezed
  <2>3. CASE b = "n"
    <3>1. PushNewline(o, b) = [bytes |-> t, newlines |-> c + 1] /\ c + 1 # 0
      BY <1>1, <1>3, <1>5, <2>3
    <3>2. ASSUME c + 1 = 1 PROVE Len(t) <= 1 \/ t[Len(t) - 1] # "n"
      <4>1. c = 0 /\ Len(t) - 1 = Len(s)
        BY <1>1, <1>2, <3>2
      <4>2. CASE Len(s) = 0
        BY <1>2, <4>2
      <4>3. CASE Len(s) # 0
        <5>1. Len(s) \in 1..Len(s)
          BY <1>1, <4>3
        <5> QED
          BY <1>1, <1>2, <4>1, <4>3, <5>1
      <4> QED
        BY <4>2, <4>3
    <3> QED
      BY <2>1, <3>1, <3>2 DEF Squeezed
  <2> QED
    BY <2>2, <2>3
<1> QED
  BY <1>4, <1>5

(* Pushing a byte shows it unless it is blank, newlines left out included.   *)
LEMMA VisiblePush ==
    ASSUME NEW o \in Cleaning, NEW b \in Byte, NEW v, Visible(o.bytes)[Len(o.bytes)] = v
    PROVE  LET p == PushNewline(o, b).bytes
           IN  Visible(p)[Len(p)] = IF b \in Blank THEN v ELSE Append(v, b)
<1> DEFINE s == o.bytes
           t == Append(s, b)
<1>1. s \in Seq(Byte)
  BY DEF Cleaning
<1>2. Visible(t)[Len(s) + 1] = IF b \in Blank THEN v ELSE Append(v, b)
  BY <1>1, VisibleAppend
<1>3. Len(t) = Len(s) + 1
  BY <1>1
<1>4. PushNewline(o, b).bytes = t \/ (b = "n" /\ PushNewline(o, b).bytes = s)
  BY DEF PushNewline
<1>5. "n" \in Blank
  BY DEF Blank, White
<1> HIDE DEF t, s
<1> QED
  BY <1>2, <1>3, <1>4, <1>5 DEF s

(* So the whole of a text is squeezed, and shows what the text shows.        *)
LEMMA PushedFacts ==
    ASSUME NEW s \in Seq(Byte)
    PROVE  LET b == Pushed(s)[Len(s)].bytes
           IN  b \in Seq(Byte) /\ NoThree(b) /\ Visible(b)[Len(b)] = Visible(s)[Len(s)]
<1> DEFINE P(m) == Pushed(s)[m]
           Good(m) == Squeezed(P(m)) /\ Visible(P(m).bytes)[Len(P(m).bytes)] = Visible(s)[m]
           T == {m \in Nat : m <= Len(s) => Good(m)}
<1>0. Len(s) \in Nat
  OBVIOUS
<1>1. 0 \in T
  <2>1. P(0) = [bytes |-> <<>>, newlines |-> 0]
    BY PushedDef
  <2>2. Squeezed(P(0))
    BY <2>1 DEF Squeezed, NoThree
  <2>3. <<>> \in Seq(Byte) /\ Len(<<>>) = 0
    OBVIOUS
  <2>4. Visible(<<>>)[0] = <<>> /\ Visible(s)[0] = <<>>
    BY <2>3, VisibleDef
  <2> QED
    BY <2>1, <2>2, <2>3, <2>4
<1>2. ASSUME NEW m \in Nat, m \in T PROVE m + 1 \in T
  <2> SUFFICES ASSUME m + 1 <= Len(s) PROVE Good(m + 1)
    OBVIOUS
  <2>1. m + 1 \in 1..Len(s) /\ m \in 0..Len(s) /\ (m + 1) - 1 = m /\ s[m + 1] \in Byte
    BY <1>0
  <2>2. P(m) \in Cleaning /\ P(m + 1) = PushNewline(P(m), s[m + 1])
    BY <2>1, PushedDef
  <2>3. Squeezed(P(m)) /\ Visible(P(m).bytes)[Len(P(m).bytes)] = Visible(s)[m]
    BY <1>2, <2>1
  <2>4. Visible(s)[m + 1] = IF s[m + 1] \in Blank THEN Visible(s)[m] ELSE Append(Visible(s)[m], s[m + 1])
    BY <2>1, VisibleDef
  <2> HIDE DEF P
  <2>5. Squeezed(P(m + 1))
    BY <2>1, <2>2, <2>3, SqueezedPush
  <2>6. Visible(P(m + 1).bytes)[Len(P(m + 1).bytes)]
           = IF s[m + 1] \in Blank THEN Visible(s)[m] ELSE Append(Visible(s)[m], s[m + 1])
    BY <2>1, <2>2, <2>3, VisiblePush
  <2> QED
    BY <2>4, <2>5, <2>6
<1> HIDE DEF T
<1>3. Len(s) \in T
  BY <1>0, <1>1, <1>2, Induction
<1>4. Good(Len(s))
  BY <1>0, <1>3 DEF T
<1>5. P(Len(s)) \in Cleaning
  BY <1>0, PushedDef
<1> QED
  BY <1>4, <1>5 DEF Squeezed, Cleaning

-----------------------------------------------------------------------------
(* A set of numbers has a least one and, below a bound, a greatest one.      *)
LEMMA MinFacts ==
    ASSUME NEW K, K \subseteq Nat, K # {}
    PROVE  Min(K) \in K /\ \A k \in K : Min(K) <= k
<1> DEFINE T == {n \in Nat : \A k \in K : n <= k}
           Low(x) == x \in K /\ \A k \in K : x <= k
<1>1. PICK x : Low(x)
  <2> SUFFICES ASSUME \A x \in K : ~Low(x) PROVE FALSE
    OBVIOUS
  <2>1. 0 \in T
    OBVIOUS
  <2>2. ASSUME NEW n \in Nat, n \in T PROVE n + 1 \in T
    <3>1. n \notin K
      BY <2>2
    <3>2. \A k \in K : k \in Nat /\ n <= k /\ n # k
      BY <2>2, <3>1
    <3>3. \A k \in K : n + 1 <= k
      BY <3>2
    <3> QED
      BY <3>3
  <2> HIDE DEF T
  <2>3. \A n \in Nat : n \in T
    BY <2>1, <2>2, Induction
  <2>4. PICK k \in K : k \in Nat
    OBVIOUS
  <2>5. k + 1 \in T
    BY <2>3, <2>4
  <2> QED
    BY <2>4, <2>5 DEF T
<1>2. Min(K) = CHOOSE y \in K : \A k \in K : y <= k
  BY DEF Min
<1> QED
  BY <1>1, <1>2

LEMMA MaxFacts ==
    ASSUME NEW K, NEW N \in Nat, K \subseteq 1..N, K # {}
    PROVE  Max(K) \in K /\ \A k \in K : k <= Max(K)
<1> DEFINE L == {N - k : k \in K}
<1>1. L \subseteq Nat /\ L # {}
  <2>1. \A k \in K : N - k \in Nat
    OBVIOUS
  <2> QED
    BY <2>1
<1>2. Min(L) \in L /\ \A l \in L : Min(L) <= l
  <2> HIDE DEF L
  <2> QED
    BY <1>1, MinFacts
<1>3. PICK x \in K : Min(L) = N - x
  BY <1>2
<1>4. ASSUME NEW k \in K PROVE x >= k
  <2>1. N - k \in L
    OBVIOUS
  <2>2. N - x <= N - k
    BY <1>2, <1>3, <2>1
  <2>3. x \in Nat /\ k \in Nat
    OBVIOUS
  <2> QED
    BY <2>2, <2>3
<1>5. Max(K) = CHOOSE y \in K : \A k \in K : y >= k
  BY DEF Max
<1>6. Max(K) \in K /\ \A k \in K : Max(K) >= k
  BY <1>4, <1>5
<1>7. \A k \in K : k \in Nat
  OBVIOUS
<1> QED
  BY <1>6, <1>7

-----------------------------------------------------------------------------
(* Trimming leaves nothing of blanks, and otherwise the bytes from the first *)
(* that is not blank to the last.                                            *)
LEMMA TrimFacts ==
    ASSUME NEW s \in Seq(Byte)
    PROVE  \/ Trim(s) = <<>> /\ \A k \in 1..Len(s) : s[k] \in Blank
           \/ \E lo, hi \in 1..Len(s) :
                 /\ lo <= hi /\ Trim(s) = SubSeq(s, lo, hi)
                 /\ s[lo] \notin Blank /\ s[hi] \notin Blank
                 /\ \A k \in 1..Len(s) : k < lo \/ k > hi => s[k] \in Blank
<1> DEFINE K == {k \in DOMAIN s : s[k] \notin Blank}
<1>1. DOMAIN s = 1..Len(s) /\ Len(s) \in Nat
  OBVIOUS
<1>2. Trim(s) = IF K = {} THEN <<>> ELSE SubSeq(s, Min(K), Max(K))
  BY DEF Trim
<1>3. CASE K = {}
  BY <1>1, <1>2, <1>3
<1>4. CASE K # {}
  <2>1. K \subseteq 1..Len(s) /\ K \subseteq Nat
    BY <1>1
  <2>2. Trim(s) = SubSeq(s, Min(K), Max(K))
    BY <1>2, <1>4
  <2>3. \A k \in 1..Len(s) : k \notin K => s[k] \in Blank
    BY <1>1
  <2>4. \A k \in K : s[k] \notin Blank
    OBVIOUS
  <2> HIDE DEF K
  <2>5. Min(K) \in K /\ \A k \in K : Min(K) <= k
    BY <1>4, <2>1, MinFacts
  <2>6. Max(K) \in K /\ \A k \in K : k <= Max(K)
    BY <1>1, <1>4, <2>1, MaxFacts
  <2> DEFINE lo == Min(K)
             hi == Max(K)
  <2>7. lo \in 1..Len(s) /\ hi \in 1..Len(s) /\ lo <= hi
    BY <2>1, <2>5, <2>6
  <2>8. \A k \in 1..Len(s) : k < lo \/ k > hi => k \notin K
    <3>1. ASSUME NEW k \in 1..Len(s), k \in K PROVE ~(k < lo) /\ ~(k > hi)
      <4>1. lo <= k /\ k <= hi
        BY <2>5, <2>6, <3>1
      <4> HIDE DEF lo, hi
      <4>2. lo \in Nat /\ hi \in Nat /\ k \in Nat
        BY <1>1, <2>7
      <4> QED
        BY <4>1, <4>2
    <3> QED
      BY <3>1
  <2>9. s[lo] \notin Blank /\ s[hi] \notin Blank
    BY <2>4, <2>5, <2>6
  <2>10. Trim(s) = SubSeq(s, lo, hi)
    BY <2>2
  <2> HIDE DEF lo, hi
  <2> QED
    BY <2>3, <2>7, <2>8, <2>9, <2>10
<1> QED
  BY <1>3, <1>4

(* What is trimmed has no blank ends, shows the same, and has no three       *)
(* newlines in a row if it had none before.                                  *)
Ends(t) == t # <<>> => t[1] \notin Blank /\ t[Len(t)] \notin Blank

LEMMA TrimTidies ==
    ASSUME NEW s \in Seq(Byte), NoThree(s)
    PROVE  /\ Trim(s) \in Seq(Byte) /\ NoThree(Trim(s)) /\ Ends(Trim(s))
           /\ Visible(Trim(s))[Len(Trim(s))] = Visible(s)[Len(s)]
<1>0. Len(s) \in Nat /\ 0 + Len(s) = Len(s) /\ 0 + 1 = 1
  OBVIOUS
<1>1. CASE Trim(s) = <<>> /\ \A k \in 1..Len(s) : s[k] \in Blank
  <2>1. Visible(s)[0 + Len(s)] = Visible(s)[0]
    BY <1>0, <1>1, VisibleBlank
  <2>2. <<>> \in Seq(Byte) /\ Len(<<>>) = 0
    OBVIOUS
  <2>3. Visible(s)[0] = <<>> /\ Visible(<<>>)[0] = <<>>
    BY <2>2, VisibleDef
  <2>4. NoThree(<<>>) /\ Ends(<<>>)
    BY <2>2 DEF NoThree, Ends
  <2> QED
    BY <1>0, <1>1, <2>1, <2>2, <2>3, <2>4
<1>2. ASSUME NEW lo \in 1..Len(s), NEW hi \in 1..Len(s),
             lo <= hi, Trim(s) = SubSeq(s, lo, hi),
             s[lo] \notin Blank, s[hi] \notin Blank,
             \A k \in 1..Len(s) : k < lo \/ k > hi => s[k] \in Blank
      PROVE  /\ Trim(s) \in Seq(Byte) /\ NoThree(Trim(s)) /\ Ends(Trim(s))
             /\ Visible(Trim(s))[Len(Trim(s))] = Visible(s)[Len(s)]
  <2> DEFINE t == Trim(s)
             d == lo - 1
             m == hi - d
             r == Len(s) - hi
  <2>1. /\ d \in Nat /\ m \in Nat \ {0} /\ r \in Nat /\ d + 1 = lo /\ d + m = hi
        /\ hi + r = Len(s) /\ 0 + d = d /\ d <= hi /\ hi <= Len(s) /\ hi \in Nat
    BY <1>0, <1>2
  <2>2. t \in Seq(Byte) /\ Len(t) = m /\ \A k \in 1..m : t[k] = s[d + k]
    <3>1. t = SubSeq(s, d + 1, hi)
      BY <1>2, <2>1
    <3> HIDE DEF t, d
    <3> QED
      BY <2>1, <3>1, SliceType
  <2>3. NoThree(t)
    <3>1. ASSUME NEW k \in 1..(Len(t) - 2), t[k] = "n", t[k + 1] = "n", t[k + 2] = "n" PROVE FALSE
      <4> HIDE DEF t, d, m, r
      <4>1. /\ k \in 1..m /\ k + 1 \in 1..m /\ k + 2 \in 1..m /\ d + k \in 1..(Len(s) - 2)
            /\ d + (k + 1) = (d + k) + 1 /\ d + (k + 2) = (d + k) + 2
        BY <1>0, <2>1, <2>2
      <4>2. s[d + k] = "n" /\ s[d + k + 1] = "n" /\ s[d + k + 2] = "n"
        BY <2>2, <3>1, <4>1
      <4> QED
        BY <4>1, <4>2 DEF NoThree
    <3> QED
      BY <3>1 DEF NoThree
  <2>4. Ends(t)
    <3>1. 1 \in 1..m /\ m \in 1..m
      BY <2>1
    <3>2. t[1] = s[lo] /\ t[m] = s[hi]
      BY <2>1, <2>2, <3>1
    <3> QED
      BY <1>2, <2>2, <3>2 DEF Ends
  <2>5. Visible(t)[m] = Visible(s)[Len(s)]
    <3> HIDE DEF t, d, m, r
    <3>1. ASSUME NEW k \in (0 + 1)..(0 + d) PROVE s[k] \in Blank
      <4>1. k \in 1..Len(s) /\ k < lo
        BY <1>0, <2>1
      <4> QED
        BY <1>2, <4>1
    <3>2. 0 + d <= Len(s) /\ 0 \in Nat
      BY <1>0, <2>1
    <3>3. Visible(s)[0 + d] = Visible(s)[0]
      BY <2>1, <3>1, <3>2, VisibleBlank
    <3>3a. Visible(s)[0] = <<>>
      BY VisibleDef
    <3>3b. Visible(s)[d] = <<>>
      BY <2>1, <3>3, <3>3a
    <3>4. Visible(t)[m] = Visible(s)[d + m]
      <4>1. m \in Nat /\ d + m <= Len(s) /\ m <= Len(t)
        BY <1>0, <2>1, <2>2
      <4> QED
        BY <2>1, <2>2, <3>3b, <4>1, VisibleShared
    <3>5. ASSUME NEW k \in (hi + 1)..(hi + r) PROVE s[k] \in Blank
      <4>1. k \in 1..Len(s) /\ k > hi
        BY <1>0, <2>1
      <4> QED
        BY <1>2, <4>1
    <3>6. Visible(s)[hi + r] = Visible(s)[hi]
      <4>1. hi + r <= Len(s)
        BY <1>0, <2>1
      <4> QED
        BY <2>1, <3>5, <4>1, VisibleBlank
    <3> QED
      BY <2>1, <3>4, <3>6
  <2> QED
    BY <2>2, <2>3, <2>4, <2>5
<1> QED
  BY <1>1, <1>2, TrimFacts

(* A text without blank ends is not trimmed.                                 *)
LEMMA TrimIdle ==
    ASSUME NEW s \in Seq(Byte), Ends(s)
    PROVE  Trim(s) = s
<1>1. Len(s) \in Nat /\ DOMAIN s = 1..Len(s) /\ (Len(s) = 0 => s = <<>>)
  OBVIOUS
<1>2. CASE Trim(s) = <<>> /\ \A k \in 1..Len(s) : s[k] \in Blank
  <2>1. Len(s) # 0 => 1 \in 1..Len(s) /\ s # <<>>
    BY <1>1
  <2> QED
    BY <1>1, <1>2, <2>1 DEF Ends
<1>3. ASSUME NEW lo \in 1..Len(s), NEW hi \in 1..Len(s),
             lo <= hi, Trim(s) = SubSeq(s, lo, hi),
             \A k \in 1..Len(s) : k < lo \/ k > hi => s[k] \in Blank
      PROVE  Trim(s) = s
  <2>1. 1 \in 1..Len(s) /\ Len(s) \in 1..Len(s) /\ s # <<>>
    BY <1>1, <1>3
  <2>2. ~(1 < lo) /\ ~(Len(s) > hi)
    <3>1. s[1] \notin Blank /\ s[Len(s)] \notin Blank
      BY <2>1 DEF Ends
    <3>2. 1 < lo => s[1] \in Blank
      BY <1>3, <2>1
    <3>3. Len(s) > hi => s[Len(s)] \in Blank
      BY <1>3, <2>1
    <3> QED
      BY <3>1, <3>2, <3>3
  <2>3. lo = 1 /\ hi = Len(s)
    <3> DEFINE N == Len(s)
    <3>1. N \in Nat /\ lo \in 1..N /\ hi \in 1..N /\ ~(1 < lo) /\ ~(N > hi)
      BY <1>1, <2>2
    <3> HIDE DEF N
    <3>2. lo = 1 /\ hi = N
      BY <3>1
    <3> QED
      BY <3>2 DEF N
  <2>4. SubSeq(s, 1, Len(s)) = s
    OBVIOUS
  <2> QED
    BY <1>3, <2>3, <2>4
<1> QED
  BY <1>2, <1>3, TrimFacts

(* A text without three newlines in a row is pushed as it is.                *)
LEMMA PushedIdle ==
    ASSUME NEW s \in Seq(Byte), NoThree(s)
    PROVE  Pushed(s)[Len(s)].bytes = s
<1> DEFINE P(m) == Pushed(s)[m]
           Good(m) == /\ P(m).bytes = SubSeq(s, 1, m)
                      /\ P(m).newlines >= 1 => m >= 1 /\ s[m] = "n"
                      /\ P(m).newlines >= 2 => m >= 2 /\ s[m - 1] = "n"
           T == {m \in Nat : m <= Len(s) => Good(m)}
<1>0. Len(s) \in Nat
  OBVIOUS
<1>1. 0 \in T
  <2>1. P(0) = [bytes |-> <<>>, newlines |-> 0]
    BY PushedDef
  <2>2. SubSeq(s, 1, 0) = <<>>
    OBVIOUS
  <2>3. P(0).bytes = <<>> /\ P(0).newlines = 0
    BY <2>1
  <2> HIDE DEF P
  <2>4. P(0).bytes = SubSeq(s, 1, 0)
    BY <2>2, <2>3, Zenon
  <2>5. ~(P(0).newlines >= 1) /\ ~(P(0).newlines >= 2)
    BY <2>3
  <2>6. Good(0)
    BY <2>4, <2>5
  <2> HIDE DEF Good
  <2> QED
    BY <2>6
<1>2. ASSUME NEW m \in Nat, m \in T PROVE m + 1 \in T
  <2> SUFFICES ASSUME m + 1 <= Len(s) PROVE Good(m + 1)
    OBVIOUS
  <2>1. m + 1 \in 1..Len(s) /\ m \in 0..Len(s) /\ (m + 1) - 1 = m /\ s[m + 1] \in Byte
    BY <1>0
  <2>2. P(m) \in Cleaning /\ P(m + 1) = PushNewline(P(m), s[m + 1])
    BY <2>1, PushedDef
  <2>3. Good(m)
    BY <1>2, <2>1
  <2> HIDE DEF P
  <2>4. Append(SubSeq(s, 1, m), s[m + 1]) = SubSeq(s, 1, m + 1)
    BY <2>1
  <2>5. CASE s[m + 1] # "n"
    <3>1. P(m + 1) = [bytes |-> SubSeq(s, 1, m + 1), newlines |-> 0]
      BY <2>2, <2>3, <2>4, <2>5 DEF PushNewline
    <3> QED
      BY <3>1
  <2>6. CASE s[m + 1] = "n"
    <3> DEFINE c == P(m).newlines
    <3>1. c \in Nat
      BY <2>2 DEF Cleaning
    <3>2. c < 2
      <4> SUFFICES ASSUME ~(c < 2) PROVE FALSE
        OBVIOUS
      <4>1. m >= 2 /\ s[m] = "n" /\ s[m - 1] = "n"
        BY <2>3, <3>1
      <4>2. m - 1 \in 1..(Len(s) - 2) /\ (m - 1) + 1 = m /\ (m - 1) + 2 = m + 1
        BY <1>0, <2>1, <4>1
      <4> QED
        BY <2>6, <4>1, <4>2 DEF NoThree
    <3>3. P(m + 1) = [bytes |-> SubSeq(s, 1, m + 1), newlines |-> c + 1]
      BY <2>2, <2>3, <2>4, <2>6, <3>2 DEF PushNewline
    <3>4. c + 1 >= 2 => m >= 1 /\ s[m] = "n"
      BY <2>3, <3>1
    <3> HIDE DEF c
    <3> QED
      BY <2>1, <2>6, <3>1, <3>3, <3>4
  <2> QED
    BY <2>5, <2>6
<1> HIDE DEF T
<1>3. Len(s) \in T
  BY <1>0, <1>1, <1>2, Induction
<1>4. P(Len(s)).bytes = SubSeq(s, 1, Len(s))
  BY <1>0, <1>3 DEF T
<1>5. SubSeq(s, 1, Len(s)) = s
  OBVIOUS
<1> QED
  BY <1>4, <1>5

(* What cleanup_md is for, of every text.                                    *)
LEMMA CleanupTidies ==
    ASSUME NEW s \in Seq(Byte)
    PROVE  LET md == CleanupMd(s)
           IN  /\ md \in Seq(Byte) /\ NoThree(md) /\ Ends(md)
               /\ Visible(md)[Len(md)] = Visible(s)[Len(s)]
               /\ CleanupMd(md) = md
<1> DEFINE b == Pushed(s)[Len(s)].bytes
           md == Trim(b)
<1>1. b \in Seq(Byte) /\ NoThree(b) /\ Visible(b)[Len(b)] = Visible(s)[Len(s)]
  BY PushedFacts
<1>2. CleanupMd(s) = md
  BY DEF CleanupMd
<1> HIDE DEF b
<1>3. md \in Seq(Byte) /\ NoThree(md) /\ Ends(md) /\ Visible(md)[Len(md)] = Visible(b)[Len(b)]
  BY <1>1, TrimTidies
<1> HIDE DEF md
<1>4. CleanupMd(md) = Trim(md)
  BY <1>3, PushedIdle DEF CleanupMd
<1>5. Trim(md) = md
  BY <1>3, TrimIdle
<1> QED
  BY <1>1, <1>2, <1>3, <1>4, <1>5

(* Of every text cleanup_md makes one with no three newlines in a row and no *)
(* blank ends, that shows what the text shows, and that it leaves as it is.  *)
THEOREM CleanupIsTidy == Spec => []CleanupTidy
<1>1. TypeOK => CleanupTidy
  <2> SUFFICES ASSUME TypeOK PROVE CleanupTidy
    OBVIOUS
  <2> DEFINE md == CleanupMd(text)
  <2>1. text \in Seq(Byte) /\ Length = Len(text)
    BY Facts
  <2>2. /\ NoThree(md) /\ Ends(md)
        /\ Visible(md)[Len(md)] = Visible(text)[Length]
        /\ CleanupMd(md) = md
    BY <2>1, CleanupTidies
  <2> HIDE DEF md
  <2>3. ASSUME NEW k \in 1..(Len(md) - 2) PROVE \E j \in k..(k + 2) : md[j] # "n"
    <3>1. k \in k..(k + 2) /\ k + 1 \in k..(k + 2) /\ k + 2 \in k..(k + 2)
      OBVIOUS
    <3>2. ~(md[k] = "n" /\ md[k + 1] = "n" /\ md[k + 2] = "n")
      BY <2>2 DEF NoThree
    <3> QED
      BY <3>1, <3>2
  <2> QED
    BY <2>2, <2>3 DEF CleanupTidy, Ends, md
<1> QED
  BY <1>1, TypeCorrect, PTL
=============================================================================
