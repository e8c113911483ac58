----------------------------- MODULE Whitespace ------------------------------
(* collapse_whitespace and cleanup_md (src/actions/scrape.rs).  The first    *)
(* has three implementations that must agree: SSE2, NEON and a scalar one.   *)
(* A text is the sequence of its bytes by class; the code's chunk of 16      *)
(* bytes, and with it the 16 bits of the SSE2 lane mask, is Lanes here.  A   *)
(* mask is the set of the lanes whose bit is set.                            *)
EXTENDS Naturals, SequencesExt

CONSTANTS
    Texts,          \* the texts to process
    Paths,          \* which implementations: sse2, neon, generic
    Builds,         \* overflow checks on (debug) or off (release)
    Lanes           \* bytes per chunk

(* Bytes: text, whitespace, newline, vertical tab (is_ascii_whitespace does  *)
(* not count it), and the lead and continuation of a multi-byte character.   *)
Byte == {"t", "s", "n", "v", "lead", "cont"}
White == {"s", "n"}
NonAscii == {"lead", "cont"}
ValidUtf8(s) ==
    /\ s # <<>> => s[1] # "cont"
    /\ \A k \in DOMAIN s : (s[k] = "lead") <=> (k < Len(s) /\ s[k + 1] = "cont")

ASSUME WhitespaceAssumption ==
    /\ Lanes \in Nat \ {0, 1}
    /\ \A text \in Texts : text \in Seq(Byte) /\ ValidUtf8(text)
    /\ Paths \subseteq {"sse2", "neon", "generic"}
    /\ Builds \subseteq {"debug", "release"}

VARIABLES
    text, path, build,
    i,          \* bytes consumed
    from,       \* where the chunk that is being processed starts
    bits,       \* SSE2: the lanes of the mask left to walk, counted from i
    out,        \* the output
    space,      \* whether it ends in a collapsed space
    stage       \* chunk, scalar or walk (of one chunk), tail, done or panic

vars == <<text, path, build, i, from, bits, out, space, stage>>
input == <<text, path, build>>

Length == Len(text)
Slice(a, b) == SubSeq(text, a + 1, b)       \* s[a..b]

(* A position where s may be sliced.                                         *)
Boundary(p) == p <= Length /\ (p < Length => text[p + 1] # "cont")

PushStr(bytes) == out' = out \o bytes /\ space' = FALSE
PushSpace(bytes) ==         \* bytes, then a space unless one was just emitted
    /\ out' = IF space /\ bytes = <<>> THEN out ELSE Append(out \o bytes, "s")
    /\ space' = TRUE

Init ==
    /\ text \in Texts /\ path \in Paths /\ build \in Builds
    /\ i = 0 /\ from = 0 /\ bits = {}
    /\ out = <<>> /\ space = FALSE
    /\ stage = IF path = "generic" \/ Len(text) < Lanes THEN "tail" ELSE "chunk"

-----------------------------------------------------------------------------
(* utf8_seq_len; a lead byte starts a character of two bytes here.           *)
SeqLen(b) == IF b = "lead" THEN 2 ELSE 1

(* One turn of the loop of scalar_ws, which is the generic path's too: a     *)
(* character, which is taken whole though it may reach past the end.         *)
Turn ==
    LET b == text[i + 1]
        end == IF i + SeqLen(b) < Length THEN i + SeqLen(b) ELSE Length
    IN  IF b \in White THEN PushSpace(<<>>) /\ i' = i + 1
        ELSE PushStr(Slice(i, end)) /\ i' = end

ScalarTurn ==
    /\ \/ stage = "scalar" /\ i < from + Lanes
       \/ stage = "tail" /\ i < Length
    /\ Turn
    /\ UNCHANGED <<input, from, bits, stage>>

ScalarEnd ==
    /\ \/ stage = "scalar" /\ i >= from + Lanes /\ stage' = "chunk"
       \/ stage = "tail" /\ i >= Length /\ stage' = "done"
    /\ UNCHANGED <<input, i, from, bits, out, space>>

-----------------------------------------------------------------------------
Chunk == Slice(i, i + Lanes)
WhiteOrVt == {k \in 1..Lanes : Chunk[k] \in White \cup {"v"}}      \* faulty: 0x09..0x0D whole
WhiteLanes == {k \in 1..Lanes : Chunk[k] \in White}
Ascii == \A k \in 1..Lanes : Chunk[k] \notin NonAscii

(* Both SIMD paths hand a chunk with a non-ASCII byte to the scalar helper,  *)
(* and NEON one with whitespace as well.                                     *)
ScalarChunk ==
    /\ stage = "chunk" /\ i + Lanes <= Length
    /\ ~Ascii \/ (path = "neon" /\ WhiteLanes # {})
    /\ from' = i
    /\ stage' = "scalar"
    /\ UNCHANGED <<input, i, bits, out, space>>

BulkCopy ==
    /\ stage = "chunk" /\ i + Lanes <= Length
    /\ Ascii /\ WhiteLanes = {}
    /\ PushStr(Chunk)
    /\ i' = i + Lanes
    /\ UNCHANGED <<input, from, bits, stage>>

WalkAnyBytes ==                     \* faulty: walks chunks with multi-byte characters
    /\ stage = "chunk" /\ i + Lanes <= Length
    /\ path = "sse2" /\ WhiteLanes # {}
    /\ bits' = {k - 1 : k \in WhiteLanes} /\ from' = i
    /\ stage' = "walk"
    /\ UNCHANGED <<input, i, out, space>>

StartWalk ==
    /\ stage = "chunk" /\ i + Lanes <= Length
    /\ path = "sse2" /\ Ascii /\ WhiteLanes # {}
    /\ bits' = {k - 1 : k \in WhiteLanes} /\ from' = i
    /\ stage' = "walk"
    /\ UNCHANGED <<input, i, out, space>>

(* One turn of the loop over the mask: copy up to the next whitespace, emit  *)
(* a space unless one was just emitted, shift the mask past it.  The shift   *)
(* of a Lanes-bit number by Lanes panics with overflow checks and shifts by  *)
(* nothing without.                                                          *)
TrailingZeros(n) == n \in bits /\ \A k \in bits : n <= k
CanCopy(n) == n > 0 => Boundary(i) /\ Boundary(i + n)
Overflows(n) == n + 1 = Lanes
Shifted(n) == {k - n : k \in {j \in bits : j >= n}}

WalkPanic ==
    /\ stage = "walk"
    /\ \E n \in bits : TrailingZeros(n) /\ (~CanCopy(n) \/ (Overflows(n) /\ build = "debug"))
    /\ stage' = "panic"
    /\ UNCHANGED <<input, i, from, bits, out, space>>

WalkStep ==
    /\ stage = "walk"
    /\ \E n \in bits :
          /\ TrailingZeros(n) /\ CanCopy(n) /\ ~(Overflows(n) /\ build = "debug")
          /\ PushSpace(Slice(i, i + n))
          /\ i' = i + n + 1
          /\ bits' = IF Overflows(n) THEN bits ELSE Shifted(n + 1)
    /\ UNCHANGED <<input, from, stage>>

WalkEnd ==
    /\ stage = "walk" /\ bits = {}
    /\ IF i < from + Lanes
       THEN PushStr(Slice(i, from + Lanes)) /\ i' = from + Lanes
       ELSE UNCHANGED <<i, out, space>>
    /\ stage' = "chunk"
    /\ UNCHANGED <<input, from, bits>>

ChunksEnd ==
    /\ stage = "chunk" /\ i + Lanes > Length
    /\ stage' = "tail"
    /\ UNCHANGED <<input, i, from, bits, out, space>>

Next ==
    \/ ScalarTurn \/ ScalarEnd
    \/ ScalarChunk \/ BulkCopy \/ StartWalk
    \/ WalkStep \/ WalkPanic \/ WalkEnd
    \/ ChunksEnd

Spec == Init /\ [][Next]_vars

-----------------------------------------------------------------------------
ThreeNewlines(o, b) ==              \* faulty: counts to three
    IF b # "n" THEN [bytes |-> Append(o.bytes, b), newlines |-> 0]
    ELSE [bytes |-> IF o.newlines < 3 THEN Append(o.bytes, b) ELSE o.bytes,
          newlines |-> o.newlines + 1]

(* cleanup_md: no more than two newlines in a row, then trimmed.             *)
PushNewline(o, b) ==
    IF b # "n" THEN [bytes |-> Append(o.bytes, b), newlines |-> 0]
    ELSE [bytes |-> IF o.newlines < 2 THEN Append(o.bytes, b) ELSE o.bytes,
          newlines |-> o.newlines + 1]
Pushed(s) ==                                \* after each byte of the text
    LET o[n \in 0..Len(s)] ==
            IF n = 0 THEN [bytes |-> <<>>, newlines |-> 0] ELSE PushNewline(o[n - 1], s[n])
    IN  o
Blank == White \cup {"v"}                   \* what str::trim removes
Trim(s) ==
    LET kept == {k \in DOMAIN s : s[k] \notin Blank}
    IN  IF kept = {} THEN <<>>
        ELSE SubSeq(s, Min(kept), Max(kept))
CleanupMd(s) == Trim(Pushed(s)[Len(s)].bytes)

-----------------------------------------------------------------------------
(* What a text collapses to, without any loop: a run of whitespace shows as  *)
(* one space where it starts, every other byte as it is; and each of them at *)
(* the place that the number of those before it gives.  o is what the first  *)
(* n bytes of s collapse to.                                                 *)
Kept(s) == {k \in DOMAIN s : s[k] \in White => k = 1 \/ s[k - 1] \notin White}
Place(s, n) == Cardinality({k \in Kept(s) : k <= n})
Collapses(o, s, n) ==
    /\ Len(o) = Place(s, n)
    /\ \A k \in Kept(s) : k <= n => o[Place(s, k)] = (IF s[k] \in White THEN "s" ELSE s[k])

(* Every variable stays in its type.                                         *)
TypeOK ==
    /\ text \in Texts /\ path \in Paths /\ build \in Builds
    /\ i \in 0..(Length + 1) /\ from \in 0..Length
    /\ bits \subseteq 0..(Lanes - 1)
    /\ out \in Seq(Byte) /\ space \in BOOLEAN
    /\ stage \in {"chunk", "scalar", "walk", "tail", "done", "panic"}

(* "SIMD and scalar agree byte-for-byte regardless of input length, chunk    *)
(* alignment, or CPU architecture": whatever path finishes has collapsed the *)
(* text and nothing else, and it does not panic.                             *)
DoneAgrees == stage = "done" => Collapses(out, text, Length)
PathsAgree == DoneAgrees /\ stage # "panic"

(* The SSE2 walk can only fail on a chunk whose one whitespace byte is its   *)
(* last, and in no other text.                                               *)
FailsOnlyOnLoneLast == stage = "panic" => bits = {Lanes - 1}

(* The bytes of the first n of a text that are not blank.                    *)
Visible(s) ==
    LET o[n \in 0..Len(s)] ==
            IF n = 0 THEN <<>> ELSE IF s[n] \in Blank THEN o[n - 1] ELSE Append(o[n - 1], s[n])
    IN  o

(* Cleaned markdown has no three newlines in a row and no blank ends, keeps  *)
(* everything that is not blank, in order, and cleaning it again changes     *)
(* nothing.                                                                  *)
CleanupTidy ==
    LET md == CleanupMd(text) IN
    /\ \A k \in 1..(Len(md) - 2) : \E j \in k..(k + 2) : md[j] # "n"
    /\ md # <<>> => md[1] \notin Blank /\ md[Len(md)] \notin Blank
    /\ Visible(md)[Len(md)] = Visible(text)[Length]
    /\ CleanupMd(md) = md
=============================================================================
