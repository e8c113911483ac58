-------------------------- MODULE StdioServerProofs ---------------------------
(* Proofs about StdioServer, for every stream of lines, every cap and every  *)
(* size of the chunks it comes in.  The cap is arithmetic: what has been     *)
(* consumed of the stream is where the line starts and what is buffered of   *)
(* it, and chunks never reach past the end of the stream.                    *)
EXTENDS StdioServer, SequenceTheorems, TLAPS

(* Where the reader stands in the stream.                                    *)
Position ==
    /\ stage = "read" => Start + buf + avail <= StreamSize
    /\ stage = "read" /\ next <= Len(input) => buf <= Line.size /\ (Line.ends => buf < Line.size)
    /\ stage = "read" /\ next > Len(input) => buf = 0
    /\ stage = "run" =>
          /\ next <= Len(input) /\ buf = Line.size
          /\ Line.from + buf + avail <= StreamSize

(* The line that is being dealt with, when the loop waits for its tool and   *)
(* when it gave up on it.                                                    *)
Suspended ==
    /\ stage \in {"run", "toolong"} => next <= Len(input)
    /\ stage = "run" => Line.message.form = "request" /\ RunsTool(Line.message, enabled)

IInv ==
    /\ TypeOK
    /\ Position /\ CapIsExact
    /\ Suspended /\ OneAnswerPerRequest /\ CallableIffListed

-----------------------------------------------------------------------------
(* Lines follow each other, and the stream ends where the last one ends.     *)
LEMMA StreamFacts ==
    ASSUME TypeOK
    PROVE  /\ Len(input) \in Nat /\ StreamSize \in Nat
           /\ \A i \in 1..Len(input) :
                 /\ IsLine(input[i])
                 /\ input[i].from + input[i].size <= StreamSize
                 /\ i < Len(input) =>
                       /\ input[i].ends
                       /\ input[i].from + input[i].size < StreamSize
                       /\ input[i + 1].from = input[i].from + input[i].size
<1> DEFINE n == Len(input)
<1>1. n \in Nat /\ IsStream(input)
  BY StdioAssumption DEF TypeOK
<1> HIDE DEF n
<1>2. \A i \in 1..n : IsLine(input[i])
  BY <1>1 DEF IsStream, n
<1>3. StreamSize = IF n = 0 THEN 0 ELSE input[n].from + input[n].size
  BY DEF StreamSize, n
<1>4. StreamSize \in Nat
  BY <1>1, <1>2, <1>3 DEF IsLine
<1>5. \A i, j \in 1..n : i < j => input[i].ends /\ input[i].from + input[i].size <= input[j].from
  BY <1>1 DEF IsStream, n
<1>6. \A i \in 2..n : input[i].from = input[i - 1].from + input[i - 1].size
  BY <1>1 DEF IsStream, n
<1>7. ASSUME NEW i \in 1..n
      PROVE  /\ input[i].from + input[i].size <= StreamSize
             /\ i < n => /\ input[i].ends
                         /\ input[i].from + input[i].size < StreamSize
                         /\ input[i + 1].from = input[i].from + input[i].size
  <2>1. IsLine(input[i]) /\ IsLine(input[n]) /\ n \in 1..n /\ StreamSize = input[n].from + input[n].size
    BY <1>1, <1>2, <1>3
  <2>2. CASE i = n
    BY <2>1, <2>2 DEF IsLine
  <2>3. CASE i < n
    <3>1. input[i].ends /\ input[i].from + input[i].size <= input[n].from
      BY <1>5, <2>1, <2>3
    <3>2. i + 1 \in 2..n /\ (i + 1) - 1 = i
      BY <1>1, <2>3
    <3>3. input[i + 1].from = input[i].from + input[i].size
      BY <1>6, <3>2
    <3> QED
      BY <2>1, <3>1, <3>3 DEF IsLine
  <2> QED
    BY <1>1, <2>2, <2>3
<1> QED
  BY <1>1, <1>2, <1>4, <1>7 DEF n

(* What is known of the line that is being read.                             *)
LEMMA LineFacts ==
    ASSUME TypeOK, next <= Len(input)
    PROVE  /\ next \in 1..Len(input)
           /\ Line.from \in Nat /\ Line.size \in Nat /\ Line.size > 0 /\ Line.ends \in BOOLEAN
           /\ IsMessage(Line.message)
           /\ Start = Line.from /\ StreamSize \in Nat
           /\ Line.from + Line.size <= StreamSize
           /\ ~Line.ends => Line.from + Line.size = StreamSize
<1>1. next \in 1..Len(input)
  BY StreamFacts DEF TypeOK
<1>2. IsLine(Line) /\ Line.from + Line.size <= StreamSize /\ StreamSize \in Nat
  BY <1>1, StreamFacts DEF Line
<1>3. Start = Line.from
  BY <1>1 DEF Start
<1>4. next < Len(input) => Line.ends
  BY <1>1, StreamFacts DEF Line
<1>5. next = Len(input) => StreamSize = Line.from + Line.size
  BY <1>1 DEF Line, StreamSize
<1> QED
  BY <1>1, <1>2, <1>3, <1>4, <1>5, StreamFacts DEF IsLine

(* Past the last line there is nothing.                                      *)
LEMMA AfterLast ==
    ASSUME TypeOK, next > Len(input)
    PROVE  next = Len(input) + 1 /\ Start = StreamSize /\ StreamSize \in Nat
<1>1. next = Len(input) + 1 /\ StreamSize \in Nat /\ next \notin 1..Len(input)
  BY StreamFacts DEF TypeOK
<1> QED
  BY <1>1 DEF Start

(* The branches of read_line_capped: there is a line as long as there are    *)
(* bytes; a chunk without newline stays within it; and what is returned is   *)
(* the line, whole and within the cap.                                       *)
LEMMA ReadFacts ==
    ASSUME TypeOK, Position, stage = "read"
    PROVE  /\ avail > 0 => next <= Len(input)
           /\ avail > 0 /\ ~HasNewline =>
                 buf + avail <= Line.size /\ (Line.ends => buf + avail < Line.size)
           /\ LineRead =>
                 /\ next <= Len(input) /\ Line.size <= MaxBytes
                 /\ avail' \in 0..BufferCapacity
                 /\ Line.from + Line.size + avail' <= StreamSize
<1>0. buf \in Nat /\ buf <= MaxBytes /\ avail \in Nat /\ avail <= BufferCapacity
      /\ MaxBytes \in Nat /\ BufferCapacity \in Nat
  BY StdioAssumption DEF TypeOK
<1>1. next \in Nat /\ Len(input) \in Nat
  BY StreamFacts DEF TypeOK
<1>2. CASE next > Len(input)
  <2>1. buf = 0 /\ avail = 0
    BY <1>0, <1>2, AfterLast DEF Position
  <2> QED
    BY <2>1 DEF LineRead, HasNewline
<1>3. CASE next <= Len(input)
  <2>0. /\ Line.from \in Nat /\ Line.size \in Nat /\ Line.size > 0 /\ Line.ends \in BOOLEAN
        /\ Start = Line.from /\ StreamSize \in Nat
        /\ Line.from + Line.size <= StreamSize
        /\ ~Line.ends => Line.from + Line.size = StreamSize
    BY <1>3, LineFacts
  <2>1. /\ Line.from + buf + avail <= StreamSize
        /\ buf <= Line.size /\ (Line.ends => buf < Line.size)
    BY <1>3, <2>0 DEF Position
  <2>2. avail > 0 /\ ~HasNewline =>
           buf + avail <= Line.size /\ (Line.ends => buf + avail < Line.size)
    BY <1>0, <2>0, <2>1 DEF HasNewline, Left
  <2> DEFINE Whole ==
        /\ Line.size <= MaxBytes /\ avail' \in 0..BufferCapacity
        /\ Line.from + Line.size + avail' <= StreamSize
  <2>3. ASSUME HasNewline, buf + Left <= MaxBytes, avail' = avail - Left PROVE Whole
    <3>1. Left = Line.size - buf /\ Left <= avail
      BY <2>3 DEF HasNewline, Left
    <3>2. Left \in Nat /\ buf + Left = Line.size
      BY <1>0, <2>0, <2>1, <3>1
    <3> QED
      BY <1>0, <2>0, <2>1, <2>3, <3>1, <3>2
  <2>4. ASSUME avail = 0, Unread = 0, buf > 0, UNCHANGED avail PROVE Whole
    <3>1. StreamSize = Line.from + buf
      BY <1>0, <2>0, <2>4 DEF Unread
    <3>2. buf = Line.size
      BY <1>0, <2>0, <2>1, <3>1
    <3> QED
      BY <1>0, <2>0, <2>4, <3>1, <3>2
  <2>5. LineRead => Whole
    BY <2>3, <2>4 DEF LineRead
  <2> QED
    BY <1>3, <2>2, <2>5
<1> QED
  BY <1>1, <1>2, <1>3

(* Going on to the next line.                                                *)
LEMMA AdvanceKeepsPosition ==
    ASSUME TypeOK, next <= Len(input), input' = input,
           avail' \in Nat, Line.from + Line.size + avail' <= StreamSize,
           next' = next + 1, buf' = 0, stage' = "read"
    PROVE  Position'
<1>1. next \in 1..Len(input) /\ Len(input) \in Nat /\ StreamSize \in Nat
  BY LineFacts, StreamFacts
<1>2. StreamSize' = StreamSize
  BY DEF StreamSize
<1>3. CASE next < Len(input)
  <2>1. next' \in 1..Len(input) /\ IsLine(input[next'])
    BY <1>1, <1>3, StreamFacts
  <2>2. Start' = input[next'].from /\ Line' = input[next']
    BY <2>1 DEF Start, Line
  <2>3. input[next'].from = Line.from + Line.size
    BY <1>1, <1>3, StreamFacts DEF Line
  <2> QED
    BY <1>1, <1>2, <2>1, <2>2, <2>3 DEF Position, IsLine
<1>4. CASE next = Len(input)
  <2>1. next' \notin 1..Len(input)
    BY <1>1, <1>4
  <2>2. Start' = StreamSize
    BY <1>2, <2>1 DEF Start
  <2>3. StreamSize = Line.from + Line.size
    BY <1>1, <1>4 DEF StreamSize, Line
  <2>4. avail' = 0
    BY <1>1, <2>3, LineFacts
  <2> QED
    BY <1>1, <1>2, <1>4, <2>2, <2>4 DEF Position
<1> QED
  BY <1>1, <1>3, <1>4

(* The arithmetic of every action, the cap included.                         *)
LEMMA StepPosition ==
    ASSUME TypeOK, Position, CapIsExact, [Next]_vars
    PROVE  Position' /\ CapIsExact'
<1>0. /\ buf \in Nat /\ buf <= MaxBytes /\ avail \in Nat /\ avail <= BufferCapacity
      /\ MaxBytes \in Nat /\ BufferCapacity \in Nat
      /\ next \in Nat /\ next >= 1 /\ Len(input) \in Nat /\ StreamSize \in Nat
  BY StdioAssumption, StreamFacts DEF TypeOK
<1>1. ASSUME UNCHANGED <<input, next, stage>> PROVE CapIsExact'
  BY <1>1 DEF CapIsExact, Handled, Line
<1>2. ASSUME input' = input PROVE StreamSize' = StreamSize
  BY <1>2 DEF StreamSize
<1>3. ASSUME UNCHANGED <<input, next>> PROVE Start' = Start /\ Line' = Line
  BY <1>3 DEF Start, Line, StreamSize
<1>4. ASSUME next' = next + 1, input' = input, stage' = "read",
             next <= Len(input), Line.size <= MaxBytes
      PROVE  CapIsExact'
  <2>1. Handled' = Handled \cup {next}
    BY <1>0, <1>4 DEF Handled
  <2> QED
    BY <1>4, <2>1 DEF CapIsExact, Line
<1>5. CASE Fill
  <2>1. PICK n \in 1..BufferCapacity : n <= Unread /\ avail' = n
    BY <1>5 DEF Fill
  <2>2. UNCHANGED <<input, next, stage, buf>> /\ stage = "read" /\ avail = 0
    BY <1>5 DEF Fill
  <2>3. Start \in Nat
    BY <1>0, LineFacts, AfterLast
  <2>4. Start + buf + n <= StreamSize
    BY <1>0, <2>1, <2>2, <2>3 DEF Unread
  <2> QED
    BY <1>0, <1>1, <1>2, <1>3, <2>1, <2>2, <2>4 DEF Position
<1>6. CASE Buffer
  <2>1. /\ stage = "read" /\ avail > 0 /\ ~HasNewline
        /\ buf' = buf + avail /\ avail' = 0
        /\ UNCHANGED <<input, next, stage>>
    BY <1>6 DEF Buffer
  <2>2. /\ next <= Len(input)
        /\ buf + avail <= Line.size /\ (Line.ends => buf + avail < Line.size)
        /\ Start + buf + avail <= StreamSize /\ Start = Line.from /\ Line.from \in Nat
    BY <2>1, ReadFacts, LineFacts DEF Position
  <2> QED
    BY <1>0, <1>1, <1>2, <1>3, <2>1, <2>2 DEF Position
<1>7. CASE TooLong
  <2>1. /\ stage = "read" /\ avail > 0 /\ stage' = "toolong"
        /\ UNCHANGED <<input, next, buf>>
        /\ buf + (IF HasNewline THEN Left ELSE avail) > MaxBytes
    BY <1>7 DEF TooLong
  <2>2. next <= Len(input) /\ Line.size \in Nat
    BY <2>1, ReadFacts, LineFacts
  <2>3. Line.size > MaxBytes
    <3>1. CASE HasNewline
      BY <1>0, <2>1, <2>2, <3>1 DEF Left
    <3>2. CASE ~HasNewline
      <4>1. buf + avail <= Line.size
        BY <2>1, <3>2, ReadFacts
      <4> QED
        BY <1>0, <2>1, <2>2, <3>2, <4>1
    <3> QED
      BY <3>1, <3>2
  <2>4. CapIsExact'
    BY <1>3, <2>1, <2>3 DEF CapIsExact, Handled
  <2> QED
    BY <2>1, <2>4 DEF Position
<1>8. CASE Eof
  <2>1. /\ stage = "read" /\ avail = 0 /\ buf = 0 /\ Unread = 0 /\ stage' = "eof"
        /\ UNCHANGED <<input, next>>
    BY <1>8 DEF Eof
  <2>2. next = Len(input) + 1
    <3>1. CASE next <= Len(input)
      <4>1. Start = Line.from /\ Line.from \in Nat /\ Line.size > 0 /\ Line.size \in Nat
            /\ Line.from + Line.size <= StreamSize
        BY <3>1, LineFacts
      <4>2. FALSE
        BY <1>0, <2>1, <4>1 DEF Unread
      <4> QED
        BY <4>2
    <3> QED
      BY <1>0, <3>1 DEF TypeOK
  <2>3. Handled = 1..Len(input)
    BY <1>0, <2>2 DEF Handled
  <2> QED
    BY <2>1, <2>3 DEF Position, CapIsExact, Handled
<1>9. CASE ReadError
  BY <1>9 DEF ReadError, Position, CapIsExact, Handled
<1>10. CASE Receive
  <2>1. stage = "read" /\ LineRead /\ input' = input
    BY <1>10 DEF Receive
  <2>2. /\ next <= Len(input) /\ Line.size <= MaxBytes
        /\ avail' \in 0..BufferCapacity
        /\ Line.from + Line.size + avail' <= StreamSize
    BY <2>1, ReadFacts
  <2>3. CASE stage' = "run" /\ buf' = Line.size /\ next' = next
    BY <1>2, <1>3, <2>1, <2>2, <2>3 DEF Position, CapIsExact, Handled
  <2>4. CASE next' = next + 1 /\ buf' = 0 /\ stage' = stage
    <3>1. avail' \in Nat
      BY <1>0, <2>2
    <3> QED
      BY <1>4, <2>1, <2>2, <2>4, <3>1, AdvanceKeepsPosition
  <2> QED
    BY <1>10, <2>3, <2>4 DEF Receive
<1>11. CASE ToolDone \/ Deadline
  <2>1. stage = "run" /\ NextLine
    BY <1>11 DEF ToolDone, Deadline
  <2>2. /\ next <= Len(input) /\ buf = Line.size
        /\ Line.from + buf + avail <= StreamSize
    BY <2>1 DEF Position
  <2>3. stage' = "read" /\ next' = next + 1 /\ buf' = 0 /\ input' = input /\ avail' = avail
    BY <2>1 DEF NextLine
  <2> QED
    BY <1>0, <1>4, <2>2, <2>3, AdvanceKeepsPosition
<1>12. CASE UNCHANGED vars
  BY <1>1, <1>2, <1>3, <1>12 DEF vars, Position
<1> QED
  BY <1>5, <1>6, <1>7, <1>8, <1>9, <1>10, <1>11, <1>12 DEF Next, Read

-----------------------------------------------------------------------------
(* The list of tools and the table of categories name the same tools.        *)
LEMMA ListedFacts ==
    ASSUME TypeOK
    PROVE  \A t : Available(t, enabled) <=> t \in Listed(enabled)
<1>1. enabled \subseteq Category
  BY StdioAssumption DEF TypeOK
<1>2. \A c \in Category : ToolsOf[c] \subseteq Defined
  BY DEF Category, ToolsOf, Defined
<1> QED
  BY <1>1, <1>2 DEF Available, Listed

(* A reply is the last answer, and the others are as they were.              *)
LEMMA ReplyFacts ==
    ASSUME TypeOK, DOMAIN asked = DOMAIN stdout, NEW a \in Answer, Reply(a)
    PROVE  \E n \in Nat :
              /\ DOMAIN stdout = 1..n /\ DOMAIN asked = 1..n
              /\ DOMAIN stdout' = 1..(n + 1) /\ DOMAIN asked' = 1..(n + 1)
              /\ \A k \in 1..n : stdout'[k] = stdout[k] /\ asked'[k] = asked[k]
              /\ stdout'[n + 1] = a /\ asked'[n + 1] = next
              /\ stdout' \in Seq(Answer) /\ asked' \in Seq(Nat)
<1>1. stdout \in Seq(Answer) /\ asked \in Seq(Nat) /\ next \in Nat
  BY StreamFacts DEF TypeOK
<1>2. stdout' = Append(stdout, a) /\ asked' = Append(asked, next)
  BY DEF Reply
<1>3. /\ Len(stdout) \in Nat /\ DOMAIN stdout = 1..Len(stdout) /\ DOMAIN asked = 1..Len(asked)
      /\ Len(asked) = Len(stdout)
  BY <1>1
<1>4. /\ stdout' \in Seq(Answer) /\ Len(stdout') = Len(stdout) + 1
      /\ \A k \in 1..Len(stdout) : stdout'[k] = stdout[k]
      /\ stdout'[Len(stdout) + 1] = a
  BY <1>1, <1>2
<1>5. /\ asked' \in Seq(Nat) /\ Len(asked') = Len(asked) + 1
      /\ \A k \in 1..Len(asked) : asked'[k] = asked[k]
      /\ asked'[Len(asked) + 1] = next
  BY <1>1, <1>2
<1>6. DOMAIN stdout' = 1..(Len(stdout) + 1) /\ DOMAIN asked' = 1..(Len(stdout) + 1)
  BY <1>3, <1>4, <1>5
<1> QED
  BY <1>3, <1>4, <1>5, <1>6

(* The line is answered and the next one is read.                            *)
LEMMA AnsweredAndOn ==
    ASSUME TypeOK, OneAnswerPerRequest, CallableIffListed, next <= Len(input),
           stage # "toolong", stage' # "toolong",
           UNCHANGED <<input, enabled>>, next' = next + 1, ran' \subseteq Listed(enabled),
           NEW a \in Answer, Reply(a),
           ~IsNotification(Line.message), a.id = IdOf(Line.message),
           LET m == Line.message IN
              m.form = "request" /\ m.method = "tools/call" /\ m.tool # NoName
              => (a.kind = "error" <=> m.tool \notin Listed(enabled))
    PROVE  OneAnswerPerRequest' /\ CallableIffListed'
<1> DEFINE Owed == {i \in Handled : ~IsNotification(input[i].message)}
<1>1. DOMAIN asked = DOMAIN stdout
  BY DEF OneAnswerPerRequest
<1>2. PICK n \in Nat :
         /\ DOMAIN stdout = 1..n /\ DOMAIN asked = 1..n
         /\ DOMAIN stdout' = 1..(n + 1) /\ DOMAIN asked' = 1..(n + 1)
         /\ \A k \in 1..n : stdout'[k] = stdout[k] /\ asked'[k] = asked[k]
         /\ stdout'[n + 1] = a /\ asked'[n + 1] = next
  BY <1>1, ReplyFacts
<1>3. next \in Nat /\ next >= 1
  BY StreamFacts DEF TypeOK
<1>4. Handled' = Handled \cup {next} /\ \A i \in Handled : i \in Nat /\ i < next
  BY <1>3 DEF Handled
<1>5. Owed' = Owed \cup {next} /\ Owed \subseteq Handled
  BY <1>4 DEF Line
<1>6. /\ {asked[k] : k \in 1..n} = Owed
      /\ \A k, l \in 1..n : k < l => asked[k] < asked[l]
      /\ \A k \in 1..n :
            stdout[k].id = IF asked[k] \in Handled THEN IdOf(input[asked[k]].message) ELSE NoId
  BY <1>2 DEF OneAnswerPerRequest
<1>7. \A k \in 1..n : asked[k] \in Handled
  BY <1>5, <1>6
<1>8. \A k \in 1..(n + 1) : k \in 1..n \/ k = n + 1
  BY <1>2
<1>81. 1..n \subseteq 1..(n + 1) /\ n + 1 \in 1..(n + 1)
  BY <1>2
<1>9. {asked'[k] : k \in 1..(n + 1)} = Owed'
  <2>1. \A k \in 1..(n + 1) : asked'[k] \in Owed'
    BY <1>2, <1>5, <1>6, <1>8
  <2>2. ASSUME NEW i \in Owed' PROVE \E k \in 1..(n + 1) : asked'[k] = i
    <3>1. CASE i \in Owed
      BY <1>2, <1>6, <1>81, <3>1
    <3>2. CASE i = next
      BY <1>2, <1>81, <3>2
    <3> QED
      BY <1>5, <2>2, <3>1, <3>2
  <2> HIDE DEF Owed
  <2> QED
    BY <2>1, <2>2
<1>10. ASSUME NEW k \in 1..(n + 1), NEW l \in 1..(n + 1), k < l PROVE asked'[k] < asked'[l]
  <2>1. k \in 1..n
    BY <1>2, <1>10
  <2>2. CASE l \in 1..n
    BY <1>2, <1>6, <1>10, <2>1, <2>2
  <2>3. CASE l = n + 1
    BY <1>2, <1>4, <1>7, <2>1, <2>3
  <2> QED
    BY <1>8, <2>2, <2>3
<1>11. ASSUME NEW k \in 1..(n + 1)
       PROVE  /\ stdout'[k].id = IdOf(input[asked'[k]].message)
              /\ asked'[k] \in Handled'
              /\ LET m == input[asked'[k]].message IN
                    m.form = "request" /\ m.method = "tools/call" /\ m.tool # NoName
                    => (stdout'[k].kind = "error" <=> m.tool \notin Listed(enabled))
  <2>1. CASE k \in 1..n
    <3>1. /\ stdout[k].id = IdOf(input[asked[k]].message) /\ asked[k] \in Handled
          /\ stdout'[k] = stdout[k] /\ asked'[k] = asked[k]
      BY <1>2, <1>6, <1>7, <2>1
    <3>2. LET m == input[asked[k]].message IN
             m.form = "request" /\ m.method = "tools/call" /\ m.tool # NoName
             => (stdout[k].kind = "error" <=> m.tool \notin Listed(enabled))
      BY <1>2, <2>1, <3>1 DEF CallableIffListed
    <3> QED
      BY <1>4, <3>1, <3>2
  <2>2. CASE k = n + 1
    BY <1>2, <1>4, <2>2 DEF Line
  <2> QED
    BY <1>8, <2>1, <2>2
<1>12. OneAnswerPerRequest'
  <2>1. \A k \in DOMAIN stdout' :
           stdout'[k].id = IF asked'[k] \in Handled' THEN IdOf(input[asked'[k]].message) ELSE NoId
    BY <1>2, <1>11
  <2> QED
    BY <1>2, <1>9, <1>10, <2>1 DEF OneAnswerPerRequest
<1>13. CallableIffListed'
  BY <1>2, <1>11 DEF CallableIffListed
<1> QED
  BY <1>12, <1>13

(* A notification is passed over.                                            *)
LEMMA SilentlyOn ==
    ASSUME TypeOK, OneAnswerPerRequest, CallableIffListed, next <= Len(input),
           stage # "toolong", stage' # "toolong",
           UNCHANGED <<input, enabled>>, next' = next + 1, ran' \subseteq Listed(enabled),
           Silence, IsNotification(Line.message)
    PROVE  OneAnswerPerRequest' /\ CallableIffListed'
<1> DEFINE Owed == {i \in Handled : ~IsNotification(input[i].message)}
<1>1. Handled' = Handled \cup {next} /\ Handled \subseteq Handled'
  BY StreamFacts DEF TypeOK, Handled
<1>2. Owed' = Owed /\ Owed \subseteq Handled
  BY <1>1 DEF Line
<1>3. stdout' = stdout /\ asked' = asked
  BY DEF Silence
<1>4. \A k \in DOMAIN asked : asked[k] \in Handled
  BY <1>2 DEF OneAnswerPerRequest
<1>5. OneAnswerPerRequest'
  BY <1>1, <1>2, <1>3, <1>4 DEF OneAnswerPerRequest
<1>6. CallableIffListed'
  <2>1. DOMAIN asked = DOMAIN stdout
    BY DEF OneAnswerPerRequest
  <2> QED
    BY <1>1, <1>3, <1>4, <2>1 DEF CallableIffListed
<1> QED
  BY <1>5, <1>6

(* The one error for an oversized line answers it and nothing after it.      *)
LEMMA RefusedAtTheCap ==
    ASSUME TypeOK, OneAnswerPerRequest, CallableIffListed, next <= Len(input), TooLong
    PROVE  OneAnswerPerRequest' /\ CallableIffListed'
<1> DEFINE Owed == {i \in Handled : ~IsNotification(input[i].message)}
<1>1. /\ stage = "read" /\ stage' = "toolong" /\ UNCHANGED <<input, enabled, next, ran>>
      /\ Reply(OversizeError) /\ OversizeError \in Answer /\ OversizeError.id = NoId
  BY DEF TooLong, OversizeError, Error, Answer, NoId, InvalidParamsCode
<1>2. DOMAIN asked = DOMAIN stdout
  BY DEF OneAnswerPerRequest
<1>3. PICK n \in Nat :
         /\ DOMAIN stdout = 1..n /\ DOMAIN asked = 1..n
         /\ DOMAIN stdout' = 1..(n + 1) /\ DOMAIN asked' = 1..(n + 1)
         /\ \A k \in 1..n : stdout'[k] = stdout[k] /\ asked'[k] = asked[k]
         /\ stdout'[n + 1] = OversizeError /\ asked'[n + 1] = next
  BY <1>1, <1>2, ReplyFacts
<1>4. /\ next \in Nat /\ Handled' = Handled /\ next \notin Handled
      /\ \A i \in Handled : i \in Nat /\ i < next
  BY <1>1, StreamFacts DEF TypeOK, Handled
<1>5. Owed' = Owed /\ Owed \subseteq Handled
  BY <1>1, <1>4
<1>6. /\ {asked[k] : k \in 1..n} = Owed
      /\ \A k, l \in 1..n : k < l => asked[k] < asked[l]
      /\ \A k \in 1..n :
            stdout[k].id = IF asked[k] \in Handled THEN IdOf(input[asked[k]].message) ELSE NoId
  BY <1>1, <1>3 DEF OneAnswerPerRequest
<1>7. \A k \in 1..n : asked[k] \in Handled
  BY <1>5, <1>6
<1>8. /\ \A k \in 1..(n + 1) : k \in 1..n \/ k = n + 1
      /\ 1..n \subseteq 1..(n + 1) /\ n + 1 \in 1..(n + 1)
  BY <1>3
<1>9. {asked'[k] : k \in 1..(n + 1)} = Owed' \cup {next}
  <2>1. \A k \in 1..(n + 1) : asked'[k] \in Owed' \cup {next}
    BY <1>3, <1>5, <1>6, <1>8
  <2>2. ASSUME NEW i \in Owed' \cup {next} PROVE \E k \in 1..(n + 1) : asked'[k] = i
    <3>1. CASE i \in Owed
      BY <1>3, <1>6, <1>8, <3>1
    <3>2. CASE i = next
      BY <1>3, <1>8, <3>2
    <3> QED
      BY <1>5, <2>2, <3>1, <3>2
  <2> HIDE DEF Owed
  <2> QED
    BY <2>1, <2>2
<1>10. ASSUME NEW k \in 1..(n + 1), NEW l \in 1..(n + 1), k < l PROVE asked'[k] < asked'[l]
  <2>1. k \in 1..n
    BY <1>3, <1>10
  <2>2. CASE l \in 1..n
    BY <1>3, <1>6, <1>10, <2>1, <2>2
  <2>3. CASE l = n + 1
    BY <1>3, <1>4, <1>7, <2>1, <2>3
  <2> QED
    BY <1>8, <2>2, <2>3
<1>11. \A k \in 1..(n + 1) :
          stdout'[k].id = IF asked'[k] \in Handled' THEN IdOf(input[asked'[k]].message) ELSE NoId
  BY <1>1, <1>3, <1>4, <1>6, <1>8
<1>12. OneAnswerPerRequest'
  BY <1>1, <1>3, <1>9, <1>10, <1>11 DEF OneAnswerPerRequest
<1>13. CallableIffListed'
  BY <1>1, <1>3, <1>4, <1>8 DEF CallableIffListed
<1> QED
  BY <1>12, <1>13

(* What every answer to a request looks like: it carries its id, and it is a *)
(* protocol error to a named tool only if no tool was run.                   *)
LEMMA AnswerFacts ==
    ASSUME NEW m, IsMessage(m), m.form = "request"
    PROVE  /\ IdOf(m) = m.id /\ m # Garbage
           /\ \A ok \in BOOLEAN :
                 ToolReply(m, ok) \in Answer /\ ToolReply(m, ok).id = m.id
                 /\ ToolReply(m, ok).kind # "error"
           /\ TimeoutResponse(m) \in Answer /\ TimeoutResponse(m).id = m.id
           /\ TimeoutResponse(m).kind # "error"
           /\ Immediate(m, enabled) \in Answer /\ Immediate(m, enabled).id = m.id
           /\ m.method = "tools/call" /\ m.tool # NoName => Immediate(m, enabled).kind = "error"
<1>1. m # Garbage /\ m.id \in Nat
  BY DEF IsMessage, Garbage
<1>2. ToolError(m.id) \in Answer /\ Success(m.id) \in Answer
  BY <1>1 DEF ToolError, Success, Answer
<1>3. Error(m.id, InvalidParamsCode) \in Answer /\ Error(m.id, MethodNotFoundCode) \in Answer
  BY <1>1 DEF Error, Answer, InvalidParamsCode, MethodNotFoundCode
<1>4. /\ ToolError(m.id).id = m.id /\ ToolError(m.id).kind = "isError"
      /\ Success(m.id).id = m.id /\ Success(m.id).kind = "result"
      /\ \A c : Error(m.id, c).id = m.id /\ Error(m.id, c).kind = "error"
  BY DEF ToolError, Success, Error
<1>5. "tools/call" \notin Plain
  BY DEF Plain
<1>6. \A ok \in BOOLEAN :
         ToolReply(m, ok) \in Answer /\ ToolReply(m, ok).id = m.id /\ ToolReply(m, ok).kind # "error"
  BY <1>2, <1>4 DEF ToolReply
<1>7. /\ Immediate(m, enabled) \in Answer /\ Immediate(m, enabled).id = m.id
      /\ m.method = "tools/call" /\ m.tool # NoName => Immediate(m, enabled).kind = "error"
  BY <1>2, <1>3, <1>4, <1>5 DEF Immediate
<1> QED
  BY <1>1, <1>2, <1>4, <1>6, <1>7 DEF IdOf, TimeoutResponse

(* The loop as it goes on: what is answered, and that a tool that is run is  *)
(* a tool of the list.                                                       *)
LEMMA StepAnswers ==
    ASSUME IInv, [Next]_vars
    PROVE  Suspended' /\ OneAnswerPerRequest' /\ CallableIffListed'
<1> USE DEF IInv
<1>1. ASSUME UNCHANGED <<input, enabled, next, stdout, asked>>, ran' \subseteq Listed(enabled),
             stage' = "toolong" <=> stage = "toolong"
      PROVE  OneAnswerPerRequest' /\ CallableIffListed'
  <2>1. Handled' = Handled
    BY <1>1 DEF Handled
  <2>2. OneAnswerPerRequest'
    BY <1>1, <2>1 DEF OneAnswerPerRequest
  <2> QED
    BY <1>1, <2>1, <2>2 DEF CallableIffListed
<1>2. ran \subseteq Listed(enabled)
  BY DEF CallableIffListed
<1>3. CASE Fill \/ Buffer \/ Eof \/ ReadError
  <2>1. UNCHANGED <<input, enabled, next, stdout, asked, ran>> /\ stage = "read"
        /\ stage' \in {"read", "eof", "failed"}
    BY <1>3 DEF Fill, Buffer, Eof, ReadError
  <2> QED
    BY <1>1, <1>2, <2>1 DEF Suspended
<1>4. CASE TooLong
  <2>1. stage = "read" /\ avail > 0 /\ stage' = "toolong" /\ UNCHANGED <<input, next>>
    BY <1>4 DEF TooLong
  <2>2. next <= Len(input)
    BY <2>1, ReadFacts
  <2> QED
    BY <1>4, <2>1, <2>2, RefusedAtTheCap DEF Suspended
<1>5. CASE Receive
  <2> DEFINE m == Line.message
  <2>1. stage = "read" /\ LineRead /\ UNCHANGED <<input, enabled>>
    BY <1>5 DEF Receive
  <2>2. next <= Len(input) /\ IsMessage(m)
    BY <2>1, ReadFacts, LineFacts
  <2>3. m.form \in {"garbage", "request"}
    BY <2>2 DEF IsMessage, Garbage
  <2>4. CASE m.form = "request" /\ RunsTool(m, enabled)
    <3>1. stage' = "run" /\ ran' = ran \cup {m.tool} /\ next' = next /\ Silence
      BY <1>5, <2>4 DEF Receive
    <3>2. m.tool \in Listed(enabled)
      BY <2>4, ListedFacts DEF RunsTool
    <3>3. Line' = Line
      BY <2>1, <3>1 DEF Line
    <3>4. Suspended'
      BY <2>1, <2>2, <2>4, <3>1, <3>3 DEF Suspended
    <3> QED
      BY <1>1, <1>2, <2>1, <3>1, <3>2, <3>4 DEF Silence
  <2>5. CASE m.form = "garbage"
    <3>1. Reply(ParseError) /\ next' = next + 1 /\ UNCHANGED <<stage, ran>>
      BY <1>5, <2>5 DEF Receive
    <3>2. ParseError \in Answer /\ ParseError.id = NoId
      BY DEF ParseError, Error, Answer, NoId, ParseErrorCode
    <3>3. ~IsNotification(m) /\ IdOf(m) = NoId /\ m.form # "request"
      BY <2>5 DEF IsNotification, IdOf
    <3> QED
      BY <1>2, <2>1, <2>2, <3>1, <3>2, <3>3, AnsweredAndOn DEF Suspended
  <2>6. CASE m.form = "request" /\ ~RunsTool(m, enabled)
    <3> DEFINE a == Immediate(m, enabled)
    <3>1. Write(m, a) /\ next' = next + 1 /\ UNCHANGED <<stage, ran>>
      BY <1>5, <2>6 DEF Receive
    <3>2. /\ a \in Answer /\ a.id = IdOf(m)
          /\ m.method = "tools/call" /\ m.tool # NoName => a.kind = "error"
      BY <2>2, <2>6, AnswerFacts
    <3>3. m.method = "tools/call" /\ m.tool # NoName => m.tool \notin Listed(enabled)
      BY <2>6, ListedFacts DEF RunsTool
    <3>4. Suspended'
      BY <2>1, <3>1 DEF Suspended
    <3>5. CASE IsNotification(m)
      BY <1>2, <2>1, <2>2, <3>1, <3>4, <3>5, SilentlyOn DEF Write
    <3>6. CASE ~IsNotification(m)
      <4>1. Reply(a)
        BY <3>1, <3>6 DEF Write
      <4> HIDE DEF a
      <4> QED
        BY <1>2, <2>1, <2>2, <3>1, <3>2, <3>3, <3>4, <3>6, <4>1, AnsweredAndOn
    <3> QED
      BY <3>5, <3>6
  <2> QED
    BY <2>3, <2>4, <2>5, <2>6
<1>6. CASE ToolDone \/ Deadline
  <2> DEFINE m == Line.message
  <2>1. stage = "run" /\ NextLine
    BY <1>6 DEF ToolDone, Deadline
  <2>2. /\ next <= Len(input) /\ m.form = "request" /\ RunsTool(m, enabled)
        /\ IsMessage(m)
    BY <2>1, LineFacts DEF Suspended
  <2>3. PICK a \in Answer : Write(m, a) /\ a.id = IdOf(m) /\ a.kind # "error"
    <3>1. CASE ToolDone
      <4>1. PICK ok \in BOOLEAN : Write(m, ToolReply(m, ok))
        BY <3>1 DEF ToolDone
      <4> QED
        BY <2>2, <4>1, AnswerFacts
    <3>2. CASE Deadline
      BY <2>2, <3>2, AnswerFacts DEF Deadline
    <3> QED
      BY <1>6, <3>1, <3>2
  <2>4. stage' = "read" /\ next' = next + 1 /\ UNCHANGED <<input, enabled, ran>>
    BY <2>1 DEF NextLine
  <2>5. m.tool \in Listed(enabled)
    BY <2>2, ListedFacts DEF RunsTool
  <2>6. Suspended'
    BY <2>4 DEF Suspended
  <2>7. CASE IsNotification(m)
    BY <1>2, <2>1, <2>2, <2>3, <2>4, <2>6, <2>7, SilentlyOn DEF Write
  <2>8. CASE ~IsNotification(m)
    <3>1. Reply(a)
      BY <2>3, <2>8 DEF Write
    <3> QED
      BY <1>2, <2>1, <2>2, <2>3, <2>4, <2>5, <2>6, <2>8, <3>1, AnsweredAndOn
  <2> QED
    BY <2>7, <2>8
<1>7. CASE UNCHANGED vars
  BY <1>1, <1>2, <1>7 DEF vars, Suspended, Line
<1> QED
  BY <1>3, <1>4, <1>5, <1>6, <1>7 DEF Next, Read

(* Types need to know where the reader stands in the stream.                 *)
LEMMA StepTypes ==
    ASSUME TypeOK, Position, Suspended, DOMAIN asked = DOMAIN stdout, [Next]_vars
    PROVE  TypeOK'
<1>0. /\ buf \in Nat /\ buf <= MaxBytes /\ avail \in Nat /\ avail <= BufferCapacity
      /\ MaxBytes \in Nat /\ BufferCapacity \in Nat
      /\ next \in Nat /\ next >= 1 /\ Len(input) \in Nat
  BY StdioAssumption, StreamFacts DEF TypeOK
<1>1. ASSUME NEW a \in Answer, Reply(a) PROVE stdout' \in Seq(Answer) /\ asked' \in Seq(Nat)
  BY <1>1, ReplyFacts
<1>2. ASSUME NEW a \in Answer, Write(Line.message, a)
      PROVE  stdout' \in Seq(Answer) /\ asked' \in Seq(Nat)
  <2>1. CASE IsNotification(Line.message)
    BY <1>2, <2>1 DEF Write, Silence, TypeOK
  <2>2. CASE ~IsNotification(Line.message)
    BY <1>1, <1>2, <2>2 DEF Write
  <2> QED
    BY <2>1, <2>2
<1>3. next <= Len(input) => next + 1 \in 1..(Len(input) + 1)
  BY <1>0
<1>4. CASE Fill \/ Eof \/ ReadError
  BY <1>4 DEF Fill, Eof, ReadError, TypeOK, Stopped
<1>5. CASE Buffer
  <2>1. buf' \in 0..MaxBytes /\ avail' \in 0..BufferCapacity
    BY <1>0, <1>5 DEF Buffer
  <2> QED
    BY <1>5, <2>1 DEF Buffer, TypeOK
<1>6. CASE TooLong
  <2>1. OversizeError \in Answer
    BY DEF OversizeError, Error, Answer, NoId, InvalidParamsCode
  <2>2. avail' \in 0..BufferCapacity
    <3>1. CASE HasNewline
      <4>1. avail' = avail - Left /\ Left <= avail /\ stage = "read" /\ avail > 0
        BY <1>6, <3>1 DEF TooLong, HasNewline
      <4>2. Left \in Nat
        <5>1. next <= Len(input) /\ Line.size \in Nat
          BY <4>1, ReadFacts, LineFacts
        <5> QED
          BY <1>0, <4>1, <5>1 DEF Position, Left
      <4> QED
        BY <1>0, <4>1, <4>2
    <3>2. CASE ~HasNewline
      BY <1>0, <1>6, <3>2 DEF TooLong
    <3> QED
      BY <3>1, <3>2
  <2>3. stdout' \in Seq(Answer) /\ asked' \in Seq(Nat)
    BY <1>1, <1>6, <2>1 DEF TooLong
  <2> QED
    BY <1>6, <2>2, <2>3 DEF TooLong, TypeOK, Stopped
<1>7. CASE Receive
  <2> DEFINE m == Line.message
  <2>1. stage = "read" /\ LineRead /\ UNCHANGED <<input, enabled>>
    BY <1>7 DEF Receive
  <2>2. /\ next <= Len(input) /\ Line.size \in 0..MaxBytes /\ IsMessage(m)
        /\ avail' \in 0..BufferCapacity
    BY <1>0, <2>1, ReadFacts, LineFacts
  <2>3. CASE m.form = "request" /\ RunsTool(m, enabled)
    <3>1. /\ stage' = "run" /\ ran' = ran \cup {m.tool} /\ next' = next /\ Silence
          /\ buf' = Line.size
      BY <1>7, <2>3 DEF Receive
    <3>2. m.tool \in UNION {ToolsOf[c] : c \in Category}
      BY <2>3, StdioAssumption DEF RunsTool, Available, TypeOK
    <3> QED
      BY <2>1, <2>2, <3>1, <3>2 DEF TypeOK, Silence
  <2>4. CASE ~(m.form = "request" /\ RunsTool(m, enabled))
    <3>1. /\ IF m.form = "garbage" THEN Reply(ParseError) ELSE Write(m, Immediate(m, enabled))
          /\ next' = next + 1 /\ buf' = 0 /\ UNCHANGED <<stage, ran>>
      BY <1>7, <2>4 DEF Receive
    <3>2. m.form \in {"garbage", "request"}
      BY <2>2 DEF IsMessage, Garbage
    <3>3. CASE m.form = "garbage"
      <4>1. ParseError \in Answer
        BY DEF ParseError, Error, Answer, NoId, ParseErrorCode
      <4>2. stdout' \in Seq(Answer) /\ asked' \in Seq(Nat)
        BY <1>1, <3>1, <3>3, <4>1
      <4> QED
        BY <1>0, <1>3, <2>1, <2>2, <3>1, <4>2 DEF TypeOK
    <3>4. CASE m.form = "request"
      <4>1. Immediate(m, enabled) \in Answer
        BY <2>2, <3>4, AnswerFacts
      <4>2. stdout' \in Seq(Answer) /\ asked' \in Seq(Nat)
        BY <1>2, <3>1, <3>4, <4>1
      <4> QED
        BY <1>0, <1>3, <2>1, <2>2, <3>1, <4>2 DEF TypeOK
    <3> QED
      BY <3>2, <3>3, <3>4
  <2> QED
    BY <2>3, <2>4
<1>8. CASE ToolDone \/ Deadline
  <2> DEFINE m == Line.message
  <2>1. stage = "run" /\ NextLine
    BY <1>8 DEF ToolDone, Deadline
  <2>2. next <= Len(input) /\ m.form = "request" /\ IsMessage(m)
    BY <2>1, LineFacts DEF Suspended
  <2>3. stdout' \in Seq(Answer) /\ asked' \in Seq(Nat)
    <3>1. CASE ToolDone
      <4>1. PICK ok \in BOOLEAN : Write(m, ToolReply(m, ok))
        BY <3>1 DEF ToolDone
      <4> QED
        BY <1>2, <2>2, <4>1, AnswerFacts
    <3>2. CASE Deadline
      BY <1>2, <2>2, <3>2, AnswerFacts DEF Deadline
    <3> QED
      BY <1>8, <3>1, <3>2
  <2> QED
    BY <1>0, <1>3, <2>1, <2>2, <2>3 DEF NextLine, TypeOK
<1>9. CASE UNCHANGED vars
  BY <1>9 DEF vars, TypeOK
<1> QED
  BY <1>4, <1>5, <1>6, <1>7, <1>8, <1>9 DEF Next, Read

-----------------------------------------------------------------------------
(* The invariant holds before the first byte.                                *)
LEMMA InitIInv == Init => IInv
<1> SUFFICES ASSUME Init PROVE IInv
  OBVIOUS
<1>1. Len(input) \in Nat /\ MaxBytes \in Nat /\ BufferCapacity \in Nat
  BY StdioAssumption DEF Init
<1>2. stdout \in Seq(Answer) /\ asked \in Seq(Nat) /\ DOMAIN stdout = {} /\ DOMAIN asked = {}
  BY DEF Init
<1>3. TypeOK
  BY <1>1, <1>2 DEF Init, TypeOK
<1>4. Handled = {}
  BY DEF Init, Handled
<1>5. Position
  <2>1. CASE next <= Len(input)
    <3>1. /\ Start = Line.from /\ Line.from \in Nat /\ Line.size \in Nat /\ Line.size > 0
          /\ StreamSize \in Nat /\ Line.from + Line.size <= StreamSize
      BY <1>3, <2>1, LineFacts
    <3> QED
      BY <1>1, <2>1, <3>1 DEF Init, Position
  <2>2. CASE next > Len(input)
    BY <1>1, <1>3, <2>2, AfterLast DEF Init, Position
  <2> QED
    BY <1>1, <2>1, <2>2 DEF Init
<1>6. CapIsExact /\ Suspended
  BY <1>4 DEF Init, CapIsExact, Suspended
<1>7. OneAnswerPerRequest
  BY <1>2, <1>4 DEF Init, OneAnswerPerRequest
<1>8. CallableIffListed
  BY <1>2, <1>4 DEF Init, CallableIffListed
<1> QED
  BY <1>3, <1>5, <1>6, <1>7, <1>8 DEF IInv

(* The inductive invariant holds in every reachable state.                   *)
THEOREM Invariance == Spec => []IInv
<1>1. IInv /\ [Next]_vars => IInv'
  <2> SUFFICES ASSUME IInv, [Next]_vars PROVE IInv'
    OBVIOUS
  <2>1. TypeOK'
    BY StepTypes DEF IInv, OneAnswerPerRequest
  <2>2. Position' /\ CapIsExact'
    BY StepPosition DEF IInv
  <2>3. Suspended' /\ OneAnswerPerRequest' /\ CallableIffListed'
    BY StepAnswers
  <2> QED
    BY <2>1, <2>2, <2>3 DEF IInv
<1> QED
  BY InitIInv, <1>1, PTL DEF Spec

(* The variables keep their types; in particular the line buffer never holds *)
(* more than MaxBytes, whatever the chunks are.                              *)
THEOREM TypeCorrect == Spec => []TypeOK
<1>1. IInv => TypeOK
  BY DEF IInv
<1> QED
  BY <1>1, Invariance, PTL

(* The cap decides by the line alone: lines within it are handled, the first *)
(* longer one ends the loop, and the end of the stream leaves no line.       *)
THEOREM CapExact == Spec => []CapIsExact
<1>1. IInv => CapIsExact
  BY DEF IInv
<1> QED
  BY <1>1, Invariance, PTL

(* Every line is answered once, in order, under its id; notifications never. *)
THEOREM AnsweredOnce == Spec => []OneAnswerPerRequest
<1>1. IInv => OneAnswerPerRequest
  BY DEF IInv
<1> QED
  BY <1>1, Invariance, PTL

(* What runs is listed, and what is refused as unknown is not.               *)
THEOREM CallableListed == Spec => []CallableIffListed
<1>1. IInv => CallableIffListed
  BY DEF IInv
<1> QED
  BY <1>1, Invariance, PTL
=============================================================================
