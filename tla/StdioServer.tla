----------------------------- MODULE StdioServer -----------------------------
(* The stdio transport (src/server.rs): read_line_capped over a stream that  *)
(* arrives in arbitrary chunks, and run_stdio, which handles one line at a   *)
(* time and answers it before it reads on.                                   *)
EXTENDS Rpc, Sequences

CONSTANTS
    Inputs,         \* the streams a client may send, as sequences of lines
    EnabledSets,    \* the category sets the server may be started with
    MaxBytes,       \* config.server.max_request_bytes
    BufferCapacity  \* size of the BufReader's buffer

(* A line has the offset in the stream it starts at, its size in bytes, its  *)
(* newline included if it `ends` in one (only the last line of a stream may  *)
(* not), and the message it holds.  Lines follow each other without a gap.   *)
IsLine(line) ==
    line.from \in Nat /\ line.size \in Nat \ {0} /\ line.ends \in BOOLEAN /\ IsMessage(line.message)
IsStream(s) ==
    /\ \A i \in 1..Len(s) : IsLine(s[i])
    /\ s # <<>> => s[1].from = 0
    /\ \A i \in 2..Len(s) : s[i].from = s[i - 1].from + s[i - 1].size
    /\ \A i, j \in 1..Len(s) : i < j => s[i].ends /\ s[i].from + s[i].size <= s[j].from

ASSUME StdioAssumption ==
    /\ MaxBytes \in Nat \ {0} /\ BufferCapacity \in Nat \ {0}
    /\ EnabledSets \subseteq SUBSET Category
    /\ \A s \in Inputs : Len(s) \in Nat /\ IsStream(s)

VARIABLES
    input,      \* the lines of the stream, for reference
    enabled,    \* config.server.enabled_categories
    next,       \* index of the line being read
    buf,        \* bytes of it in read_buf
    avail,      \* bytes in the BufReader that are not consumed
    stage,      \* read, run (a tool is suspended) or why the loop has ended
    stdout,     \* the answers written, in order
    asked,      \* monitor: for each of them, the line it answers
    ran         \* the tools that were started

vars == <<input, enabled, next, buf, avail, stage, stdout, asked, ran>>

Line == input[next]
Left == Line.size - buf                 \* bytes of the line still to consume
Stopped == {"eof", "toolong", "failed"}

StreamSize == IF Len(input) = 0 THEN 0 ELSE input[Len(input)].from + input[Len(input)].size
Start == IF next \in 1..Len(input) THEN Line.from ELSE StreamSize
Unread == StreamSize - (Start + buf + avail)    \* bytes the stream has yet to deliver

Init ==
    /\ input \in Inputs
    /\ enabled \in EnabledSets
    /\ next = 1 /\ buf = 0 /\ avail = 0
    /\ stage = "read"
    /\ stdout = <<>> /\ asked = <<>>
    /\ ran = {}

Reply(answer) == stdout' = Append(stdout, answer) /\ asked' = Append(asked, next)
Silence == UNCHANGED <<stdout, asked>>

-----------------------------------------------------------------------------
(* fill_buf delivers whatever part of the stream has arrived.                *)
Fill ==
    /\ stage = "read" /\ avail = 0
    /\ \E n \in 1..BufferCapacity : n <= Unread /\ avail' = n
    /\ UNCHANGED <<input, enabled, next, buf, stage, stdout, asked, ran>>

HasNewline == avail > 0 /\ Line.ends /\ Left <= avail

BufferAll ==                        \* faulty: no cap until the newline is seen
    /\ stage = "read" /\ avail > 0 /\ ~HasNewline
    /\ buf' = buf + avail
    /\ avail' = 0
    /\ UNCHANGED <<input, enabled, next, stage, stdout, asked, ran>>

(* No newline in the chunk: keep all of it, unless that passes the cap.      *)
Buffer ==
    /\ stage = "read" /\ avail > 0 /\ ~HasNewline
    /\ buf + avail <= MaxBytes
    /\ buf' = buf + avail
    /\ avail' = 0
    /\ UNCHANGED <<input, enabled, next, stage, stdout, asked, ran>>

(* LineRead::TooLong, with or without the newline in sight: one error is     *)
(* written and the loop ends.                                                *)
TooLong ==
    /\ stage = "read" /\ avail > 0
    /\ buf + (IF HasNewline THEN Left ELSE avail) > MaxBytes
    /\ avail' = avail - (IF HasNewline THEN Left ELSE avail)
    /\ Reply(OversizeError)
    /\ stage' = "toolong"
    /\ UNCHANGED <<input, enabled, next, buf, ran>>

(* fill_buf is empty: end of the stream.                                     *)
Eof ==
    /\ stage = "read" /\ avail = 0 /\ buf = 0 /\ Unread = 0
    /\ stage' = "eof"
    /\ UNCHANGED <<input, enabled, next, buf, avail, stdout, asked, ran>>

ReadError ==
    /\ stage = "read" /\ avail = 0
    /\ stage' = "failed"
    /\ UNCHANGED <<input, enabled, next, buf, avail, stdout, asked, ran>>

WriteAlways(m, answer) == Reply(answer)    \* faulty: answers notifications too

(* A notification is processed like any request, but nothing is written.     *)
Write(m, answer) == IF IsNotification(m) THEN Silence ELSE Reply(answer)

CapsChunks ==                       \* faulty: the cap forgets the bytes buffered before
    \/ HasNewline /\ Left <= MaxBytes /\ avail' = avail - Left
    \/ avail = 0 /\ Unread = 0 /\ buf > 0 /\ UNCHANGED avail

WantsNewline == HasNewline /\ buf + Left <= MaxBytes /\ avail' = avail - Left   \* faulty

(* read_line_capped returns a line, ended by its newline or by the end of    *)
(* the stream, and process_one_line takes it as far as it gets at once.      *)
LineRead ==
    \/ HasNewline /\ buf + Left <= MaxBytes /\ avail' = avail - Left
    \/ avail = 0 /\ Unread = 0 /\ buf > 0 /\ UNCHANGED avail

Receive ==
    /\ stage = "read"
    /\ LineRead
    /\ LET m == Line.message IN
       IF m.form = "request" /\ RunsTool(m, enabled)
       THEN /\ stage' = "run"
            /\ ran' = ran \cup {m.tool}
            /\ buf' = Line.size
            /\ UNCHANGED next /\ Silence
       ELSE /\ IF m.form = "garbage" THEN Reply(ParseError) ELSE Write(m, Immediate(m, enabled))
            /\ next' = next + 1
            /\ buf' = 0
            /\ UNCHANGED <<stage, ran>>
    /\ UNCHANGED <<input, enabled>>

(* The tool answers, fails, or the deadline drops it; then the next line.    *)
NextLine ==
    /\ stage' = "read"
    /\ next' = next + 1
    /\ buf' = 0
    /\ UNCHANGED <<input, enabled, avail, ran>>

ToolDone ==
    /\ stage = "run"
    /\ \E ok \in BOOLEAN : Write(Line.message, ToolReply(Line.message, ok))
    /\ NextLine

Deadline ==
    /\ stage = "run"
    /\ Write(Line.message, TimeoutResponse(Line.message))
    /\ NextLine

Read == Fill \/ Buffer \/ TooLong \/ Eof \/ Receive
Next == Read \/ ReadError \/ ToolDone \/ Deadline

(* The stream is delivered and the deadline fires; no tool need ever answer. *)
Spec == Init /\ [][Next]_vars
FairSpec == Spec /\ WF_vars(Read) /\ WF_vars(Deadline)

-----------------------------------------------------------------------------
(* Every variable stays in its type; the line buffer never passes the cap.   *)
TypeOK ==
    /\ input \in Inputs /\ enabled \in EnabledSets
    /\ next \in 1..(Len(input) + 1)
    /\ buf \in 0..MaxBytes /\ avail \in 0..BufferCapacity
    /\ stage \in {"read", "run"} \cup Stopped
    /\ stdout \in Seq(Answer) /\ asked \in Seq(Nat)
    /\ ran \subseteq UNION {ToolsOf[c] : c \in Category}

Handled == 1..(next - 1)                \* the lines that are dealt with
IdOf(m) == IF m.form = "request" THEN m.id ELSE NoId

(* Every line handled is answered exactly once, in the order of the lines,   *)
(* with the id it asked under; notifications are not answered; and nothing   *)
(* follows the one error for an oversized line.                              *)
OneAnswerPerRequest ==
    LET owed == {i \in Handled : ~IsNotification(input[i].message)}
        oversized == IF stage = "toolong" THEN {next} ELSE {}
    IN  /\ DOMAIN asked = DOMAIN stdout
        /\ {asked[k] : k \in DOMAIN asked} = owed \cup oversized
        /\ \A k, l \in DOMAIN asked : k < l => asked[k] < asked[l]
        /\ \A k \in DOMAIN stdout :
              stdout[k].id = IF asked[k] \in Handled THEN IdOf(input[asked[k]].message) ELSE NoId

(* The cap decides by the line alone and not by the chunks it came in: every *)
(* line of at most MaxBytes bytes is handled, the first longer one stops     *)
(* the loop, and the end of the stream leaves no line behind.                *)
CapIsExact ==
    /\ \A i \in Handled : input[i].size <= MaxBytes
    /\ stage = "toolong" => Line.size > MaxBytes
    /\ stage = "eof" => Handled = 1..Len(input)

(* A tool runs only if tools/list shows it under the same configuration, and *)
(* a call is refused as unknown exactly when the list does not show it.      *)
CallableIffListed ==
    /\ ran \subseteq Listed(enabled)
    /\ \A k \in DOMAIN stdout :
          LET m == input[asked[k]].message IN
          asked[k] \in Handled /\ m.form = "request" /\ m.method = "tools/call" /\ m.tool # NoName
          => (stdout[k].kind = "error" <=> m.tool \notin Listed(enabled))

(* The server comes to the end of every stream, though tools may hang.       *)
EveryStreamEnds == <>(stage \in Stopped)
=============================================================================
