---------------------------- MODULE MCStdioServer ----------------------------
(* Instances of StdioServer for TLC.                                         *)
EXTENDS StdioServer, FiniteSetsExt

CONSTANT MaxSize        \* bound on the size of a line in the reader's runs

Numbered(i) == IF i = 2 THEN NoId ELSE i
ALine(from, size, ends, m) == [from |-> from, size |-> size, ends |-> ends, message |-> m]

(* Streams of at most three lines of every size up to MaxSize; the last may  *)
(* lack its newline.                                                         *)
Sized ==
    LET Offset(f, i) == MapThenSumSet(LAMBDA j : f[j], 1..(i - 1))
        Texts(n) == {[i \in 1..n |->
                        ALine(Offset(f, i), f[i], i < n \/ last, Request(Numbered(i), "ping", NoName))] :
                     f \in [1..n -> 1..MaxSize], last \in BOOLEAN}
    IN  UNION {Texts(n) : n \in 0..3}

(* Two lines of one byte: everything the dispatch can tell apart.            *)
Messages(i) ==
    {Garbage}
    \cup {Request(id, m, NoName) : id \in {NoId, i}, m \in Plain \cup {"unknown", "tools/call"}}
    \cup {Request(id, "tools/call", t) : id \in {NoId, i},
                                          t \in {"web_search", "web_map", "no_such_tool"}}
Pairs == {<<ALine(0, 1, TRUE, m), ALine(1, 1, TRUE, n)>> : m \in Messages(1), n \in Messages(2)}

(* One call of each tool that any of the three tables knows.                 *)
Calls == {<<ALine(0, 1, TRUE, Request(1, "tools/call", t))>> :
             t \in Defined \cup Dispatched \cup UNION {ToolsOf[c] : c \in Category}}
Streams == Sized \cup Pairs \cup Calls
CategorySets == {EnabledBy(all, flags) : all \in BOOLEAN, flags \in SUBSET Category}
=============================================================================
