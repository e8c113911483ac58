------------------------------- MODULE Markdown -------------------------------
(* What the tools make of a page (src/actions/scrape.rs): markdown, plain    *)
(* text, its main part and its links.  A page is the sequence of the nodes   *)
(* of its body in document order, each with its depth; the tags are those    *)
(* the walkers treat differently, with one tag for each group they treat     *)
(* alike.  What is made of it is a sequence of tokens: which words appear,   *)
(* and the list markers.  Other markup, newlines and spacing are left out.   *)
EXTENDS Naturals, SequencesExt



(* word: text that is not blank.  a: links and all other elements that are   *)
(* walked through.  nav: what both walkers skip.  form: what only the        *)
(* markdown walker skips, iframe among them.  code: code and kbd.            *)
Tag == {"word", "a", "li", "ul", "ol", "pre", "code", "nav", "form", "main"}

(* href: the number of the URL a link leads to, 0 if there is none.  role:   *)
(* whether the main selector finds the element.                              *)
Kind == [tag : Tag, href : Nat, role : BOOLEAN]
Node == [tag : Tag, href : Nat, role : BOOLEAN, depth : Nat \ {0}]

(* The tree.  0 stands for the body.                                         *)
DepthOf(page, i) == IF i = 0 THEN 0 ELSE page[i].depth
Descendants(page, i) ==
    {j \in DOMAIN page : j > i /\ \A k \in i+1..j : page[k].depth > DepthOf(page, i)}
Ancestors(page, j) == {i \in DOMAIN page : j \in Descendants(page, i)}
InOrder(page, nodes) ==
    LET In(i) == i \in nodes IN SelectSeq([i \in DOMAIN page |-> i], In)
Children(page, i) == {j \in Descendants(page, i) : page[j].depth = DepthOf(page, i) + 1}
Tagged(page, tags) == {i \in DOMAIN page : page[i].tag \in tags}

-----------------------------------------------------------------------------
(* walk_element and walk_children.  out is what is written and the depth of  *)
(* lists, which every walk is handed and changes; walk is walk_element       *)
(* itself, for the elements inside.                                          *)
Token == ({"text"} \X Nat) \cup ({"item"} \X Nat \X Nat)
Out == [md : Seq(Token), depth : Nat]

Nothing == [md |-> <<>>, depth |-> 0]

Put(out, token) == [out EXCEPT !.md = Append(out.md, token)]
Marker(out, i) == <<"item", i, IF out.depth = 0 THEN 0 ELSE out.depth - 1>>

(* A loop over nodes in document order: visit has for each of them what it   *)
(* makes of out.  Visits is what out is after the first n nodes of the page. *)
Visits(page, visit, out) ==
    LET o[n \in 0..Len(page)] ==
            IF n = 0 THEN out
            ELSE IF n \in DOMAIN visit THEN visit[n][o[n - 1]] ELSE o[n - 1]
    IN  o
Each(page, visit, out) == Visits(page, visit, out)[Len(page)]

Texts(nodes) == [j \in nodes |-> [o \in Out |-> Put(o, <<"text", j>>)]]
Words(page, nodes) == {j \in nodes : page[j].tag = "word"}

WalkChildren(page, walk, i, out) ==
    Each(page, [j \in Children(page, i) |-> [o \in Out |->
                   IF page[j].tag = "word" THEN Put(o, <<"text", j>>) ELSE walk[j][o]]], out)

(* Their own text and markers are lost on lists: they walk elements only.    *)
Elements(page, i) == {j \in Children(page, i) : page[j].tag # "word"}

Enter(out) == [out EXCEPT !.depth = @ + 1]
StayIn(out) == out                  \* faulty: the list is never left
Leave(out) == [out EXCEPT !.depth = @ - 1]

WalkUl(page, walk, i, out) ==
    Leave(Each(page, [j \in Elements(page, i) |-> walk[j]], Enter(out)))

(* Every element in an ol becomes an item and is walked through, whatever    *)
(* it is: walk_element is not asked whether to skip it.                      *)
WalkOl(page, walk, i, out) ==
    Leave(Each(page, [j \in Elements(page, i) |-> [o \in Out |->
                         WalkChildren(page, walk, j, Put(o, Marker(o, j)))]], Enter(out)))

Forgetful == {"form"}               \* faulty: the two lists of tags drifted apart
Skipped == {"nav", "form"}

WalkElement(page, walk, i, out) ==
    LET tag == page[i].tag
    IN  IF tag = "ul" THEN WalkUl(page, walk, i, out)
        ELSE IF tag = "ol" THEN WalkOl(page, walk, i, out)
        ELSE IF tag = "li" THEN WalkChildren(page, walk, i, Put(out, Marker(out, i)))
        ELSE IF tag = "pre" THEN Each(page, Texts(Words(page, Descendants(page, i))), out)
        ELSE IF tag = "code" THEN Each(page, Texts(Words(page, Children(page, i))), out)
        ELSE IF tag \in Skipped THEN out
        ELSE WalkChildren(page, walk, i, out)

(* The walk from the body (0) or from an element down.                       *)
Walks(page) ==
    LET walk[j \in DOMAIN page] == [o \in Out |-> WalkElement(page, walk, j, o)]
    IN  walk
WalkFrom(page, i) ==
    IF i = 0 THEN WalkChildren(page, Walks(page), 0, Nothing) ELSE Walks(page)[i][Nothing]

-----------------------------------------------------------------------------
(* dom_to_markdown                                                           *)
DomToMarkdown(page) == WalkFrom(page, 0).md

(* The main selector's first match, 0 if there is none.                      *)
Main(page) ==
    LET found == InOrder(page, {i \in DOMAIN page : page[i].role})
    IN  IF found = <<>> THEN 0 ELSE Head(found)

(* main_to_markdown: what is found is walked as any element is.              *)
MainToMarkdown(page) == WalkFrom(page, Main(page)).md

(* html_to_text: all words but those below an element it skips.              *)
HtmlToText(page) ==
    LET hidden == {j \in DOMAIN page : Ancestors(page, j) \cap Tagged(page, {"nav"}) # {}}
    IN  Each(page, Texts(Tagged(page, {"word"}) \ hidden), Nothing).md

(* collect_links: every URL once, where it is first met.                     *)
CollectLinks(page) ==
    LET links == InOrder(page, {i \in Tagged(page, {"a"}) : page[i].href # 0})
        Collect(out, i) ==
            IF <<"link", page[i].href>> \in {out[n] : n \in DOMAIN out} THEN out
            ELSE Append(out, <<"link", page[i].href>>)
    IN  FoldLeft(Collect, <<>>, links)

(* The page as it came; extract_main falls back to it.                       *)
Body == << <<"body", 0>> >>
ExtractMain(page, body) == IF Main(page) = 0 THEN body ELSE << <<"html", Main(page)>> >>
=============================================================================
