------------------------------ MODULE MCScrape -------------------------------
(* Instances of Scrape for TLC.                                              *)
EXTENDS Scrape

Plain(tag) == [tag |-> tag, href |-> 0, role |-> FALSE]
Link(n) == [tag |-> "a", href |-> n, role |-> FALSE]
Role(tag) == [tag |-> tag, href |-> 0, role |-> TRUE]

(* Two links to follow, one that leads nowhere, a main element and one that  *)
(* is skipped though its role is main.                                       *)
AllKinds ==
    {Plain(t) : t \in {"word", "a", "li", "ul", "ol", "pre", "code", "nav", "form"}}
        \cup {Link(1), Link(2), Role("main"), Role("nav")}

(* Every list of up to three formats, and what web_scrape refuses.           *)
Shorts == {"markdown", "html", "rawHtml", "links"}
FormatLists == UNION {[1..n -> Shorts] : n \in 0..3} \cup {<<"extract">>, <<"html", "screenshot">>}
=============================================================================
