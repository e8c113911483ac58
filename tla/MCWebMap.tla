------------------------------- MODULE MCWebMap ------------------------------
(* The instance of WebMap for TLC: sitemaps of at most two elements, among   *)
(* them an empty <loc/>, a <loc> with an element in it, texts with escaped   *)
(* blanks and with an unknown entity, text outside any <loc> and a document  *)
(* cut off by an error, and start pages of at most two links.                *)
EXTENDS WebMap

AUrl(host, match, n) == [host |-> host, match |-> match, n |-> n]
Mentioned == {AUrl("start", TRUE, 1), AUrl("sub", TRUE, 2)}
SomeUrls == Mentioned \cup {AUrl("sub", FALSE, 3), AUrl("other", TRUE, 4), AUrl("none", TRUE, 5)}

Open(name) == [tag |-> "open", name |-> name]
Close(name) == [tag |-> "close", name |-> name]
EmptyTag(name) == [tag |-> "empty", name |-> name]
Written(form, u) == [tag |-> "text", url |-> u, form |-> form]
Loc(form, u) == <<Open("loc"), Written(form, u), Close("loc")>>

Elements ==
    LET sub == AUrl("sub", TRUE, 2) IN
    {<<EmptyTag("loc")>>,
     <<Open("loc"), Open("b"), Close("b"), Written("plain", sub), Close("loc")>>}
    \cup {Loc(form, sub) : form \in {"padded", "blank", "bad"}}
    \cup UNION {{<<Open("url")>> \o Loc("plain", u) \o <<Close("url")>>,
                 <<Open("lastmod"), Written("plain", u), Close("lastmod")>>,
                 <<Open("loc"), Written("plain", u)>>} : u \in Mentioned}
Documents == {<<>>} \cup Elements \cup {e \o f : e, f \in Elements}

Pages == {<<>>} \cup {<<u>> : u \in SomeUrls}
         \cup {p \in Mentioned \X SomeUrls : p[1] # p[2]}
SomeLimits == {1, 2, 9}
=============================================================================
