-------------------------------- MODULE Scrape --------------------------------
(* The tools that fetch one page and render it: web_scrape with its list of  *)
(* formats, web_fetch and web_fetch_text (src/actions/scrape.rs).  The body  *)
(* is moved into the last section that shows it, so the order of formats     *)
(* matters; the fetch itself is FetchPage's.                                 *)
EXTENDS Naturals, Sequences, FiniteSets, Markdown

CONSTANTS
    Kinds,          \* the kinds of nodes of pages
    Formats,        \* the lists of formats web_scrape may be asked for
    MaxNodes,       \* bound: nodes of a page that web_fetch_text is given
    FewNodes        \* bound: nodes of a page that the others are given

ASSUME ScrapeAssumption ==
    /\ Kinds \subseteq Kind
    /\ \A f \in Formats : f \in Seq(STRING)
    /\ MaxNodes \in Nat /\ FewNodes \in Nat

VARIABLES
    stage,          \* request, fetch, render or end
    formats,        \* what is asked for
    only_main,      \* onlyMainContent
    page,           \* the page's nodes, as they arrive
    doc,            \* whether the page was parsed before its sections
    body_opt,       \* whether the body is still there
    sections,       \* what has been rendered
    reply           \* none, refused, failed, text, or no_dom (a panic)

request == <<formats, only_main>>
vars == <<stage, formats, only_main, page, doc, body_opt, sections, reply>>

Known == {"markdown", "extract", "html", "rawHtml", "links"}

Init ==
    /\ stage = "request"
    /\ formats = <<>> /\ only_main = FALSE
    /\ page = <<>> /\ doc = FALSE /\ body_opt = TRUE
    /\ sections = <<>> /\ reply = "none"

(* web_scrape refuses formats it does not know before it fetches.            *)
Scrape ==
    /\ stage = "request"
    /\ formats' \in Formats /\ only_main' \in BOOLEAN
    /\ IF \A n \in DOMAIN formats' : formats'[n] \in Known
       THEN stage' = "fetch" /\ UNCHANGED reply
       ELSE stage' = "end" /\ reply' = "refused"
    /\ UNCHANGED <<page, doc, body_opt, sections>>

(* web_fetch and web_fetch_text have one format.                             *)
Fetch ==
    /\ stage = "request"
    /\ formats' \in {<<"markdown">>, <<"text">>} /\ only_main' = FALSE
    /\ stage' = "fetch"
    /\ UNCHANGED <<page, doc, body_opt, sections, reply>>

-----------------------------------------------------------------------------
(* What the parser makes of HTML: text has no children and no text beside    *)
(* it, links and forms do not nest, and an li ends the li it is in unless    *)
(* another container is between them.                                        *)
Above(depth) ==
    LET last(d) == CHOOSE i \in DOMAIN page :
                     page[i].depth = d /\ \A k \in i+1..Len(page) : page[k].depth > d
    IN  [d \in 1..depth - 1 |-> page[last(d)].tag]

Fits(kind, depth) ==
    LET above == Above(depth)
        open == {above[d] : d \in DOMAIN above}
        n == Len(page)
        beside == n > 0 /\ page[n].depth = depth /\ page[n].tag = "word"
    IN  /\ "word" \notin open
        /\ kind.tag = "word" => ~beside
        /\ kind.tag \in {"a", "form"} => kind.tag \notin open
        /\ kind.tag = "li" =>
              \A d \in DOMAIN above :
                  above[d] = "li" => \E e \in d+1..Len(above) : above[e] \notin {"a", "code", "li"}

Arrive(kind) ==
    /\ stage = "fetch"
    /\ Len(page) < IF formats = <<"text">> THEN MaxNodes ELSE FewNodes
    /\ \E depth \in 1..(IF page = <<>> THEN 1 ELSE page[Len(page)].depth + 1) :
          /\ Fits(kind, depth)
          /\ page' = Append(page, [tag |-> kind.tag, href |-> kind.href,
                                   role |-> kind.role, depth |-> depth])
    /\ UNCHANGED <<stage, request, doc, body_opt, sections, reply>>

ForgetsLinks(format) ==             \* faulty: the two lists of formats drifted apart
    format \in {"markdown", "extract"} \/ (format = "html" /\ only_main)

(* The page is parsed once, if some format needs its tree.                   *)
NeedsDom(format) ==
    format \in {"markdown", "extract", "links"} \/ (format = "html" /\ only_main)

Fetched ==
    /\ stage = "fetch"
    /\ stage' = "render"
    /\ doc' = \E n \in DOMAIN formats : NeedsDom(formats[n])
    /\ UNCHANGED <<request, page, body_opt, sections, reply>>

FetchFails ==
    /\ stage = "fetch"
    /\ stage' = "end" /\ reply' = "failed"
    /\ UNCHANGED <<request, page, doc, body_opt, sections>>

-----------------------------------------------------------------------------
IsRaw(format) == format = "rawHtml" \/ (format = "html" /\ ~only_main)
Raws == {n \in DOMAIN formats : IsRaw(formats[n])}

FirstRaw(n) == n \in Raws /\ \A m \in Raws : m >= n   \* faulty: moves into the first one

(* The body goes into the last raw section, unless onlyMain may need it.     *)
Moves(n) ==
    /\ ~(only_main /\ \E m \in DOMAIN formats : formats[m] = "html")
    /\ n \in Raws /\ \A m \in Raws : m <= n

Render(format, body) ==
    IF IsRaw(format) THEN body
    ELSE IF format = "html" THEN ExtractMain(page, body)
    ELSE IF format = "links" THEN CollectLinks(page)
    ELSE IF format = "text" THEN HtmlToText(page)
    ELSE IF only_main THEN MainToMarkdown(page)
    ELSE DomToMarkdown(page)

(* The arms that read the tree expect that the page was parsed, all others   *)
(* (web_fetch_text among them) do not look.                                  *)
ReadsDom(format) == ~IsRaw(format) /\ format # "text"

Section ==
    LET n == Len(sections) + 1 IN
    /\ stage = "render" /\ n <= Len(formats)
    /\ IF ReadsDom(formats[n]) => doc
       THEN /\ sections' = Append(sections, Render(formats[n], IF body_opt THEN Body ELSE <<>>))
            /\ body_opt' = (body_opt /\ ~Moves(n))
            /\ UNCHANGED <<stage, reply>>
       ELSE /\ stage' = "end" /\ reply' = "no_dom"
            /\ UNCHANGED <<sections, body_opt>>
    /\ UNCHANGED <<request, page, doc>>

(* The sections are joined.                                                  *)
Joined ==
    /\ stage = "render" /\ Len(sections) = Len(formats)
    /\ stage' = "end"
    /\ reply' = "text"
    /\ UNCHANGED <<request, page, doc, body_opt, sections>>

(* The task that parses and renders panicked, in a build that unwinds; a     *)
(* release build ends the whole server there, which is outside this model.   *)
RenderFails ==
    /\ stage = "render"
    /\ stage' = "end" /\ reply' = "failed"
    /\ UNCHANGED <<request, page, doc, body_opt, sections>>

Next ==
    \/ Scrape \/ Fetch
    \/ \E kind \in Kinds : Arrive(kind)
    \/ Fetched \/ FetchFails
    \/ Section \/ Joined \/ RenderFails

Spec == Init /\ [][Next]_vars

-----------------------------------------------------------------------------
(* Every variable stays in its type.                                         *)
TypeOK ==
    /\ stage \in {"request", "fetch", "render", "end"}
    /\ formats \in Formats \cup {<<>>, <<"markdown">>, <<"text">>}
    /\ only_main \in BOOLEAN
    /\ page \in Seq(Node)
    /\ doc \in BOOLEAN /\ body_opt \in BOOLEAN
    /\ Len(sections) \in 0..Len(formats)
    /\ reply \in {"none", "refused", "failed", "text", "no_dom"}

Inside(p, i, tags) == Ancestors(p, i) \cap Tagged(p, tags) # {}
DirectlyIn(p, i, tags) ==
    \E k \in Ancestors(p, i) \cap Tagged(p, tags) : p[k].depth + 1 = p[i].depth

Shown(tokens) == {tokens[n][2] : n \in {m \in DOMAIN tokens : tokens[m][1] = "text"}}

(* The two walkers, written apart with a list each of what to skip, agree    *)
(* on every page: markdown has the words of the plain text, once and in      *)
(* order.  It lacks only those in a form, right in a list, or in an element  *)
(* within code; it adds only skipped ones that pre or ol let through.        *)
WalkersAgree ==
    stage = "fetch" =>
        LET md == DomToMarkdown(page)
            text == Shown(HtmlToText(page))
        IN  /\ \A m, n \in DOMAIN md :
                  m < n /\ md[m][1] = "text" /\ md[n][1] = "text" => md[m][2] < md[n][2]
            /\ \A w \in text \ Shown(md) :
                  \/ Inside(page, w, {"form"}) \/ DirectlyIn(page, w, {"ul", "ol"})
                  \/ \E i \in Ancestors(page, w) : Inside(page, i, {"code"})
            /\ \A w \in Shown(md) \ text :
                  \/ Inside(page, w, {"pre"})
                  \/ \E i \in Ancestors(page, w) :
                        page[i].tag = "nav" /\ DirectlyIn(page, i, {"ol"})

(* The page that has nothing but a node and the elements around it.          *)
AncestorAt(p, i, d) == CHOOSE k \in Ancestors(p, i) \cup {i} : p[k].depth = d
Lineage(p, i) == [d \in 1..p[i].depth |-> p[AncestorAt(p, i, d)]]

(* The depth of lists that is handed through all walks is right at every     *)
(* item, whatever came before: an item is indented as it would be on a page  *)
(* that has nothing but the item and the elements around it.  That is by the *)
(* number of its lists, unless one is right in an ol and so an item itself.  *)
ItemsIndented ==
    stage = "fetch" =>
        \A n \in DOMAIN DomToMarkdown(page) :
            LET md == DomToMarkdown(page)
                item == md[n][2]
                lists == Ancestors(page, item) \cap Tagged(page, {"ul", "ol"})
                alone == DomToMarkdown(Lineage(page, item))
            IN  md[n][1] = "item" =>
                    /\ alone[Len(alone)] = <<"item", page[item].depth, md[n][3]>>
                    /\ (\A k \in lists : ~DirectlyIn(page, k, {"ol"})) =>
                          md[n][3] = IF lists = {} THEN 0 ELSE Cardinality(lists) - 1

(* Asking for several formats at once gives what each of them alone gives:   *)
(* the body, which is moved out into one section, is never missed by         *)
(* another.                                                                  *)
EachAsAlone == \A n \in DOMAIN sections : sections[n] = Render(formats[n], Body)

(* expect("dom parsed") never fails: the list of formats that decides        *)
(* whether the page is parsed has all those whose sections read the tree.    *)
DomParsed == reply # "no_dom"
=============================================================================
