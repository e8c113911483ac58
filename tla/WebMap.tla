------------------------------- MODULE WebMap --------------------------------
(* web_map (src/actions/map.rs): the URLs of a site's sitemap and of its     *)
(* start page, filtered, and those on another host than the start's looked   *)
(* up concurrently before they are listed.  Also web_sitemap's copy of the   *)
(* sitemap parser (src/actions/fetch.rs), which must read what web_map's     *)
(* does.  A URL is a record: the host it names (the start's, a subdomain of  *)
(* it, another, or none because it does not parse), whether it contains the  *)
(* search text, and a number to tell it from others.                         *)
EXTENDS Naturals, SequencesExt

CONSTANTS
    Url,            \* the URLs a site may mention
    Sitemaps,       \* sitemaps, each the XML events up to the parser's first error
    Links,          \* the links of a start page, as sequences of distinct URLs
    Limits,         \* values of the `limit` argument
    MaxMapUrls,     \* config.server.max_map_urls
    Concurrency     \* CPU_COUNT * 2, at least 8

Host == {"start", "sub", "other", "none"}

VARIABLES
    args,       \* ignoreSitemap, sitemapOnly, includeSubdomains, a filter or not, limit
    sitemap, links,     \* what the site would answer
    stage,      \* sitemap, page, check, done
    queue,      \* the URLs that were read and are still to be considered
    candidates, \* the URLs kept so far; `seen` is the set of them
    verdict,    \* per candidate that is under way or checked
    out,        \* the URLs of the answer
    lookups,    \* monitor: the URLs whose host was looked up,
    passed      \* and those of them whose lookup found no fault

vars == <<args, sitemap, links, stage, queue, candidates, verdict, out, lookups, passed>>
site == <<args, sitemap, links>>

Limit == IF args.limit < MaxMapUrls THEN args.limit ELSE MaxMapUrls

-----------------------------------------------------------------------------
(* The two sitemap parsers.  Events are start tags, empty tags, end tags and *)
(* texts.  A text is the URL it spells and the form that unescaping it gives *)
(* (the reader has trimmed the blanks that were not escaped): the URL alone, *)
(* the URL between blanks, nothing but blanks, or an error or nothing.       *)
Text == [tag : {"text"}, url : Url, form : {"plain", "padded", "blank", "bad"}]
Event == [tag : {"open", "empty", "close"}, name : STRING] \cup Text
Opens(e) == e.tag \in {"open", "empty"} /\ e.name = "loc"
Outside == [inLoc |-> FALSE, locs |-> <<>>]

(* parse_sitemap_fast: a text is trimmed and left out if nothing remains;    *)
(* </loc> ends a location.                                                   *)
Trim(text) == [text EXCEPT !.form = "plain"]
MapText(s, e) ==
    IF e.tag = "text" /\ s.inLoc /\ e.form \in {"plain", "padded"}
    THEN [s EXCEPT !.locs = Append(s.locs, Trim(e))] ELSE s

StaysIn(s, e) ==                            \* faulty: end tags go unnoticed
    IF Opens(e) THEN [s EXCEPT !.inLoc = TRUE] ELSE MapText(s, e)

MapEvent(s, e) ==
    IF Opens(e) THEN [s EXCEPT !.inLoc = TRUE]
    ELSE IF e.tag = "close" /\ e.name = "loc" THEN [s EXCEPT !.inLoc = FALSE]
    ELSE MapText(s, e)
MapReads(document) ==                       \* after each event of the sitemap
    LET s[n \in 0..Len(document)] ==
            IF n = 0 THEN Outside ELSE MapEvent(s[n - 1], document[n])
    IN  s
MapLocs(document) == MapReads(document)[Len(document)].locs

ASSUME WebMapAssumption ==
    /\ Url \subseteq [host : Host, match : BOOLEAN, n : Nat]
    /\ Links \subseteq Seq(Url)
    /\ Sitemaps \subseteq Seq(Event)
    /\ Limits \subseteq Nat /\ MaxMapUrls \in Nat
    /\ Concurrency \in Nat \ {0}

(* web_sitemap: a text stays as it is and any end tag ends a location;       *)
(* `limit` texts are kept.                                                   *)
SitemapEvent(s, e) ==
    IF Opens(e) THEN [s EXCEPT !.inLoc = TRUE]
    ELSE IF e.tag = "close" THEN [s EXCEPT !.inLoc = FALSE]
    ELSE IF e.tag = "text" /\ s.inLoc /\ e.form # "bad"
    THEN [s EXCEPT !.locs = Append(s.locs, e)] ELSE s
FirstOf(s, n) == SubSeq(s, 1, IF Len(s) < n THEN Len(s) ELSE n)
SitemapReads(document) ==
    LET s[n \in 0..Len(document)] ==
            IF n = 0 THEN Outside ELSE SitemapEvent(s[n - 1], document[n])
    IN  s
SitemapLocs(document, limit) == FirstOf(SitemapReads(document)[Len(document)].locs, limit)

-----------------------------------------------------------------------------
AnyHost(u) == u.host # "none"              \* faulty: every host is in scope
AlwaysDns(u) == TRUE                       \* faulty: looks up the start's host again

(* host_allowed_host, and the search text.                                   *)
HostAllowed(u) == u.host = "start" \/ (args.subdomains /\ u.host = "sub")
Wanted(u) == HostAllowed(u) /\ (args.filtered => u.match)
NeedsDns(u) == u.host # "start"

Init ==
    /\ args \in [ignore : BOOLEAN, only : BOOLEAN, subdomains : BOOLEAN, filtered : BOOLEAN,
                 limit : Limits]
    /\ sitemap \in Sitemaps /\ links \in Links
    /\ stage = "sitemap"
    /\ queue = <<>> /\ candidates = <<>> /\ verdict = <<>> /\ out = <<>>
    /\ lookups = {} /\ passed = {}

Urls(texts) == [i \in DOMAIN texts |-> texts[i].url]

(* What was read is considered before anything else; a fetch that fails      *)
(* leaves nothing to consider.                                               *)
ReadSitemap ==
    /\ stage = "sitemap"
    /\ stage' = "page"
    /\ \/ ~args.ignore /\ queue' = Urls(MapLocs(sitemap))
       \/ UNCHANGED queue
    /\ UNCHANGED <<site, candidates, verdict, out, lookups, passed>>

ReadPage ==
    /\ stage = "page" /\ queue = <<>>
    /\ stage' = "check"
    /\ \/ ~args.only /\ queue' = links
       \/ UNCHANGED queue
    /\ UNCHANGED <<site, candidates, verdict, out, lookups, passed>>

(* The closure `consider` on one URL of a list.                              *)
Consider ==
    /\ queue # <<>>
    /\ LET u == Head(queue) IN
       candidates' = IF Len(candidates) < Limit /\ Wanted(u) /\ u \notin ToSet(candidates)
                     THEN Append(candidates, u) ELSE candidates
    /\ queue' = Tail(queue)
    /\ UNCHANGED <<site, stage, verdict, out, lookups, passed>>

(* buffered(concurrency): the next candidate is taken up while fewer than    *)
(* Concurrency are under way or wait for an earlier one to come out.         *)
InFlight == {i \in DOMAIN verdict : verdict[i] \in {"pending", "valid", "blocked"}}

PullAll ==                                 \* faulty: no bound on what is under way
    /\ stage = "check" /\ queue = <<>>
    /\ Len(verdict) < Len(candidates)
    /\ LET u == candidates[Len(verdict) + 1] IN
       /\ verdict' = Append(verdict, IF NeedsDns(u) THEN "pending" ELSE "valid")
       /\ lookups' = IF NeedsDns(u) THEN lookups \cup {u} ELSE lookups
    /\ UNCHANGED <<site, stage, queue, candidates, out, passed>>

Pull ==
    /\ stage = "check" /\ queue = <<>>
    /\ Len(verdict) < Len(candidates)
    /\ Cardinality(InFlight) < Concurrency
    /\ LET u == candidates[Len(verdict) + 1] IN
       /\ verdict' = Append(verdict, IF NeedsDns(u) THEN "pending" ELSE "valid")
       /\ lookups' = IF NeedsDns(u) THEN lookups \cup {u} ELSE lookups
    /\ UNCHANGED <<site, stage, queue, candidates, out, passed>>

(* validate_url answers, for whichever candidate it likes.                   *)
Validated(i) ==
    /\ i \in DOMAIN verdict /\ verdict[i] = "pending"
    /\ \/ verdict' = [verdict EXCEPT ![i] = "valid"] /\ passed' = passed \cup {candidates[i]}
       \/ verdict' = [verdict EXCEPT ![i] = "blocked"] /\ UNCHANGED passed
    /\ UNCHANGED <<site, stage, queue, candidates, out, lookups>>

EmitAny(i) ==                              \* faulty: buffer_unordered
    /\ i \in DOMAIN verdict /\ verdict[i] \in {"valid", "blocked"}
    /\ out' = IF verdict[i] = "valid" THEN Append(out, candidates[i]) ELSE out
    /\ verdict' = [verdict EXCEPT ![i] = IF @ = "valid" THEN "listed" ELSE "dropped"]
    /\ UNCHANGED <<site, stage, queue, candidates, lookups, passed>>

(* Answers come out in the order of the candidates.                          *)
Emit(i) ==
    /\ i \in DOMAIN verdict /\ verdict[i] \in {"valid", "blocked"}
    /\ \A j \in 1..(i - 1) : verdict[j] \in {"listed", "dropped"}
    /\ out' = IF verdict[i] = "valid" THEN Append(out, candidates[i]) ELSE out
    /\ verdict' = [verdict EXCEPT ![i] = IF @ = "valid" THEN "listed" ELSE "dropped"]
    /\ UNCHANGED <<site, stage, queue, candidates, lookups, passed>>

Answer ==
    /\ stage = "check" /\ queue = <<>>
    /\ Len(verdict) = Len(candidates) /\ InFlight = {}
    /\ stage' = "done"
    /\ UNCHANGED <<site, queue, candidates, verdict, out, lookups, passed>>

Next ==
    \/ ReadSitemap \/ ReadPage \/ Consider
    \/ Pull \/ (\E i \in DOMAIN verdict : Validated(i) \/ Emit(i))
    \/ Answer

Spec == Init /\ [][Next]_vars

-----------------------------------------------------------------------------
(* Every variable stays in its type, and no more than Concurrency candidates *)
(* are under way.                                                            *)
TypeOK ==
    /\ stage \in {"sitemap", "page", "check", "done"}
    /\ args \in [ignore : BOOLEAN, only : BOOLEAN, subdomains : BOOLEAN, filtered : BOOLEAN,
                 limit : Limits]
    /\ sitemap \in Sitemaps /\ links \in Links
    /\ queue \in Seq(Url) /\ candidates \in Seq(Url) /\ out \in Seq(Url)
    /\ lookups \subseteq Url /\ passed \subseteq Url
    /\ verdict \in Seq({"pending", "valid", "blocked", "listed", "dropped"})
    /\ Cardinality(InFlight) <= Concurrency

(* Lookups may end in any order, but the answer lists the candidates in the  *)
(* order they were found, all but those whose lookup was refused.            *)
OrderKept ==
    /\ \A i \in DOMAIN out, j \in DOMAIN out :
          \A a \in DOMAIN candidates, b \in DOMAIN candidates :
             out[i] = candidates[a] /\ out[j] = candidates[b] => (i < j <=> a < b)
    /\ stage = "done" =>
          ToSet(out) = {candidates[i] : i \in {k \in DOMAIN verdict : verdict[k] = "listed"}}

(* "Internal/unreachable subdomains never appear in the output": what is     *)
(* listed is on the start's host, or is a subdomain that was asked for and   *)
(* whose lookup passed.                                                      *)
InScope ==
    /\ Len(out) <= Limit
    /\ \A k \in DOMAIN out :
          out[k].host = "start" \/ (args.subdomains /\ out[k].host = "sub" /\ out[k] \in passed)

(* "Listing a single site performs zero extra resolutions": the start's host *)
(* is never looked up again, and a hostile sitemap makes at most `limit`     *)
(* lookups however long it is.                                               *)
FewLookups ==
    /\ Cardinality(lookups) <= Limit
    /\ \A u \in lookups : u.host # "start" /\ args.subdomains

(* Every location is a start tag, and the next end tag is the location's.    *)
PlainLocs(document) ==
    \A k \in DOMAIN document : Opens(document[k]) =>
        /\ document[k].tag = "open"
        /\ \A j \in (k + 1)..Len(document) :
              document[j].tag = "close" /\ (\A m \in (k + 1)..(j - 1) : document[m].tag # "close")
              => document[j].name = "loc"

(* No text has blanks that only unescaping shows.                            *)
PlainTexts(document) ==
    \A k \in DOMAIN document : document[k].tag = "text" => document[k].form \in {"plain", "bad"}

(* web_map and web_sitemap read the same locations from a sitemap, unless it *)
(* has an empty <loc/>, an element inside a <loc> or a text with escaped     *)
(* blanks, where their copies of the parser part ways; but even then what    *)
(* web_sitemap lists is, blank lines apart and but for trimming, among the   *)
(* URLs that web_map reads.                                                  *)
ParsersAgree ==
    /\ PlainLocs(sitemap) /\ PlainTexts(sitemap) =>
          SitemapLocs(sitemap, Limit) = FirstOf(MapLocs(sitemap), Limit)
    /\ \A text \in ToSet(SitemapLocs(sitemap, Limit)) :
          text.form # "blank" => Trim(text) \in ToSet(MapLocs(sitemap))
=============================================================================
