-------------------------------- MODULE FanOut -------------------------------
(* The tools that join many answers in one text: web_extract                 *)
(* (src/actions/extract.rs), web_check_links (src/actions/fetch.rs), and     *)
(* web_search and web_search_scrape (src/actions/search.rs), which first     *)
(* ask the search provider.  Jobs finish in any order.  web_extract bounds   *)
(* fetching and parsing together, the other two take a permit for the        *)
(* network only; the first and the last label each answer in its own job,    *)
(* web_search_scrape pairs the answers with its search results afterwards,   *)
(* by position.  Requests are under a timeout until their headers arrive;    *)
(* bodies are not.                                                           *)
EXTENDS Naturals, Sequences, FiniteSets, Search

CONSTANTS
    Urls,           \* number of URLs the caller asks for, at most
    Limits,         \* settings of max_extract_urls (or scrapeLimit) to look at
    Wants,          \* values of the searching tools' limit, after clamping
    Pages,          \* the lists of items a search provider may have
    StartArgs,      \* command lines the server may have been started with
    Concurrency,    \* the bound on concurrent jobs
    Tools           \* which of extract, check, search and scrape (web_search_scrape)

ASSUME FanOutAssumption ==
    /\ Urls \in Nat /\ Limits \subseteq Nat /\ Wants \subseteq Nat \ {0}
    /\ Pages \subseteq Seq(Item) /\ \A p \in Pages : Len(p) <= Urls
    /\ StartArgs \subseteq Args
    /\ Concurrency \in Nat \ {0}
    /\ Tools \subseteq {"extract", "check", "search", "scrape"}

VARIABLES
    args,       \* the command line the server was started with
    tool,
    limit,      \* max_extract_urls; for web_search_scrape, scrapeLimit
    want,       \* the searching tools' limit
    phase,      \* of the search: new, send, read, discard; then jobs
    results,    \* the URLs asked for, or the search results
    stage,      \* per job: new, wait (for a permit), send, body, parse or done
    permits,    \* permits of web_search_scrape's and web_check_links' semaphore
    order,      \* the jobs in the order their answers came
    reply       \* what the call returned: none, refused, dropped, joined, ...

call == <<args, tool, limit, want>>
jobs == <<stage, permits, order>>
vars == <<args, tool, limit, want, phase, results, stage, permits, order, reply>>

Job == 1..Urls
JobStage == {"new", "wait", "send", "body", "parse", "done"}
Searching == tool \in {"search", "scrape"}
provider == args.search_provider

(* web_search_scrape scrapes the first scrapeLimit results and lists the     *)
(* rest as they are; the other tools refuse a list that is too long.         *)
Jobs ==
    {j \in DOMAIN results : tool # "search" /\ (tool = "scrape" => j <= limit)}
At(s) == {j \in Jobs : stage[j] = s}
OnNetwork == At("send") \cup At("body")
Active == OnNetwork \cup At("parse")

Init ==
    /\ args \in {a \in StartArgs : ~Refused(a)}
    /\ tool \in Tools /\ limit \in Limits /\ want \in Wants
    /\ phase = IF Searching THEN "new" ELSE "jobs"
    /\ results = IF Searching THEN <<>> ELSE [j \in Job |-> "whole"]
    /\ stage = [j \in Job |-> "new"]
    /\ permits = Concurrency
    /\ order = <<>>
    /\ reply = "none"

Answer(r) == reply' = r
Open(p) == reply = "none" /\ phase = p

-----------------------------------------------------------------------------
(* The search.  A blank query is answered without asking anybody.            *)
Ask ==
    /\ Open("new")
    /\ \E blank \in BOOLEAN :
          \/ blank /\ Answer("no_query") /\ UNCHANGED phase
          \/ ~blank /\ OwnCheck(args, blank) # "none"
             /\ Answer(OwnCheck(args, blank)) /\ UNCHANGED phase
          \/ ~blank /\ OwnCheck(args, blank) = "none" /\ phase' = "send" /\ UNCHANGED reply
    /\ UNCHANGED <<call, results, jobs>>

(* The headers arrive in time, or not at all.                                *)
Headers ==
    /\ Open("send")
    /\ \/ phase' = "read" /\ UNCHANGED reply
       \/ ReadsErrorBody(provider) /\ phase' = "discard" /\ UNCHANGED reply
       \/ ~ReadsErrorBody(provider) /\ Answer("provider") /\ UNCHANGED phase
       \/ Answer("provider") /\ UNCHANGED phase
       \/ Answer("timeout") /\ UNCHANGED phase
    /\ UNCHANGED <<call, results, jobs>>

(* The body arrives, of whatever shape, or breaks off.                       *)
Parse(shape, page) ==
    LET found == Results(provider, shape, page, want) IN
    /\ ~IsError(provider, shape)
    /\ phase' = "jobs" /\ results' = found
    /\ reply' = IF found = <<>> THEN "empty" ELSE "none"

ReadSearch ==
    /\ Open("read")
    /\ \/ \E shape \in Shape, page \in Pages : Parse(shape, page)
       \/ Answer("provider") /\ UNCHANGED <<phase, results>>
    /\ UNCHANGED <<call, jobs>>

(* What arrives of an error's body goes into the message.                    *)
Discard ==
    /\ Open("discard")
    /\ Answer("provider")
    /\ UNCHANGED <<call, phase, results, jobs>>

-----------------------------------------------------------------------------
(* The jobs.                                                                 *)
TooMany == ~Searching /\ Len(results) > limit

Refuse ==
    /\ Open("jobs") /\ TooMany
    /\ Answer("refused")
    /\ UNCHANGED <<call, phase, results, jobs>>

Move(j, from, to) ==
    /\ Open("jobs") /\ ~TooMany
    /\ j \in Jobs
    /\ stage[j] = from /\ stage' = [stage EXCEPT ![j] = to]
    /\ UNCHANGED <<call, phase, results, reply>>
Finish(j) == order' = Append(order, j)

PullFetches(j) ==                   \* faulty: bounds the fetches and not the parses
    /\ tool = "extract"
    /\ Move(j, "new", "send")
    /\ \A k \in Jobs : k < j => stage[k] # "new"
    /\ Cardinality(OnNetwork) < Concurrency
    /\ UNCHANGED <<permits, order>>

(* web_extract: buffer_unordered pulls the next URL while fewer than         *)
(* Concurrency jobs are under way.                                           *)
Pull(j) ==
    /\ tool = "extract"
    /\ Move(j, "new", "send")
    /\ \A k \in Jobs : k < j => stage[k] # "new"
    /\ Cardinality(Active) < Concurrency
    /\ UNCHANGED <<permits, order>>

(* The others start every job at once and let them wait for a permit.        *)
Push ==
    /\ Open("jobs") /\ tool # "extract" /\ ~TooMany
    /\ Jobs # {} /\ \A j \in Jobs : stage[j] = "new"
    /\ stage' = [j \in Job |-> IF j \in Jobs THEN "wait" ELSE "new"]
    /\ UNCHANGED <<call, phase, results, permits, order, reply>>

AcquireLate(j) ==                   \* faulty: one permit more than there are
    /\ Move(j, "wait", "send")
    /\ permits' = IF permits > 0 THEN permits - 1 ELSE 0
    /\ UNCHANGED order

Acquire(j) ==
    /\ permits > 0
    /\ Move(j, "wait", "send")
    /\ permits' = permits - 1
    /\ UNCHANGED order

(* The headers are there, and a body follows.  An item without URL does not  *)
(* get so far: validation refuses it.                                        *)
Respond(j) ==
    /\ Move(j, "send", "body")
    /\ tool # "check" /\ results[j] = "whole"
    /\ UNCHANGED <<permits, order>>

(* The fetch ends, and with it the permit; a page is handed to the blocking  *)
(* pool to parse, an error or a link's status is the answer already.         *)
NoRelease == UNCHANGED permits             \* faulty: the permit goes with the answer
Release == permits' = IF tool = "extract" THEN permits ELSE permits + 1

FetchEnd(j, from) ==
    /\ Move(j, from, "done")
    /\ Finish(j)
    /\ Release

SendEnd(j) == FetchEnd(j, "send")

BodyEnd(j) ==
    \/ Move(j, "body", "parse") /\ Release /\ UNCHANGED order
    \/ FetchEnd(j, "body")

(* The parse returns.  In a build that unwinds, one that panicked leaves a   *)
(* placeholder in its place; a release build ends the whole server there,    *)
(* which is outside this model.                                              *)
ParseEnd(j) ==
    /\ Move(j, "parse", "done")
    /\ Finish(j)
    /\ UNCHANGED permits

JoinFirst ==                        \* faulty: joins when nothing is on the network
    /\ Open("jobs") /\ ~TooMany
    /\ \A j \in Jobs : stage[j] \in {"parse", "done"}
    /\ Answer("joined")
    /\ UNCHANGED <<call, phase, results, jobs>>

(* All answers are in, or there are only search results: they are joined.    *)
Join ==
    /\ Open("jobs") /\ ~TooMany
    /\ \A j \in Jobs : stage[j] = "done"
    /\ Answer("joined")
    /\ UNCHANGED <<call, phase, results, jobs>>

(* The deadline drops the call; parses already handed over run on unseen.    *)
Deadline ==
    /\ reply = "none"
    /\ Answer("dropped")
    /\ UNCHANGED <<call, phase, results, jobs>>

SearchStep == Ask \/ Headers \/ ReadSearch \/ Discard
Work(j) == Pull(j) \/ Acquire(j) \/ Respond(j) \/ SendEnd(j) \/ BodyEnd(j) \/ ParseEnd(j)
Next == SearchStep \/ Refuse \/ Push \/ (\E j \in Job : Work(j)) \/ Join \/ Deadline

Spec == Init /\ [][Next]_vars

(* Sends time out, parses end and the semaphore is a queue.  A body may      *)
(* stall for ever, and the deadline is not needed.                           *)
FairSpec ==
    /\ Spec
    /\ WF_vars(Ask \/ Headers \/ Refuse \/ Push \/ Join)
    /\ \A j \in Job :
          /\ WF_vars(Pull(j) \/ Respond(j) \/ SendEnd(j) \/ ParseEnd(j))
          /\ SF_vars(Acquire(j))

(* The sections of the joined text that come from jobs: which URL the k-th   *)
(* is labelled with, and which job's content it shows.  The results that     *)
(* were not scraped follow.                                                  *)
Label(k) == IF tool = "scrape" THEN k ELSE order[k]
Content(k) == order[k]
Listed == IF Searching THEN DOMAIN results \ Jobs ELSE {}

-----------------------------------------------------------------------------
(* Every variable stays in its type.                                         *)
TypeOK ==
    /\ args \in StartArgs
    /\ tool \in Tools /\ limit \in Limits /\ want \in Wants
    /\ phase \in {"new", "send", "read", "discard", "jobs"}
    /\ results \in Seq(Item) /\ Len(results) <= Urls
    /\ stage \in [Job -> JobStage]
    /\ permits \in 0..Concurrency
    /\ order \in Seq(Job)
    /\ reply \in SearchError \cup
                 {"none", "no_query", "empty", "refused", "dropped", "joined"}

(* At most Concurrency requests are on the network, for all the tools.       *)
NetworkBounded == Cardinality(OnNetwork) <= Concurrency

(* "At most `concurrency` page bodies are resident at once": web_extract     *)
(* bounds fetch and parse together.                                          *)
BodiesBounded == tool = "extract" => Cardinality(Active) <= Concurrency

(* The joined text has exactly one section for every URL that was asked for  *)
(* or found, those that were not scraped included, and a search shows no     *)
(* more than it was asked for, whatever the provider sends.                  *)
OneSectionEach ==
    reply = "joined" =>
        /\ {order[k] : k \in DOMAIN order} = Jobs
        /\ Len(order) + Cardinality(Listed) = Len(results)
        /\ Searching => Len(results) <= want

(* The content under a URL is what came of that URL, though answers come in  *)
(* any order: under a search result's title is the page scraped from it.     *)
LabelsMatch ==
    reply = "joined" => \A k \in DOMAIN order : Label(k) = Content(k)

(* The settings are checked once, at the start: a server that started never  *)
(* answers a search with "API key is required" or "API URL is required",     *)
(* though the backends keep tables of their own of who needs what.           *)
NoLateConfigError == reply # "config"

(* The call returns without help from its deadline, unless it is stuck on    *)
(* one body that never ends.                                                 *)
Stalled(j) == stage[j] = "body"
CallEnds ==
    <>(reply # "none") \/ (\E j \in Job : <>[]Stalled(j)) \/ <>[](phase \in {"read", "discard"})
=============================================================================
