-------------------------------- MODULE Search --------------------------------
(* One request to a search provider: the eight backends of src/providers     *)
(* behind providers::search, as functions of the settings they are handed    *)
(* and of what the provider answers.  They differ in what they check before  *)
(* they send, in the error bodies they recognise, and in what they do with   *)
(* an item that lacks its URL.  How many results they ask for decides        *)
(* nothing here: a provider may send any number, and each backend cuts.      *)
EXTENDS Naturals, Sequences, FiniteSets, Startup

(* A result with its URL, or an item of the answer that lacks it.            *)
Item == {"whole", "partial"}

(* What the body of an answer is: a list of items, the provider's error      *)
(* object, neither of them, or not the expected format at all.               *)
Shape == {"items", "error", "other", "junk"}

(* Errors, as error_code tells them apart.                                   *)
SearchError == {"params", "config", "timeout", "provider"}

-----------------------------------------------------------------------------
(* Before sending.                                                           *)
KeyChecked == {"bing", "tavily", "google", "zhipu", "exa", "bocha"}
UrlChecked == {"searxng", "google"}

LacksKey(a) == a.search_provider \in KeyChecked /\ ApiKey(a) = "empty"
LacksUrl(a) == a.search_provider \in UrlChecked /\ a.search_api_url = "absent"

(* "none" if nothing is wrong with the settings of command line a.           *)
OwnCheck(a, blank) ==
    IF blank THEN "params" ELSE IF LacksKey(a) \/ LacksUrl(a) THEN "config" ELSE "none"

-----------------------------------------------------------------------------
(* The answer.  Two backends report a bad status without reading its body.   *)
ReadsErrorBody(provider) == provider \notin {"searxng", "duckduckgo"}

(* The others take an error object in a good answer for no results.          *)
KnowsErrorBody(provider) == provider \in {"searxng", "google", "zhipu", "exa"}

(* DuckDuckGo's page is HTML, of which anything parses.                      *)
IsError(provider, shape) ==
    \/ shape = "junk" /\ provider # "duckduckgo"
    \/ shape = "error" /\ KnowsErrorBody(provider)

(* DuckDuckGo's parser skips an item without URL and goes on until it has    *)
(* limit results (whole items are all alike here, so what it keeps is known  *)
(* by their number); the others take the first limit items as they are.      *)
WholeOnly(items) ==
    [k \in 1..Cardinality({i \in DOMAIN items : items[i] = "whole"}) |-> "whole"]
Usable(provider, items) == IF provider = "duckduckgo" THEN WholeOnly(items) ELSE items
FirstOf(items, limit) == SubSeq(items, 1, IF limit < Len(items) THEN limit ELSE Len(items))
Taken(provider, items, limit) == FirstOf(Usable(provider, items), limit)

Results(provider, shape, items, limit) ==
    IF shape = "items" THEN Taken(provider, items, limit) ELSE <<>>
=============================================================================
