------------------------------ MODULE MCFanOut -------------------------------
(* Instances of FanOut for TLC.                                              *)
EXTENDS FanOut

AllTools == {"extract", "check", "search", "scrape"}
OnlyScrape == {"scrape"}
SomeLimits == {2, 4}
SomeWants == {2, 3}
OneLimit == {4}

(* Every provider with all of its settings and with none; the latter starts  *)
(* only if the provider needs none.                                          *)
With(p, text) ==
    [DefaultArgs EXCEPT !.search_provider = p, !.search_api_key = text, !.search_api_url = text]
Settings == {With(p, t) : p \in Provider, t \in {"absent", "given"}}
DefaultSettings == {DefaultArgs}

(* No results, more than are wanted, and some without URL.                   *)
W == "whole"
SomePages == {<<>>, <<W, W, W, W>>, <<W, "partial", W>>}
TwoResults == {<<W, W>>}
=============================================================================
