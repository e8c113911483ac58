----------------------------- MODULE MCFetchPage -----------------------------
(* Instances of FetchPage for TLC.                                           *)
EXTENDS FetchPage

AllTools == {"get", "head", "check"}
OnlyGet == {"get"}
AnyConfig == [allowPrivate : BOOLEAN, dnsPin : BOOLEAN]
Defaults == {[allowPrivate |-> FALSE, dnsPin |-> TRUE]}
=============================================================================
