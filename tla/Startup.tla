------------------------------- MODULE Startup -------------------------------
(* From the command line to a running transport: Config::from_args           *)
(* (src/config.rs) and inner_main (src/main.rs).  A command line is a record *)
(* of the flags whose value or absence decides something; what a flag says   *)
(* is one of a few classes, and the contents of the token file are classed   *)
(* as from_args reads them.                                                  *)
Text == {"absent", "empty", "given"}                        \* an Option<String>
(* A token has blanks around it (padded), characters that a header cannot    *)
(* hold as text, all but visible ASCII (opaque), or neither (given).         *)
TokenFlag == {"absent", "empty", "given", "padded", "opaque"}
TokenFile == {"absent", "unreadable", "blank", "given", "padded", "opaque"}
Provider ==
    {"searxng", "duckduckgo", "bing", "tavily", "google", "zhipu", "exa", "bocha"}

Args == [search_provider : Provider, search_api_key : Text, search_api_url : Text,
         tls_cert : Text, tls_key : Text,
         auth_token : TokenFlag, auth_token_file : TokenFile, stdio : BOOLEAN]

(* The flags' defaults: no provider that needs settings, no token, no TLS.   *)
DefaultArgs ==
    [search_provider |-> "duckduckgo", search_api_key |-> "absent",
     search_api_url |-> "absent", tls_cert |-> "absent", tls_key |-> "absent",
     auth_token |-> "absent", auth_token_file |-> "absent", stdio |-> FALSE]

-----------------------------------------------------------------------------
(* The checks of from_args, each of which refuses to start.                  *)
RequiresApiKey == {"bing", "tavily", "google", "zhipu", "exa", "bocha"}
NeedsUrl == {"searxng", "google"}

NoKeyCheck(a) == FALSE              \* faulty: from_args leaves the key to the provider

KeyMissing(a) == a.search_provider \in RequiresApiKey /\ a.search_api_key # "given"

(* Only an absent URL is refused: an empty one is a URL to this check.       *)
UrlMissing(a) == a.search_provider \in NeedsUrl /\ a.search_api_url = "absent"

(* An empty path counts as no path.                                          *)
HasPath(text) == text = "given"
HalfTls(a) == HasPath(a.tls_cert) # HasPath(a.tls_key)

(* The flag wins over the file, which is read only without it.               *)
FromFile(a) == a.auth_token = "absent" /\ a.auth_token_file # "absent"
MissingIsNone(a) == FALSE           \* faulty: a bad token file turns authentication off
BadTokenFile(a) == FromFile(a) /\ a.auth_token_file \in {"unreadable", "blank"}

Refused(a) == KeyMissing(a) \/ UrlMissing(a) \/ HalfTls(a) \/ BadTokenFile(a)

-----------------------------------------------------------------------------
(* The configuration of a command line that is not refused.                  *)
RawToken(contents) ==               \* faulty: keeps the newline at the file's end
    IF contents \in {"given", "padded", "opaque"} THEN contents ELSE "absent"

(* The contents of a file are trimmed, those of the flag are not.            *)
Trimmed(contents) ==
    CASE contents \in {"given", "padded"} -> "given"
      [] contents = "opaque" -> "opaque"
      [] OTHER -> "absent"

(* server.auth_token; "absent" is None: no authentication.                   *)
AuthToken(a) ==
    IF FromFile(a) THEN Trimmed(a.auth_token_file) ELSE a.auth_token

(* The key a provider is handed: api_key.as_deref().unwrap_or("").           *)
ApiKey(a) == IF a.search_api_key = "given" THEN "given" ELSE "empty"

-----------------------------------------------------------------------------
(* inner_main: the transport a command line asks for.  HTTP is served over   *)
(* TLS exactly if both paths are there; "down" is a start that was refused.  *)
Transport(a) ==
    IF Refused(a) THEN "down"
    ELSE IF a.stdio THEN "stdio"
    ELSE IF HasPath(a.tls_cert) /\ HasPath(a.tls_key) THEN "https"
    ELSE "http"
=============================================================================
