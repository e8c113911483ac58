------------------------------ MODULE FetchPage ------------------------------
(* One outgoing request of a tool: fetch_page (src/client.rs) with the URL   *)
(* checks of src/validation.rs, and its two HEAD variants web_fetch_headers  *)
(* and web_check_links (src/actions/fetch.rs).  A name is looked up when the *)
(* URL is validated and again when the client is built or connects, and the  *)
(* answers may differ; the remote server answers as it likes.                *)
EXTENDS Naturals, FiniteSets

CONSTANTS
    Domain,         \* host names
    Public,         \* addresses the guards of validation.rs let pass
    Private,        \* addresses they block
    NotWeb,         \* stands for the URLs without http(s) scheme or without host
    Tools,          \* which of get, head and check a run looks at
    Configs,        \* settings of allow_private_hosts and dns_pin to look at
    MaxRedirects,   \* config.max_redirects
    MaxBody,        \* config.max_response_bytes
    BodyCap,        \* bound: the longest body a server sends
    Chunk           \* bound: the longest chunk it sends it in

Address == Public \cup Private
Host == Domain \cup Address         \* a web URL names a domain or an IP literal

ASSUME FetchAssumption ==
    /\ Domain \cap Address = {} /\ Public \cap Private = {} /\ NotWeb \notin Host
    /\ Tools \subseteq {"get", "head", "check"}
    /\ Configs \subseteq [allowPrivate : BOOLEAN, dnsPin : BOOLEAN]
    /\ MaxRedirects \in Nat /\ MaxBody \in Nat /\ BodyCap \in Nat /\ Chunk \in Nat

VARIABLES
    config,     \* the settings in force
    tool,       \* get (fetch_page), head (web_fetch_headers), check (check_one_link)
    down,       \* addresses nobody answers at
    host,       \* host of `current`, or NotWeb
    hop,        \* the loop counter
    stage,      \* validate, client, send, respond, body or done
    resolved,   \* the addresses build_pinned_client validated, if it ran
    pinned,     \* the address the client connects to for the domain, as a set
    contacted,  \* monitor: every address a connection was made to
    sent,       \* monitor: requests sent
    size,       \* what the server's body comes to
    total,      \* bytes of it read
    result

vars == <<config, tool, down, host, hop, stage, resolved, pinned, contacted, sent, size, total, result>>
remote == <<config, tool, down, size>>

AllowPrivate == config.allowPrivate
DnsPin == config.dnsPin
Allowed(addresses) == AllowPrivate \/ addresses \subseteq Public

(* lookup_host, when it returns no error: any addresses, also none at all.   *)
Answers == SUBSET Address

Init ==
    /\ config \in Configs
    /\ tool \in Tools
    /\ down \in SUBSET Address
    /\ host \in Host \cup {NotWeb}
    /\ size \in 0..BodyCap
    /\ hop = 0 /\ stage = "validate" /\ result = "none"
    /\ resolved = {} /\ pinned = {} /\ contacted = {}
    /\ sent = 0 /\ total = 0

Done(r) == stage' = "done" /\ result' = r

-----------------------------------------------------------------------------
(* validate_url: scheme and host first, then the addresses unless private    *)
(* hosts are allowed; check_addrs refuses an empty answer.  The for-loop of  *)
(* web_fetch_headers counts past its bound only after the target of the last *)
(* redirect was validated.                                                   *)
Passed ==
    IF hop > MaxRedirects THEN Done("exceeded") ELSE stage' = "client" /\ UNCHANGED result

Validate ==
    /\ stage = "validate"
    /\ \/ host = NotWeb /\ Done("blocked")
       \/ host \in Host /\ AllowPrivate /\ Passed
       \/ ~AllowPrivate /\ host \in Public /\ Passed
       \/ ~AllowPrivate /\ host \in Private /\ Done("blocked")
       \/ /\ ~AllowPrivate /\ host \in Domain
          /\ \/ \E a \in Answers \ {{}} : IF Allowed(a) THEN Passed ELSE Done("blocked")
             \/ Done("unresolved")         \* an error, or no addresses
    /\ UNCHANGED <<remote, host, hop, resolved, pinned, contacted, sent, total>>

(* Calls ClientBuilder::resolve once per address; each call replaces the     *)
(* override the one before it set, so the last one stays, and none is set    *)
(* when there is no address.                                                 *)
Overrides(addrs) == IF addrs = {} THEN {{}} ELSE {{last} : last \in addrs}

PinAnyAnswer ==                     \* faulty: pins what the second lookup says, unchecked
    /\ stage = "client"
    /\ DnsPin /\ host \in Domain
    /\ \E a \in Answers : resolved' = a /\ pinned' \in Overrides(a)
    /\ stage' = "send"
    /\ UNCHANGED <<remote, host, hop, contacted, sent, total, result>>

(* client_for: the shared client, or one pinned by build_pinned_client,      *)
(* which unlike check_addrs lets an answer without addresses pass.           *)
SharedClient ==
    /\ stage = "client"
    /\ ~DnsPin \/ host \in Address
    /\ stage' = "send"
    /\ resolved' = {} /\ pinned' = {}
    /\ UNCHANGED <<remote, host, hop, contacted, sent, total, result>>

PinnedClient ==
    /\ stage = "client"
    /\ DnsPin /\ host \in Domain
    /\ \/ \E a \in Answers :
             IF Allowed(a)
             THEN /\ resolved' = a /\ pinned' \in Overrides(a)
                  /\ stage' = "send" /\ UNCHANGED result
             ELSE Done("blocked") /\ UNCHANGED <<resolved, pinned>>
       \/ Done("unresolved") /\ UNCHANGED <<resolved, pinned>>
    /\ UNCHANGED <<remote, host, hop, contacted, sent, total>>

(* send(): the connection goes to an address the client knows for the host;  *)
(* a client without an override for a domain resolves it by itself.          *)
Targets(answer) ==
    IF host \in Address THEN {host} ELSE IF pinned # {} THEN pinned ELSE answer

Send ==
    /\ stage = "send"
    /\ sent' = sent + 1
    /\ \E answer \in Answers :
          IF Targets(answer) \subseteq down
          THEN Done("unreachable") /\ UNCHANGED contacted
          ELSE /\ \E a \in Targets(answer) \ down : contacted' = contacted \cup {a}
               /\ stage' = "respond" /\ UNCHANGED result
    /\ UNCHANGED <<remote, host, hop, resolved, pinned, total>>

SendTimeout ==
    /\ stage \in {"send", "respond"}
    /\ Done("timeout")
    /\ UNCHANGED <<remote, host, hop, resolved, pinned, contacted, sent, total>>

-----------------------------------------------------------------------------
(* The answer.  check_one_link reports whatever status it gets, that of a    *)
(* redirect too.                                                             *)
Report ==
    /\ stage = "respond" /\ tool = "check"
    /\ Done("ok") \/ Done("redirected")
    /\ UNCHANGED <<remote, host, hop, resolved, pinned, contacted, sent, total>>

RedirectUncounted(target) ==             \* faulty: HEAD counts no redirects
    /\ stage = "respond" /\ tool # "check"
    /\ tool = "get" => hop < MaxRedirects
    /\ host' = target
    /\ hop' = IF tool = "head" THEN hop ELSE hop + 1
    /\ stage' = "validate"
    /\ UNCHANGED <<remote, resolved, pinned, contacted, sent, total, result>>

Redirect(target) ==
    /\ stage = "respond" /\ tool # "check"
    /\ tool = "get" => hop < MaxRedirects
    /\ host' = target
    /\ hop' = hop + 1
    /\ stage' = "validate"
    /\ UNCHANGED <<remote, resolved, pinned, contacted, sent, total, result>>

RedirectFails ==
    /\ stage = "respond" /\ tool # "check"
    /\ \/ tool = "get" /\ hop = MaxRedirects /\ Done("exceeded")
       \/ (tool = "get" => hop < MaxRedirects) /\ Done("badlocation")
    /\ UNCHANGED <<remote, host, hop, resolved, pinned, contacted, sent, total>>

(* A final status: fetch_page wants a success, web_fetch_headers takes any.  *)
Final ==
    /\ stage = "respond" /\ tool # "check"
    /\ \/ tool = "head" /\ Done("ok")
       \/ tool = "get" /\ Done("status")
       \/ tool = "get" /\ stage' = "body" /\ UNCHANGED result
    /\ UNCHANGED <<remote, host, hop, resolved, pinned, contacted, sent, total>>

TruncatingRead ==                   \* faulty: cuts the body off where it passes the cap
    /\ stage = "body" /\ total < size
    /\ \E n \in 1..Chunk :
          /\ total + n <= size
          /\ IF total + n > MaxBody
             THEN Done("ok") /\ total' = MaxBody
             ELSE total' = total + n /\ UNCHANGED <<stage, result>>
    /\ UNCHANGED <<remote, host, hop, resolved, pinned, contacted, sent>>

(* read_capped: chunk by chunk, refusing the one that passes the cap.        *)
ReadChunk ==
    /\ stage = "body" /\ total < size
    /\ \E n \in 1..Chunk :
          /\ total + n <= size
          /\ IF total + n > MaxBody
             THEN Done("toolarge") /\ UNCHANGED total
             ELSE total' = total + n /\ UNCHANGED <<stage, result>>
    /\ UNCHANGED <<remote, host, hop, resolved, pinned, contacted, sent>>

BodyEnds ==
    /\ stage = "body"
    /\ \/ total = size /\ Done("ok")
       \/ Done("broken")
    /\ UNCHANGED <<remote, host, hop, resolved, pinned, contacted, sent, total>>

Next ==
    \/ Validate \/ SharedClient \/ PinnedClient
    \/ Send \/ SendTimeout
    \/ Report \/ (\E target \in Host \cup {NotWeb} : Redirect(target)) \/ RedirectFails \/ Final
    \/ ReadChunk \/ BodyEnds

Spec == Init /\ [][Next]_vars

-----------------------------------------------------------------------------
(* Every variable stays in its type.                                         *)
TypeOK ==
    /\ config \in Configs /\ tool \in Tools /\ host \in Host \cup {NotWeb}
    /\ down \subseteq Address /\ resolved \subseteq Address
    /\ pinned \subseteq resolved /\ contacted \subseteq Address
    /\ hop \in 0..(MaxRedirects + 1)
    /\ sent \in 0..(MaxRedirects + 1)
    /\ stage \in {"validate", "client", "send", "respond", "body", "done"}
    /\ size \in 0..BodyCap /\ total \in 0..BodyCap
    /\ result \in {"none", "ok", "blocked", "unresolved", "unreachable", "timeout",
                   "exceeded", "badlocation", "status", "toolarge", "broken",
                   "redirected"}

(* build_pinned_client was told no address, so its client knows none either. *)
EmptyPin == DnsPin /\ host \in Domain /\ resolved = {}

(* With pinning, a connection is only made to an address that passed the     *)
(* guards, over every redirect and however DNS changes its answers between   *)
(* validation, pinning and connection.  The exception is the client that     *)
(* build_pinned_client returns for an answer without addresses.              *)
OnlyValidatedContacted ==
    [][DnsPin /\ ~AllowPrivate /\ ~EmptyPin => contacted' \subseteq contacted \cup Public]_vars

(* GET and HEAD follow the same number of redirects: max_redirects of them,  *)
(* one request each, and "exceeded" is reported for one redirect more.       *)
RedirectsAgree ==
    /\ sent <= MaxRedirects + 1
    /\ result = "ok" => sent = hop + 1
    /\ result = "exceeded" => sent = MaxRedirects + 1

(* A body is returned whole or not at all: success means every byte was read *)
(* and they fit the cap, and only a body that does not fit is refused.       *)
BodyWholeOrRefused ==
    /\ total <= MaxBody
    /\ tool = "get" /\ result = "ok" => total = size
    /\ result = "toolarge" => size > MaxBody

(* A client pinned "to exactly those IPs" that were validated reaches the    *)
(* host while any one of them answers.                                       *)
PinReachesHost == result = "unreachable" /\ resolved # {} => resolved \subseteq down
=============================================================================
