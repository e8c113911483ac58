----------------------------- MODULE HttpServer ------------------------------
(* The HTTP transport (src/http.rs) with its rate limiter, from the command  *)
(* line on: nothing is served unless the start succeeds.  Requests of        *)
(* several clients run concurrently.  A request first uploads its body,      *)
(* under the body limit and the TimeoutLayer; handle_rpc then authenticates, *)
(* asks the limiter and parses without an await, and runs process_request    *)
(* under the server's own request_timeout.  Time passes in ticks, and no     *)
(* tick overtakes a timer that is due.                                       *)
EXTENDS Naturals, FiniteSets, Startup

CONSTANTS
    Client,             \* client connections, each with one request at a time
    StartArgs,          \* command lines the server may be started with
    RequestTimeout,     \* config.server.request_timeout, in ticks
    Grace,              \* the 5 s the TimeoutLayer adds to it, in ticks
    Rate, Token, Second, Horizon,       \* the limiter, see TokenBucket
    MaxWindow           \* bound: units the monitor's window may earn

ASSUME HttpAssumption ==
    /\ StartArgs \subseteq Args
    /\ RequestTimeout \in Nat \ {0}
    /\ Grace \in Nat \ {0}
    /\ MaxWindow \in Nat
    /\ Rate \in Nat /\ Token \in Nat \ {0} /\ Second \in Nat \ {0}
    /\ Horizon \in Nat /\ Horizon >= Rate * Second /\ Horizon >= Token

VARIABLES
    args,       \* the command line of the last start
    server,     \* what is served: nothing (down), http or https
    stage,      \* where each client's request is: none, its body, the handler
    bearer,     \* the credentials the request is sent with
    age,        \* ticks since the request began (the TimeoutLayer's clock)
    ran,        \* ticks since process_request began (request_timeout's clock)
    reply,      \* the last answer each client got
    tokens, accrued,    \* the bucket
    earned,     \* monitor: units earned since the window opened
    spent       \* monitor: units that accepted requests took since then

requests == <<stage, bearer, age, ran, reply>>
window == <<earned, spent>>
started == <<args, server>>
vars == <<args, server, stage, bearer, age, ran, reply, tokens, accrued, earned, spent>>

Limiter == INSTANCE TokenBucket

NoGrace == RequestTimeout           \* faulty: the backstop at the handler's own limit

Limit == RequestTimeout + Grace
Bearer == {"none", "right", "wrong", "opaque"}  \* opaque: bytes that are not visible ASCII
Reply == {"none", "401", "408", "413", "429", "400", "result", "timeout", "gone"}

Init ==
    /\ args \in StartArgs
    /\ server = "down"
    /\ stage = [c \in Client |-> "idle"]
    /\ bearer = [c \in Client |-> "none"]
    /\ age = [c \in Client |-> 0]
    /\ ran = [c \in Client |-> 0]
    /\ reply = [c \in Client |-> "none"]
    /\ Limiter!Init
    /\ earned = 0 /\ spent = 0

End(c, answer) ==
    /\ stage' = [stage EXCEPT ![c] = "idle"]
    /\ reply' = [reply EXCEPT ![c] = answer]
    /\ age' = [age EXCEPT ![c] = 0]
    /\ ran' = [ran EXCEPT ![c] = 0]

(* A start.  Loading the certificate and binding the address may fail, and   *)
(* then nothing is served, over TLS or without.                              *)
Start ==
    /\ server = "down"
    /\ args' \in StartArgs
    /\ \/ server' = "down"
       \/ Transport(args') \in {"http", "https"} /\ server' = Transport(args')
    /\ UNCHANGED <<requests, tokens, accrued, window>>

Begin(c) ==
    /\ server # "down"
    /\ stage[c] = "idle"
    /\ stage' = [stage EXCEPT ![c] = "body"]
    /\ \E b \in Bearer : bearer' = [bearer EXCEPT ![c] = b]
    /\ reply' = [reply EXCEPT ![c] = "none"]
    /\ UNCHANGED <<started, age, ran, tokens, accrued, window>>

(* RequestBodyLimitLayer.                                                    *)
BodyTooLarge(c) ==
    /\ stage[c] = "body"
    /\ End(c, "413")
    /\ UNCHANGED <<started, bearer, tokens, accrued, window>>

-----------------------------------------------------------------------------
(* handle_rpc up to its only await.                                          *)
(* A header is read as text; one that is not visible ASCII is read as none,  *)
(* and that is what a client sends who holds a token of other characters.    *)
Presented(sent, expected) ==
    IF sent = "opaque" \/ (sent = "right" /\ expected = "opaque") THEN "none" ELSE sent

(* token_matches: both sides of the comparison may be empty; what a client   *)
(* presents is trimmed, so it never equals a token with blanks around it.    *)
TokenMatches(presented, expected) ==
    \/ expected = "given" /\ presented = "right"
    \/ expected = "empty" /\ presented = "none"

Authenticated(c) ==
    LET expected == AuthToken(args) IN
    expected # "absent" => TokenMatches(Presented(bearer[c], expected), expected)

LimitedFirst(c) ==                  \* faulty: asks the limiter before it authenticates
    /\ stage[c] = "body"
    /\ \E granted \in BOOLEAN : Limiter!TryAcquire(granted) /\ End(c, IF granted THEN "401" ELSE "429")
    /\ UNCHANGED <<started, bearer, window>>

Unauthorized(c) ==
    /\ stage[c] = "body"
    /\ ~Authenticated(c)
    /\ End(c, "401")
    /\ UNCHANGED <<started, bearer, tokens, accrued, window>>

Limited(c) ==
    /\ stage[c] = "body"
    /\ Authenticated(c)
    /\ Limiter!TryAcquire(FALSE)
    /\ End(c, "429")
    /\ UNCHANGED <<started, bearer, window>>

(* Let in by the limiter: the body parses or it does not.                    *)
Accept(c) ==
    /\ stage[c] = "body"
    /\ Authenticated(c)
    /\ Limiter!TryAcquire(TRUE)
    /\ \/ End(c, "400")
       \/ stage' = [stage EXCEPT ![c] = "run"] /\ UNCHANGED <<age, ran, reply>>
    /\ spent' = IF Rate = 0 THEN 0 ELSE spent + Token
    /\ UNCHANGED <<started, bearer, earned>>

(* process_request answers, or its timeout does: both are a JSON-RPC body.   *)
Finish(c) ==
    /\ stage[c] = "run"
    /\ End(c, "result")
    /\ UNCHANGED <<started, bearer, tokens, accrued, window>>

HandlerTimeout(c) ==
    /\ stage[c] = "run"
    /\ ran[c] = RequestTimeout
    /\ End(c, "timeout")
    /\ UNCHANGED <<started, bearer, tokens, accrued, window>>

HandlerBackstop(c) ==               \* faulty: no timer while the body uploads
    /\ stage[c] = "run"
    /\ age[c] = Limit
    /\ End(c, "408")
    /\ UNCHANGED <<started, bearer, tokens, accrued, window>>

(* The TimeoutLayer polls the handler before its own timer.                  *)
LayerTimeout(c) ==
    /\ stage[c] # "idle"
    /\ age[c] = Limit
    /\ ran[c] < RequestTimeout
    /\ End(c, "408")
    /\ UNCHANGED <<started, bearer, tokens, accrued, window>>

(* The client hangs up and the handler's future is dropped.                  *)
Disconnect(c) ==
    /\ stage[c] # "idle"
    /\ End(c, "gone")
    /\ UNCHANGED <<started, bearer, tokens, accrued, window>>

-----------------------------------------------------------------------------
NeverDue(c) == FALSE                \* faulty: timers may be overrun

(* Time passes for everybody, unless a timer is due.                         *)
Due(c) == ran[c] = RequestTimeout \/ age[c] = Limit

Tick ==
    /\ server # "down"
    /\ \A c \in Client : ~Due(c)
    /\ age' = [c \in Client |-> IF stage[c] = "idle" THEN 0 ELSE age[c] + 1]
    /\ ran' = [c \in Client |-> IF stage[c] = "run" THEN ran[c] + 1 ELSE 0]
    /\ Limiter!Tick
    /\ IF earned + Rate <= MaxWindow
       THEN earned' = earned + Rate /\ UNCHANGED spent
       ELSE earned' = 0 /\ spent' = 0
    /\ UNCHANGED <<started, stage, bearer, reply>>

(* The monitor's window may open at any moment; a full one opens anew.       *)
OpenWindow ==
    /\ server # "down"
    /\ earned' = 0 /\ spent' = 0
    /\ UNCHANGED <<started, requests, tokens, accrued>>

Handle(c) == Unauthorized(c) \/ Limited(c) \/ Accept(c)
Serve(c) == Handle(c) \/ Finish(c) \/ HandlerTimeout(c) \/ LayerTimeout(c)

Next ==
    \/ Start
    \/ \E c \in Client : Begin(c) \/ BodyTooLarge(c) \/ Serve(c) \/ Disconnect(c)
    \/ Tick
    \/ OpenWindow

Spec == Init /\ [][Next]_vars

(* The clock runs and timers fire.  Neither the upload nor the handler is    *)
(* fair: a client may stall for ever and a tool may hang for ever.           *)
Fairness ==
    /\ WF_vars(Tick)
    /\ \A c \in Client : WF_vars(HandlerTimeout(c)) /\ WF_vars(LayerTimeout(c))

FairSpec == Spec /\ Fairness

-----------------------------------------------------------------------------
(* Every variable stays in its type, and no timer is overrun.                *)
TypeOK ==
    /\ args \in StartArgs
    /\ server \in {"down", "http", "https"}
    /\ stage \in [Client -> {"idle", "body", "run"}]
    /\ bearer \in [Client -> Bearer]
    /\ age \in [Client -> 0..Limit]
    /\ ran \in [Client -> 0..RequestTimeout]
    /\ reply \in [Client -> Reply]
    /\ Limiter!BucketTypeOK
    /\ earned \in Nat /\ spent \in Nat

(* In every window of time, whenever it opens, the limiter lets in no more   *)
(* than a full bucket and what the window's length earns.                    *)
WindowBound == Rate > 0 => spent <= Limiter!Capacity + earned

(* "Fail closed": a server that was asked for a token, by a file or by a     *)
(* flag that is not empty, runs no request without it, and one that was      *)
(* given a path for TLS serves nothing in the clear.  A bad file, half a     *)
(* pair or a certificate that does not load end the start.                   *)
TokenAsked == FromFile(args) \/ args.auth_token \in {"given", "padded", "opaque"}
FailClosed ==
    /\ TokenAsked => \A c \in Client : stage[c] = "run" => bearer[c] = "right"
    /\ server # "down" /\ (HasPath(args.tls_cert) \/ HasPath(args.tls_key)) => server = "https"

(* Whoever sends the token is never turned away, though files end in         *)
(* newlines, but for the tokens that nobody can present: one with characters *)
(* that a header cannot hold as text, from the flag or the file, and a flag  *)
(* that is empty or has blanks around it.                                    *)
NeverPresented ==
    \/ args.auth_token \in {"empty", "padded", "opaque"}
    \/ FromFile(args) /\ args.auth_token_file = "opaque"
TokenOpens ==
    \A c \in Client : reply[c] = "401" /\ bearer[c] = "right" => NeverPresented

(* "Authenticate before consuming a rate-limit token": a request without the *)
(* token never touches the bucket, so it cannot starve those that have it.   *)
AuthBeforeTokens ==
    [][tokens' # tokens =>
          \E c \in Client : stage[c] = "body" /\ stage[c] # stage'[c] /\ Authenticated(c)]_vars

(* "A normal handler timeout still returns the graceful body": the backstop  *)
(* fires only on a request whose upload outlasted the grace period.          *)
BackstopOnlyForSlowBodies ==
    [][\A c \in Client :
          reply'[c] = "408" /\ reply[c] # "408" => age[c] - ran[c] > Grace]_vars

(* However slow the rate, and however often clients are turned away, there   *)
(* is a token again and again: the bucket cannot lock everybody out.         *)
BucketRecovers == Rate > 0 => []<>(Limiter!Level >= Token)

(* Every request ends, even if its client stalls or its tool hangs.          *)
EveryRequestEnds == \A c \in Client : stage[c] # "idle" ~> stage[c] = "idle"
=============================================================================
