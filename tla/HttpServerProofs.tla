-------------------------- MODULE HttpServerProofs ---------------------------
(* Proofs about HttpServer, for every rate, capacity, timeout and set of     *)
(* clients.  The window bound is not inductive: what carries it is that the  *)
(* units taken in the window and those a caller would find now never exceed  *)
(* a full bucket and the units earned.                                       *)
EXTENDS HttpServer, TLAPS

Ledger == Rate > 0 => spent + Limiter!Level <= Limiter!Capacity + earned

IInv == TypeOK /\ Ledger

(* The bucket holds at least one token, and its level is within bounds.      *)
LEMMA BucketFacts ==
    /\ Limiter!Capacity \in Nat
    /\ Limiter!Capacity >= Token
    /\ TypeOK => Limiter!Level \in 0..Limiter!Capacity
<1>1. Rate * Second \in Nat
  BY HttpAssumption
<1>2. Limiter!Capacity \in Nat /\ Limiter!Capacity >= Token
  BY <1>1, HttpAssumption DEF Limiter!Capacity
<1> QED
  BY <1>2 DEF TypeOK, Limiter!BucketTypeOK, Limiter!Level, Limiter!AtMost

(* Asking for a token keeps the bucket typed and takes from the level what   *)
(* it grants, no more and no less.                                           *)
LEMMA AcquireFacts ==
    ASSUME TypeOK, Rate > 0, NEW granted \in BOOLEAN, Limiter!TryAcquire(granted)
    PROVE  /\ Limiter!BucketTypeOK'
           /\ granted => Limiter!Level' = Limiter!Level - Token
           /\ ~granted => Limiter!Level' = Limiter!Level
<1>1. Rate # 0
  BY HttpAssumption
<1>2. /\ granted <=> Limiter!Level >= Token
      /\ tokens' = IF granted THEN Limiter!Level - Token ELSE Limiter!Level
      /\ accrued' = 0
  BY <1>1 DEF Limiter!TryAcquire
<1>3. tokens' \in 0..Limiter!Capacity
  BY <1>2, BucketFacts, HttpAssumption
<1>4. Limiter!Level' = tokens'
  BY <1>2, <1>3, BucketFacts DEF Limiter!Level, Limiter!AtMost
<1> QED
  BY <1>2, <1>3, <1>4, HttpAssumption DEF Limiter!BucketTypeOK

(* A tick earns at most Rate units.                                          *)
LEMMA TickFacts ==
    ASSUME TypeOK, Limiter!Tick
    PROVE  /\ Limiter!BucketTypeOK'
           /\ Limiter!Level' \in 0..Limiter!Capacity
           /\ Limiter!Level' <= Limiter!Level + Rate
<1>1. /\ tokens \in 0..Limiter!Capacity
      /\ accrued \in 0..Horizon
      /\ Limiter!Capacity \in Nat
      /\ Rate \in Nat /\ Horizon \in Nat
  BY BucketFacts, HttpAssumption DEF TypeOK, Limiter!BucketTypeOK
<1>2. PICK a \in 0..Horizon : tokens' = tokens /\ accrued' = a /\ a <= accrued + Rate
  BY <1>1 DEF Limiter!Tick, Limiter!AtMost
<1>3. Limiter!BucketTypeOK'
  BY <1>1, <1>2 DEF Limiter!BucketTypeOK
<1>4. Limiter!Level = IF tokens + accrued < Limiter!Capacity THEN tokens + accrued ELSE Limiter!Capacity
  BY DEF Limiter!Level, Limiter!AtMost
<1>5. Limiter!Level' = IF tokens + a < Limiter!Capacity THEN tokens + a ELSE Limiter!Capacity
  BY <1>2 DEF Limiter!Level, Limiter!AtMost, Limiter!Capacity
<1> QED
  BY <1>1, <1>2, <1>3, <1>4, <1>5

-----------------------------------------------------------------------------
(* The invariant holds before the start.                                     *)
LEMMA InitIInv == Init => IInv
<1> SUFFICES ASSUME Init PROVE IInv
  OBVIOUS
<1>1. TypeOK
  BY HttpAssumption, BucketFacts
     DEF Init, TypeOK, Limiter!Init, Limiter!BucketTypeOK, Limit, Reply, Bearer
<1> QED
  BY <1>1, BucketFacts DEF Init, IInv, Ledger, Limiter!Init, Limiter!Level, Limiter!AtMost

(* Every action keeps the types and the ledger.                              *)
LEMMA StepKeepsIInv == IInv /\ [Next]_vars => IInv'
<1> SUFFICES ASSUME IInv, [Next]_vars PROVE IInv'
  OBVIOUS
<1> USE HttpAssumption DEF Limit, Reply, Bearer, started
<1>1. TypeOK /\ Ledger
  BY DEF IInv
<1>2. ASSUME UNCHANGED <<tokens, accrued, window>>, TypeOK'
      PROVE  IInv'
  BY <1>1, <1>2 DEF IInv, Ledger, window, Limiter!Level
<1>3. ASSUME UNCHANGED <<started, tokens, accrued, window>>,
             bearer' \in [Client -> Bearer],
             NEW c \in Client, NEW a \in Reply, End(c, a)
      PROVE  IInv'
  <2>1. TypeOK'
    BY <1>1, <1>3 DEF TypeOK, End, window, Limiter!BucketTypeOK
  <2> QED
    BY <1>2, <1>3, <2>1
<1>4. ASSUME NEW c \in Client, Begin(c) PROVE IInv'
  <2>1. TypeOK'
    BY <1>1, <1>4 DEF TypeOK, Begin, window, Limiter!BucketTypeOK
  <2> QED
    BY <1>2, <1>4, <2>1 DEF Begin
<1>5. ASSUME NEW c \in Client,
             BodyTooLarge(c) \/ Unauthorized(c) \/ Finish(c) \/ HandlerTimeout(c)
             \/ LayerTimeout(c) \/ Disconnect(c)
      PROVE  IInv'
  BY <1>1, <1>3, <1>5 DEF BodyTooLarge, Unauthorized, Finish, HandlerTimeout,
     LayerTimeout, Disconnect, TypeOK
<1>6. ASSUME NEW c \in Client, Limited(c) PROVE IInv'
  <2>1. CASE Rate = 0
    <3>1. FALSE
      BY <1>6, <2>1 DEF Limited, Limiter!TryAcquire
    <3> QED
      BY <3>1
  <2>2. CASE Rate > 0
    <3>1. Limiter!BucketTypeOK' /\ Limiter!Level' = Limiter!Level
      BY <1>1, <1>6, <2>2, AcquireFacts DEF Limited
    <3>2. TypeOK'
      BY <1>1, <1>6, <3>1 DEF TypeOK, Limited, End, window
    <3> QED
      BY <1>1, <1>6, <3>1, <3>2 DEF IInv, Ledger, Limited, window
  <2> QED
    BY <2>1, <2>2
<1>7. ASSUME NEW c \in Client, Accept(c) PROVE IInv'
  <2>1. /\ stage' \in [Client -> {"idle", "body", "run"}]
        /\ bearer' \in [Client -> Bearer]
        /\ age' \in [Client -> 0..Limit]
        /\ ran' \in [Client -> 0..RequestTimeout]
        /\ reply' \in [Client -> Reply]
    BY <1>1, <1>7 DEF TypeOK, Accept, End
  <2>2. CASE Rate = 0
    BY <1>1, <1>7, <2>1, <2>2 DEF Accept, Limiter!TryAcquire, Limiter!bucket, TypeOK,
       Limiter!BucketTypeOK, IInv, Ledger
  <2>3. CASE Rate > 0
    <3>1. Limiter!BucketTypeOK' /\ Limiter!Level' = Limiter!Level - Token
      BY <1>1, <1>7, <2>3, AcquireFacts DEF Accept
    <3>2. spent' = spent + Token /\ earned' = earned
      BY <1>7, <2>3 DEF Accept
    <3>3. TypeOK'
      BY <1>1, <1>7, <2>1, <3>1, <3>2 DEF TypeOK, Accept
    <3>4. Limiter!Level \in Nat /\ Limiter!Capacity \in Nat /\ spent \in Nat /\ earned \in Nat
      BY <1>1, BucketFacts DEF TypeOK
    <3> QED
      BY <1>1, <2>3, <3>1, <3>2, <3>3, <3>4 DEF IInv, Ledger
  <2> QED
    BY <2>2, <2>3
<1>8. CASE Tick
  <2>1. /\ Limiter!BucketTypeOK'
        /\ Limiter!Level' \in 0..Limiter!Capacity
        /\ Limiter!Level' <= Limiter!Level + Rate
    BY <1>1, <1>8, TickFacts DEF Tick
  <2>2. age' \in [Client -> 0..Limit] /\ ran' \in [Client -> 0..RequestTimeout]
    <3>1. Limit \in Nat /\ RequestTimeout \in Nat
      OBVIOUS
    <3>2. ASSUME NEW c \in Client
          PROVE  age[c] \in 0..Limit /\ age[c] # Limit /\ ran[c] \in 0..RequestTimeout /\ ran[c] # RequestTimeout
      BY <1>1, <1>8 DEF Tick, Due, TypeOK
    <3> QED
      BY <1>8, <3>1, <3>2 DEF Tick
  <2>3. TypeOK'
    BY <1>1, <1>8, <2>1, <2>2 DEF Tick, TypeOK
  <2>4. /\ Limiter!Level \in Nat /\ Limiter!Level' \in 0..Limiter!Capacity
        /\ Limiter!Capacity \in Nat /\ spent \in Nat /\ earned \in Nat
    BY <1>1, <2>1, BucketFacts DEF TypeOK
  <2>5. Ledger'
    BY <1>1, <1>8, <2>1, <2>4 DEF Tick, Ledger
  <2> QED
    BY <2>3, <2>5 DEF IInv
<1>9. CASE OpenWindow
  <2>1. TypeOK'
    BY <1>1, <1>9 DEF OpenWindow, requests, TypeOK, Limiter!BucketTypeOK
  <2>2. Limiter!Level' = Limiter!Level
    BY <1>9 DEF OpenWindow, Limiter!Level
  <2> QED
    BY <1>1, <1>9, <2>1, <2>2, BucketFacts DEF OpenWindow, IInv, Ledger
<1>10. CASE UNCHANGED vars
  <2>1. TypeOK'
    BY <1>1, <1>10 DEF vars, TypeOK, Limiter!BucketTypeOK
  <2> QED
    BY <1>2, <1>10, <2>1 DEF vars, window
<1>11. CASE Start
  <2>1. TypeOK'
    BY <1>1, <1>11 DEF Start, Transport, requests, window, TypeOK, Limiter!BucketTypeOK
  <2> QED
    BY <1>2, <1>11, <2>1 DEF Start
<1> QED
  BY <1>4, <1>5, <1>6, <1>7, <1>8, <1>9, <1>10, <1>11 DEF Next, Serve, Handle

-----------------------------------------------------------------------------
(* The inductive invariant holds in every reachable state.                   *)
THEOREM Invariance == Spec => []IInv
BY InitIInv, StepKeepsIInv, PTL DEF Spec

(* Every variable keeps its type and no timer is overrun.                    *)
THEOREM TypeCorrect == Spec => []TypeOK
<1>1. IInv => TypeOK
  BY DEF IInv
<1> QED
  BY <1>1, Invariance, PTL

(* At every rate and in every window of time, the requests let in cost at    *)
(* most a full bucket and what the window earned.                            *)
THEOREM WindowBounded == Spec => []WindowBound
<1>1. IInv => WindowBound
  BY BucketFacts, HttpAssumption DEF IInv, Ledger, WindowBound, TypeOK
<1> QED
  BY <1>1, Invariance, PTL

(* The TimeoutLayer answers 408 only when the upload used up the grace.      *)
THEOREM BackstopIsLast == Spec => BackstopOnlyForSlowBodies
<1>1. ASSUME IInv, Next, NEW c \in Client, reply'[c] = "408", reply[c] # "408"
      PROVE  age[c] - ran[c] > Grace
  <2> USE DEF IInv, TypeOK
  <2>1. ASSUME NEW d \in Client, ~LayerTimeout(d),
               Begin(d) \/ BodyTooLarge(d) \/ Serve(d) \/ Disconnect(d)
        PROVE  FALSE
    BY <1>1, <2>1 DEF Begin, BodyTooLarge, Serve, Handle, Unauthorized, Limited, Accept,
       Finish, HandlerTimeout, Disconnect, End
  <2>2. ASSUME NEW d \in Client, LayerTimeout(d) PROVE age[c] - ran[c] > Grace
    <3>1. d = c
      BY <1>1, <2>2 DEF LayerTimeout, End
    <3> QED
      BY <1>1, <2>2, <3>1, HttpAssumption DEF LayerTimeout, Limit
  <2>3. ASSUME Start \/ Tick \/ OpenWindow PROVE FALSE
    BY <1>1, <2>3 DEF Start, Tick, OpenWindow, requests
  <2> QED
    BY <1>1, <2>1, <2>2, <2>3 DEF Next
<1>2. IInv /\ [Next]_vars =>
         [\A c \in Client :
             reply'[c] = "408" /\ reply[c] # "408" => age[c] - ran[c] > Grace]_vars
  BY <1>1
<1> QED
  BY <1>2, Invariance, PTL DEF Spec, BackstopOnlyForSlowBodies

(* Only an authenticated request that leaves `body` touches the bucket: the  *)
(* clock refills it lazily, and every other answer is given before it.       *)
THEOREM TokensAfterAuth == Spec => AuthBeforeTokens
<1>1. ASSUME TypeOK, Next, tokens' # tokens
      PROVE  \E c \in Client : stage[c] = "body" /\ stage[c] # stage'[c] /\ Authenticated(c)
  <2>1. ASSUME NEW d \in Client, Limited(d) \/ Accept(d)
        PROVE  stage[d] = "body" /\ stage[d] # stage'[d] /\ Authenticated(d)
    BY <1>1, <2>1 DEF TypeOK, Limited, Accept, End
  <2>2. ASSUME NEW d \in Client,
               Begin(d) \/ BodyTooLarge(d) \/ Unauthorized(d) \/ Finish(d)
               \/ HandlerTimeout(d) \/ LayerTimeout(d) \/ Disconnect(d)
        PROVE  FALSE
    BY <1>1, <2>2 DEF Begin, BodyTooLarge, Unauthorized, Finish, HandlerTimeout,
       LayerTimeout, Disconnect
  <2>3. ASSUME Start \/ Tick \/ OpenWindow PROVE FALSE
    BY <1>1, <2>3 DEF Start, Tick, OpenWindow, Limiter!Tick
  <2> QED
    BY <1>1, <2>1, <2>2, <2>3 DEF Next, Serve, Handle
<1>2. TypeOK /\ [Next]_vars =>
         [tokens' # tokens =>
             \E c \in Client : stage[c] = "body" /\ stage[c] # stage'[c] /\ Authenticated(c)]_vars
  BY <1>1
<1> QED
  BY <1>2, TypeCorrect, PTL DEF Spec, AuthBeforeTokens

-----------------------------------------------------------------------------
(* What a start settles stays true of every request it serves: a request     *)
(* that runs was let in under the token of the command line now in force.    *)
Settled ==
    /\ server # "down" => Transport(args) = server
    /\ server = "down" => \A c \in Client : stage[c] = "idle" /\ reply[c] = "none"
    /\ \A c \in Client : stage[c] = "run" => Authenticated(c)

AuthInv == Settled /\ TokenOpens

(* A command line that starts a server asks for a token from a file or from  *)
(* the flag; the file's is trimmed and never blank.                          *)
LEMMA TokenFacts ==
    ASSUME NEW a \in Args, Transport(a) # "down"
    PROVE  /\ FromFile(a) =>
                AuthToken(a) = IF a.auth_token_file = "opaque" THEN "opaque" ELSE "given"
           /\ ~FromFile(a) => AuthToken(a) = a.auth_token
           /\ a.auth_token \in TokenFlag
<1>1. ~BadTokenFile(a)
  BY DEF Transport, Refused
<1>2. a.auth_token \in TokenFlag /\ a.auth_token_file \in TokenFile
  BY DEF Args
<1> QED
  BY <1>1, <1>2 DEF AuthToken, BadTokenFile, FromFile, Trimmed, TokenFile

(* So does what it says about authentication, which every step keeps.        *)
LEMMA InitAuth == Init => AuthInv
BY DEF Init, AuthInv, Settled, TokenOpens, NeverPresented

LEMMA StepKeepsAuth == IInv /\ AuthInv /\ [Next]_vars => AuthInv'
<1> SUFFICES ASSUME IInv, AuthInv, [Next]_vars PROVE AuthInv'
  OBVIOUS
<1>1. /\ args \in Args
      /\ stage \in [Client -> {"idle", "body", "run"}]
      /\ bearer \in [Client -> Bearer]
      /\ reply \in [Client -> Reply]
  BY HttpAssumption DEF IInv, TypeOK
<1>2. Settled /\ TokenOpens
  BY DEF AuthInv
<1>3. ASSUME UNCHANGED <<started, bearer>>, NEW d \in Client
      PROVE  Authenticated(d)' <=> Authenticated(d)
  BY <1>3 DEF started, Authenticated
<1>4. ASSUME UNCHANGED <<started, stage, bearer, reply>> PROVE AuthInv'
  BY <1>2, <1>3, <1>4 DEF AuthInv, Settled, TokenOpens, NeverPresented, started
<1>5. ASSUME UNCHANGED <<started, bearer>>, NEW c \in Client, NEW a \in Reply \ {"401"},
             stage[c] # "idle", End(c, a)
      PROVE  AuthInv'
  <2>1. server # "down" /\ server' = server /\ args' = args
    BY <1>2, <1>5 DEF Settled, started
  <2>2. \A d \in Client : stage'[d] = "run" => stage[d] = "run"
    BY <1>1, <1>5 DEF End
  <2>3. Settled'
    BY <1>2, <1>3, <1>5, <2>1, <2>2 DEF Settled
  <2>4. TokenOpens'
    BY <1>1, <1>2, <1>5, <2>1 DEF TokenOpens, NeverPresented, End
  <2> QED
    BY <2>3, <2>4 DEF AuthInv
<1>6. CASE Start
  BY <1>2, <1>6 DEF Start, requests, AuthInv, Settled, TokenOpens, NeverPresented
<1>7. ASSUME NEW c \in Client, Begin(c) PROVE AuthInv'
  <2>1. /\ server # "down" /\ server' = server /\ args' = args
        /\ \A d \in Client : stage'[d] = "run" => d # c /\ stage[d] = "run"
        /\ \A d \in Client : reply'[d] = "401" => d # c /\ reply[d] = "401"
        /\ \A d \in Client : d # c => bearer'[d] = bearer[d]
    BY <1>1, <1>7 DEF Begin, started
  <2>2. Settled'
    BY <1>2, <2>1 DEF Settled, Authenticated
  <2> QED
    BY <1>2, <2>1, <2>2 DEF AuthInv, TokenOpens, NeverPresented
<1>8. ASSUME NEW c \in Client,
             BodyTooLarge(c) \/ Limited(c) \/ Finish(c) \/ HandlerTimeout(c)
             \/ LayerTimeout(c) \/ Disconnect(c)
      PROVE  AuthInv'
  BY <1>5, <1>8 DEF BodyTooLarge, Limited, Finish, HandlerTimeout, LayerTimeout,
     Disconnect, Reply
<1>9. ASSUME NEW c \in Client, Unauthorized(c) PROVE AuthInv'
  <2>1. /\ server # "down" /\ server' = server /\ args' = args /\ bearer' = bearer
        /\ \A d \in Client : stage'[d] = "run" => stage[d] = "run"
        /\ \A d \in Client : d # c => reply'[d] = reply[d]
    BY <1>1, <1>2, <1>9 DEF Unauthorized, End, Settled, started
  <2>2. bearer[c] = "right" => NeverPresented
    <3>1. Transport(args) # "down"
      BY <1>2, <2>1 DEF Settled
    <3> QED
      BY <1>1, <1>9, <3>1, TokenFacts
         DEF Unauthorized, Authenticated, Presented, TokenMatches, TokenFlag, NeverPresented
  <2>3. Settled'
    BY <1>2, <2>1 DEF Settled, Authenticated
  <2> QED
    BY <1>2, <2>1, <2>2, <2>3 DEF AuthInv, TokenOpens, NeverPresented
<1>10. ASSUME NEW c \in Client, Accept(c) PROVE AuthInv'
  <2>1. UNCHANGED <<started, bearer>> /\ stage[c] = "body" /\ Authenticated(c)
    BY <1>10 DEF Accept
  <2>2. CASE End(c, "400")
    BY <1>5, <2>1, <2>2 DEF Reply
  <2>3. CASE stage' = [stage EXCEPT ![c] = "run"] /\ UNCHANGED <<age, ran, reply>>
    <3>1. \A d \in Client : stage'[d] = "run" => d = c \/ stage[d] = "run"
      BY <1>1, <2>3
    <3>2. server # "down" /\ server' = server /\ args' = args
      BY <1>2, <2>1 DEF Settled, started
    <3>3. Settled'
      BY <1>2, <1>3, <2>1, <3>1, <3>2 DEF Settled
    <3> QED
      BY <1>2, <2>1, <2>3, <3>2, <3>3 DEF AuthInv, TokenOpens, NeverPresented
  <2> QED
    BY <1>10, <2>2, <2>3 DEF Accept
<1>11. CASE Tick \/ OpenWindow \/ UNCHANGED vars
  BY <1>4, <1>11 DEF Tick, OpenWindow, requests, vars, started
<1> QED
  BY <1>6, <1>7, <1>8, <1>9, <1>10, <1>11 DEF Next, Serve, Handle

(* Both hold in every reachable state.                                       *)
LEMMA AuthInvariance == Spec => [](IInv /\ AuthInv)
<1>1. Init => IInv /\ AuthInv
  BY InitIInv, InitAuth
<1>2. IInv /\ AuthInv /\ [Next]_vars => (IInv /\ AuthInv)'
  BY StepKeepsIInv, StepKeepsAuth
<1> QED
  BY <1>1, <1>2, PTL DEF Spec

(* A server that was asked for a token runs nothing without it, and one that *)
(* was given a path for TLS serves nothing in the clear, whatever the file   *)
(* holds, whatever the flags say and whichever step of the start fails.      *)
THEOREM FailsClosed == Spec => []FailClosed
<1>1. IInv /\ AuthInv => FailClosed
  <2> SUFFICES ASSUME IInv, AuthInv PROVE FailClosed
    OBVIOUS
  <2>1. args \in Args /\ Settled
    BY HttpAssumption DEF IInv, TypeOK, AuthInv
  <2>2. ASSUME TokenAsked, NEW c \in Client, stage[c] = "run" PROVE bearer[c] = "right"
    <3>1. Transport(args) # "down" /\ Authenticated(c)
      BY <2>1, <2>2 DEF Settled
    <3>2. AuthToken(args) \in {"given", "padded", "opaque"}
      BY <2>1, <2>2, <3>1, TokenFacts DEF TokenAsked
    <3> QED
      BY <3>1, <3>2 DEF Authenticated, Presented, TokenMatches
  <2>3. ASSUME server # "down", HasPath(args.tls_cert) \/ HasPath(args.tls_key)
        PROVE  server = "https"
    <3>1. server \in {"http", "https"} /\ Transport(args) = server
      BY <2>1, <2>3 DEF IInv, TypeOK, Settled
    <3>2. ~HalfTls(args)
      BY <3>1 DEF Transport, Refused
    <3>3. HasPath(args.tls_cert) /\ HasPath(args.tls_key)
      BY <2>3, <3>2 DEF HalfTls, HasPath
    <3> QED
      BY <3>1, <3>3 DEF Transport
  <2> QED
    BY <2>2, <2>3 DEF FailClosed
<1> QED
  BY <1>1, AuthInvariance, PTL

(* Nobody who sends the token is turned away, unless it is one that cannot   *)
(* be presented: with characters that are no text in a header, or from a     *)
(* flag that is empty or has blanks around it.                               *)
THEOREM TokenHolderServed == Spec => []TokenOpens
<1>1. IInv /\ AuthInv => TokenOpens
  BY DEF AuthInv
<1> QED
  BY <1>1, AuthInvariance, PTL
=============================================================================
