----------------------------- MODULE TokenBucket -----------------------------
(* The rate limiter of the HTTP transport (src/ratelimit.rs).  The f64 token *)
(* count is kept in integer units, Token of them to one token; a tick of the *)
(* clock earns Rate units, so a rate below one request per second is a Rate  *)
(* with Rate * Second < Token.  As in the code the bucket is refilled when   *)
(* somebody asks, from the time gone by since it was last refilled.          *)
EXTENDS Naturals

CONSTANTS
    Rate,       \* units earned per tick
    Token,      \* units one accepted request costs
    Second,     \* ticks per second: the capacity is one second's worth
    Horizon     \* units counted exactly before `accrued` saturates

SecondsWorth == Rate * Second      \* faulty: the burst without max(1.0)

(* TokenBucket::new: rate.max(1.0).                                          *)
Capacity == IF Rate * Second > Token THEN Rate * Second ELSE Token

VARIABLES
    tokens,     \* Inner::tokens, in units
    accrued     \* what the time since Inner::last_refill has earned, in units

bucket == <<tokens, accrued>>

AtMost(n, bound) == IF n < bound THEN n ELSE bound

Init == tokens = Capacity /\ accrued = 0

(* What a caller finds when it locks the bucket now.                         *)
Level == AtMost(tokens + accrued, Capacity)

RejectKeepsClock(granted) ==       \* faulty: a rejection refills, last_refill stays
    IF Rate = 0
    THEN granted /\ UNCHANGED bucket
    ELSE /\ granted <=> Level >= Token
         /\ tokens' = IF granted THEN Level - Token ELSE Level
         /\ accrued' = IF granted THEN 0 ELSE accrued

(* try_acquire: refill and decide under one lock.                            *)
TryAcquire(granted) ==
    IF Rate = 0
    THEN granted /\ UNCHANGED bucket
    ELSE /\ granted <=> Level >= Token
         /\ tokens' = IF granted THEN Level - Token ELSE Level
         /\ accrued' = 0

(* Time passes.  More than Capacity makes no difference to Level, so the     *)
(* count may saturate at a Horizon that is at least Capacity.                *)
Tick ==
    /\ accrued' = AtMost(accrued + Rate, Horizon)
    /\ UNCHANGED tokens

BucketTypeOK == tokens \in 0..Capacity /\ accrued \in 0..Horizon
=============================================================================
