----------------------------- MODULE TokenBucket -----------------------------
(***************************************************************************)
(* services/tasks/token-bucket.ts: the rate limiter of one Cloud Tasks       *)
(* queue, as values.  maxDispatchesPerSecond may be fractional, so tokens    *)
(* are counted in fractions 1/TokenUnit of a dispatch; acquire() only asks   *)
(* for tokens > 0 and may therefore go below zero by less than a dispatch.   *)
(***************************************************************************)
LOCAL INSTANCE Integers

CONSTANT TokenUnit  (* fractions of a token that one dispatch costs           *)

(* TokenBucketConfig: maxTokens and refillRate in fractions of a token.      *)
Configs == [maxTokens : Nat, refillRate : Nat, maxConcurrent : Nat]
Buckets == [tokens : Int, concurrent : Nat, config : Configs]

Least(m, n) == IF m <= n THEN m ELSE n

NewBucket(config) ==
  [tokens |-> config.maxTokens, concurrent |-> 0, config |-> config]

Release(b) ==
  [b EXCEPT !.concurrent = IF @ > 0 THEN @ - 1 ELSE @]

Refill(b) ==
  [b EXCEPT !.tokens = Least(@ + b.config.refillRate, b.config.maxTokens)]

(* How many acquire() calls in a row succeed, while tokens > 0 and a slot is *)
(* free, and the bucket after n of them.                                     *)
AcquiresLeft(b) ==
  LET byTokens == (b.tokens + TokenUnit - 1) \div TokenUnit
      left     == Least(byTokens, b.config.maxConcurrent - b.concurrent)
  IN IF left > 0 THEN left ELSE 0

AcquireTimes(b, n) ==
  [b EXCEPT !.tokens = @ - n * TokenUnit, !.concurrent = @ + n]
=============================================================================
