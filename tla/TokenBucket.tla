---------------------------- MODULE TokenBucket ----------------------------
(***************************************************************************)
(* InMemoryRateLimiter (core/sources/ratelimit.py): the token bucket of    *)
(* one source inside one process, where a lock makes every look at the     *)
(* bucket one step.  RedisRateLimiter promises the same behaviour to       *)
(* several processes; module Pacing shows that it keeps the promise.       *)
(***************************************************************************)
EXTENDS Bucket

CONSTANT MaxClock   \* bound: time stops here

VARIABLES
  bucket,       \* tokens left, and when they were counted
  grants        \* requests granted, by the time stamp they were granted at

Times == 0..MaxClock

\* A bucket nobody has used yet is full.
Init ==
  /\ bucket = [tokens |-> Full, at |-> 0]
  /\ grants = [t \in Times |-> 0]

\* One turn of the loop in acquire.
Look(now) ==
  /\ now >= bucket.at
  /\ bucket' = Looked(bucket, now)
  /\ grants' = [grants EXCEPT ![now] = IF Granted(bucket, now) THEN @ + 1 ELSE @]

Next == \E now \in Times : Look(now)

Spec == Init /\ [][Next]_<<bucket, grants>>
=============================================================================
