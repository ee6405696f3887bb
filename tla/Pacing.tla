------------------------------- MODULE Pacing -------------------------------
(***************************************************************************)
(* How crawls share the request budget of one source: HttpxFetcher.fetch   *)
(* (core/sources/transport.py) takes a slot before every attempt from      *)
(* RedisRateLimiter (core/sources/ratelimit.py), whose bucket is one Redis *)
(* hash that the workers read and write back under WATCH / MULTI / EXEC.   *)
(*                                                                         *)
(* Units are those of module Bucket.  Every worker stamps the bucket with  *)
(* its own clock, `Ahead' of the true one by a constant.                   *)
(***************************************************************************)
EXTENDS Bucket, FiniteSets, Functions

CONSTANTS
  Workers,      \* processes that fetch from the source
  MaxAttempts,  \* SourcePolicy.max_attempts
  Delays,       \* the waits a backoff or a Retry-After header can ask for
  MaxDelay,     \* SourcePolicy.max_retry_after_seconds
  MaxRedirects, \* the redirects httpx follows for one attempt, 20 by default
  MinTtl,       \* the 60 seconds a bucket is kept at least
  Ahead,        \* [Workers -> Nat]: clock skew
  MaxFetches,   \* bound: fetches of each worker
  MaxClock      \* bound: time stops here

ASSUME PacingAssumption ==
  /\ IsFiniteSet(Workers)
  /\ MaxAttempts \in Nat \ {0}
  /\ Delays \subseteq Nat /\ MaxDelay \in Nat /\ MinTtl \in Nat
  /\ MaxRedirects \in Nat
  /\ Ahead \in [Workers -> Nat]
  /\ MaxFetches \in Nat /\ MaxClock \in Nat

VARIABLES
  clock,        \* true time
  stored,       \* the Redis hash: tokens and ts
  expiresAt,    \* when Redis drops the key
  touched,      \* workers whose watched key changed: their EXEC will fail
  pc,           \* what each worker is doing
  seen,         \* the bucket as the worker read it, and its clock then
  wakeAt,       \* when a sleeping worker goes on
  attempt,      \* the attempt of the fetch a worker is in
  fetches,      \* fetches a worker began
  sent,         \* requests each worker sent
  redirected,   \* those of them that a redirect answered, and that was followed
  hops,         \* redirects followed in the attempt a worker is in
  grants,       \* requests granted, by their time stamp
  written       \* the bucket last written, were the key never to expire

redis  == <<stored, expiresAt, touched, grants, written>>
traffic == <<sent, redirected, hops>>
client == <<seen, wakeAt, attempt, fetches, traffic>>
vars   == <<clock, pc, redis, client>>

Times == 0..MaxClock

Local == INSTANCE TokenBucket WITH bucket <- written

\* No key: hmget finds nothing, which counts as a full bucket of this moment.
Missing == [tokens |-> Full, at |-> 0]
Unread  == [bucket |-> Missing, now |-> 0]

Now(w) == clock + Ahead[w]

\* Mutant: the key is dropped before an empty bucket would be full again.
KeyTtlShort == Full \div 2

\* max(60, int(2 * policy.burst / policy.requests_per_second))
KeyTtl == IF MinTtl > 2 * Full THEN MinTtl ELSE 2 * Full

Init ==
  /\ clock = 0
  /\ stored = Missing /\ expiresAt = 0 /\ touched = {} /\ written = Missing
  /\ grants = [t \in Times |-> 0]
  /\ pc = [w \in Workers |-> "idle"]
  /\ seen = [w \in Workers |-> Unread]
  /\ wakeAt = [w \in Workers |-> 0]
  /\ attempt = [w \in Workers |-> 0]
  /\ fetches = [w \in Workers |-> 0]
  /\ sent = [w \in Workers |-> 0]
  /\ redirected = [w \in Workers |-> 0]
  /\ hops = [w \in Workers |-> 0]

Moves(w, from, to) == pc[w] = from /\ pc' = [pc EXCEPT ![w] = to]

Tick ==
  /\ clock < MaxClock
  /\ clock' = clock + 1
  /\ UNCHANGED <<pc, redis, client>>

\* Redis drops the key.  Before 6.0.9 that does not fail an EXEC that watches it.
Expire ==
  /\ stored # Missing /\ clock >= expiresAt
  /\ stored' = Missing
  /\ touched' \in {touched, Workers}
  /\ UNCHANGED <<clock, expiresAt, grants, written, pc, client>>

-----------------------------------------------------------------------------
(* fetch: one attempt after the other, each with a slot of its own.         *)

BeginFetch(w) ==
  /\ Moves(w, "idle", "watch")
  /\ fetches[w] < MaxFetches
  /\ fetches' = [fetches EXCEPT ![w] = @ + 1]
  /\ attempt' = [attempt EXCEPT ![w] = 1]
  /\ UNCHANGED <<clock, redis, seen, wakeAt, traffic>>

\* The last request of an attempt leaves.
Sends(w) ==
  /\ sent' = [sent EXCEPT ![w] = @ + 1]
  /\ hops' = [hops EXCEPT ![w] = 0]
  /\ UNCHANGED redirected

\* A request is answered by a redirect: httpx sends the next one at once, without
\* a slot (follow_redirects), until it finds the redirects too many.
Redirects(w) ==
  /\ pc[w] = "request"
  /\ hops[w] < MaxRedirects
  /\ sent' = [sent EXCEPT ![w] = @ + 1]
  /\ redirected' = [redirected EXCEPT ![w] = @ + 1]
  /\ hops' = [hops EXCEPT ![w] = @ + 1]
  /\ UNCHANGED <<clock, pc, redis, seen, wakeAt, attempt, fetches>>

\* The fetch returns the response, or raises what no retry would mend: another
\* 4xx, a body beyond the limit or undecodable, an invalid URL.
Settles(w) ==
  /\ Moves(w, "request", "idle")
  /\ Sends(w)
  /\ UNCHANGED <<clock, redis, seen, wakeAt, attempt, fetches>>

\* A network error (too many redirects is one), or a status that may pass, on
\* the last attempt; or a status that comes with a wait beyond the policy's limit.
GivesUp(w) ==
  /\ Moves(w, "request", "idle")
  /\ attempt[w] >= MaxAttempts \/ \E delay \in Delays : delay > MaxDelay
  /\ Sends(w)
  /\ UNCHANGED <<clock, redis, seen, wakeAt, attempt, fetches>>

\* Mutant: the attempts are counted from zero.
RetriesOnceMore(w) ==
  /\ Moves(w, "request", "backoff")
  /\ attempt[w] <= MaxAttempts
  /\ \E delay \in Delays : wakeAt' = [wakeAt EXCEPT ![w] = clock + delay]
  /\ Sends(w)
  /\ UNCHANGED <<clock, redis, seen, attempt, fetches>>

\* The same with attempts left: the backoff, or the Retry-After, is slept out.
\* The limit binds a status only; the backoff after a network error has none.
Retries(w) ==
  /\ Moves(w, "request", "backoff")
  /\ attempt[w] < MaxAttempts
  /\ \E delay \in Delays : wakeAt' = [wakeAt EXCEPT ![w] = clock + delay]
  /\ Sends(w)
  /\ UNCHANGED <<clock, redis, seen, attempt, fetches>>

\* Mutant: a retry is sent on the slot of the attempt before.
NextAttemptUnpaced(w) ==
  /\ Moves(w, "backoff", "request")
  /\ clock >= wakeAt[w]
  /\ attempt' = [attempt EXCEPT ![w] = @ + 1]
  /\ wakeAt' = [wakeAt EXCEPT ![w] = 0]
  /\ UNCHANGED <<clock, redis, seen, fetches, traffic>>

NextAttempt(w) ==
  /\ Moves(w, "backoff", "watch")
  /\ clock >= wakeAt[w]
  /\ attempt' = [attempt EXCEPT ![w] = @ + 1]
  /\ wakeAt' = [wakeAt EXCEPT ![w] = 0]
  /\ UNCHANGED <<clock, redis, seen, fetches, traffic>>

-----------------------------------------------------------------------------
(* RedisRateLimiter.acquire.                                                *)

Watch(w) ==
  /\ Moves(w, "watch", "read")
  /\ touched' = touched \ {w}
  /\ UNCHANGED <<clock, stored, expiresAt, grants, written, client>>

\* hmget, and the worker's clock.
Read(w) ==
  /\ Moves(w, "read", "exec")
  /\ Now(w) \in Times
  /\ seen' = [seen EXCEPT ![w] = [bucket |-> stored, now |-> Now(w)]]
  /\ UNCHANGED <<clock, redis, wakeAt, attempt, fetches, traffic>>

\* Mutant: MULTI / EXEC without WATCH.
ExecUnwatched(w) ==
  LET granted == Granted(seen[w].bucket, seen[w].now)
      left == Looked(seen[w].bucket, seen[w].now)
  IN
  /\ Moves(w, "exec", IF granted THEN "request" ELSE "sleep")
  /\ stored' = left /\ written' = left
  /\ expiresAt' = clock + KeyTtl
  /\ touched' = Workers
  /\ grants' = [grants EXCEPT ![seen[w].now] = IF granted THEN @ + 1 ELSE @]
  /\ wakeAt' = [wakeAt EXCEPT ![w] = IF granted THEN 0 ELSE clock + Cost - left.tokens]
  /\ seen' = [seen EXCEPT ![w] = Unread]
  /\ UNCHANGED <<clock, attempt, fetches, traffic>>

\* EXEC: the bucket as computed from what was read is written back, with or
\* without the token, and the worker goes on or sleeps until there is one.
Exec(w) ==
  LET granted == Granted(seen[w].bucket, seen[w].now)
      left == Looked(seen[w].bucket, seen[w].now)
  IN
  /\ Moves(w, "exec", IF granted THEN "request" ELSE "sleep")
  /\ w \notin touched
  /\ stored' = left /\ written' = left
  /\ expiresAt' = clock + KeyTtl
  /\ touched' = Workers
  /\ grants' = [grants EXCEPT ![seen[w].now] = IF granted THEN @ + 1 ELSE @]
  /\ wakeAt' = [wakeAt EXCEPT ![w] = IF granted THEN 0 ELSE clock + Cost - left.tokens]
  /\ seen' = [seen EXCEPT ![w] = Unread]
  /\ UNCHANGED <<clock, attempt, fetches, traffic>>

\* WatchError: the bucket was written since it was watched; read it again.
Conflict(w) ==
  /\ Moves(w, "exec", "watch")
  /\ w \in touched
  /\ seen' = [seen EXCEPT ![w] = Unread]
  /\ UNCHANGED <<clock, redis, wakeAt, attempt, fetches, traffic>>

Wake(w) ==
  /\ Moves(w, "sleep", "watch")
  /\ clock >= wakeAt[w]
  /\ wakeAt' = [wakeAt EXCEPT ![w] = 0]
  /\ UNCHANGED <<clock, redis, seen, attempt, fetches, traffic>>

-----------------------------------------------------------------------------
Fetch(w) ==
  \/ BeginFetch(w) \/ Redirects(w) \/ Settles(w) \/ GivesUp(w) \/ Retries(w)
  \/ NextAttempt(w)
  \/ Watch(w) \/ Read(w) \/ Exec(w) \/ Conflict(w) \/ Wake(w)

Next == Tick \/ Expire \/ \E w \in Workers : Fetch(w)

Spec == Init /\ [][Next]_vars

-----------------------------------------------------------------------------
(* Properties.                                                              *)

Steps == {"idle", "watch", "read", "exec", "sleep", "request", "backoff"}
Buckets == [tokens : 0..Full, at : Times]

TypeOK ==
  /\ clock \in Times
  /\ stored \in Buckets /\ written \in Buckets
  /\ expiresAt \in 0..MaxClock + KeyTtl
  /\ touched \subseteq Workers
  /\ pc \in [Workers -> Steps]
  /\ seen \in [Workers -> [bucket : Buckets, now : Times]]
  /\ wakeAt \in [Workers -> Nat]
  /\ attempt \in [Workers -> 0..MaxAttempts]
  /\ fetches \in [Workers -> 0..MaxFetches]
  /\ sent \in [Workers -> Nat] /\ redirected \in [Workers -> Nat]
  /\ hops \in [Workers -> 0..MaxRedirects]
  /\ grants \in [Times -> Nat]

Total(f, over) == FoldFunctionOnSet(+, 0, f, over)

\* "Concurrent workers cannot both spend the same token": between any two time
\* stamps the workers together are granted no more than a full bucket and what
\* it gained meanwhile, whatever is retried, slept over, conflicting or expired.
WithinBudget ==
  \A a, b \in Times : a <= b =>
    Total(grants, a..b) * Cost <= Full + (b - a)

AttemptsAreGranted ==
  Total(sent, Workers) + Cardinality({w \in Workers : pc[w] = "request"})
    = Total(grants, Times) + Total(redirected, Workers)

RedirectsAreFew ==
  \A w \in Workers :
    redirected[w] <= MaxRedirects * (sent[w] - redirected[w]) + hops[w]

\* Every attempt, the retries included, was granted a slot of its own, and no
\* request leaves without one but those that follow a redirect: the budget paces
\* attempts, and a source that redirects is sent up to MaxRedirects requests more
\* for each of them.
SentIsGranted == AttemptsAreGranted /\ RedirectsAreFew

\* "Two implementations share the same behaviour": what the workers write to the
\* shared key is what the in-memory limiter does under its lock, and a key that
\* expires is a bucket that had filled up again anyway.
SharesOneBucket == Local!Spec

Skew(v, w) == IF Ahead[v] > Ahead[w] THEN Ahead[v] - Ahead[w] ELSE 0

\* RedisRateLimiter, lines 82-84: "a few seconds of skew only shifts pacing, it
\* cannot exceed the budget".  Shifted by the difference between two clocks, the
\* budget up to now is a full bucket, the time that passed and that difference.
SkewStaysWithinBudget ==
  \E v, w \in Workers : Total(grants, Times) * Cost <= Full + clock + Skew(v, w)
=============================================================================
