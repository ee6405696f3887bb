------------------------------- MODULE Bucket -------------------------------
(***************************************************************************)
(* The arithmetic both rate limiters of core/sources/ratelimit.py share:   *)
(* what is in a token bucket after some time, and what a request takes out *)
(* of it.                                                                  *)
(*                                                                         *)
(* Time and tokens are counted in the same unit: the bucket gains one unit *)
(* per tick and a request costs Cost of them, so 1 / Cost is the source's  *)
(* requests_per_second.                                                    *)
(***************************************************************************)
EXTENDS Naturals

CONSTANTS
  Burst,        \* SourcePolicy.burst: requests a full bucket pays for
  Cost          \* ticks between two requests at the configured rate

\* SourcePolicy.__post_init__ refuses anything else.
ASSUME PolicyAssumption == Burst \in Nat \ {0} /\ Cost \in Nat \ {0}

Full == Burst * Cost

Capped(tokens) == IF tokens > Full THEN Full ELSE tokens

\* max(0, now - updated_at)
Elapsed(since, now) == IF now > since THEN now - since ELSE 0

Refilled(b, now) == Capped(b.tokens + Elapsed(b.at, now))

\* What one look at bucket b at time now leaves in it; it grants a request when
\* that much was there.
Granted(b, now) == Refilled(b, now) >= Cost
Looked(b, now) ==
  [tokens |-> IF Granted(b, now) THEN Refilled(b, now) - Cost ELSE Refilled(b, now),
   at |-> now]
=============================================================================
