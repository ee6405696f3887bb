--------------------------- MODULE Pacing_proofs ---------------------------
(***************************************************************************)
(* The Redis token bucket behaves like the in-memory one, for any number   *)
(* of workers, any policy and any key lifetime the code computes, as long  *)
(* as the clocks of the workers agree.                                     *)
(***************************************************************************)
EXTENDS Pacing, FiniteSetTheorems, WellFoundedInduction, TLAPS

-----------------------------------------------------------------------------
(* Total: the function it folds with exists, by a smallest set without it,  *)
(* and sums up the values in any order.                                     *)

\* The element a fold takes next, and the function it is computed by.
Chosen(s) == CHOOSE x \in s : TRUE

Sums(g, f, S) ==
  g = [s \in SUBSET S |-> IF s = {} THEN 0 ELSE f[Chosen(s)] + g[s \ {Chosen(s)}]]

LEMMA TotalIsAFold ==
  ASSUME NEW f, NEW S
  PROVE  Total(f, S) = (CHOOSE g : Sums(g, f, S))[S]
BY DEF Total, FoldFunctionOnSet, MapThenFoldSet, Sums, Chosen

\* A family of subsets of a finite set has a smallest member.
LEMMA SmallestSet ==
  ASSUME NEW S, IsFiniteSet(S), NEW F \in SUBSET SUBSET S, F # {}
  PROVE  \E T \in F : \A U \in F : U \subseteq T => U = T
<1>1. PICK T \in F : \A U \in F : ~ (<<U, T>> \in StrictSubsetOrdering(S))
  <2>1. F \subseteq FiniteSubsetsOf(S)
    BY FS_Subset DEF FiniteSubsetsOf
  <2>2. QED
    BY <2>1, WFMin, FS_StrictSubsetOrderingWellFounded
<1>2. QED
  BY <1>1 DEF StrictSubsetOrdering

LEMMA SumsAreUnique ==
  ASSUME NEW f, NEW S, IsFiniteSet(S), NEW T \in SUBSET S, NEW g, NEW h, Sums(g, f, S), Sums(h, f, T)
  PROVE  \A s \in SUBSET T : g[s] = h[s]
<1> DEFINE Odd == {s \in SUBSET T : g[s] # h[s]}
<1> SUFFICES ASSUME Odd # {} PROVE FALSE
  OBVIOUS
<1>1. IsFiniteSet(T) /\ Odd \in SUBSET SUBSET T
  BY FS_Subset
<1>2. PICK s \in Odd : \A u \in Odd : u \subseteq s => u = s
  <2> HIDE DEF Odd
  <2> QED BY <1>1, SmallestSet
<1>3. s \in SUBSET S /\ s \in SUBSET T
  OBVIOUS
<1>4. CASE s = {}
  BY <1>2, <1>3, <1>4 DEF Sums
<1>5. CASE s # {}
  <2>1. Chosen(s) \in s
    BY <1>5 DEF Chosen
  <2>2. s \ {Chosen(s)} \notin Odd
    BY <1>2, <2>1
  <2>3. g[s \ {Chosen(s)}] = h[s \ {Chosen(s)}]
    BY <2>2
  <2>4. g[s] = f[Chosen(s)] + g[s \ {Chosen(s)}]
    BY <1>3, <1>5 DEF Sums
  <2>5. h[s] = f[Chosen(s)] + h[s \ {Chosen(s)}]
    BY <1>3, <1>5 DEF Sums
  <2>6. QED
    BY <2>3, <2>4, <2>5
<1>6. QED
  BY <1>4, <1>5

LEMMA SumsExist ==
  ASSUME NEW f, NEW S, IsFiniteSet(S)
  PROVE  \E g : Sums(g, f, S)
<1> DEFINE Without == {T \in SUBSET S : ~ \E g : Sums(g, f, T)}
<1> SUFFICES ASSUME Without # {} PROVE FALSE
  OBVIOUS
<1>1. PICK T \in Without : \A U \in Without : U \subseteq T => U = T
  <2>1. Without \in SUBSET SUBSET S
    OBVIOUS
  <2> HIDE DEF Without
  <2>2. QED
    BY <2>1, SmallestSet
<1> DEFINE Of(U) == CHOOSE g : Sums(g, f, U)
           g == [s \in SUBSET T |->
                   IF s = {} THEN 0 ELSE f[Chosen(s)] + Of(s \ {Chosen(s)})[s \ {Chosen(s)}]]
<1>2. ASSUME NEW U \in SUBSET T, U # T PROVE Sums(Of(U), f, U)
  <2>1. U \notin Without /\ U \in SUBSET S
    BY <1>1, <1>2
  <2>2. \E h : Sums(h, f, U)
    BY <2>1
  <2>3. QED
    BY <2>2
<1>3. ASSUME NEW s \in SUBSET T, s # {}
      PROVE  g[s \ {Chosen(s)}] = Of(s \ {Chosen(s)})[s \ {Chosen(s)}]
  <2> DEFINE u == s \ {Chosen(s)}
             v == u \ {Chosen(u)}
  <2>1. Chosen(s) \in s
    BY <1>3 DEF Chosen
  <2>2. u \in SUBSET T /\ u # T
    BY <2>1
  <2>3. Sums(Of(u), f, u)
    BY <1>2, <2>2
  <2>4. CASE u = {}
    <3>1. g[u] = 0
      BY <2>2, <2>4
    <3>2. Of(u)[u] = 0
      <4> HIDE DEF Of, u
      <4> QED BY <2>3, <2>4 DEF Sums
    <3>3. QED
      BY <3>1, <3>2
  <2>5. CASE u # {}
    <3>1. Chosen(u) \in u
      BY <2>5 DEF Chosen
    <3>2. v \in SUBSET T /\ v # T /\ v \in SUBSET u
      BY <2>2, <3>1
    <3>3. Sums(Of(v), f, v)
      BY <1>2, <3>2
    <3>4. Of(u)[v] = Of(v)[v]
      <4>1. IsFiniteSet(u)
        BY FS_Subset
      <4> HIDE DEF Of, u, v
      <4> QED BY <2>3, <3>2, <3>3, <4>1, SumsAreUnique
    <3>5. Of(u)[u] = f[Chosen(u)] + Of(u)[v]
      <4>1. v = u \ {Chosen(u)}
        OBVIOUS
      <4> HIDE DEF Of, u, v
      <4> QED BY <2>3, <2>5, <4>1 DEF Sums
    <3>6. g[u] = f[Chosen(u)] + Of(v)[v]
      <4> HIDE DEF Of
      <4> QED BY <2>2, <2>5
    <3>7. QED
      BY <3>4, <3>5, <3>6
  <2>6. QED
    BY <2>4, <2>5
<1>4. Sums(g, f, T)
  <2>1. g = [s \in SUBSET T |->
               IF s = {} THEN 0 ELSE f[Chosen(s)] + g[s \ {Chosen(s)}]]
    <3> HIDE DEF Of
    <3>1. \A s \in SUBSET T : g[s] = IF s = {} THEN 0 ELSE f[Chosen(s)] + g[s \ {Chosen(s)}]
      <4> HIDE DEF g
      <4>1. \A s \in SUBSET T : s # {} =>
              g[s] = f[Chosen(s)] + Of(s \ {Chosen(s)})[s \ {Chosen(s)}]
        BY DEF g
      <4>2. \A s \in SUBSET T : s = {} => g[s] = 0
        BY DEF g
      <4>3. QED
        BY <1>3, <4>1, <4>2
    <3>2. g = [s \in SUBSET T |-> g[s]]
      OBVIOUS
    <3> HIDE DEF g
    <3>3. QED
      BY <3>1, <3>2
  <2> HIDE DEF g
  <2>2. QED
    BY <2>1 DEF Sums
<1>5. QED
  BY <1>1, <1>4

-----------------------------------------------------------------------------
(* Sums over a finite set.                                                 *)

LEMMA TotalOfNone == ASSUME NEW f PROVE Total(f, {}) = 0
<1>1. PICK g : Sums(g, f, {})
  BY SumsExist, FS_EmptySet
<1>2. Sums(CHOOSE h : Sums(h, f, {}), f, {})
  BY <1>1
<1>3. QED
  BY <1>2, TotalIsAFold DEF Sums

LEMMA TotalOfSome ==
  ASSUME NEW f, NEW S, IsFiniteSet(S), S # {}
  PROVE  Chosen(S) \in S /\ Total(f, S) = f[Chosen(S)] + Total(f, S \ {Chosen(S)})
<1> DEFINE T == S \ {Chosen(S)}
           g == CHOOSE h : Sums(h, f, S)
           h == CHOOSE i : Sums(i, f, T)
<1>1. Chosen(S) \in S
  BY DEF Chosen
<1>2. IsFiniteSet(T) /\ T \in SUBSET S
  BY FS_Subset
<1>3. Sums(g, f, S) /\ Sums(h, f, T)
  <2>1. (\E i : Sums(i, f, S)) /\ (\E i : Sums(i, f, T))
    BY <1>2, SumsExist
  <2>2. QED
    BY <2>1
<1>4. Total(f, S) = g[S] /\ Total(f, T) = h[T]
  BY TotalIsAFold
<1>5. g[S] = f[Chosen(S)] + g[T]
  <2>1. T = S \ {Chosen(S)}
    OBVIOUS
  <2> HIDE DEF g, T
  <2>2. QED
    BY <1>3, <2>1 DEF Sums
<1>6. g[T] = h[T]
  <2> HIDE DEF g, h, T
  <2> QED BY <1>2, <1>3, SumsAreUnique
<1>7. QED
  BY <1>1, <1>4, <1>5, <1>6

LEMMA TotalType ==
  ASSUME NEW f, NEW S, IsFiniteSet(S), \A x \in S : f[x] \in Nat
  PROVE  Total(f, S) \in Nat
<1> DEFINE Odd == {T \in SUBSET S : Total(f, T) \notin Nat}
<1>1. Odd \in SUBSET SUBSET S
  OBVIOUS
<1> SUFFICES ASSUME Odd # {} PROVE FALSE
  OBVIOUS
<1>2. PICK T \in Odd : \A U \in Odd : U \subseteq T => U = T
  <2> HIDE DEF Odd
  <2> QED BY <1>1, SmallestSet
<1>3. T # {} /\ IsFiniteSet(T)
  <2>1. Total(f, {}) \in Nat
    BY TotalOfNone
  <2>2. QED
    BY <2>1, FS_Subset
<1>4. Chosen(T) \in T /\ Total(f, T) = f[Chosen(T)] + Total(f, T \ {Chosen(T)})
  BY <1>3, TotalOfSome
<1>5. Total(f, T \ {Chosen(T)}) \in Nat
  BY <1>2, <1>4
<1>6. QED
  BY <1>4, <1>5

\* Any element can be counted first.
LEMMA TotalWithout ==
  ASSUME NEW f, NEW S, IsFiniteSet(S), \A x \in S : f[x] \in Nat, NEW y \in S
  PROVE  Total(f, S) = f[y] + Total(f, S \ {y})
<1> DEFINE Splits(T) == \A x \in T : Total(f, T) = f[x] + Total(f, T \ {x})
           Odd == {T \in SUBSET S : ~ Splits(T)}
<1>1. Odd \in SUBSET SUBSET S
  OBVIOUS
<1> SUFFICES ASSUME Odd # {} PROVE FALSE
  OBVIOUS
<1>2. PICK T \in Odd : \A U \in Odd : U \subseteq T => U = T
  <2> HIDE DEF Odd
  <2> QED BY <1>1, SmallestSet
<1>3. PICK x \in T : Total(f, T) # f[x] + Total(f, T \ {x})
  OBVIOUS
<1> DEFINE c == Chosen(T)
<1>4. c \in T /\ Total(f, T) = f[c] + Total(f, T \ {c})
  BY TotalOfSome, FS_Subset
<1>5. c # x
  BY <1>3, <1>4
<1>6. T \ {c} \in SUBSET S /\ T \ {x} \in SUBSET S /\ T \ {c} # T /\ T \ {x} # T
  BY <1>4
<1>7. Splits(T \ {c}) /\ Splits(T \ {x})
  <2> HIDE DEF Splits, c
  <2> QED BY <1>2, <1>6
<1>8. /\ Total(f, T \ {c}) = f[x] + Total(f, (T \ {c}) \ {x})
      /\ Total(f, T \ {x}) = f[c] + Total(f, (T \ {x}) \ {c})
  BY <1>4, <1>5, <1>7
<1>9. (T \ {c}) \ {x} = (T \ {x}) \ {c}
  OBVIOUS
<1>10. Total(f, (T \ {c}) \ {x}) \in Nat /\ f[x] \in Nat /\ f[c] \in Nat
  BY <1>4, TotalType, FS_Subset
<1>11. \A m, n, r \in Nat : m + (n + r) = n + (m + r)
  OBVIOUS
<1>12. Total(f, T) = f[c] + (f[x] + Total(f, (T \ {c}) \ {x}))
  BY <1>4, <1>8
<1>13. f[x] + Total(f, T \ {x}) = f[x] + (f[c] + Total(f, (T \ {c}) \ {x}))
  BY <1>8, <1>9
<1> HIDE DEF c
<1>14. QED
  BY <1>3, <1>10, <1>11, <1>12, <1>13

\* Only the values in the set count.
LEMMA TotalOfSame ==
  ASSUME NEW f, NEW g, NEW S, IsFiniteSet(S), \A x \in S : f[x] = g[x]
  PROVE  Total(f, S) = Total(g, S)
<1> DEFINE Odd == {T \in SUBSET S : Total(f, T) # Total(g, T)}
<1>1. Odd \in SUBSET SUBSET S
  OBVIOUS
<1> SUFFICES ASSUME Odd # {} PROVE FALSE
  OBVIOUS
<1>2. PICK T \in Odd : \A U \in Odd : U \subseteq T => U = T
  <2> HIDE DEF Odd
  <2> QED BY <1>1, SmallestSet
<1>3. T # {} /\ IsFiniteSet(T)
  BY TotalOfNone, FS_Subset
<1>4. /\ Chosen(T) \in T
      /\ Total(f, T) = f[Chosen(T)] + Total(f, T \ {Chosen(T)})
      /\ Total(g, T) = g[Chosen(T)] + Total(g, T \ {Chosen(T)})
  BY <1>3, TotalOfSome
<1>5. Total(f, T \ {Chosen(T)}) = Total(g, T \ {Chosen(T)})
  BY <1>2, <1>4
<1>6. QED
  BY <1>4, <1>5

\* One more at one place is one more in total.
LEMMA TotalOfOneMore ==
  ASSUME NEW f, NEW g, NEW S, IsFiniteSet(S), \A y \in S : f[y] \in Nat,
         NEW x \in S, g[x] = f[x] + 1, \A y \in S \ {x} : g[y] = f[y]
  PROVE  Total(g, S) = Total(f, S) + 1
<1>1. IsFiniteSet(S \ {x})
  BY FS_Subset
<1>2. Total(g, S \ {x}) = Total(f, S \ {x}) /\ Total(f, S \ {x}) \in Nat
  BY <1>1, TotalOfSame, TotalType
<1>3. Total(f, S) = f[x] + Total(f, S \ {x})
  BY TotalWithout
<1>4. Total(g, S) = g[x] + Total(g, S \ {x})
  <2>1. \A y \in S : g[y] \in Nat
    OBVIOUS
  <2>2. QED
    BY <2>1, TotalWithout
<1>5. f[x] \in Nat
  OBVIOUS
<1>6. QED
  BY <1>2, <1>3, <1>4, <1>5

\* Nothing is added where every value is zero.
LEMMA TotalOfMore ==
  ASSUME NEW f, NEW S, IsFiniteSet(S), \A x \in S : f[x] \in Nat,
         NEW T \in SUBSET S, \A x \in S \ T : f[x] = 0
  PROVE  Total(f, S) = Total(f, T)
<1> DEFINE Odd == {U \in SUBSET S : T \subseteq U /\ Total(f, U) # Total(f, T)}
<1>1. Odd \in SUBSET SUBSET S
  OBVIOUS
<1> SUFFICES ASSUME Odd # {} PROVE FALSE
  OBVIOUS
<1>2. PICK U \in Odd : \A V \in Odd : V \subseteq U => V = U
  <2> HIDE DEF Odd
  <2> QED BY <1>1, SmallestSet
<1>3. U # T /\ T \subseteq U /\ U \subseteq S
  OBVIOUS
<1>4. PICK x \in U : x \notin T
  BY <1>3
<1>5. IsFiniteSet(U) /\ IsFiniteSet(U \ {x}) /\ f[x] = 0
  BY <1>3, <1>4, FS_Subset
<1>6. Total(f, U) = f[x] + Total(f, U \ {x}) /\ Total(f, U \ {x}) \in Nat
  BY <1>3, <1>5, TotalWithout, TotalType
<1>7. Total(f, U \ {x}) = Total(f, T)
  BY <1>2, <1>3, <1>4
<1>8. QED
  BY <1>5, <1>6, <1>7

-----------------------------------------------------------------------------
USE PolicyAssumption, PacingAssumption DEF PolicyAssumption, PacingAssumption

\* What is in a bucket stays in its bounds, and a request fits into a full one.
LEMMA Bounds == Full \in Nat /\ Cost <= Full /\ Full <= 2 * Full /\ 2 * Full \in Nat
<1>1. \A b, c \in Nat \ {0} : b * c \in Nat /\ c <= b * c
  OBVIOUS
<1>2. Full \in Nat /\ Cost <= Full
  BY <1>1 DEF Full
<1>3. QED
  BY <1>2

LEMMA Ttl == KeyTtl \in Nat /\ KeyTtl >= 2 * Full
BY Bounds DEF KeyTtl

\* One look at a bucket.
LEMMA Looks ==
  ASSUME NEW b \in Buckets, NEW now \in Times
  PROVE  /\ Refilled(b, now) \in 0..Full
         /\ Looked(b, now) \in Buckets
         /\ Looked(b, now).at = now
         /\ ~ Granted(b, now) => Cost - Looked(b, now).tokens \in Nat
<1>1. b.tokens \in 0..Full /\ b.at \in Nat /\ now \in Nat
  BY Bounds DEF Buckets, Times
<1>2. Elapsed(b.at, now) \in Nat
  BY <1>1 DEF Elapsed
<1>3. Refilled(b, now) \in 0..Full
  BY <1>1, <1>2, Bounds DEF Refilled, Capped
<1>4. QED
  BY <1>3, Bounds DEF Looked, Granted, Buckets

-----------------------------------------------------------------------------
(* Types, and that a worker backs off only with an attempt left.            *)

AttemptLeft == \A w \in Workers : pc[w] = "backoff" => attempt[w] < MaxAttempts

LEMMA InitType == Init => TypeOK /\ AttemptLeft
<1>1. Missing \in Buckets /\ 0 \in Times
  BY Bounds DEF Missing, Buckets, Times
<1>2. Unread \in [bucket : Buckets, now : Times]
  BY <1>1 DEF Unread
<1>3. 0 \in 0..MaxClock + KeyTtl
  BY Ttl
<1>4. QED
  BY <1>1, <1>2, <1>3 DEF Init, TypeOK, AttemptLeft, Steps

LEMMA TypeStep == ASSUME TypeOK, AttemptLeft, [Next]_vars PROVE TypeOK'
<1> USE Bounds, Ttl DEF redis, client, traffic
<1>1. CASE Tick
  BY <1>1 DEF TypeOK, Tick, Times
<1>2. CASE Expire
  <2>1. Missing \in Buckets
    BY DEF Missing, Buckets, Times
  <2>2. QED
    BY <1>2, <2>1 DEF TypeOK, Expire
<1>3. ASSUME NEW w \in Workers, BeginFetch(w) PROVE TypeOK'
  BY <1>3 DEF TypeOK, BeginFetch, Moves, Steps
<1>4. ASSUME NEW w \in Workers, Settles(w) \/ GivesUp(w) PROVE TypeOK'
  <2>1. pc' \in [Workers -> Steps]
    BY <1>4 DEF TypeOK, Settles, GivesUp, Moves, Steps
  <2>2. sent' \in [Workers -> Nat] /\ hops' \in [Workers -> 0..MaxRedirects]
    <3>1. Sends(w)
      BY <1>4 DEF Settles, GivesUp
    <3>2. sent[w] + 1 \in Nat /\ 0 \in 0..MaxRedirects
      BY DEF TypeOK
    <3>3. QED
      BY <3>1, <3>2 DEF TypeOK, Sends
  <2>3. UNCHANGED <<clock, redis, seen, wakeAt, attempt, fetches, redirected>>
    BY <1>4 DEF Settles, GivesUp, Sends
  <2>4. QED
    BY <2>1, <2>2, <2>3 DEF TypeOK
<1>14. ASSUME NEW w \in Workers, Redirects(w) PROVE TypeOK'
  BY <1>14, SMTT(30) DEF TypeOK, Redirects
<1>5. ASSUME NEW w \in Workers, Retries(w) PROVE TypeOK'
  <2>1. PICK delay \in Delays : wakeAt' = [wakeAt EXCEPT ![w] = clock + delay]
    BY <1>5 DEF Retries
  <2>2. clock + delay \in Nat
    BY DEF TypeOK, Times
  <2>3. QED
    BY <1>5, <2>1, <2>2 DEF TypeOK, Retries, Sends, Moves, Steps
<1>6. ASSUME NEW w \in Workers, NextAttempt(w) PROVE TypeOK'
  <2>1. attempt[w] + 1 \in 0..MaxAttempts
    BY <1>6 DEF TypeOK, AttemptLeft, NextAttempt, Moves
  <2>2. QED
    BY <1>6, <2>1 DEF TypeOK, NextAttempt, Moves, Steps
<1>7. ASSUME NEW w \in Workers, Watch(w) PROVE TypeOK'
  BY <1>7 DEF TypeOK, Watch, Moves, Steps
<1>8. ASSUME NEW w \in Workers, Read(w) PROVE TypeOK'
  BY <1>8 DEF TypeOK, Read, Moves, Steps
<1>9. ASSUME NEW w \in Workers, Exec(w) PROVE TypeOK'
  <2> DEFINE b == seen[w].bucket
             now == seen[w].now
  <2>1. b \in Buckets /\ now \in Times
    BY DEF TypeOK
  <2>2. Looked(b, now) \in Buckets /\ (~ Granted(b, now) => Cost - Looked(b, now).tokens \in Nat)
    BY <2>1, Looks
  <2>3. stored' \in Buckets /\ written' \in Buckets
    BY <1>9, <2>2 DEF Exec
  <2>4. (IF Granted(b, now) THEN 0 ELSE clock + Cost - Looked(b, now).tokens) \in Nat
    <3>1. clock \in Nat
      BY DEF TypeOK, Times
    <3>2. Looked(b, now).tokens \in Nat
      BY <2>2 DEF Buckets
    <3>3. QED
      BY <2>2, <3>1, <3>2
  <2>5. wakeAt' \in [Workers -> Nat]
    BY <1>9, <2>4 DEF TypeOK, Exec
  <2>6. grants' \in [Times -> Nat] /\ expiresAt' \in 0..MaxClock + KeyTtl
    BY <1>9, <2>1, SMTT(30) DEF TypeOK, Exec, Times
  <2>7. seen' \in [Workers -> [bucket : Buckets, now : Times]]
    <3>1. Unread \in [bucket : Buckets, now : Times]
      BY DEF Unread, Missing, Buckets, Times
    <3>2. QED
      BY <1>9, <3>1 DEF TypeOK, Exec
  <2>8. pc' \in [Workers -> Steps]
    BY <1>9 DEF TypeOK, Exec, Moves, Steps
  <2>9. touched' \subseteq Workers /\ UNCHANGED <<clock, attempt, fetches, sent, redirected, hops>>
    BY <1>9 DEF Exec
  <2>10. QED
    BY <2>3, <2>5, <2>6, <2>7, <2>8, <2>9 DEF TypeOK
<1>10. ASSUME NEW w \in Workers, Conflict(w) PROVE TypeOK'
  <2>1. Unread \in [bucket : Buckets, now : Times]
    BY DEF Unread, Missing, Buckets, Times
  <2>2. seen' \in [Workers -> [bucket : Buckets, now : Times]]
    BY <1>10, <2>1 DEF TypeOK, Conflict
  <2>3. pc' \in [Workers -> Steps]
    BY <1>10 DEF TypeOK, Conflict, Moves, Steps
  <2>4. QED
    BY <1>10, <2>2, <2>3 DEF TypeOK, Conflict
<1>11. ASSUME NEW w \in Workers, Wake(w) PROVE TypeOK'
  BY <1>11 DEF TypeOK, Wake, Moves, Steps
<1>12. CASE UNCHANGED vars
  BY <1>12 DEF TypeOK, vars
<1>13. QED
  BY <1>1, <1>2, <1>3, <1>4, <1>5, <1>6, <1>7, <1>8, <1>9, <1>10, <1>11, <1>12,
     <1>14 DEF Next, Fetch

LEMMA AttemptStep == ASSUME TypeOK, AttemptLeft, [Next]_vars PROVE AttemptLeft'
<1>1. ASSUME NEW w \in Workers, Fetch(w), ~ Redirects(w) PROVE AttemptLeft'
  <2>1. PICK to : /\ pc' = [pc EXCEPT ![w] = to]
                  /\ to = "backoff" => attempt[w] < MaxAttempts /\ attempt' = attempt
    <3>1. CASE Retries(w)
      BY <3>1 DEF Retries, Moves
    <3>2. ASSUME NEW from, NEW to \in Steps \ {"backoff"}, Moves(w, from, to)
          PROVE  pc' = [pc EXCEPT ![w] = to] /\ to # "backoff"
      BY <3>2 DEF Moves
    <3>3. ASSUME ~ Retries(w) PROVE \E from : \E to \in Steps \ {"backoff"} : Moves(w, from, to)
      BY <1>1, <3>3 DEF Fetch, BeginFetch, Settles, GivesUp, NextAttempt, Watch, Read, Exec,
                        Conflict, Wake, Steps
    <3>4. QED
      BY <3>1, <3>2, <3>3
  <2>2. \A v \in Workers \ {w} : attempt'[v] = attempt[v]
    BY <1>1 DEF TypeOK, Fetch, BeginFetch, Settles, GivesUp, Retries, NextAttempt, Watch, Read,
                Exec, Conflict, Wake, client
  <2>3. QED
    BY <2>1, <2>2 DEF TypeOK, AttemptLeft
<1>2. CASE UNCHANGED <<pc, attempt>>
  BY <1>2 DEF AttemptLeft
<1>3. QED
  BY <1>1, <1>2 DEF Next, Tick, Expire, Redirects, vars, client

\* Every variable keeps its type, the bounds of the bucket and of the attempts
\* included.
THEOREM TypeCorrect == Spec => []TypeOK
<1>1. TypeOK /\ AttemptLeft /\ [Next]_vars => (TypeOK /\ AttemptLeft)'
  BY TypeStep, AttemptStep
<1>2. QED
  BY <1>1, InitType, PTL DEF Spec

-----------------------------------------------------------------------------
(* The refinement.                                                          *)

\* The clocks of the workers agree.
InStep == \A v, w \in Workers : Ahead[v] = Ahead[w]

\* The key is what was written last, and lives longer than an empty bucket takes
\* to fill up; without a key, that bucket is full again.
Kept ==
  \A w \in Workers :
    /\ written.at <= Now(w)
    /\ stored # Missing => stored = written /\ expiresAt + Ahead[w] >= written.at + KeyTtl
    /\ stored = Missing => written.tokens + (Now(w) - written.at) >= Full

\* What a worker read and nobody has written since still stands for the bucket.
Current ==
  \A w \in Workers : pc[w] = "exec" /\ w \notin touched =>
    /\ seen[w].now >= written.at /\ seen[w].now <= Now(w)
    /\ Refilled(seen[w].bucket, seen[w].now) = Refilled(written, seen[w].now)

Shared == TypeOK /\ AttemptLeft /\ Kept /\ Current

LEMMA InitShared == Init => Shared
<1> SUFFICES ASSUME Init PROVE Shared
  OBVIOUS
<1>1. Kept
  BY Bounds, Ttl DEF Init, Kept, Missing, Now
<1>2. Current
  BY DEF Init, Current
<1>3. QED
  BY <1>1, <1>2, InitType DEF Shared

\* Without a key, or with the key as written, a look finds the same.
LEMMA SameBucket ==
  ASSUME TypeOK, Kept, NEW w \in Workers
  PROVE  Refilled(stored, Now(w)) = Refilled(written, Now(w))
<1>1. /\ written.tokens \in 0..Full /\ written.at \in Nat /\ Now(w) \in Nat
      /\ written.at <= Now(w)
  <2>1. written.tokens \in 0..Full /\ written.at \in Nat
    BY DEF TypeOK, Buckets, Times
  <2>2. Now(w) \in Nat
    BY SMTT(30) DEF TypeOK, Times, Now
  <2>3. QED
    BY <2>1, <2>2 DEF Kept
<1>2. CASE stored = Missing
  <2>1. written.tokens + (Now(w) - written.at) >= Full
    BY <1>2 DEF Kept
  <2>2. Refilled(written, Now(w)) = Full
    BY <1>1, <2>1, Bounds DEF Refilled, Capped, Elapsed
  <2>3. Refilled(Missing, Now(w)) = Full
    BY <1>1, Bounds DEF Refilled, Capped, Elapsed, Missing
  <2>4. QED
    BY <1>2, <2>2, <2>3
<1>3. CASE stored # Missing
  BY <1>3 DEF Kept
<1>4. QED
  BY <1>2, <1>3

LEMMA KeptStep ==
  ASSUME InStep, TypeOK, Kept, Current, [Next]_vars
  PROVE  Kept'
<1> USE Bounds, Ttl
<1>1. CASE Tick
  <2>1. clock' = clock + 1 /\ UNCHANGED <<stored, written, expiresAt>>
    BY <1>1 DEF Tick, redis
  <2>2. /\ written.tokens \in Nat /\ written.at \in Nat /\ clock \in Nat
        /\ \A w \in Workers : Ahead[w] \in Nat
    BY DEF TypeOK, Buckets, Times
  <2>3. QED
    BY <2>1, <2>2 DEF Kept, Now
<1>2. CASE Expire
  <2>1. /\ stored' = Missing /\ stored # Missing /\ clock >= expiresAt
        /\ UNCHANGED <<clock, written>>
    BY <1>2 DEF Expire
  <2>2. ASSUME NEW w \in Workers PROVE written.tokens + (Now(w) - written.at) >= Full
    <3>1. expiresAt + Ahead[w] >= written.at + KeyTtl
      BY <2>1 DEF Kept
    <3>2. /\ clock \in Nat /\ expiresAt \in Nat /\ Ahead[w] \in Nat /\ written.at \in Nat
          /\ written.tokens \in Nat
      BY DEF TypeOK, Buckets, Times
    <3>3. QED
      BY <2>1, <3>1, <3>2 DEF Now
  <2>3. QED
    BY <2>1, <2>2 DEF Kept, Now
<1>3. ASSUME NEW w \in Workers, Exec(w) PROVE Kept'
  <2> DEFINE b == seen[w].bucket
             now == seen[w].now
  <2>1. b \in Buckets /\ now \in Times /\ now <= Now(w)
    BY <1>3 DEF TypeOK, Current, Exec, Moves
  <2>2. /\ stored' = Looked(b, now) /\ written' = stored' /\ expiresAt' = clock + KeyTtl
        /\ clock' = clock
    BY <1>3 DEF Exec
  <2>3. Looked(b, now) \in Buckets /\ Looked(b, now).at = now
    BY <2>1, Looks
  <2>4. /\ clock \in Nat /\ now \in Nat /\ \A v \in Workers : Ahead[v] \in Nat /\ Ahead[v] = Ahead[w]
    BY <2>1 DEF TypeOK, Times, InStep
  <2>5. stored' = Missing => written'.tokens = Full
    BY <2>2 DEF Missing
  <2>6. QED
    BY <2>1, <2>2, <2>3, <2>4, <2>5 DEF Kept, Now
<1>4. CASE UNCHANGED <<clock, stored, written, expiresAt>>
  BY <1>4 DEF Kept, Now
<1>5. QED
  BY <1>1, <1>2, <1>3, <1>4
     DEF Next, Fetch, BeginFetch, Redirects, Settles, GivesUp, Retries, NextAttempt, Watch, Read,
         Conflict, Wake, vars, redis

LEMMA CurrentStep ==
  ASSUME InStep, TypeOK, Kept, Current, [Next]_vars
  PROVE  Current'
<1>1. CASE Tick
  BY <1>1, SMTT(30) DEF TypeOK, Times, Current, Tick, Now, redis, client
<1>2. CASE Expire
  BY <1>2 DEF TypeOK, Current, Expire, Now, client
<1>3. ASSUME NEW w \in Workers, Read(w) PROVE Current'
  <2>1. Refilled(stored, Now(w)) = Refilled(written, Now(w)) /\ Now(w) >= written.at
    BY SameBucket DEF TypeOK, Kept, Buckets, Times, Now
  <2>2. seen'[w] = [bucket |-> stored, now |-> Now(w)] /\ Now(w) \in Nat
    BY <1>3 DEF TypeOK, Read, Times
  <2>3. /\ \A v \in Workers \ {w} : seen'[v] = seen[v] /\ pc'[v] = pc[v]
        /\ UNCHANGED <<clock, touched, written>>
    BY <1>3 DEF TypeOK, Read, Moves, redis
  <2>4. QED
    BY <2>1, <2>2, <2>3 DEF Current, Now
<1>4. ASSUME NEW w \in Workers, Exec(w) PROVE Current'
  BY <1>4 DEF TypeOK, Current, Exec
<1>5. ASSUME NEW w \in Workers, Watch(w) PROVE Current'
  <2>1. /\ \A v \in Workers \ {w} : pc'[v] = pc[v] /\ (v \in touched' <=> v \in touched)
        /\ pc'[w] = "read" /\ UNCHANGED <<clock, written, seen>>
    BY <1>5 DEF TypeOK, Watch, Moves, client
  <2>2. QED
    BY <2>1 DEF Current, Now
<1>6. ASSUME NEW w \in Workers,
             \/ BeginFetch(w) \/ Settles(w) \/ GivesUp(w) \/ Retries(w) \/ NextAttempt(w)
             \/ Conflict(w) \/ Wake(w)
      PROVE  Current'
  <2>1. /\ pc'[w] # "exec" /\ \A v \in Workers \ {w} : pc'[v] = pc[v] /\ seen'[v] = seen[v]
        /\ UNCHANGED <<clock, touched, written>>
    BY <1>6 DEF TypeOK, BeginFetch, Settles, GivesUp, Retries, NextAttempt, Conflict, Wake, Moves,
                redis
  <2>2. QED
    BY <2>1 DEF Current, Now
<1>7. CASE UNCHANGED <<clock, touched, written, pc, seen>>
  BY <1>7 DEF Current, Now
<1>8. QED
  BY <1>1, <1>2, <1>3, <1>4, <1>5, <1>6, <1>7 DEF Next, Fetch, Redirects, vars, redis, client

\* The steps that are a look at the in-memory bucket, and the ones that are none.
LEMMA LocalStep ==
  ASSUME TypeOK, Current, [Next]_vars
  PROVE  [Local!Next]_<<written, grants>>
<1>1. ASSUME NEW w \in Workers, Exec(w) PROVE Local!Next
  <2> DEFINE now == seen[w].now
  <2>1. now \in Times
    BY DEF TypeOK
  <2>2. now >= written.at /\ Refilled(seen[w].bucket, now) = Refilled(written, now)
    BY <1>1 DEF Current, Exec, Moves
  <2>3. /\ Looked(seen[w].bucket, now) = Looked(written, now)
        /\ Granted(seen[w].bucket, now) <=> Granted(written, now)
    BY <2>2 DEF Looked, Granted
  <2>4. /\ written' = Looked(written, now)
        /\ grants' = [grants EXCEPT ![now] = IF Granted(written, now) THEN @ + 1 ELSE @]
    BY <1>1, <2>3 DEF Exec
  <2>5. Local!Look(now)
    BY <2>2, <2>4 DEF Local!Look, Local!Looked, Local!Granted, Local!Refilled, Local!Capped,
                      Local!Elapsed, Local!Full, Looked, Granted, Refilled, Capped, Elapsed, Full
  <2>6. QED
    BY <2>1, <2>5 DEF Local!Next, Local!Times, Times
<1>2. CASE UNCHANGED <<written, grants>>
  BY <1>2
<1>3. QED
  BY <1>1, <1>2
     DEF Next, Fetch, Tick, Expire, BeginFetch, Redirects, Settles, GivesUp, Retries, NextAttempt,
         Watch,
         Read, Conflict, Wake, vars, redis

\* "Two implementations share the same behaviour": as long as the clocks agree,
\* what WATCH / MULTI / EXEC writes is what the lock of the in-memory limiter
\* lets one process write, with conflicts, sleeps and expired keys in between.
THEOREM RedisIsOneBucket ==
  ASSUME InStep
  PROVE  Spec => SharesOneBucket
<1>1. Init => Local!Init
  BY DEF Init, Local!Init, Missing, Local!Full, Full, Local!Times, Times
<1>2. Shared /\ [Next]_vars => Shared'
  BY TypeStep, AttemptStep, KeptStep, CurrentStep DEF Shared
<1>3. Shared /\ [Next]_vars => [Local!Next]_<<written, grants>>
  BY LocalStep DEF Shared
<1>4. QED
  BY <1>1, <1>2, <1>3, InitShared, PTL DEF Spec, Local!Spec, SharesOneBucket

-----------------------------------------------------------------------------
(* The budget.                                                              *)

\* Nothing was granted after the last stamp, and what was granted since any
\* moment, with what is left, is no more than a full bucket and the time since.
Spent ==
  /\ \A t \in Times : t > written.at => grants[t] = 0
  /\ \A a \in Times : a <= written.at =>
       Total(grants, a..written.at) * Cost + written.tokens <= Full + (written.at - a)

LEMMA Spans ==
  ASSUME NEW a \in Times, NEW b \in Times
  PROVE  IsFiniteSet(a..b) /\ a..b \in SUBSET Times
BY FS_Interval DEF Times

LEMMA TotalsAreNat ==
  ASSUME TypeOK, NEW a \in Times, NEW b \in Times
  PROVE  Total(grants, a..b) \in Nat /\ Total(grants, a..b) * Cost \in Nat
<1>1. IsFiniteSet(a..b) /\ \A t \in a..b : grants[t] \in Nat
  BY Spans DEF TypeOK
<1>2. Total(grants, a..b) \in Nat
  BY <1>1, TotalType
<1>3. \A m, n \in Nat : m * n \in Nat
  OBVIOUS
<1>4. QED
  BY <1>2, <1>3

\* After the last stamp there is nothing to add.
LEMMA TotalsUpTo ==
  ASSUME NEW f \in [Times -> Nat], NEW last \in Times, \A t \in Times : t > last => f[t] = 0,
         NEW a \in Times, NEW b \in Times, last <= b
  PROVE  /\ a <= last => Total(f, a..b) = Total(f, a..last)
         /\ a > last => Total(f, a..b) = 0
<1>1. IsFiniteSet(a..b) /\ a..b \in SUBSET Times /\ \A t \in a..b : f[t] \in Nat
  BY Spans
<1>2. ASSUME a <= last PROVE Total(f, a..b) = Total(f, a..last)
  <2>1. a..last \in SUBSET (a..b) /\ \A t \in (a..b) \ (a..last) : f[t] = 0
    BY <1>1, <1>2 DEF Times
  <2>2. QED
    BY <1>1, <2>1, TotalOfMore
<1>3. ASSUME a > last PROVE Total(f, a..b) = 0
  <2>1. \A t \in (a..b) \ {} : f[t] = 0
    BY <1>1, <1>3 DEF Times
  <2>2. Total(f, a..b) = Total(f, {})
    BY <1>1, <2>1, TotalOfMore
  <2>3. QED
    BY <2>2, TotalOfNone
<1>4. QED
  BY <1>2, <1>3

\* One look at the bucket at time now.
LEMMA LookKeepsBudget ==
  ASSUME TypeOK, Spent, WithinBudget, NEW now \in Times, now >= written.at,
         written' = Looked(written, now), TypeOK',
         grants'[now] = grants[now] + (IF Granted(written, now) THEN 1 ELSE 0),
         \A t \in Times \ {now} : grants'[t] = grants[t]
  PROVE  Spent' /\ WithinBudget'
<1> DEFINE one == IF Granted(written, now) THEN 1 ELSE 0
<1>1. /\ grants \in [Times -> Nat] /\ grants' \in [Times -> Nat]
      /\ written.at \in Times /\ written.tokens \in 0..Full /\ now \in Nat /\ written.at \in Nat
  <2>1. grants \in [Times -> Nat] /\ written \in Buckets
    BY DEF TypeOK
  <2>2. grants' \in [Times -> Nat]
    BY DEF TypeOK
  <2>3. written.at \in Times /\ written.tokens \in 0..Full
    BY <2>1 DEF Buckets
  <2>4. QED
    BY <2>1, <2>2, <2>3, SMTT(30) DEF Times
<1>2. /\ written'.at = now /\ written'.tokens + one * Cost \in 0..Full
      /\ written'.tokens + one * Cost <= written.tokens + (now - written.at)
      /\ written'.tokens \in Nat
  <2>1. Refilled(written, now) \in 0..Full
    BY <1>1, Looks DEF TypeOK
  <2>2. Refilled(written, now) <= written.tokens + (now - written.at)
    BY <1>1, Bounds DEF Refilled, Capped, Elapsed
  <2>3. written'.tokens + one * Cost = Refilled(written, now) /\ written'.tokens \in Nat
    BY <2>1, Bounds DEF Looked, Granted
  <2>4. QED
    BY <2>1, <2>2, <2>3 DEF Looked
<1>3. \A t \in Times : t # now => grants'[t] = grants[t]
  OBVIOUS
<1>4. \A t \in Times : t > now => grants'[t] = 0
  BY <1>1, <1>3 DEF Spent, Times
<1>5. ASSUME NEW a \in Times, a <= now
      PROVE  /\ Total(grants, a..now) \in Nat
             /\ Total(grants', a..now) = Total(grants, a..now) + one
  <2>1. IsFiniteSet(a..now) /\ a..now \in SUBSET Times /\ now \in a..now
    BY <1>5, Spans DEF Times
  <2>2. CASE Granted(written, now)
    <3>2. Total(grants', a..now) = Total(grants, a..now) + 1
      <4>1. /\ grants'[now] = grants[now] + 1 /\ \A t \in (a..now) \ {now} : grants'[t] = grants[t]
            /\ \A t \in a..now : grants[t] \in Nat
        BY <1>1, <1>3, <2>1, <2>2
      <4>2. QED
        BY <2>1, <4>1, TotalOfOneMore
    <3>3. QED
      BY <2>2, <3>2, TotalsAreNat
  <2>3. CASE ~ Granted(written, now)
    <3>1. \A t \in Times : grants'[t] = grants[t]
      <4>1. grants[now] + 0 = grants[now]
        BY <1>1
      <4>2. QED
        BY <1>3, <2>3, <4>1
    <3>2. Total(grants, a..now) = Total(grants', a..now)
      <4>1. \A t \in a..now : grants[t] = grants'[t]
        BY <2>1, <3>1
      <4>2. QED
        BY <2>1, <4>1, TotalOfSame
    <3>3. Total(grants, a..now) \in Nat
      BY TotalsAreNat
    <3>4. QED
      BY <2>3, <3>2, <3>3
  <2>4. QED
    BY <2>2, <2>3
<1>6. ASSUME NEW a \in Times, a <= now
      PROVE  /\ Total(grants', a..now) * Cost + written'.tokens <= Full + (now - a)
             /\ Total(grants', a..now) * Cost \in Nat
  <2> DEFINE n == Total(grants, a..now)
             x == n * Cost
             y == one * Cost
             z == Total(grants', a..now) * Cost
  <2>1. n \in Nat /\ Total(grants', a..now) = n + one /\ one \in Nat
    BY <1>5, <1>6
  <2>2. x \in Nat /\ y \in Nat /\ z = x + y
    <3>1. \A i, j, k \in Nat : i * k \in Nat /\ j * k \in Nat /\ (i + j) * k = i * k + j * k
      OBVIOUS
    <3> HIDE DEF n, one
    <3>2. QED
      BY <2>1, <3>1
  <2>3. CASE a <= written.at
    <3>1. n = Total(grants, a..written.at)
      <4>1. \A t \in Times : t > written.at => grants[t] = 0
        BY DEF Spent
      <4>2. Total(grants, a..now) = Total(grants, a..written.at)
        BY <1>1, <2>3, <4>1, TotalsUpTo, SMTT(30)
      <4>3. QED
        BY <4>2
    <3>2. x + written.tokens <= Full + (written.at - a)
      BY <2>3, <3>1 DEF Spent
    <3>3. written'.tokens + y <= written.tokens + (now - written.at)
      BY <1>2
    <3>4. a \in Nat /\ Full \in Nat
      BY Bounds DEF Times
    <3> HIDE DEF x, y, z, n
    <3>5. z + written'.tokens <= Full + (now - a)
      BY <1>1, <1>2, <2>2, <3>2, <3>3, <3>4
    <3>6. QED
      BY <2>2, <3>5 DEF z
  <2>4. CASE a > written.at
    <3>1. n = 0
      BY <1>1, <2>4, TotalsUpTo, SMTT(30) DEF Spent
    <3>2. x = 0
      BY <3>1
    <3>3. written'.tokens + y <= Full
      BY <1>2
    <3>4. a \in Nat /\ Full \in Nat
      BY Bounds DEF Times
    <3> HIDE DEF x, y, z, n
    <3>5. z + written'.tokens <= Full + (now - a)
      BY <1>1, <1>2, <1>6, <2>2, <3>2, <3>3, <3>4
    <3>6. QED
      BY <2>2, <3>5 DEF z
  <2>5. QED
    BY <1>1, <2>3, <2>4 DEF Times
<1>7. Spent'
  BY <1>2, <1>4, <1>6 DEF Spent, Times
<1>8. ASSUME NEW a \in Times, NEW b \in Times, a <= b
      PROVE  Total(grants', a..b) * Cost <= Full + (b - a)
  <2>1. a \in Nat /\ b \in Nat /\ Full \in Nat
    BY Bounds DEF Times
  <2>2. CASE b < now
    <3>1. \A t \in a..b : grants[t] = grants'[t]
      BY <1>1, <1>3, <2>1, <2>2, Spans
    <3>2. Total(grants, a..b) = Total(grants', a..b)
      BY <3>1, Spans, TotalOfSame
    <3>3. QED
      BY <1>8, <3>2 DEF WithinBudget
  <2>3. CASE b >= now /\ a <= now
    <3>1. Total(grants', a..b) = Total(grants', a..now)
      <4>1. grants' \in [Times -> Nat] /\ now \in Times /\ now <= b
        BY <1>1, <2>1, <2>3
      <4>2. QED
        BY <1>4, <2>3, <4>1, TotalsUpTo
    <3>2. Total(grants', a..b) * Cost + written'.tokens <= Full + (now - a)
      BY <1>6, <2>3, <3>1
    <3>3. Total(grants', a..b) * Cost \in Nat
      BY <1>6, <2>3, <3>1
    <3>4. QED
      BY <1>1, <1>2, <2>1, <2>3, <3>2, <3>3, SMTT(30)
  <2>4. CASE a > now
    <3>1. Total(grants', a..b) = 0
      BY <1>1, <1>4, <1>8, <2>1, <2>4, TotalsUpTo, SMTT(30)
    <3>2. Total(grants', a..b) * Cost = 0
      BY <3>1
    <3>3. QED
      BY <1>8, <2>1, <3>2
  <2>5. QED
    BY <1>1, <2>1, <2>2, <2>3, <2>4
<1>9. QED
  BY <1>7, <1>8 DEF WithinBudget

LEMMA InitSpent == Init => Spent /\ WithinBudget
<1> SUFFICES ASSUME Init PROVE Spent /\ WithinBudget
  OBVIOUS
<1>1. TypeOK /\ grants \in [Times -> Nat] /\ 0 \in Times /\ \A t \in Times : grants[t] = 0
  BY InitType DEF TypeOK, Init, Times
<1>2. ASSUME NEW a \in Times, NEW b \in Times PROVE Total(grants, a..b) * Cost = 0
  <2>1. \A t \in (a..b) \ {} : grants[t] = 0
    BY <1>1, Spans
  <2>2. IsFiniteSet(a..b) /\ \A t \in a..b : grants[t] \in Nat
    BY <1>1, Spans
  <2>3. Total(grants, a..b) = Total(grants, {})
    BY <2>1, <2>2, TotalOfMore
  <2>4. QED
    BY <2>3, TotalOfNone
<1>3. written.at = 0 /\ written.tokens = Full /\ Full \in Nat
  BY Bounds DEF Init, Missing
<1>4. Spent
  BY <1>1, <1>2, <1>3 DEF Spent, Times
<1>5. WithinBudget
  BY <1>2, <1>3 DEF WithinBudget, Times
<1>6. QED
  BY <1>4, <1>5

LEMMA BudgetStep ==
  ASSUME TypeOK, TypeOK', Current, Spent, WithinBudget, [Next]_vars
  PROVE  Spent' /\ WithinBudget'
<1>1. ASSUME NEW w \in Workers, Exec(w) PROVE Spent' /\ WithinBudget'
  <2> DEFINE now == seen[w].now
  <2>1. now \in Times
    BY DEF TypeOK
  <2>2. now >= written.at /\ Refilled(seen[w].bucket, now) = Refilled(written, now)
    BY <1>1 DEF Current, Exec, Moves
  <2>3. /\ Looked(seen[w].bucket, now) = Looked(written, now)
        /\ Granted(seen[w].bucket, now) <=> Granted(written, now)
    BY <2>2 DEF Looked, Granted
  <2>4. /\ written' = Looked(written, now)
        /\ grants'[now] = grants[now] + (IF Granted(written, now) THEN 1 ELSE 0)
        /\ \A t \in Times \ {now} : grants'[t] = grants[t]
    <3>1. grants[now] \in Nat
      BY <2>1 DEF TypeOK
    <3>2. QED
      BY <1>1, <2>1, <2>3, <3>1 DEF TypeOK, Exec
  <2> HIDE DEF now
  <2>5. QED
    BY <2>1, <2>2, <2>4, LookKeepsBudget
<1>2. CASE UNCHANGED <<written, grants>>
  BY <1>2 DEF Spent, WithinBudget
<1>3. QED
  BY <1>1, <1>2
     DEF Next, Fetch, Tick, Expire, BeginFetch, Redirects, Settles, GivesUp, Retries, NextAttempt,
         Watch,
         Read, Conflict, Wake, vars, redis

\* "Concurrent workers cannot both spend the same token": between any two time
\* stamps the workers together are granted no more than a full bucket and what it
\* gained meanwhile, as long as their clocks agree; for any number of workers and
\* any policy, whatever is retried, conflicts or expires.
THEOREM BudgetIsKept ==
  ASSUME InStep
  PROVE  Spec => []WithinBudget
<1>1. Init => Shared /\ Spent /\ WithinBudget
  BY InitShared, InitSpent
<1>2. Shared /\ Spent /\ WithinBudget /\ [Next]_vars => (Shared /\ Spent /\ WithinBudget)'
  <2> SUFFICES ASSUME Shared, Spent, WithinBudget, [Next]_vars
               PROVE  (Shared /\ Spent /\ WithinBudget)'
    OBVIOUS
  <2>1. Shared'
    BY TypeStep, AttemptStep, KeptStep, CurrentStep DEF Shared
  <2>2. Spent' /\ WithinBudget'
    BY <2>1, BudgetStep DEF Shared
  <2>3. QED
    BY <2>1, <2>2
<1>3. QED
  BY <1>1, <1>2, PTL DEF Spec

-----------------------------------------------------------------------------
(* What is sent was granted.                                                *)

Requesting == {w \in Workers : pc[w] = "request"}

LEMMA CrewIsFinite == IsFiniteSet(Workers) /\ \A S \in SUBSET Workers : IsFiniteSet(S)
BY FS_Subset

\* One more request of a worker is one more of all.
LEMMA OneMoreSent ==
  ASSUME NEW f \in [Workers -> Nat], NEW w \in Workers
  PROVE  /\ Total(f, Workers) \in Nat
         /\ Total([f EXCEPT ![w] = @ + 1], Workers) = Total(f, Workers) + 1
<1> DEFINE g == [f EXCEPT ![w] = @ + 1]
<1>1. g[w] = f[w] + 1 /\ \A v \in Workers \ {w} : g[v] = f[v]
  OBVIOUS
<1> HIDE DEF g
<1>2. Total(g, Workers) = Total(f, Workers) + 1
  BY <1>1, CrewIsFinite, TotalOfOneMore
<1>3. QED
  BY <1>2, CrewIsFinite, TotalType DEF g

\* The last request of an attempt leaves.
LEMMA SendStep ==
  ASSUME TypeOK, AttemptsAreGranted, NEW w \in Workers, NEW to \in Steps \ {"request"},
         Moves(w, "request", to), Sends(w), grants' = grants
  PROVE  AttemptsAreGranted'
<1>1. Requesting' = Requesting \ {w} /\ w \in Requesting
  BY DEF TypeOK, Requesting, Moves
<1>2. Cardinality(Requesting') = Cardinality(Requesting) - 1 /\ Cardinality(Requesting) \in Nat
  <2>1. IsFiniteSet(Requesting)
    BY CrewIsFinite DEF Requesting
  <2>2. Cardinality(Requesting \ {w}) = Cardinality(Requesting) - 1
    BY <1>1, <2>1, FS_RemoveElement
  <2>3. QED
    BY <1>1, <2>1, <2>2, FS_CardinalityType
<1>3. Total(sent', Workers) = Total(sent, Workers) + 1 /\ Total(sent, Workers) \in Nat
  BY OneMoreSent DEF TypeOK, Sends
<1>4. redirected' = redirected
  BY DEF Sends
<1>5. QED
  BY <1>2, <1>3, <1>4 DEF AttemptsAreGranted, Requesting

\* A redirect is followed: one more request that was not granted.
LEMMA RedirectStep ==
  ASSUME TypeOK, AttemptsAreGranted, NEW w \in Workers, Redirects(w)
  PROVE  AttemptsAreGranted'
<1>1. Total(sent', Workers) = Total(sent, Workers) + 1 /\ Total(sent, Workers) \in Nat
  BY OneMoreSent DEF TypeOK, Redirects
<1>2. /\ Total(redirected', Workers) = Total(redirected, Workers) + 1
      /\ Total(redirected, Workers) \in Nat
  BY OneMoreSent DEF TypeOK, Redirects
<1>3. Requesting' = Requesting /\ grants' = grants
  BY DEF Requesting, Redirects, redis
<1>4. Cardinality(Requesting) \in Nat /\ Total(grants, Times) \in Nat
  <2>1. IsFiniteSet(Times)
    BY FS_Interval DEF Times
  <2>2. \A t \in Times : grants[t] \in Nat
    BY DEF TypeOK
  <2>3. QED
    BY <2>1, <2>2, CrewIsFinite, TotalType, FS_CardinalityType DEF Requesting
<1>5. Total(sent, Workers) + Cardinality(Requesting)
        = Total(grants, Times) + Total(redirected, Workers)
  BY DEF AttemptsAreGranted, Requesting
<1>6. Total(sent', Workers) + Cardinality(Requesting)
        = Total(grants, Times) + Total(redirected', Workers)
  BY <1>1, <1>2, <1>4, <1>5
<1>7. QED
  BY <1>3, <1>6 DEF AttemptsAreGranted, Requesting

\* A slot is granted.
LEMMA GrantStep ==
  ASSUME TypeOK, AttemptsAreGranted, NEW w \in Workers, Moves(w, "exec", "request"),
         UNCHANGED traffic,
         NEW now \in Times, grants'[now] = grants[now] + 1,
         \A t \in Times \ {now} : grants'[t] = grants[t]
  PROVE  AttemptsAreGranted'
<1>1. Requesting' = Requesting \cup {w} /\ w \notin Requesting
  BY DEF TypeOK, Requesting, Moves
<1>2. Cardinality(Requesting') = Cardinality(Requesting) + 1 /\ Cardinality(Requesting) \in Nat
  BY <1>1, CrewIsFinite, FS_AddElement, FS_CardinalityType DEF Requesting
<1>3. IsFiniteSet(Times)
  BY FS_Interval DEF Times
<1>4. Total(grants', Times) = Total(grants, Times) + 1 /\ Total(grants, Times) \in Nat
  <2>1. /\ grants'[now] = grants[now] + 1 /\ \A t \in Times \ {now} : grants'[t] = grants[t]
        /\ \A t \in Times : grants[t] \in Nat
    BY DEF TypeOK
  <2>2. QED
    BY <1>3, <2>1, TotalOfOneMore, TotalType
<1>5. Total(sent, Workers) \in Nat /\ Total(redirected, Workers) \in Nat
  BY OneMoreSent DEF TypeOK
<1>6. sent' = sent /\ redirected' = redirected
  BY DEF traffic
<1>7. QED
  BY <1>2, <1>4, <1>5, <1>6 DEF AttemptsAreGranted, Requesting

LEMMA GrantedStep == ASSUME TypeOK, AttemptsAreGranted, [Next]_vars PROVE AttemptsAreGranted'
<1>1. ASSUME NEW w \in Workers, Settles(w) \/ GivesUp(w) \/ Retries(w) PROVE AttemptsAreGranted'
  <2>1. PICK to \in Steps \ {"request"} : Moves(w, "request", to)
    BY <1>1 DEF Settles, GivesUp, Retries, Steps
  <2>2. Sends(w) /\ grants' = grants
    BY <1>1 DEF Settles, GivesUp, Retries, redis
  <2>3. QED
    BY <2>1, <2>2, SendStep
<1>2. ASSUME NEW w \in Workers, Exec(w) PROVE AttemptsAreGranted'
  <2> DEFINE now == seen[w].now
  <2>1. now \in Times /\ UNCHANGED traffic
    BY <1>2 DEF TypeOK, Exec
  <2>2. CASE Granted(seen[w].bucket, now)
    <3>1. /\ Moves(w, "exec", "request")
          /\ grants'[now] = grants[now] + 1 /\ \A t \in Times \ {now} : grants'[t] = grants[t]
      BY <1>2, <2>1, <2>2 DEF TypeOK, Exec
    <3> HIDE DEF now
    <3>2. QED
      BY <2>1, <3>1, GrantStep
  <2>3. CASE ~ Granted(seen[w].bucket, now)
    <3>1. Moves(w, "exec", "sleep") /\ grants' = grants
      BY <1>2, <2>3 DEF TypeOK, Exec
    <3>2. Requesting' = Requesting
      BY <3>1 DEF TypeOK, Requesting, Moves
    <3>3. QED
      BY <2>1, <3>1, <3>2 DEF AttemptsAreGranted, Requesting, traffic
  <2>4. QED
    BY <2>2, <2>3
<1>3. ASSUME NEW w \in Workers, NEW from \in Steps \ {"request"}, NEW to \in Steps \ {"request"},
             Moves(w, from, to), UNCHANGED <<traffic, grants>>
      PROVE  AttemptsAreGranted'
  <2>1. Requesting' = Requesting
    BY <1>3 DEF TypeOK, Requesting, Moves
  <2>2. QED
    BY <1>3, <2>1 DEF AttemptsAreGranted, Requesting, traffic
<1>4. ASSUME NEW w \in Workers,
             BeginFetch(w) \/ NextAttempt(w) \/ Watch(w) \/ Read(w) \/ Conflict(w) \/ Wake(w)
      PROVE  AttemptsAreGranted'
  <2>1. \E from \in Steps \ {"request"}, to \in Steps \ {"request"} : Moves(w, from, to)
    BY <1>4 DEF BeginFetch, NextAttempt, Watch, Read, Conflict, Wake, Steps
  <2>2. UNCHANGED <<traffic, grants>>
    BY <1>4 DEF BeginFetch, NextAttempt, Watch, Read, Conflict, Wake, redis, client
  <2>3. QED
    BY <1>3, <2>1, <2>2
<1>5. CASE UNCHANGED <<pc, traffic, grants>>
  BY <1>5 DEF AttemptsAreGranted, traffic
<1>6. QED
  BY <1>1, <1>2, <1>4, <1>5, RedirectStep DEF Next, Fetch, Tick, Expire, vars, redis, client

LEMMA RedirectsStep == ASSUME TypeOK, RedirectsAreFew, [Next]_vars PROVE RedirectsAreFew'
<1>1. \A m \in Nat : \A x \in Int : m * x \in Int /\ m * (x + 1) = m * x + m
  OBVIOUS
<1>2. ASSUME NEW w \in Workers, Sends(w) PROVE RedirectsAreFew'
  <2> DEFINE x == sent[w] - redirected[w]
  <2>1. /\ sent[w] \in Nat /\ redirected[w] \in Nat /\ hops[w] \in Nat /\ hops[w] <= MaxRedirects
        /\ sent'[w] = sent[w] + 1 /\ redirected' = redirected /\ hops'[w] = 0
        /\ \A v \in Workers \ {w} : sent'[v] = sent[v] /\ hops'[v] = hops[v]
    BY <1>2 DEF TypeOK, Sends
  <2>2. sent'[w] - redirected'[w] = x + 1 /\ x \in Int
    BY <2>1
  <2>3. redirected[w] <= MaxRedirects * x + hops[w]
    BY DEF RedirectsAreFew
  <2> HIDE DEF x
  <2>4. redirected'[w] <= MaxRedirects * (sent'[w] - redirected'[w]) + hops'[w]
    <3>1. /\ MaxRedirects * x \in Int
          /\ MaxRedirects * (sent'[w] - redirected'[w]) = MaxRedirects * x + MaxRedirects
      BY <1>1, <2>2
    <3>2. QED
      BY <2>1, <2>3, <3>1
  <2>5. QED
    BY <2>1, <2>4 DEF RedirectsAreFew
<1>3. ASSUME NEW w \in Workers, Redirects(w) PROVE RedirectsAreFew'
  <2>1. /\ sent[w] \in Nat /\ redirected[w] \in Nat /\ hops[w] \in Nat
        /\ sent'[w] = sent[w] + 1 /\ redirected'[w] = redirected[w] + 1 /\ hops'[w] = hops[w] + 1
        /\ \A v \in Workers \ {w} :
             sent'[v] = sent[v] /\ redirected'[v] = redirected[v] /\ hops'[v] = hops[v]
    BY <1>3 DEF TypeOK, Redirects
  <2>2. sent'[w] - redirected'[w] = sent[w] - redirected[w]
    BY <2>1
  <2>3. redirected'[w] <= MaxRedirects * (sent'[w] - redirected'[w]) + hops'[w]
    <3>1. MaxRedirects * (sent[w] - redirected[w]) \in Int
      BY <1>1, <2>1
    <3>2. redirected[w] <= MaxRedirects * (sent[w] - redirected[w]) + hops[w]
      BY DEF RedirectsAreFew
    <3>3. QED
      BY <2>1, <2>2, <3>1, <3>2
  <2>4. QED
    BY <2>1, <2>3 DEF RedirectsAreFew
<1>4. CASE UNCHANGED traffic
  BY <1>4 DEF RedirectsAreFew, traffic
<1>5. QED
  BY <1>2, <1>3, <1>4
     DEF Next, Fetch, Tick, Expire, BeginFetch, Settles, GivesUp, Retries, NextAttempt, Watch, Read,
         Exec, Conflict, Wake, vars, client

LEMMA InitSent == Init => SentIsGranted
<1> SUFFICES ASSUME Init PROVE SentIsGranted
  OBVIOUS
<1>1. Requesting = {} /\ Cardinality(Requesting) = 0
  BY FS_EmptySet DEF Init, Requesting
<1>2. /\ IsFiniteSet(Times) /\ \A t \in Times \ {} : grants[t] = 0 /\ grants[t] \in Nat
      /\ \A w \in Workers \ {} : sent[w] = 0 /\ sent[w] \in Nat
      /\ \A w \in Workers \ {} : redirected[w] = 0 /\ redirected[w] \in Nat
  BY FS_Interval DEF Init, Times
<1>3. /\ Total(grants, Times) = Total(grants, {}) /\ Total(sent, Workers) = Total(sent, {})
      /\ Total(redirected, Workers) = Total(redirected, {})
  BY <1>2, CrewIsFinite, TotalOfMore
<1>4. AttemptsAreGranted
  BY <1>1, <1>3, TotalOfNone DEF AttemptsAreGranted, Requesting
<1>5. RedirectsAreFew
  BY DEF Init, RedirectsAreFew
<1>6. QED
  BY <1>4, <1>5 DEF SentIsGranted

\* Every attempt, a retry as well, is granted a slot of its own, and the requests
\* that leave without one follow redirects, no more of them for each attempt than
\* the client follows; for any number of workers and any policy.
THEOREM SlotsAreSpentOnce == Spec => []SentIsGranted
<1>1. TypeOK /\ SentIsGranted /\ AttemptLeft /\ [Next]_vars
        => (TypeOK /\ SentIsGranted /\ AttemptLeft)'
  BY TypeStep, AttemptStep, GrantedStep, RedirectsStep DEF SentIsGranted
<1>2. QED
  BY <1>1, InitType, InitSent, PTL DEF Spec
=============================================================================
