-------------------------- MODULE Schedules_proofs --------------------------
(***************************************************************************)
(* What the dispatch of schedules promises for any number of schedules and *)
(* dispatchers, every interval and batch, and every bound on operators,    *)
(* deaths and time.                                                        *)
(***************************************************************************)
EXTENDS Schedules, FiniteSetTheorems, TLAPS

\* A dispatcher holds rows only inside its transaction, no row is held twice,
\* and what it holds is still due at the time it goes by.
Held ==
  /\ \A d \in Dispatchers : pc[d] # "claimed" => claimed[d] = {}
  /\ \A d, e \in Dispatchers : \A s \in claimed[d] \cap claimed[e] : d = e
  /\ \A d \in Dispatchers : \A s \in claimed[d] : DueAt(s, now[d])

\* Unless a form put it back, the next run is an interval after every job, and
\* a schedule that never ran has none.
RunsLater ==
  \A s \in Schedules : ~ restored[s] =>
    /\ schedule[s].next = Unset => jobs[s] = << >>
    /\ \A i \in DOMAIN jobs[s] : jobs[s][i] + Interval <= schedule[s].next

\* What is still to be published is committed.
UnsentExist ==
  \A d \in Dispatchers : \A job \in unsent[d] : job[2] <= Len(jobs[job[1]])

\* A schedule that was given a turn over another one runs after it, and so
\* cannot be put before it again.
Overtaking ==
  \A s, t \in Schedules : ~ restored[s] /\ ~ restored[t] =>
    \/ overtakes[s][t] = 0
    \/ /\ overtakes[s][t] = 1
       /\ schedule[s].next < schedule[t].next /\ schedule[t].next # Unset

\* What a claim left behind is due, not held by it, and was not left behind for
\* one of the claimed rows before.
Passing ==
  \A d \in Dispatchers : \A s \in passed[d] :
    /\ s \notin claimed[d]
    /\ \A t \in claimed[d] : ~ restored[s] /\ ~ restored[t] =>
         overtakes[s][t] = 0 /\ schedule[s].next <= now[d]

IInv ==
  /\ TypeOK /\ Held /\ RunsLater /\ JobsAreSpaced /\ UnsentExist /\ PublishedExists
  /\ Overtaking /\ Passing

USE SchedulesAssumption DEF SchedulesAssumption, Unset, Closed, Rows, Ids

-----------------------------------------------------------------------------
\* Before the first tick nothing ran.
LEMMA InitInvariant == Init => IInv
<1> SUFFICES ASSUME Init PROVE IInv
  OBVIOUS
<1>1. TypeOK
  <2>1. schedule \in [Schedules -> Rows]
    <3>1. Unset \in 0..Unset
      OBVIOUS
    <3>2. [next : {Unset}, enabled : {TRUE}, scope : Scopes]
            \subseteq [next : {Unset}, enabled : BOOLEAN, scope : Scopes]
      OBVIOUS
    <3>3. QED
      BY <3>1, <3>2 DEF Init
  <2>2. \A s \in Schedules : jobs[s] \in Seq(0..MaxClock)
    BY DEF Init
  <2>3. QED
    BY <2>1, <2>2 DEF Init, TypeOK
<1>2. Held /\ RunsLater /\ JobsAreSpaced /\ UnsentExist /\ PublishedExists
  BY DEF Init, Held, RunsLater, JobsAreSpaced, UnsentExist, PublishedExists
<1>3. Overtaking /\ Passing
  BY DEF Init, Overtaking, Passing
<1>4. QED
  BY <1>1, <1>2, <1>3 DEF IInv

\* The cases of the next-state relation.
LEMMA NextCases ==
  ASSUME [Next]_vars
  PROVE  \/ Tick
         \/ \E d \in Dispatchers :
              Begin(d) \/ Claim(d) \/ Commit(d) \/ Abort(d) \/ Publish(d) \/ Finish(d)
              \/ Dies(d)
         \/ \E s \in Schedules : OpenForm(s)
         \/ \E s \in Schedules, enabled \in BOOLEAN, scope \in Scopes :
              SaveForm(s, enabled, scope)
         \/ UNCHANGED vars
  BY DEF Next, Dispatch, Edit

-----------------------------------------------------------------------------
(* Each part of the invariant is preserved by every action.                 *)

\* The elements of a sequence stay where they are when one is appended.
LEMMA Appended ==
  ASSUME NEW S, NEW q \in Seq(S), NEW e \in S
  PROVE  /\ Append(q, e) \in Seq(S)
         /\ Len(q) \in Nat /\ Len(Append(q, e)) = Len(q) + 1
         /\ Append(q, e)[Len(q) + 1] = e
         /\ \A i \in DOMAIN q : i \in DOMAIN Append(q, e) /\ Append(q, e)[i] = q[i]
  OBVIOUS

\* What a commit appends: at most the time of the dispatch, at the end.
LEMMA CommittedJobs ==
  ASSUME TypeOK, NEW d \in Dispatchers, Commit(d), NEW s \in Schedules
  PROVE  /\ jobs'[s] \in Seq(0..MaxClock)
         /\ Len(jobs'[s]) >= Len(jobs[s])
         /\ \A i \in DOMAIN jobs[s] : i \in DOMAIN jobs'[s] /\ jobs'[s][i] = jobs[s][i]
         /\ s \notin Created(d) => jobs'[s] = jobs[s]
         /\ s \in Created(d) => /\ Len(jobs'[s]) = Len(jobs[s]) + 1
                                /\ jobs'[s][Len(jobs[s]) + 1] = now[d]
<1>1. jobs[s] \in Seq(0..MaxClock) /\ now[d] \in 0..MaxClock
  BY DEF TypeOK
<1>2. jobs'[s] = IF s \in Created(d) THEN Append(jobs[s], now[d]) ELSE jobs[s]
  BY DEF Commit
<1>3. CASE s \in Created(d)
  <2>1. jobs'[s] = Append(jobs[s], now[d])
    BY <1>2, <1>3
  <2>2. jobs'[s] \in Seq(0..MaxClock) /\ Len(jobs'[s]) >= Len(jobs[s])
    BY <1>1, <2>1, Appended
  <2>3. \A i \in DOMAIN jobs[s] : i \in DOMAIN jobs'[s] /\ jobs'[s][i] = jobs[s][i]
    BY <1>1, <2>1, Appended
  <2>4. Len(jobs'[s]) = Len(jobs[s]) + 1 /\ jobs'[s][Len(jobs[s]) + 1] = now[d]
    BY <1>1, <2>1, Appended
  <2>5. QED
    BY <1>3, <2>2, <2>3, <2>4
<1>4. CASE s \notin Created(d)
  BY <1>1, <1>2, <1>4
<1>5. QED
  BY <1>3, <1>4

\* Types.
LEMMA TypeStep ==
  ASSUME TypeOK, [Next]_vars
  PROVE  TypeOK'
<1>1. ASSUME Tick PROVE TypeOK'
  BY <1>1 DEF TypeOK, Tick, turns
<1>2. ASSUME NEW d \in Dispatchers, Begin(d) PROVE TypeOK'
  BY <1>2 DEF TypeOK, Begin, Moves, turns
<1>3. ASSUME NEW d \in Dispatchers, Claim(d) PROVE TypeOK'
  <2>1. claimed' \in [Dispatchers -> SUBSET Schedules]
    BY <1>3 DEF TypeOK, Claim, ClaimableBy
  <2>2. passed' \in [Dispatchers -> SUBSET Schedules]
    <3>1. {s \in ClaimableBy(d) \ claimed'[d] : schedule[s].next # Unset} \subseteq Schedules
      BY DEF ClaimableBy
    <3>2. QED
      BY <1>3, <3>1 DEF TypeOK, Claim
  <2>3. QED
    BY <1>3, <2>1, <2>2 DEF TypeOK, Claim, Moves
<1>4. ASSUME NEW d \in Dispatchers, Commit(d) PROVE TypeOK'
  <2>1. jobs' \in [Schedules -> Seq(0..MaxClock)]
    <3>1. \A s \in Schedules : jobs'[s] \in Seq(0..MaxClock)
      BY <1>4, CommittedJobs
    <3>2. QED
      BY <1>4, <3>1 DEF Commit
  <2>2. schedule' \in [Schedules -> Rows]
    <3>1. now[d] + Interval \in 0..Unset /\ schedule \in [Schedules -> Rows]
      BY DEF TypeOK
    <3>2. \A s \in Schedules : [schedule[s] EXCEPT !.next = now[d] + Interval] \in Rows
      BY <3>1
    <3>3. QED
      BY <1>4, <3>1, <3>2 DEF Commit, Advanced
  <2>3. unsent' \in [Dispatchers -> SUBSET Ids]
    <3>1. \A s \in Schedules : Len(jobs[s]) + 1 \in Nat \ {0}
      BY DEF TypeOK
    <3>2. {<<s, Len(jobs[s]) + 1>> : s \in Created(d)} \subseteq Ids
      BY <3>1 DEF TypeOK, Created
    <3>3. QED
      BY <1>4, <3>2 DEF TypeOK, Commit
  <2>4. overtakes' \in [Schedules -> [Schedules -> Nat]]
    <3>1. \A s, t \in Schedules : overtakes[s][t] \in Nat
      BY DEF TypeOK
    <3>2. \A s \in Schedules : Overtaken(d)[s] \in [Schedules -> Nat]
      BY <3>1 DEF Overtaken
    <3>3. overtakes' = [s \in Schedules |-> Overtaken(d)[s]]
      BY <1>4 DEF Commit, Overtaken
    <3>4. QED
      BY <3>2, <3>3
  <2>5. passed' \in [Dispatchers -> SUBSET Schedules]
    BY <1>4 DEF TypeOK, Commit
  <2>6. claimed' \in [Dispatchers -> SUBSET Schedules]
    BY <1>4 DEF TypeOK, Commit
  <2>7. QED
    BY <1>4, <2>1, <2>2, <2>3, <2>4, <2>5, <2>6 DEF TypeOK, Commit, Moves
<1>5. ASSUME NEW d \in Dispatchers, Abort(d) PROVE TypeOK'
  BY <1>5 DEF TypeOK, Abort, Moves
<1>6. ASSUME NEW d \in Dispatchers, Publish(d) PROVE TypeOK'
  <2>1. PICK job \in unsent[d] : /\ published' = published \cup {job}
                                 /\ unsent' = [unsent EXCEPT ![d] = @ \ {job}]
    BY <1>6 DEF Publish
  <2>2. job \in Ids
    BY DEF TypeOK
  <2>3. published' \subseteq Ids /\ unsent' \in [Dispatchers -> SUBSET Ids]
    BY <2>1, <2>2 DEF TypeOK
  <2>4. QED
    BY <1>6, <2>3 DEF TypeOK, Publish, turns
<1>7. ASSUME NEW d \in Dispatchers, Finish(d) PROVE TypeOK'
  BY <1>7 DEF TypeOK, Finish, Moves, turns
<1>8. ASSUME NEW d \in Dispatchers, Dies(d) PROVE TypeOK'
  BY <1>8 DEF TypeOK, Dies, Moves
<1>9. ASSUME NEW s \in Schedules, OpenForm(s) PROVE TypeOK'
  BY <1>9 DEF TypeOK, OpenForm, turns
<1>10. ASSUME NEW s \in Schedules, NEW enabled \in BOOLEAN, NEW scope \in Scopes,
              SaveForm(s, enabled, scope)
       PROVE  TypeOK'
  BY <1>10 DEF TypeOK, SaveForm, turns
<1>11. ASSUME UNCHANGED vars PROVE TypeOK'
  BY <1>11 DEF TypeOK, vars, turns
<1>12. QED
  BY <1>1, <1>2, <1>3, <1>4, <1>5, <1>6, <1>7, <1>8, <1>9, <1>10, <1>11, NextCases

\* SKIP LOCKED and the row lock: rows are held by one dispatcher, and nobody
\* else moves a row that is held.
LEMMA HeldStep ==
  ASSUME TypeOK, Held, [Next]_vars
  PROVE  Held'
<1>1. ASSUME Tick PROVE Held'
  BY <1>1 DEF Held, DueAt, Tick
<1>2. ASSUME NEW d \in Dispatchers, Begin(d) PROVE Held'
  BY <1>2 DEF TypeOK, Held, DueAt, Begin, Moves
<1>3. ASSUME NEW d \in Dispatchers, Claim(d) PROVE Held'
  <2>1. \A s \in claimed'[d] : DueAt(s, now[d]) /\ ~ Locked(s)
    BY <1>3 DEF TypeOK, Claim, ClaimableBy
  <2>2. \A e \in Dispatchers \ {d} : claimed'[e] = claimed[e]
    BY <1>3 DEF TypeOK, Claim
  <2>3. \A e \in Dispatchers : pc'[e] # "claimed" => claimed'[e] = {}
    BY <1>3, <2>2 DEF TypeOK, Held, Claim, Moves
  <2>4. \A e \in Dispatchers : \A s \in claimed'[e] : DueAt(s, now[e])
    BY <2>1, <2>2 DEF Held
  <2>5. \A e, f \in Dispatchers : \A s \in claimed'[e] \cap claimed'[f] : e = f
    BY <2>1, <2>2 DEF Held, Locked
  <2>6. QED
    BY <1>3, <2>3, <2>4, <2>5 DEF Held, DueAt, Claim
<1>4. ASSUME NEW d \in Dispatchers, Commit(d) PROVE Held'
  <2>1. claimed'[d] = {} /\ \A e \in Dispatchers \ {d} : claimed'[e] = claimed[e]
    BY <1>4 DEF TypeOK, Commit
  <2>2. \A e \in Dispatchers : pc'[e] # "claimed" => claimed'[e] = {}
    BY <1>4, <2>1 DEF TypeOK, Held, Commit, Moves
  <2>3. \A e \in Dispatchers : \A s \in claimed'[e] : schedule'[s] = schedule[s]
    BY <1>4, <2>1 DEF TypeOK, Held, Commit, Advanced
  <2>4. QED
    BY <1>4, <2>1, <2>2, <2>3 DEF Held, DueAt, Commit
<1>5. ASSUME NEW d \in Dispatchers, Abort(d) PROVE Held'
  BY <1>5 DEF TypeOK, Held, DueAt, Abort, Moves
<1>6. ASSUME NEW d \in Dispatchers, Publish(d) PROVE Held'
  BY <1>6 DEF Held, DueAt, Publish
<1>7. ASSUME NEW d \in Dispatchers, Finish(d) PROVE Held'
  BY <1>7 DEF TypeOK, Held, DueAt, Finish, Moves
<1>8. ASSUME NEW d \in Dispatchers, Dies(d) PROVE Held'
  BY <1>8 DEF TypeOK, Held, DueAt, Dies, Moves
<1>9. ASSUME NEW s \in Schedules, OpenForm(s) PROVE Held'
  BY <1>9 DEF Held, DueAt, OpenForm
<1>10. ASSUME NEW s \in Schedules, NEW enabled \in BOOLEAN, NEW scope \in Scopes,
              SaveForm(s, enabled, scope)
       PROVE  Held'
  BY <1>10 DEF TypeOK, Held, DueAt, Locked, SaveForm
<1>11. ASSUME UNCHANGED vars PROVE Held'
  BY <1>11 DEF Held, DueAt, vars
<1>12. QED
  BY <1>1, <1>2, <1>3, <1>4, <1>5, <1>6, <1>7, <1>8, <1>9, <1>10, <1>11, NextCases

\* A commit moves the next run an interval behind the job it appends, which
\* lies an interval behind all the others, since the row was due.
LEMMA SpacingStep ==
  ASSUME TypeOK, Held, RunsLater, JobsAreSpaced, [Next]_vars
  PROVE  RunsLater' /\ JobsAreSpaced'
<1>1. ASSUME NEW d \in Dispatchers, Commit(d) PROVE RunsLater' /\ JobsAreSpaced'
  <2>1. SUFFICES ASSUME NEW s \in Schedules, ~ restored[s]
                 PROVE  /\ schedule'[s].next = Unset => jobs'[s] = << >>
                        /\ \A i \in DOMAIN jobs'[s] :
                             jobs'[s][i] + Interval <= schedule'[s].next
                        /\ \A i, k \in DOMAIN jobs'[s] :
                             i < k => jobs'[s][k] >= jobs'[s][i] + Interval
    BY <1>1 DEF RunsLater, JobsAreSpaced, Commit
  <2>2. jobs[s] \in Seq(0..MaxClock) /\ now[d] \in 0..MaxClock /\ schedule[s] \in Rows
    BY DEF TypeOK
  <2> DEFINE Numbers(q) == \A i \in DOMAIN q : i \in Nat /\ q[i] \in Nat
  <2>9. /\ Numbers(jobs[s]) /\ Numbers(jobs'[s])
        /\ Len(jobs[s]) \in Nat /\ now[d] \in Nat /\ Interval \in Nat
    <3>1. \A q \in Seq(0..MaxClock) : Len(q) \in Nat /\ Numbers(q)
      OBVIOUS
    <3>2. jobs'[s] \in Seq(0..MaxClock)
      BY <1>1, CommittedJobs
    <3>3. now[d] \in Nat /\ Interval \in Nat
      BY <2>2
    <3>4. QED
      <4> HIDE DEF Numbers
      <4> QED
        BY <2>2, <3>1, <3>2, <3>3
  <2>3. CASE s \notin claimed[d]
    <3>1. schedule'[s] = schedule[s] /\ jobs'[s] = jobs[s]
      BY <1>1, <2>3, CommittedJobs DEF Commit, Advanced, Created
    <3>2. QED
      BY <2>1, <3>1 DEF RunsLater, JobsAreSpaced
  <2>4. CASE s \in claimed[d]
    <3>1. schedule'[s].next = now[d] + Interval
      BY <1>1, <2>2, <2>4 DEF Commit, Advanced
    <3>2. \A i \in DOMAIN jobs[s] : jobs[s][i] + Interval <= now[d]
      BY <2>1, <2>2, <2>4, SMTT(30) DEF Held, DueAt, RunsLater
    <3>3. \A i \in DOMAIN jobs'[s] :
            \/ i \in DOMAIN jobs[s] /\ jobs'[s][i] = jobs[s][i]
            \/ i = Len(jobs[s]) + 1 /\ jobs'[s][i] = now[d]
      <4>1. DOMAIN jobs'[s] = 1..Len(jobs'[s]) /\ DOMAIN jobs[s] = 1..Len(jobs[s])
        BY <1>1, <2>2, CommittedJobs
      <4>2. CASE s \in Created(d)
        <5>1. Len(jobs'[s]) = Len(jobs[s]) + 1 /\ jobs'[s][Len(jobs[s]) + 1] = now[d]
          BY <1>1, <4>2, CommittedJobs
        <5>2. \A i \in DOMAIN jobs[s] : jobs'[s][i] = jobs[s][i]
          BY <1>1, CommittedJobs
        <5>3. Len(jobs[s]) \in Nat
          BY <2>2
        <5>4. QED
          BY <4>1, <5>1, <5>2, <5>3
      <4>3. CASE s \notin Created(d)
        BY <1>1, <4>3, CommittedJobs
      <4>4. QED
        BY <4>2, <4>3
    <3>4. \A i \in DOMAIN jobs'[s] : jobs'[s][i] + Interval <= schedule'[s].next
      BY <2>9, <3>1, <3>2, <3>3, SMTT(30)
    <3>5. ASSUME NEW i \in DOMAIN jobs'[s], NEW k \in DOMAIN jobs'[s], i < k
          PROVE  jobs'[s][k] >= jobs'[s][i] + Interval
      <4>1. i \in DOMAIN jobs[s] /\ jobs'[s][i] = jobs[s][i]
        BY <2>2, <3>3, <3>5
      <4>2. CASE k \in DOMAIN jobs[s]
        <5>1. jobs'[s][k] = jobs[s][k]
          BY <1>1, <4>2, CommittedJobs
        <5>2. jobs[s][k] >= jobs[s][i] + Interval
          BY <2>1, <3>5, <4>1, <4>2 DEF JobsAreSpaced
        <5>3. QED
          BY <4>1, <5>1, <5>2
      <4>3. CASE k = Len(jobs[s]) + 1
        BY <2>9, <3>2, <3>3, <4>1, <4>3
      <4>4. QED
        BY <3>3, <4>2, <4>3
    <3>6. QED
      BY <2>2, <3>1, <3>4, <3>5
  <2>5. QED
    BY <2>3, <2>4
<1>2. ASSUME NEW s \in Schedules, NEW enabled \in BOOLEAN, NEW scope \in Scopes,
             SaveForm(s, enabled, scope)
      PROVE  RunsLater' /\ JobsAreSpaced'
  <2>1. \A t \in Schedules : ~ restored'[t] =>
          ~ restored[t] /\ schedule'[t].next = schedule[t].next
    BY <1>2 DEF TypeOK, SaveForm
  <2>2. QED
    BY <1>2, <2>1 DEF RunsLater, JobsAreSpaced, SaveForm
<1>3. CASE UNCHANGED <<schedule, jobs, restored>>
  BY <1>3 DEF RunsLater, JobsAreSpaced
<1>4. QED
  BY <1>1, <1>2, <1>3, NextCases
     DEF Tick, Begin, Claim, Abort, Publish, Finish, Dies, OpenForm, vars

\* Jobs are only added, and published out of what a commit added.
LEMMA PublicationStep ==
  ASSUME TypeOK, UnsentExist, PublishedExists, [Next]_vars
  PROVE  UnsentExist' /\ PublishedExists'
<1>1. ASSUME NEW d \in Dispatchers, Commit(d) PROVE UnsentExist' /\ PublishedExists'
  <2>1. \A s \in Schedules : Len(jobs[s]) \in Nat /\ Len(jobs'[s]) \in Nat
                             /\ Len(jobs'[s]) >= Len(jobs[s])
    <3>1. \A s \in Schedules : jobs[s] \in Seq(0..MaxClock)
      BY DEF TypeOK
    <3>2. \A s \in Schedules : jobs'[s] \in Seq(0..MaxClock) /\ Len(jobs'[s]) >= Len(jobs[s])
      BY <1>1, CommittedJobs
    <3>3. QED
      BY <3>1, <3>2
  <2>2. \A s \in Created(d) : Len(jobs'[s]) = Len(jobs[s]) + 1
    BY <1>1, CommittedJobs DEF TypeOK, Created
  <2>3. /\ unsent'[d] = {<<s, Len(jobs[s]) + 1>> : s \in Created(d)}
        /\ \A e \in Dispatchers \ {d} : unsent'[e] = unsent[e]
    BY <1>1 DEF TypeOK, Commit
  <2>4. \A e \in Dispatchers : unsent[e] \subseteq Ids
    BY DEF TypeOK
  <2>5. UnsentExist'
    <3>1. SUFFICES ASSUME NEW e \in Dispatchers, NEW job \in unsent'[e]
                   PROVE  job[2] <= Len(jobs'[job[1]])
      BY DEF UnsentExist
    <3>2. CASE e = d
      BY <2>1, <2>2, <2>3, <3>1, <3>2 DEF TypeOK, Created
    <3>3. CASE e # d
      <4>1. job \in unsent[e] /\ job \in Ids
        BY <2>3, <2>4, <3>1, <3>3
      <4>2. job[2] <= Len(jobs[job[1]]) /\ job[1] \in Schedules /\ job[2] \in Nat
        BY <4>1 DEF UnsentExist
      <4>3. Len(jobs[job[1]]) \in Nat /\ Len(jobs'[job[1]]) \in Nat
            /\ Len(jobs'[job[1]]) >= Len(jobs[job[1]])
        BY <2>1, <4>2
      <4>4. QED
        BY <4>2, <4>3
    <3>4. QED
      BY <3>2, <3>3
  <2>6. PublishedExists'
    <3>1. SUFFICES ASSUME NEW job \in published PROVE job[2] <= Len(jobs'[job[1]])
      BY <1>1 DEF PublishedExists, Commit
    <3>2. job[2] <= Len(jobs[job[1]]) /\ job[1] \in Schedules /\ job[2] \in Nat
      BY <3>1 DEF TypeOK, PublishedExists
    <3>3. Len(jobs[job[1]]) \in Nat /\ Len(jobs'[job[1]]) \in Nat
          /\ Len(jobs'[job[1]]) >= Len(jobs[job[1]])
      BY <2>1, <3>2
    <3>4. QED
      BY <3>2, <3>3
  <2>7. QED
    BY <2>5, <2>6
<1>2. ASSUME NEW d \in Dispatchers, Publish(d) PROVE UnsentExist' /\ PublishedExists'
  BY <1>2 DEF TypeOK, UnsentExist, PublishedExists, Publish
<1>3. ASSUME NEW d \in Dispatchers, Dies(d) PROVE UnsentExist' /\ PublishedExists'
  BY <1>3 DEF TypeOK, UnsentExist, PublishedExists, Dies
<1>4. CASE UNCHANGED <<jobs, published, unsent>>
  BY <1>4 DEF UnsentExist, PublishedExists
<1>5. QED
  BY <1>1, <1>2, <1>3, <1>4, NextCases
     DEF Tick, Begin, Claim, Abort, Finish, OpenForm, SaveForm, vars

-----------------------------------------------------------------------------
(* Nobody is overtaken twice.                                               *)

\* Rows are ordered by their next run.
LEMMA Order ==
  ASSUME TypeOK, NEW s \in Schedules, NEW t \in Schedules, s # t
  PROVE  /\ Before(s, t) \/ Before(t, s)
         /\ Before(t, s) => schedule[t].next <= schedule[s].next
         /\ \A u \in Schedules : Before(u, s) /\ Before(s, t) => Before(u, t)
<1>1. \A u \in Schedules : schedule[u].next \in Nat /\ u \in Nat
  BY DEF TypeOK
<1>2. Before(s, t) \/ Before(t, s)
  BY <1>1 DEF Before
<1>3. Before(t, s) => schedule[t].next <= schedule[s].next
  <2>1. schedule[s].next \in Nat /\ schedule[t].next \in Nat
    BY <1>1
  <2>2. QED
    BY <2>1 DEF Before
<1>4. ASSUME NEW u \in Schedules, Before(u, s), Before(s, t) PROVE Before(u, t)
  <2>1. /\ schedule[u].next \in Nat /\ schedule[s].next \in Nat /\ schedule[t].next \in Nat
        /\ u \in Nat /\ s \in Nat /\ t \in Nat
    BY <1>1
  <2>2. schedule[u].next <= schedule[s].next /\ schedule[s].next <= schedule[t].next
    BY <1>4, <2>1 DEF Before
  <2>3. QED
    BY <1>4, <2>1, <2>2 DEF Before
<1>5. QED
  BY <1>2, <1>3, <1>4

\* A claim takes no row ahead of one that it leaves.
LEMMA FirstRows ==
  ASSUME TypeOK, NEW d \in Dispatchers, Claim(d), NEW s \in ClaimableBy(d),
         s \notin claimed'[d], NEW t \in claimed'[d]
  PROVE  schedule[t].next <= schedule[s].next
<1> DEFINE First(u) == {v \in ClaimableBy(d) : Before(v, u)}
<1>1. /\ s \in Schedules /\ t \in Schedules /\ t \in ClaimableBy(d) /\ s # t
      /\ Cardinality(First(t)) < Batch /\ ~ (Cardinality(First(s)) < Batch)
  BY DEF TypeOK, Claim, ClaimableBy
<1>2. ASSUME Before(s, t) PROVE FALSE
  <2>1. First(s) \subseteq First(t)
    BY <1>1, <1>2, Order DEF ClaimableBy
  <2>2. IsFiniteSet(First(t)) /\ IsFiniteSet(First(s))
    <3>1. First(t) \subseteq Schedules /\ First(s) \subseteq Schedules
      BY DEF ClaimableBy
    <3> HIDE DEF First
    <3>2. QED
      BY <3>1, FS_Subset
  <2> HIDE DEF First
  <2>3. Cardinality(First(s)) <= Cardinality(First(t))
    BY <2>1, <2>2, FS_Subset
  <2>4. Cardinality(First(s)) \in Nat /\ Cardinality(First(t)) \in Nat
    BY <2>2, FS_CardinalityType
  <2>5. QED
    BY <1>1, <2>3, <2>4
<1>3. QED
  BY <1>1, <1>2, Order

\* What a commit does to the next runs, the turns and the rows left behind.
LEMMA CommittedTurns ==
  ASSUME TypeOK, NEW d \in Dispatchers, Commit(d)
  PROVE  /\ \A s \in claimed[d] : schedule'[s].next = now[d] + Interval
         /\ \A s \in Schedules \ claimed[d] : schedule'[s].next = schedule[s].next
         /\ \A s, t \in Schedules :
              /\ s \in claimed[d] => overtakes'[s][t] = 0
              /\ s \notin claimed[d] /\ s \in passed[d] /\ t \in claimed[d]
                   => overtakes'[s][t] = overtakes[s][t] + 1
              /\ s \notin claimed[d] /\ ~ (s \in passed[d] /\ t \in claimed[d])
                   => overtakes'[s][t] = overtakes[s][t]
<1>1. \A s \in claimed[d] : schedule'[s].next = now[d] + Interval
  <2>1. claimed[d] \subseteq Schedules /\ schedule \in [Schedules -> Rows]
    BY DEF TypeOK
  <2>2. \A s \in claimed[d] : schedule'[s] = [schedule[s] EXCEPT !.next = now[d] + Interval]
    <3>1. schedule' = Advanced(d)
      BY DEF Commit
    <3> QED
      BY <2>1, <3>1, SMTT(30) DEF Advanced
  <2>3. ASSUME NEW s \in claimed[d] PROVE schedule'[s].next = now[d] + Interval
    <3>1. schedule[s] \in Rows
      BY <2>1
    <3>2. QED
      BY <2>2, <3>1
  <2>4. QED
    BY <2>3
<1>2. \A s \in Schedules \ claimed[d] : schedule'[s].next = schedule[s].next
  BY DEF Commit, Advanced
<1>3. \A s, t \in Schedules :
        overtakes'[s][t] =
          IF s \in claimed[d] THEN 0
          ELSE overtakes[s][t] + (IF s \in passed[d] /\ t \in claimed[d] THEN 1 ELSE 0)
  BY DEF Commit, Overtaken
<1>4. ASSUME NEW s \in Schedules, NEW t \in Schedules
      PROVE  /\ s \in claimed[d] => overtakes'[s][t] = 0
             /\ s \notin claimed[d] /\ s \in passed[d] /\ t \in claimed[d]
                  => overtakes'[s][t] = overtakes[s][t] + 1
             /\ s \notin claimed[d] /\ ~ (s \in passed[d] /\ t \in claimed[d])
                  => overtakes'[s][t] = overtakes[s][t]
  <2>1. CASE s \in claimed[d]
    BY <1>3, <2>1
  <2>2. CASE s \notin claimed[d] /\ s \in passed[d] /\ t \in claimed[d]
    BY <1>3, <2>2
  <2>3. CASE s \notin claimed[d] /\ ~ (s \in passed[d] /\ t \in claimed[d])
    <3>1. overtakes[s][t] \in Nat
      BY DEF TypeOK
    <3>2. QED
      BY <1>3, <2>3, <3>1
  <2>4. QED
    BY <2>1, <2>2, <2>3
<1>5. QED
  BY <1>1, <1>2, <1>4

\* A form that leaves next_run_at as it was changes nobody's place.
LEMMA SavedPlaces ==
  ASSUME TypeOK, NEW s \in Schedules, NEW enabled \in BOOLEAN, NEW scope \in Scopes,
         SaveForm(s, enabled, scope)
  PROVE  \A t \in Schedules : /\ restored[t] => restored'[t]
                              /\ ~ restored'[t] => schedule'[t].next = schedule[t].next
BY DEF TypeOK, SaveForm

LEMMA OvertakingStep ==
  ASSUME TypeOK, Held, Overtaking, Passing, [Next]_vars
  PROVE  Overtaking'
<1>1. ASSUME NEW d \in Dispatchers, Commit(d) PROVE Overtaking'
  <2>1. SUFFICES ASSUME NEW s \in Schedules, NEW t \in Schedules, ~ restored[s], ~ restored[t]
                 PROVE  \/ overtakes'[s][t] = 0
                        \/ /\ overtakes'[s][t] = 1
                           /\ schedule'[s].next < schedule'[t].next
                           /\ schedule'[t].next # Unset
    BY <1>1 DEF Overtaking, Commit
  <2>2. /\ schedule[s].next \in Nat /\ schedule[t].next \in Nat /\ overtakes[s][t] \in Nat
        /\ now[d] \in Nat /\ now[d] <= MaxClock
    BY DEF TypeOK
  <2>3. CASE s \in claimed[d]
    BY <1>1, <2>3, CommittedTurns
  <2>4. CASE s \notin claimed[d] /\ t \in claimed[d]
    <3>1. /\ schedule'[s].next = schedule[s].next /\ schedule'[t].next = now[d] + Interval
          /\ schedule'[t].next # Unset
      BY <1>1, <2>2, <2>4, CommittedTurns
    <3>2. CASE s \in passed[d]
      <4>1. overtakes'[s][t] = 1
        BY <1>1, <2>1, <2>2, <2>4, <3>2, CommittedTurns DEF Passing
      <4>2. schedule[s].next <= now[d]
        BY <2>1, <2>4, <3>2 DEF Passing
      <4>3. QED
        BY <2>2, <3>1, <4>1, <4>2
    <3>3. CASE s \notin passed[d]
      <4>1. overtakes'[s][t] = overtakes[s][t]
        BY <1>1, <2>4, <3>3, CommittedTurns
      <4>2. schedule[t].next # Unset => schedule[t].next <= now[d]
        BY <2>4 DEF Held, DueAt
      <4>3. QED
        <5>1. CASE overtakes[s][t] = 0
          BY <4>1, <5>1
        <5>2. CASE overtakes[s][t] # 0
          <6>1. /\ overtakes[s][t] = 1
                /\ schedule[s].next < schedule[t].next /\ schedule[t].next # Unset
            BY <2>1, <5>2 DEF Overtaking
          <6>2. schedule'[s].next < schedule'[t].next
            BY <2>2, <3>1, <4>2, <6>1
          <6>3. QED
            BY <3>1, <4>1, <6>1, <6>2
        <5>3. QED
          BY <5>1, <5>2
    <3>4. QED
      BY <3>2, <3>3
  <2>5. CASE s \notin claimed[d] /\ t \notin claimed[d]
    <3>1. /\ schedule'[s].next = schedule[s].next /\ schedule'[t].next = schedule[t].next
          /\ overtakes'[s][t] = overtakes[s][t]
      BY <1>1, <2>5, CommittedTurns
    <3>2. QED
      BY <2>1, <3>1 DEF Overtaking
  <2>6. QED
    BY <2>3, <2>4, <2>5
<1>2. ASSUME NEW s \in Schedules, NEW enabled \in BOOLEAN, NEW scope \in Scopes,
             SaveForm(s, enabled, scope)
      PROVE  Overtaking'
  <2>1. overtakes' = overtakes
    BY <1>2 DEF SaveForm, turns
  <2>2. QED
    BY <1>2, <2>1, SavedPlaces DEF Overtaking
<1>3. CASE UNCHANGED <<schedule, restored, overtakes>>
  BY <1>3 DEF Overtaking
<1>4. QED
  BY <1>1, <1>2, <1>3, NextCases
     DEF Tick, Begin, Claim, Abort, Publish, Finish, Dies, OpenForm, vars, turns

LEMMA PassingStep ==
  ASSUME TypeOK, Held, Overtaking, Passing, [Next]_vars
  PROVE  Passing'
<1>1. ASSUME NEW d \in Dispatchers, Claim(d) PROVE Passing'
  <2>1. SUFFICES ASSUME NEW e \in Dispatchers, NEW s \in passed'[e]
                 PROVE  /\ s \notin claimed'[e]
                        /\ \A t \in claimed'[e] : ~ restored[s] /\ ~ restored[t] =>
                             overtakes[s][t] = 0 /\ schedule[s].next <= now[e]
    <3>1. UNCHANGED <<schedule, now, restored, overtakes>>
      BY <1>1 DEF Claim
    <3>2. QED
      BY <2>1, <3>1 DEF Passing
  <2>2. CASE e = d
    <3>1. /\ s \in ClaimableBy(d) /\ s \notin claimed'[d] /\ s \in Schedules
          /\ DueAt(s, now[d]) /\ schedule[s].next # Unset
      BY <1>1, <2>1, <2>2 DEF TypeOK, Claim, ClaimableBy
    <3>2. schedule[s].next <= now[d]
      BY <3>1 DEF DueAt
    <3>3. ASSUME NEW t \in claimed'[d], ~ restored[s], ~ restored[t]
          PROVE  overtakes[s][t] = 0
      <4>1. t \in Schedules /\ schedule[t].next <= schedule[s].next
        BY <1>1, <3>1, <3>3, FirstRows DEF TypeOK, Claim, ClaimableBy
      <4>2. schedule[t].next \in Nat /\ schedule[s].next \in Nat
        <5>1. \A u \in Schedules : schedule[u].next \in Nat
          BY DEF TypeOK
        <5>2. QED
          BY <3>1, <4>1, <5>1
      <4>3. QED
        BY <3>1, <3>3, <4>1, <4>2 DEF Overtaking
    <3>4. QED
      BY <2>2, <3>1, <3>2, <3>3
  <2>3. CASE e # d
    <3>1. passed'[e] = passed[e] /\ claimed'[e] = claimed[e]
      BY <1>1, <2>3 DEF TypeOK, Claim
    <3>2. QED
      BY <2>1, <3>1 DEF Passing
  <2>4. QED
    BY <2>2, <2>3
<1>2. ASSUME NEW d \in Dispatchers, Commit(d) PROVE Passing'
  <2>1. SUFFICES ASSUME NEW e \in Dispatchers, NEW s \in passed'[e]
                 PROVE  /\ s \notin claimed'[e]
                        /\ \A t \in claimed'[e] : ~ restored[s] /\ ~ restored[t] =>
                             overtakes'[s][t] = 0 /\ schedule'[s].next <= now[e]
    BY <1>2 DEF Passing, Commit
  <2>2. /\ e # d /\ s \in passed[e] /\ s \notin claimed[d] /\ claimed'[e] = claimed[e]
        /\ s \in Schedules /\ claimed[e] \subseteq Schedules
    BY <1>2, <2>1 DEF TypeOK, Commit
  <2>3. ASSUME NEW t \in claimed[e] PROVE t \notin claimed[d] /\ t \in Schedules
    BY <2>2, <2>3 DEF Held
  <2>4. \A t \in claimed[e] :
          overtakes'[s][t] = overtakes[s][t] /\ schedule'[s].next = schedule[s].next
    BY <1>2, <2>2, <2>3, CommittedTurns
  <2>5. QED
    BY <2>2, <2>4 DEF Passing
<1>3. ASSUME NEW d \in Dispatchers, Begin(d) PROVE Passing'
  <2>1. /\ claimed'[d] = {} /\ passed'[d] = passed[d]
        /\ \A e \in Dispatchers \ {d} : now'[e] = now[e]
        /\ UNCHANGED <<schedule, claimed, restored, passed, overtakes>>
    BY <1>3 DEF TypeOK, Held, Begin, Moves, turns
  <2>2. QED
    BY <2>1 DEF Passing
<1>4. ASSUME NEW d \in Dispatchers, Finish(d) PROVE Passing'
  <2>1. /\ claimed'[d] = {} /\ \A e \in Dispatchers \ {d} : now'[e] = now[e]
        /\ UNCHANGED <<schedule, claimed, restored, passed, overtakes>>
    BY <1>4 DEF TypeOK, Held, Finish, Moves, turns
  <2>2. QED
    BY <2>1 DEF Passing
<1>5. ASSUME NEW d \in Dispatchers, Abort(d) \/ Dies(d) PROVE Passing'
  <2>1. /\ passed'[d] = {}
        /\ \A e \in Dispatchers \ {d} :
             now'[e] = now[e] /\ passed'[e] = passed[e] /\ claimed'[e] = claimed[e]
        /\ UNCHANGED <<schedule, restored, overtakes>>
    BY <1>5 DEF TypeOK, Abort, Dies
  <2>2. QED
    BY <2>1 DEF Passing
<1>6. ASSUME NEW s \in Schedules, NEW enabled \in BOOLEAN, NEW scope \in Scopes,
             SaveForm(s, enabled, scope)
      PROVE  Passing'
  <2>1. UNCHANGED <<now, claimed, passed, overtakes>>
    BY <1>6 DEF SaveForm, turns
  <2>2. \A d \in Dispatchers : passed[d] \subseteq Schedules /\ claimed[d] \subseteq Schedules
    BY DEF TypeOK
  <2>3. QED
    BY <1>6, <2>1, <2>2, SavedPlaces DEF Passing
<1>7. CASE UNCHANGED <<schedule, now, claimed, restored, passed, overtakes>>
  BY <1>7 DEF Passing
<1>8. QED
  BY <1>1, <1>2, <1>3, <1>4, <1>5, <1>6, <1>7, NextCases
     DEF Tick, Publish, OpenForm, vars, turns

-----------------------------------------------------------------------------
\* The invariant of the specification.
LEMMA Invariant == Spec => []IInv
<1>1. IInv /\ [Next]_vars => IInv'
  BY TypeStep, HeldStep, SpacingStep, PublicationStep, OvertakingStep, PassingStep DEF IInv
<1>2. QED
  BY <1>1, InitInvariant, PTL DEF Spec

\* The types of the tables and of what the dispatchers hold (dispatch_due).
THEOREM TypeCorrect == Spec => []TypeOK
<1>1. IInv => TypeOK
  BY DEF IInv
<1>2. QED
  BY <1>1, Invariant, PTL

\* dispatch_due keeps the jobs of a schedule an interval apart, however many
\* dispatches overlap, unless an admin form put next_run_at back.
THEOREM DispatchesAreSpaced == Spec => []JobsAreSpaced
<1>1. IInv => JobsAreSpaced
  BY DEF IInv
<1>2. QED
  BY <1>1, Invariant, PTL

\* dispatch_due publishes only ids of committed jobs.
THEOREM OnlyCommittedArePublished == Spec => []PublishedExists
<1>1. IInv => PublishedExists
  BY DEF IInv
<1>2. QED
  BY <1>1, Invariant, PTL

\* "A broken mapping must not block every other schedule": dispatch_due gives a
\* schedule at most one turn over another that is due, between two turns of that
\* one, unless an admin form put one of their next runs back.
THEOREM NobodyIsOvertakenTwice == Spec => []NobodyIsHeldUp
<1>1. IInv => NobodyIsHeldUp
  BY DEF IInv, Overtaking, NobodyIsHeldUp
<1>2. QED
  BY <1>1, Invariant, PTL
=============================================================================
