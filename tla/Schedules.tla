----------------------------- MODULE Schedules -----------------------------
(***************************************************************************)
(* Periodic crawls: dispatch_due (core/crawling/tasks.py) claims the due   *)
(* CrawlSchedule rows, creates their jobs and moves their next run on in   *)
(* one transaction, and publishes the jobs when it is committed.  Beat     *)
(* sends it at every tick, so several may run at once; the operator edits  *)
(* schedules in the admin, which saves every column as it was loaded.      *)
(***************************************************************************)
EXTENDS Naturals, Sequences, FiniteSets

CONSTANTS
  Schedules,    \* ids of CrawlSchedule rows
  Dispatchers,  \* processes that run dispatch_due
  Interval,     \* interval_minutes, in ticks of the clock
  Batch,        \* rows one dispatch claims at most
  Scopes,       \* bound: what the operator may turn a schedule's scope into
  MaxEdits,     \* bound: admin forms opened
  MaxDeaths,    \* bound: dispatchers that die
  MaxClock      \* bound: time stops here

ASSUME SchedulesAssumption ==
  /\ Schedules \subseteq Nat /\ IsFiniteSet(Schedules)
  /\ Interval \in Nat \ {0} /\ Batch \in Nat \ {0}
  \* create_job succeeds; raises a SourceError; raises anything else.
  /\ Scopes \subseteq {"mapped", "unmapped", "malformed"}
  /\ MaxEdits \in Nat /\ MaxDeaths \in Nat /\ MaxClock \in Nat

VARIABLES
  clock,        \* timezone.now()
  schedule,     \* CrawlSchedule rows: next_run_at, is_enabled and scope
  jobs,         \* the jobs of each schedule: the `now' of their dispatch
  published,    \* ids of jobs handed to the broker
  pc,           \* what each dispatcher is doing
  now,          \* the time its dispatch goes by
  claimed,      \* the rows it holds locked
  unsent,       \* the jobs it still has to publish
  form,         \* the row as an open admin form loaded it
  edits,        \* forms opened
  restored,     \* a form put an earlier next_run_at back
  deaths,       \* dispatchers that died
  passed,       \* due rows with a next run that its claim found free, and left
  overtakes     \* turns another schedule got over this one since its own last turn

turns == <<passed, overtakes>>
vars  == <<clock, schedule, jobs, published, pc, now, claimed, unsent, form, edits,
           restored, deaths, turns>>

Unset  == MaxClock + Interval + 1    \* NULL: due at once, sorted last
Closed == [next |-> Unset, enabled |-> FALSE, scope |-> "none"]

Init ==
  /\ clock = 0
  /\ schedule \in [Schedules -> [next : {Unset}, enabled : {TRUE}, scope : Scopes]]
  /\ jobs = [s \in Schedules |-> << >>]
  /\ published = {}
  /\ pc = [d \in Dispatchers |-> "idle"]
  /\ now = [d \in Dispatchers |-> 0]
  /\ claimed = [d \in Dispatchers |-> {}]
  /\ unsent = [d \in Dispatchers |-> {}]
  /\ form = [s \in Schedules |-> Closed]
  /\ edits = 0
  /\ restored = [s \in Schedules |-> FALSE]
  /\ deaths = 0
  /\ passed = [d \in Dispatchers |-> {}]
  /\ overtakes = [s \in Schedules |-> [t \in Schedules |-> 0]]

Tick ==
  /\ clock < MaxClock
  /\ clock' = clock + 1
  /\ UNCHANGED <<schedule, jobs, published, pc, now, claimed, unsent, form, edits,
                 restored, deaths, turns>>

Locked(s) == \E d \in Dispatchers : s \in claimed[d]

DueAt(s, time) ==
  schedule[s].enabled /\ (schedule[s].next = Unset \/ schedule[s].next <= time)

Moves(d, from, to) == pc[d] = from /\ pc' = [pc EXCEPT ![d] = to]

-----------------------------------------------------------------------------
(* dispatch_due.                                                            *)

Begin(d) ==
  /\ Moves(d, "idle", "begun")
  /\ now' = [now EXCEPT ![d] = clock]
  /\ UNCHANGED <<clock, schedule, jobs, published, claimed, unsent, form, edits,
                 restored, deaths, turns>>

\* order_by('next_run_at', 'id')
Before(s, t) ==
  \/ schedule[s].next < schedule[t].next
  \/ schedule[s].next = schedule[t].next /\ s < t

\* Mutant: rows another dispatcher holds are read all the same.
ClaimableLocked(d) == {s \in Schedules : DueAt(s, now[d])}

ClaimableBy(d) == {s \in Schedules : DueAt(s, now[d]) /\ ~ Locked(s)}

\* The first due rows that nobody holds, locked to the end of the transaction.
Claim(d) ==
  /\ Moves(d, "begun", "claimed")
  /\ claimed' = [claimed EXCEPT ![d] =
       {s \in ClaimableBy(d) :
          Cardinality({t \in ClaimableBy(d) : Before(t, s)}) < Batch}]
  /\ passed' = [passed EXCEPT ![d] =
       {s \in ClaimableBy(d) \ claimed'[d] : schedule[s].next # Unset}]
  /\ UNCHANGED <<clock, schedule, jobs, published, now, unsent, form, edits,
                 restored, deaths, overtakes>>

\* The schedules among the claimed ones whose jobs create_job creates.
Created(d) == {s \in claimed[d] : schedule[s].scope = "mapped"}

\* Mutant: only a schedule that got its job is moved on.
AdvancedIfCreated(d) ==
  [s \in Schedules |->
     IF s \in Created(d) THEN [schedule[s] EXCEPT !.next = now[d] + Interval]
                         ELSE schedule[s]]

\* Mutant: the next run is counted from the one that was due.
AdvancedFromDue(d) ==
  [s \in Schedules |->
     IF s \in claimed[d] THEN [schedule[s] EXCEPT !.next = @ + Interval]
                         ELSE schedule[s]]

\* schedule_next_run, for every claimed row: one whose scope raised a SourceError
\* waits for its next turn too.
Advanced(d) ==
  [s \in Schedules |->
     IF s \in claimed[d] THEN [schedule[s] EXCEPT !.next = now[d] + Interval]
                         ELSE schedule[s]]

\* The turns given over those that were left behind; who gets a turn is even.
Overtaken(d) ==
  [s \in Schedules |-> [t \in Schedules |->
     IF s \in claimed[d] THEN 0
     ELSE overtakes[s][t] + (IF s \in passed[d] /\ t \in claimed[d] THEN 1 ELSE 0)]]

Commit(d) ==
  /\ Moves(d, "claimed", "publishing")
  /\ \A s \in claimed[d] : schedule[s].scope # "malformed"
  /\ schedule' = Advanced(d)
  /\ jobs' = [s \in Schedules |->
       IF s \in Created(d) THEN Append(jobs[s], now[d]) ELSE jobs[s]]
  /\ unsent' = [unsent EXCEPT ![d] = {<<s, Len(jobs[s]) + 1>> : s \in Created(d)}]
  /\ claimed' = [claimed EXCEPT ![d] = {}]
  /\ overtakes' = Overtaken(d)
  /\ passed' = [e \in Dispatchers |-> IF e = d THEN {} ELSE passed[e] \ claimed[d]]
  /\ UNCHANGED <<clock, published, now, form, edits, restored, deaths>>

\* An exception that is not a SourceError leaves the loop and the transaction:
\* nothing of this dispatch is kept.
Abort(d) ==
  /\ Moves(d, "claimed", "idle")
  /\ \E s \in claimed[d] : schedule[s].scope = "malformed"
  /\ claimed' = [claimed EXCEPT ![d] = {}]
  /\ now' = [now EXCEPT ![d] = 0]
  /\ passed' = [passed EXCEPT ![d] = {}]
  /\ UNCHANGED <<clock, schedule, jobs, published, unsent, form, edits,
                 restored, deaths, overtakes>>

\* Mutant: a job is published while its row is not committed yet.
PublishEarly(d) ==
  /\ pc[d] \in {"claimed", "publishing"}
  /\ \E job \in unsent[d] \cup {<<s, Len(jobs[s]) + 1>> : s \in Created(d)} :
       /\ published' = published \cup {job}
       /\ unsent' = [unsent EXCEPT ![d] = @ \ {job}]
  /\ UNCHANGED <<clock, schedule, jobs, pc, now, claimed, form, edits, restored,
                 deaths, turns>>

\* run_crawl_job.delay(job_id)
Publish(d) ==
  /\ pc[d] = "publishing"
  /\ \E job \in unsent[d] :
       /\ published' = published \cup {job}
       /\ unsent' = [unsent EXCEPT ![d] = @ \ {job}]
  /\ UNCHANGED <<clock, schedule, jobs, pc, now, claimed, form, edits, restored,
                 deaths, turns>>

\* Mutant: the dispatch ends after the first job.
FinishEarly(d) ==
  /\ Moves(d, "publishing", "idle")
  /\ unsent' = [unsent EXCEPT ![d] = {}]
  /\ now' = [now EXCEPT ![d] = 0]
  /\ UNCHANGED <<clock, schedule, jobs, published, claimed, form, edits,
                 restored, deaths, turns>>

Finish(d) ==
  /\ Moves(d, "publishing", "idle")
  /\ unsent[d] = {}
  /\ now' = [now EXCEPT ![d] = 0]
  /\ UNCHANGED <<clock, schedule, jobs, published, claimed, unsent, form, edits,
                 restored, deaths, turns>>

\* The process dies: an open transaction rolls back, committed jobs it has not
\* published stay PENDING.
Dies(d) ==
  /\ Moves(d, pc[d], "idle") /\ pc[d] # "idle"
  /\ deaths < MaxDeaths
  /\ deaths' = deaths + 1
  /\ claimed' = [claimed EXCEPT ![d] = {}]
  /\ unsent' = [unsent EXCEPT ![d] = {}]
  /\ now' = [now EXCEPT ![d] = 0]
  /\ passed' = [passed EXCEPT ![d] = {}]
  /\ UNCHANGED <<clock, schedule, jobs, published, form, edits, restored,
                 overtakes>>

-----------------------------------------------------------------------------
(* CrawlScheduleAdmin.                                                      *)

OpenForm(s) ==
  /\ form[s] = Closed /\ edits < MaxEdits
  /\ form' = [form EXCEPT ![s] = schedule[s]]
  /\ edits' = edits + 1
  /\ UNCHANGED <<clock, schedule, jobs, published, pc, now, claimed, unsent,
                 restored, deaths, turns>>

\* The operator changes the switch or the scope; next_run_at goes back as loaded.
SaveForm(s, enabled, scope) ==
  /\ form[s] # Closed /\ ~ Locked(s)
  /\ schedule' = [schedule EXCEPT
       ![s] = [next |-> form[s].next, enabled |-> enabled, scope |-> scope]]
  /\ restored' = [restored EXCEPT ![s] = @ \/ form[s].next # schedule[s].next]
  /\ form' = [form EXCEPT ![s] = Closed]
  /\ UNCHANGED <<clock, jobs, published, pc, now, claimed, unsent, edits, deaths, turns>>

-----------------------------------------------------------------------------
Dispatch(d) ==
  \/ Begin(d) \/ Claim(d) \/ Commit(d) \/ Abort(d)
  \/ Publish(d) \/ Finish(d) \/ Dies(d)

Edit(s) ==
  \/ OpenForm(s)
  \/ \E enabled \in BOOLEAN, scope \in Scopes : SaveForm(s, enabled, scope)

Next ==
  \/ Tick
  \/ \E d \in Dispatchers : Dispatch(d)
  \/ \E s \in Schedules : Edit(s)

Spec == Init /\ [][Next]_vars

\* A dispatch that began runs on; nothing is asked of beat, or of the clock.
FairSpec ==
  /\ Spec
  /\ \A d \in Dispatchers :
       WF_vars(Claim(d) \/ Commit(d) \/ Abort(d) \/ Publish(d) \/ Finish(d))

-----------------------------------------------------------------------------
(* Properties.                                                              *)

Rows == [next : 0..Unset, enabled : BOOLEAN, scope : Scopes]
Ids  == Schedules \X (Nat \ {0})

TypeOK ==
  /\ clock \in 0..MaxClock
  /\ schedule \in [Schedules -> Rows]
  /\ jobs \in [Schedules -> Seq(0..MaxClock)]
  /\ published \subseteq Ids
  /\ pc \in [Dispatchers -> {"idle", "begun", "claimed", "publishing"}]
  /\ now \in [Dispatchers -> 0..MaxClock]
  /\ claimed \in [Dispatchers -> SUBSET Schedules]
  /\ unsent \in [Dispatchers -> SUBSET Ids]
  /\ form \in [Schedules -> Rows \cup {Closed}]
  /\ edits \in 0..MaxEdits
  /\ restored \in [Schedules -> BOOLEAN]
  /\ deaths \in 0..MaxDeaths
  /\ passed \in [Dispatchers -> SUBSET Schedules]
  /\ overtakes \in [Schedules -> [Schedules -> Nat]]

\* However many dispatches overlap, and whatever time they go by, two jobs of a
\* schedule are an interval apart, unless an admin form put next_run_at back.
JobsAreSpaced ==
  \A s \in Schedules : ~ restored[s] =>
    \A i, k \in DOMAIN jobs[s] : i < k => jobs[s][k] >= jobs[s][i] + Interval

\* "A worker can never pick up an id whose row does not exist yet."
PublishedExists == \A job \in published : job[2] <= Len(jobs[job[1]])

\* A job that was created is published, if no dispatcher dies.
CreatedIsPublished ==
  [](deaths = 0) =>
    \A s \in Schedules :
      []<>(\A n \in DOMAIN jobs[s] : <<s, n>> \in published)

\* "A broken mapping must not block every other schedule, and it must not be
\* retried on every beat tick either": between two turns of a schedule that has a
\* next run, no other schedule, broken or not, gets more than one turn that it was
\* due for and had to leave, unless an admin form put one of their next runs back.
NobodyIsHeldUp ==
  \A s, t \in Schedules : ~ restored[s] /\ ~ restored[t] => overtakes[s][t] <= 1
=============================================================================
