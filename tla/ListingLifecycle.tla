-------------------------- MODULE ListingLifecycle --------------------------
(***************************************************************************)
(* The rows of the listings table between the crawls that refresh them     *)
(* (core/crawling/persistence.py), the sweeps that age the ones a crawl    *)
(* did not see (core/listings/lifecycle.py) and the operator who edits     *)
(* them in the admin (core/listings/admin.py).                             *)
(*                                                                         *)
(* Crawls and sweeps lock the rows they change; the admin form does not.   *)
(* The crawls all target one place and type; a row is `inScope' when its   *)
(* normalized place and type are those of the crawls.                      *)
(***************************************************************************)
EXTENDS Naturals, FiniteSets

CONSTANTS
  Crawls,        \* claimed CrawlJob rows
  Sweepers,      \* processes that run sweep_listings (beat task, command)
  Listings,      \* source identities
  None,          \* no listing, no crawl
  Editable,      \* bound: the listings whose admin form is opened, once each
  Choices,       \* bound: the statuses the operator sets in it
  EditableJobs,  \* bound: the crawls whose admin form is opened
  StaleAfter,    \* LISTING_STALE_AFTER_MISSES
  DelistedAfter, \* LISTING_DELISTED_AFTER_MISSES
  MaxClock       \* bound: time stops here

ASSUME LifecycleAssumption ==
  /\ None \notin Crawls \cup Listings
  /\ Choices \subseteq {"active", "stale", "delisted", "hidden"}
  /\ MaxClock \in Nat
  \* SweepPolicy.from_settings keeps the thresholds sane.
  /\ StaleAfter \in Nat \ {0} /\ DelistedAfter \in Nat
  /\ DelistedAfter >= StaleAfter

VARIABLES
  clock,         \* timezone.now()
  row,           \* listings table
  logged,        \* to_status of the newest ListingStatusEvent of a listing
  phase,         \* what each crawl is doing
  startedAt,     \* CrawlJob.started_at
  seenAt,        \* the seen_at run_job stamps on every row of a crawl
  upsert,        \* the row a crawl is writing and its status when read
  sweptAt,       \* CrawlJob.swept_at is set
  sweep,         \* what each sweeper is doing
  form,          \* the row as an open admin form loaded it
  jobForm,       \* an open CrawlJob form has loaded swept_at as NULL
  saw,           \* the listings each crawl persisted (its details_fetched)
  charged,       \* how often each crawl charged each listing a miss
  unmarked,      \* how often a CrawlJob form put NULL over a swept_at
  streak,        \* misses charged since a crawl last saw the listing
  edited,        \* the admin changed the row, or wrote an outdated copy back
  backdated      \* a crawl that started earlier overwrote a newer last_seen_at

ghosts == <<saw, charged, unmarked, streak, edited, backdated>>

forms == <<form, jobForm>>

vars == <<clock, row, logged, phase, startedAt, seenAt, upsert, sweptAt, sweep,
          forms, ghosts>>

ListingStatus == {"active", "stale", "delisted", "hidden"}
Sweepable     == {"active", "stale"}
Gone          == {"stale", "delisted"}

Absent == [status |-> "absent", misses |-> 0, lastSeen |-> 0, inScope |-> FALSE]
Rows   == [status : ListingStatus, misses : Nat, lastSeen : Nat, inScope : BOOLEAN]

Idle   == [listing |-> None, was |-> "absent"]
NoRows == [l \in Listings |-> Absent]
Resting == [step |-> "idle", crawl |-> None, held |-> NoRows]
Closed == Absent    \* no admin form open

Exists(l) == row[l] # Absent

\* Mutant: a sweep reads the missed rows without locking them.
LockedByCrawls(l) ==
  \E c \in Crawls : upsert[c].listing = l /\ upsert[c].was # "absent"

\* SELECT ... FOR UPDATE locks, held to the end of the transaction.
Locked(l) ==
  \/ \E c \in Crawls : upsert[c].listing = l /\ upsert[c].was # "absent"
  \/ \E s \in Sweepers : sweep[s].held[l] # Absent
JobLocked(c) == \E s \in Sweepers : sweep[s].crawl = c

Init ==
  /\ clock = 0
  /\ row = [l \in Listings |-> Absent]
  /\ logged = [l \in Listings |-> "active"]
  /\ phase = [c \in Crawls |-> "new"]
  /\ startedAt = [c \in Crawls |-> 0]
  /\ seenAt = [c \in Crawls |-> 0]
  /\ upsert = [c \in Crawls |-> Idle]
  /\ sweptAt = [c \in Crawls |-> FALSE]
  /\ sweep = [s \in Sweepers |-> Resting]
  /\ form = [l \in Listings |-> Closed]
  /\ jobForm = [c \in Crawls |-> FALSE]
  /\ saw = [c \in Crawls |-> {}]
  /\ charged = [c \in Crawls |-> [l \in Listings |-> 0]]
  /\ unmarked = [c \in Crawls |-> 0]
  /\ streak = [l \in Listings |-> 0]
  /\ edited = [l \in Listings |-> FALSE]
  /\ backdated = [l \in Listings |-> FALSE]

Tick ==
  /\ clock < MaxClock
  /\ clock' = clock + 1
  /\ UNCHANGED <<row, logged, phase, startedAt, seenAt, upsert, sweptAt, sweep,
                 forms, ghosts>>

-----------------------------------------------------------------------------
(* Crawls.                                                                  *)

\* claim_job stamps started_at ...
Claim(c) ==
  /\ phase[c] = "new"
  /\ phase' = [phase EXCEPT ![c] = "claimed"]
  /\ startedAt' = [startedAt EXCEPT ![c] = clock]
  /\ UNCHANGED <<clock, row, logged, seenAt, upsert, sweptAt, sweep, forms, ghosts>>

\* ... and run_job takes the one seen_at of the whole crawl a little later.
BeginRun(c) ==
  /\ phase[c] = "claimed"
  /\ phase' = [phase EXCEPT ![c] = "running"]
  /\ seenAt' = [seenAt EXCEPT ![c] = clock]
  /\ UNCHANGED <<clock, row, logged, startedAt, upsert, sweptAt, sweep, forms, ghosts>>

\* _upsert reads the row of an identity and locks it if there is one.  A crawl
\* processes an identity once (seen_ids in run_job).
UpsertRead(c, l) ==
  /\ phase[c] = "running" /\ upsert[c] = Idle
  /\ l \notin saw[c]
  /\ ~ Locked(l)
  /\ upsert' = [upsert EXCEPT ![c] = [listing |-> l, was |-> row[l].status]]
  /\ UNCHANGED <<clock, row, logged, phase, startedAt, seenAt, sweptAt, sweep,
                 forms, ghosts>>

\* Mutant: a hidden row that is seen again is shown again.
RefreshedAlways(c, was, here) ==
  [status |-> "active", misses |-> 0, lastSeen |-> seenAt[c], inScope |-> here]

\* Mutant: only the rows that were gone get a status of their own.
RefreshedUnset(c, was, here) ==
  [status   |-> IF was \in Gone THEN "active" ELSE was,
   misses   |-> 0,
   lastSeen |-> seenAt[c],
   inScope  |-> here]

\* _apply_fields and the save of the whole row.
Refreshed(c, was, here) ==
  [status   |-> IF was \in Gone \cup {"absent"} THEN "active" ELSE was,
   misses   |-> 0,
   lastSeen |-> seenAt[c],
   inScope  |-> here]

\* Mutant: a stale row comes back without an event.
NewestEventOfDelisted(l, was) == IF was = "delisted" THEN "active" ELSE logged[l]

NewestEvent(l, was) == IF was \in Gone THEN "active" ELSE logged[l]

\* The transaction of _upsert commits, with the event of a reactivation.
UpsertCommit(c, here) ==
  LET l == upsert[c].listing
      was == upsert[c].was
  IN
  /\ l # None
  /\ (was = "absent") = ~ Exists(l)
  /\ row' = [row EXCEPT ![l] = Refreshed(c, was, here)]
  /\ logged' = [logged EXCEPT ![l] = NewestEvent(l, was)]
  /\ upsert' = [upsert EXCEPT ![c] = Idle]
  /\ saw' = [saw EXCEPT ![c] = @ \cup {l}]
  /\ streak' = [streak EXCEPT ![l] = 0]
  /\ backdated' = [backdated EXCEPT ![l] = @ \/ row[l].lastSeen > seenAt[c]]
  /\ UNCHANGED <<clock, phase, startedAt, seenAt, sweptAt, sweep, forms, charged,
                 unmarked, edited>>

\* Another crawl inserted the identity first: the unique constraint rejects the
\* INSERT, and upsert_listing runs _upsert again, which now locks the row.
UpsertConflict(c) ==
  LET l == upsert[c].listing IN
  /\ l # None
  /\ upsert[c].was = "absent" /\ Exists(l) /\ ~ Locked(l)
  /\ upsert' = [upsert EXCEPT ![c].was = row[l].status]
  /\ UNCHANGED <<clock, row, logged, phase, startedAt, seenAt, sweptAt, sweep,
                 forms, ghosts>>

\* finish_job: only a crawl without any failure is SUCCEEDED and can be swept.
Finish(c, succeeded) ==
  /\ phase[c] = "running" /\ upsert[c] = Idle
  /\ phase' = [phase EXCEPT ![c] = IF succeeded THEN "succeeded" ELSE "unfit"]
  /\ UNCHANGED <<clock, row, logged, startedAt, seenAt, upsert, sweptAt, sweep,
                 forms, ghosts>>

-----------------------------------------------------------------------------
(* Sweeps: _sweep_job, one transaction in three statements.                 *)

\* Mutant: a sweep neither locks the crawl nor looks at swept_at again.
SweepBeginAgain(s, c) ==
  /\ sweep[s] = Resting
  /\ phase[c] = "succeeded" /\ saw[c] # {}
  /\ sweep' = [sweep EXCEPT ![s] = [step |-> "begun", crawl |-> c, held |-> NoRows]]
  /\ UNCHANGED <<clock, row, logged, phase, startedAt, seenAt, upsert, sweptAt,
                 forms, ghosts>>

\* _eligible_jobs selects the crawl, and its row is locked unless another sweep
\* holds it.
SweepBegin(s, c) ==
  /\ sweep[s] = Resting
  /\ phase[c] = "succeeded" /\ saw[c] # {}
  /\ ~ sweptAt[c] /\ ~ JobLocked(c)
  /\ sweep' = [sweep EXCEPT ![s] = [step |-> "begun", crawl |-> c, held |-> NoRows]]
  /\ UNCHANGED <<clock, row, logged, phase, startedAt, seenAt, upsert, sweptAt,
                 forms, ghosts>>

Scoped == {l \in Listings : row[l].inScope /\ row[l].status \in Sweepable}

Observed(c) == {l \in Scoped : row[l].lastSeen >= startedAt[c]}


\* A crawl without a row in its own scope says nothing: it is marked as swept
\* and nobody is charged.
SweepSkip(s) ==
  /\ sweep[s].step = "begun"
  /\ Observed(sweep[s].crawl) = {}
  /\ sweptAt' = [sweptAt EXCEPT ![sweep[s].crawl] = TRUE]
  /\ sweep' = [sweep EXCEPT ![s] = Resting]
  /\ UNCHANGED <<clock, row, logged, phase, startedAt, seenAt, upsert, forms, ghosts>>

SweepObserve(s) ==
  /\ sweep[s].step = "begun"
  /\ Observed(sweep[s].crawl) # {}
  /\ sweep' = [sweep EXCEPT ![s].step = "observed"]
  /\ UNCHANGED <<clock, row, logged, phase, startedAt, seenAt, upsert, sweptAt,
                 forms, ghosts>>

\* Mutant: last_seen_at up to the start of the crawl counts as missed.
SweepLockInclusive(s) ==
  /\ sweep[s].step = "observed"
  /\ sweep' = [sweep EXCEPT
       ![s].step = "locked",
       ![s].held = [l \in Listings |->
                     IF /\ l \in Scoped
                        /\ row[l].lastSeen <= startedAt[sweep[s].crawl]
                        /\ ~ Locked(l)
                       THEN row[l] ELSE Absent]]
  /\ UNCHANGED <<clock, row, logged, phase, startedAt, seenAt, upsert, sweptAt,
                 forms, ghosts>>

\* missed.select_for_update(skip_locked=True): rows being written are left out,
\* the others are read and stay locked.
SweepLock(s) ==
  /\ sweep[s].step = "observed"
  /\ sweep' = [sweep EXCEPT
       ![s].step = "locked",
       ![s].held = [l \in Listings |->
                     IF /\ l \in Scoped
                        /\ row[l].lastSeen < startedAt[sweep[s].crawl]
                        /\ ~ Locked(l)
                       THEN row[l] ELSE Absent]]
  /\ UNCHANGED <<clock, row, logged, phase, startedAt, seenAt, upsert, sweptAt,
                 forms, ghosts>>

\* Mutant: off by one.
TargetStatusLate(misses) == IF misses > DelistedAfter THEN "delisted" ELSE "stale"

TargetStatus(misses) == IF misses >= DelistedAfter THEN "delisted" ELSE "stale"

\* _apply_miss: the two columns it saves, computed from the instance.
AfterMiss(l, held) ==
  [row[l] EXCEPT !.misses = held.misses + 1, !.status = TargetStatus(held.misses + 1)]

\* _apply_miss on every row as it was read under the lock, swept_at, commit.
SweepCommit(s) ==
  LET c == sweep[s].crawl
      held == sweep[s].held
      missed == {l \in Listings : held[l] # Absent}
  IN
  /\ sweep[s].step = "locked"
  /\ row' = [l \in Listings |->
       IF l \in missed THEN AfterMiss(l, held[l]) ELSE row[l]]
  /\ logged' = [l \in Listings |->
       IF l \in missed /\ TargetStatus(held[l].misses + 1) # held[l].status
         THEN TargetStatus(held[l].misses + 1) ELSE logged[l]]
  /\ sweptAt' = [sweptAt EXCEPT ![c] = TRUE]
  /\ sweep' = [sweep EXCEPT ![s] = Resting]
  /\ charged' = [charged EXCEPT ![c] =
       [l \in Listings |-> IF l \in missed THEN @[l] + 1 ELSE @[l]]]
  /\ streak' = [l \in Listings |-> IF l \in missed THEN streak[l] + 1 ELSE streak[l]]
  /\ UNCHANGED <<clock, phase, startedAt, seenAt, upsert, forms, saw, unmarked,
                 edited, backdated>>

\* The sweeping process dies: the transaction rolls back.
SweepDies(s) ==
  /\ sweep[s] # Resting
  /\ sweep' = [sweep EXCEPT ![s] = Resting]
  /\ UNCHANGED <<clock, row, logged, phase, startedAt, seenAt, upsert, sweptAt,
                 forms, ghosts>>

-----------------------------------------------------------------------------
(* The operator: ListingAdmin and CrawlJobAdmin.                            *)

OpenForm(l) ==
  /\ l \in Editable /\ ~ edited[l]
  /\ Exists(l) /\ form[l] = Closed
  /\ form' = [form EXCEPT ![l] = row[l]]
  /\ UNCHANGED <<clock, row, logged, phase, startedAt, seenAt, upsert, sweptAt,
                 sweep, jobForm, ghosts>>

\* save_model writes every column back: the chosen status, the read-only misses
\* and last_seen_at as loaded.  No event is written.
SaveForm(l, chosen) ==
  LET new == [form[l] EXCEPT !.status = chosen] IN
  /\ form[l] # Closed
  /\ ~ Locked(l)
  /\ row' = [row EXCEPT ![l] = new]
  /\ form' = [form EXCEPT ![l] = Closed]
  /\ edited' = [edited EXCEPT ![l] = @ \/ new # row[l]]
  /\ UNCHANGED <<clock, logged, phase, startedAt, seenAt, upsert, sweptAt, sweep,
                 jobForm, saw, charged, unmarked, streak, backdated>>

\* The form of a crawl that is still to be swept loads its row, swept_at NULL;
\* one that loads a mark, or a crawl no sweep takes, writes back what is there.
OpenJobForm(c) ==
  /\ c \in EditableJobs /\ unmarked[c] = 0 /\ ~ jobForm[c]
  /\ phase[c] = "succeeded" /\ saw[c] # {} /\ ~ sweptAt[c]
  /\ jobForm' = [jobForm EXCEPT ![c] = TRUE]
  /\ UNCHANGED <<clock, row, logged, phase, startedAt, seenAt, upsert, sweptAt,
                 sweep, form, ghosts>>

\* save_model puts that NULL back, whatever sweep has marked the crawl since.
SaveJobForm(c) ==
  /\ jobForm[c] /\ ~ JobLocked(c)
  /\ sweptAt' = [sweptAt EXCEPT ![c] = FALSE]
  /\ jobForm' = [jobForm EXCEPT ![c] = FALSE]
  /\ unmarked' = [unmarked EXCEPT ![c] = IF sweptAt[c] THEN @ + 1 ELSE @]
  /\ UNCHANGED <<clock, row, logged, phase, startedAt, seenAt, upsert, sweep,
                 form, saw, charged, streak, edited, backdated>>

-----------------------------------------------------------------------------
Crawl(c) ==
  \/ Claim(c) \/ BeginRun(c) \/ UpsertConflict(c)
  \/ \E l \in Listings : UpsertRead(c, l)
  \/ \E here \in BOOLEAN : UpsertCommit(c, here)
  \/ \E succeeded \in BOOLEAN : Finish(c, succeeded)

Sweep(s) ==
  \/ \E c \in Crawls : SweepBegin(s, c)
  \/ SweepSkip(s) \/ SweepObserve(s) \/ SweepLock(s) \/ SweepCommit(s)
  \/ SweepDies(s)

Operator(l) ==
  OpenForm(l) \/ \E chosen \in Choices \cup {form[l].status} : SaveForm(l, chosen)

JobOperator(c) == OpenJobForm(c) \/ SaveJobForm(c)

Next ==
  \/ Tick
  \/ \E c \in Crawls : Crawl(c)
  \/ \E s \in Sweepers : Sweep(s)
  \/ \E l \in Listings : Operator(l)
  \/ \E c \in Crawls : JobOperator(c)

Spec == Init /\ [][Next]_vars

\* Beat runs the sweep again and again while a crawl is eligible, and no process
\* dies in every one of its attempts.
FairSpec ==
  /\ Spec
  /\ \A s \in Sweepers :
       /\ WF_vars(\E c \in Crawls : SweepBegin(s, c))
       /\ SF_vars(SweepSkip(s) \/ SweepObserve(s))
       /\ SF_vars(SweepLock(s))
       /\ SF_vars(SweepSkip(s) \/ SweepCommit(s))

-----------------------------------------------------------------------------
(* Properties.                                                              *)

TypeOK ==
  /\ clock \in 0..MaxClock
  /\ row \in [Listings -> Rows \cup {Absent}]
  /\ logged \in [Listings -> ListingStatus]
  /\ phase \in [Crawls -> {"new", "claimed", "running", "succeeded", "unfit"}]
  /\ startedAt \in [Crawls -> 0..MaxClock]
  /\ seenAt \in [Crawls -> 0..MaxClock]
  /\ upsert \in [Crawls -> [listing : Listings \cup {None},
                            was : ListingStatus \cup {"absent"}]]
  /\ sweptAt \in [Crawls -> BOOLEAN]
  /\ sweep \in [Sweepers -> [step : {"idle", "begun", "observed", "locked"},
                             crawl : Crawls \cup {None},
                             held : [Listings -> Rows \cup {Absent}]]]
  /\ form \in [Listings -> Rows \cup {Closed}]
  /\ jobForm \in [Crawls -> BOOLEAN]
  /\ saw \in [Crawls -> SUBSET Listings]
  /\ charged \in [Crawls -> [Listings -> Nat]]
  /\ unmarked \in [Crawls -> Nat]
  /\ streak \in [Listings -> Nat]
  /\ edited \in [Listings -> BOOLEAN]
  /\ backdated \in [Listings -> BOOLEAN]

\* "CrawlJob.swept_at prevents one crawl from charging the same miss twice":
\* not even two sweeps at once, or one that died half way and is repeated.  Only
\* the CrawlJob form undoes the mark: opened before a sweep and saved after it,
\* it writes the NULL back, and each time it does the crawl may charge once more.
ChargedOnce ==
  \A c \in Crawls, l \in Listings : charged[c][l] <= 1 + unmarked[c]

\* A crawl charges no listing that it saw itself, unless the time of its visit
\* was lost: a crawl that had started earlier wrote the row after it, or the
\* admin saved an older copy of the row.
ChargedWasMissed ==
  \A c \in Crawls, l \in Listings :
    charged[c][l] > 0 /\ l \in saw[c] => backdated[l] \/ edited[l]

\* consecutive_misses is the number of misses charged since a crawl last saw the
\* listing: of two sweeps, or of a sweep and an upsert, of one row none saves a
\* count it computed from a row the other has changed since.
MissesAreTheStreak ==
  \A l \in Listings : Exists(l) /\ ~ edited[l] => row[l].misses = streak[l]

\* Nobody but the operator takes a listing off or puts it back: one that is
\* delisted was missed by DelistedAfter crawls in a row, one that is active by
\* none, and no crawl or sweep ever makes a listing hidden.
StatusFollowsMisses ==
  \A l \in Listings : Exists(l) /\ ~ edited[l] =>
    /\ row[l].status = "delisted" <=> streak[l] >= DelistedAfter
    /\ row[l].status = "active" <=> streak[l] = 0
    /\ row[l].status # "hidden"

\* The newest ListingStatusEvent of a listing names the status it is in, with
\* sweeps, upserts and reactivations of the row in any order.
EventsFollowStatus ==
  \A l \in Listings : Exists(l) /\ ~ edited[l] => logged[l] = row[l].status

\* Once the operator hides a listing only the operator changes that, also while
\* a crawl or a sweep that read the row earlier is about to write it.
HiddenIsLocal ==
  [][\A l \in Listings :
       row[l].status = "hidden" /\ row'[l].status # "hidden"
         => form[l] # Closed /\ form'[l] = Closed]_vars


\* lifecycle.py, lines 4-5: only a listing the crawl "should have seen but did
\* not is charged one miss".  Overlapping crawls break it without any edit.
OnlyMissedIsCharged ==
  \A c \in Crawls, l \in Listings :
    charged[c][l] > 0 /\ ~ edited[l] => l \notin saw[c]
=============================================================================
