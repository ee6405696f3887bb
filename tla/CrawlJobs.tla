----------------------------- MODULE CrawlJobs -----------------------------
(***************************************************************************)
(* The life of a CrawlJob row (core/crawling): its submission by an API    *)
(* request, a command or the schedule dispatcher, its message in the       *)
(* Celery broker, the processes that claim and crawl it, and the admin     *)
(* who edits or re-queues it.                                              *)
(*                                                                         *)
(* Every process works from a copy of the row it read earlier and writes   *)
(* its status back without looking at the row again: only claim_job locks  *)
(* the row and re-reads it.  `stale' counts the writes that put back a     *)
(* status other than the one the writer had read; everything promised      *)
(* below is promised in terms of it.                                       *)
(***************************************************************************)
EXTENDS Naturals, Sequences, FiniteSets

CONSTANTS
  Jobs,         \* the ids of CrawlJob rows
  Workers,      \* Celery pool processes
  Inlines,      \* processes of the run_crawl_jobs command
  Nobody,       \* "no job": what an idle process holds
  MaxReady,     \* bound: copies of a job's message that operators pile up
  MaxEdits,     \* bound: stale admin edits of one job
  MaxFaults     \* bound: processes that die or raise while handling one job

ASSUME CrawlJobsAssumption ==
  /\ Nobody \notin Jobs
  /\ Workers \cap Inlines = {}
  /\ MaxReady \in Nat /\ MaxEdits \in Nat /\ MaxFaults \in Nat

VARIABLES
  status,       \* status column of each row
  log,          \* CrawlJobEvent rows of each job, oldest first
  submit,       \* where the submission of each job is
  ready,        \* messages with this job's id waiting in the broker
  pc,           \* what each process is doing
  task,         \* the job id each process works on
  outcome,      \* the terminal status a process has saved but not yet logged
  form,         \* the status an open admin form will write back
  saving,       \* has the form's transaction updated the row, uncommitted?
  overlooked,   \* was the unclaimed row passed over because of such a form?
  claims,       \* how often the job was claimed
  stale,        \* writes of a status read before somebody else changed it
  faults        \* process deaths and exceptions met while handling the job

forms == <<form, saving, overlooked>>

vars == <<status, log, submit, ready, pc, task, outcome, forms,
          claims, stale, faults>>

Procs == Workers \cup Inlines

\* Mutant: QUEUED is not claimable.
ClaimablePendingOnly == {"pending"}

Claimable == {"pending", "queued"}
Terminal  == {"succeeded", "partially_succeeded", "failed", "cancelled"}
Statuses  == Claimable \cup {"running"} \cup Terminal

Unsaved == "unsaved"    \* no row yet
Closed  == "closed"     \* no admin form open
Unknown == "unknown"    \* the process has no outcome to log

SubmitSteps == {"new", "mark", "log", "publish", "done"}
ProcSteps   == {"idle", "received", "claiming", "crawling", "logging", "acking"}

-----------------------------------------------------------------------------
(* What a finished crawl reports, and the status finish_job derives.        *)

Reports == [stopped : BOOLEAN, saved : 0..1, failed : 0..1]

\* details = created + updated on every path through _process_stub, so the
\* two counters _final_status consults are one here.
FinalStatus(report) ==
  CASE (report.stopped \/ report.failed > 0) /\ report.saved > 0
                                                 -> "partially_succeeded"
    [] (report.stopped \/ report.failed > 0) /\ report.saved = 0 -> "failed"
    [] OTHER -> "succeeded"

-----------------------------------------------------------------------------
Init ==
  /\ status  = [j \in Jobs |-> Unsaved]
  /\ log     = [j \in Jobs |-> << >>]
  /\ submit  = [j \in Jobs |-> "new"]
  /\ ready   = [j \in Jobs |-> 0]
  /\ pc      = [p \in Procs |-> "idle"]
  /\ task    = [p \in Procs |-> Nobody]
  /\ outcome = [p \in Procs |-> Unknown]
  /\ form    = [j \in Jobs |-> Closed]
  /\ saving  = [j \in Jobs |-> FALSE]
  /\ overlooked = [j \in Jobs |-> FALSE]
  /\ claims  = [j \in Jobs |-> 0]
  /\ stale   = [j \in Jobs |-> 0]
  /\ faults  = [j \in Jobs |-> 0]

\* The row lock of the SELECT ... FOR UPDATE in claim_job, or of a form that has
\* saved and not committed: an UPDATE waits for it, another SELECT ... SKIP
\* LOCKED passes the row over.
Locked(j) ==
  \/ \E p \in Procs : pc[p] = "claiming" /\ task[p] = j
  \/ saving[j]

Logged(j, from, to) == log' = [log EXCEPT ![j] = Append(@, <<from, to>>)]

\* A blind write of the status column by a writer that last read `read' ...
Writes(j, read, new) ==
  /\ status' = [status EXCEPT ![j] = new]
  /\ stale'  = [stale EXCEPT ![j] = IF status[j] = read THEN @ ELSE @ + 1]

\* ... as an UPDATE of its own, which waits for the row.
Overwrites(j, read, new) == ~ Locked(j) /\ Writes(j, read, new)

-----------------------------------------------------------------------------
(* Submission: create_job, then queue_job or run_crawl_job.delay.           *)

\* create_job commits the row as PENDING.  What follows depends on the caller:
\* queue_job (API, create_crawl_job), a bare delay() (dispatch_due), nothing
\* (create_crawl_job --no-enqueue).
CreateJob(j, next) ==
  /\ submit[j] = "new"
  /\ next \in {"mark", "publish", "done"}
  /\ status' = [status EXCEPT ![j] = "pending"]
  /\ submit' = [submit EXCEPT ![j] = next]
  /\ UNCHANGED <<log, ready, pc, task, outcome, forms, claims, stale, faults>>

\* queue_job tests the status of the object create_job returned, still PENDING
\* in its memory, and saves QUEUED.
MarkQueued(j) ==
  /\ submit[j] = "mark"
  /\ Overwrites(j, "pending", "queued")
  /\ submit' = [submit EXCEPT ![j] = "log"]
  /\ UNCHANGED <<log, ready, pc, task, outcome, forms, claims, faults>>

\* transition_to inserts the event in a second statement of its own.
LogQueued(j) ==
  /\ submit[j] = "log"
  /\ Logged(j, "pending", "queued")
  /\ submit' = [submit EXCEPT ![j] = "publish"]
  /\ UNCHANGED <<status, ready, pc, task, outcome, forms, claims, stale, faults>>

\* run_crawl_job.delay(job.pk)
Publish(j) ==
  /\ submit[j] = "publish"
  /\ ready'  = [ready EXCEPT ![j] = @ + 1]
  /\ submit' = [submit EXCEPT ![j] = "done"]
  /\ UNCHANGED <<status, log, pc, task, outcome, forms, claims, stale, faults>>

\* The submitting process dies, or the broker refuses the message, between two
\* of these steps.
SubmitDies(j) ==
  /\ submit[j] \in {"mark", "log", "publish"}
  /\ faults[j] < MaxFaults
  /\ faults' = [faults EXCEPT ![j] = @ + 1]
  /\ submit' = [submit EXCEPT ![j] = "done"]
  /\ UNCHANGED <<status, log, ready, pc, task, outcome, forms, claims, stale>>

-----------------------------------------------------------------------------
(* The operator: CrawlJobAdmin.                                             *)

\* Mutant: re-queueing also makes the row PENDING again.
RequeueResets(j) ==
  /\ status[j] \in Statuses \ {"running"}
  /\ ready[j] < MaxReady
  /\ ready'  = [ready EXCEPT ![j] = @ + 1]
  /\ status' = [status EXCEPT ![j] = "pending"]
  /\ UNCHANGED <<log, submit, pc, task, outcome, forms, claims, stale, faults>>

\* requeue_jobs publishes the id of every selected job that is not RUNNING,
\* whatever else its status is, and changes no row.
Requeue(j) ==
  /\ status[j] \in Statuses \ {"running"}
  /\ ready[j] < MaxReady
  /\ ready' = [ready EXCEPT ![j] = @ + 1]
  /\ UNCHANGED <<status, log, submit, pc, task, outcome, forms, claims, stale,
                 faults>>

\* The change form's POST is one transaction: it loads the row ...
OpenForm(j) ==
  /\ status[j] # Unsaved
  /\ form[j] = Closed
  /\ stale[j] < MaxEdits
  /\ form' = [form EXCEPT ![j] = status[j]]
  /\ UNCHANGED <<status, log, submit, ready, pc, task, outcome, saving,
                 overlooked, claims, stale, faults>>

\* ... save_model updates every column, the read-only ones as loaded, and keeps
\* the row locked, its new status unseen ...
SaveForm(j) ==
  /\ form[j] # Closed
  /\ ~ Locked(j)
  /\ saving' = [saving EXCEPT ![j] = TRUE]
  /\ UNCHANGED <<status, log, submit, ready, pc, task, outcome, form,
                 overlooked, claims, stale, faults>>

\* ... and after the admin's own log entry commits.
CommitForm(j) ==
  /\ saving[j]
  /\ Writes(j, form[j], form[j])
  /\ form'   = [form EXCEPT ![j] = Closed]
  /\ saving' = [saving EXCEPT ![j] = FALSE]
  /\ UNCHANGED <<log, submit, ready, pc, task, outcome, overlooked, claims,
                 faults>>

-----------------------------------------------------------------------------
(* Processes: Celery workers and run_crawl_jobs.                            *)

Moves(p, from, to) == pc[p] = from /\ pc' = [pc EXCEPT ![p] = to]

\* A worker reserves a message; acks_late keeps it unacknowledged until Ack.
Deliver(w, j) ==
  /\ Moves(w, "idle", "received")
  /\ ready[j] > 0
  /\ ready' = [ready EXCEPT ![j] = @ - 1]
  /\ task'  = [task EXCEPT ![w] = j]
  /\ UNCHANGED <<status, log, submit, outcome, forms, claims, stale, faults>>

\* The broker hands out a message again although a worker still holds it.
Redeliver(w) ==
  /\ pc[w] # "idle"
  /\ ready[task[w]] < MaxReady
  /\ ready' = [ready EXCEPT ![task[w]] = @ + 1]
  /\ UNCHANGED <<status, log, submit, pc, task, outcome, forms, claims, stale,
                 faults>>

\* run_crawl_jobs takes the id from --job-id or from a list of PENDING jobs it
\* read earlier; any row may have become anything by the time it is claimed.
PickInline(p, j) ==
  /\ Moves(p, "idle", "received")
  /\ status[j] # Unsaved
  /\ task' = [task EXCEPT ![p] = j]
  /\ UNCHANGED <<status, log, submit, ready, outcome, forms, claims, stale,
                 faults>>

\* Mutant: the query filters on the primary key alone.
ClaimLockAnyStatus(p) ==
  /\ Moves(p, "received", "claiming")
  /\ ~ Locked(task[p])
  /\ UNCHANGED <<status, log, submit, ready, task, outcome, forms, claims, stale,
                 faults>>

\* Mutant: a plain SELECT, which neither locks nor looks at locks.
ClaimLockUnlocked(p) ==
  /\ Moves(p, "received", "claiming")
  /\ status[task[p]] \in Claimable
  /\ UNCHANGED <<status, log, submit, ready, task, outcome, forms, claims, stale,
                 faults>>

\* claim_job, the locked read: the row is there, claimable and not locked.
ClaimLock(p) ==
  /\ Moves(p, "received", "claiming")
  /\ status[task[p]] \in Claimable
  /\ ~ Locked(task[p])
  /\ UNCHANGED <<status, log, submit, ready, task, outcome, forms, claims, stale,
                 faults>>

\* claim_job returns None: not claimable, or locked by another claim or by a
\* form, for which the worker acknowledges a message of a claimable row.
ClaimSkip(p) ==
  LET j == task[p] IN
  /\ Moves(p, "received", "acking")
  /\ status[j] \notin Claimable \/ Locked(j)
  /\ overlooked' = [overlooked EXCEPT ![j] =
                       @ \/ (saving[j] /\ status[j] \in Claimable)]
  /\ UNCHANGED <<status, log, submit, ready, task, outcome, form, saving, claims,
                 stale, faults>>

\* Mutant: the event names QUEUED as the origin instead of the status read.
ClaimCommitFromQueued(p) ==
  LET j == task[p] IN
  /\ Moves(p, "claiming", "crawling")
  /\ status' = [status EXCEPT ![j] = "running"]
  /\ Logged(j, "queued", "running")
  /\ claims' = [claims EXCEPT ![j] = @ + 1]
  /\ UNCHANGED <<submit, ready, task, outcome, forms, stale, faults>>

\* claim_job commits: status and event in one transaction, the lock released.
ClaimCommit(p) ==
  LET j == task[p] IN
  /\ Moves(p, "claiming", "crawling")
  /\ status' = [status EXCEPT ![j] = "running"]
  /\ Logged(j, status[j], "running")
  /\ claims' = [claims EXCEPT ![j] = @ + 1]
  /\ overlooked' = [overlooked EXCEPT ![j] = FALSE]
  /\ UNCHANGED <<submit, ready, task, outcome, form, saving, stale, faults>>

\* The last save of execute_job: the status of the report, or FAILED when the
\* scope no longer resolves.  It writes whatever the row holds by now.
SavesOutcome(p, final) ==
  LET j == task[p] IN
  /\ Moves(p, "crawling", "logging")
  /\ ~ Locked(j)
  /\ status'  = [status EXCEPT ![j] = final]
  /\ outcome' = [outcome EXCEPT ![p] = final]
  /\ UNCHANGED <<log, submit, ready, task, forms, claims, stale, faults>>

FinishJob(p) == \E report \in Reports : SavesOutcome(p, FinalStatus(report))

\* Mutant: a scope that no longer resolves is reported but not saved.
ScopeFailedUnsaved(p) ==
  /\ Moves(p, "crawling", "acking")
  /\ UNCHANGED <<status, log, submit, ready, task, outcome, forms, claims, stale,
                 faults>>

ScopeFailed(p) == SavesOutcome(p, "failed")

LogOutcome(p) ==
  /\ Moves(p, "logging", "acking")
  /\ Logged(task[p], "running", outcome[p])
  /\ outcome' = [outcome EXCEPT ![p] = Unknown]
  /\ UNCHANGED <<status, submit, ready, task, forms, claims, stale, faults>>

\* Mutant: the process is free again and still holds the job.
AckKeepsTask(p) ==
  /\ Moves(p, "acking", "idle")
  /\ UNCHANGED <<status, log, submit, ready, task, outcome, forms, claims, stale,
                 faults>>

\* The task function has returned: the message is acknowledged.  An inline
\* process goes on to its next id.
Ack(p) ==
  /\ Moves(p, "acking", "idle")
  /\ task' = [task EXCEPT ![p] = Nobody]
  /\ UNCHANGED <<status, log, submit, ready, outcome, forms, claims, stale,
                 faults>>

\* An exception that is not a SourceError, or the soft time limit, leaves
\* run_job: the task fails and its message is acknowledged all the same.
CrawlRaises(p) ==
  /\ Moves(p, "crawling", "acking")
  /\ faults[task[p]] < MaxFaults
  /\ faults' = [faults EXCEPT ![task[p]] = @ + 1]
  /\ UNCHANGED <<status, log, submit, ready, task, outcome, forms, claims, stale>>

\* The process dies.  An open claim rolls back.  The message of a lost pool
\* process is acknowledged by its parent, that of a lost worker node returns.
ProcDies(p, returned) ==
  LET j == task[p] IN
  /\ Moves(p, pc[p], "idle")
  /\ pc[p] # "idle"
  /\ faults[j] < MaxFaults
  /\ returned \in (IF p \in Workers THEN BOOLEAN ELSE {FALSE})
  /\ faults'  = [faults EXCEPT ![j] = @ + 1]
  /\ ready'   = [ready EXCEPT ![j] = IF returned THEN @ + 1 ELSE @]
  /\ task'    = [task EXCEPT ![p] = Nobody]
  /\ outcome' = [outcome EXCEPT ![p] = Unknown]
  /\ UNCHANGED <<status, log, submit, forms, claims, stale>>

-----------------------------------------------------------------------------
Submission(j) ==
  \/ \E next \in {"mark", "publish", "done"} : CreateJob(j, next)
  \/ MarkQueued(j) \/ LogQueued(j) \/ Publish(j) \/ SubmitDies(j)

Operator(j) ==
  Requeue(j) \/ OpenForm(j) \/ SaveForm(j) \/ CommitForm(j)

Crawler(p) ==
  \/ ClaimLock(p) \/ ClaimSkip(p) \/ ClaimCommit(p)
  \/ FinishJob(p) \/ ScopeFailed(p) \/ LogOutcome(p) \/ Ack(p)
  \/ CrawlRaises(p)
  \/ \E returned \in BOOLEAN : ProcDies(p, returned)

Next ==
  \/ \E j \in Jobs : Submission(j) \/ Operator(j)
  \/ \E w \in Workers : Redeliver(w) \/ \E j \in Jobs : Deliver(w, j)
  \/ \E p \in Inlines, j \in Jobs : PickInline(p, j)
  \/ \E p \in Procs : Crawler(p)

Spec == Init /\ [][Next]_vars

\* A submission runs on, a process that took a job runs on (the time limits end
\* every crawl), and the broker is a queue: a message that is offered again and
\* again is delivered.  Operators and faults are under no obligation.
Fairness ==
  /\ \A j \in Jobs : /\ WF_vars(MarkQueued(j) \/ LogQueued(j) \/ Publish(j))
                     /\ SF_vars(\E w \in Workers : Deliver(w, j))
                     /\ WF_vars(SaveForm(j) \/ CommitForm(j))
  /\ \A p \in Procs : WF_vars(\/ ClaimLock(p) \/ ClaimSkip(p) \/ ClaimCommit(p)
                              \/ FinishJob(p) \/ LogOutcome(p) \/ Ack(p))

FairSpec == Spec /\ Fairness

-----------------------------------------------------------------------------
(* Properties.                                                              *)

TypeOK ==
  /\ status  \in [Jobs -> Statuses \cup {Unsaved}]
  /\ log     \in [Jobs -> Seq(Statuses \X Statuses)]
  /\ submit  \in [Jobs -> SubmitSteps]
  /\ ready   \in [Jobs -> Nat]
  /\ pc      \in [Procs -> ProcSteps]
  /\ task    \in [Procs -> Jobs \cup {Nobody}]
  /\ outcome \in [Procs -> Terminal \cup {Unknown}]
  /\ form    \in [Jobs -> Statuses \cup {Closed}]
  /\ saving  \in [Jobs -> BOOLEAN]
  /\ overlooked \in [Jobs -> BOOLEAN]
  /\ claims  \in [Jobs -> Nat]
  /\ stale   \in [Jobs -> Nat]
  /\ faults  \in [Jobs -> Nat]
  /\ \A p \in Procs : (pc[p] = "idle") = (task[p] = Nobody)
  /\ \A j \in Jobs : (submit[j] = "new") = (status[j] = Unsaved)
  /\ \A j \in Jobs : saving[j] => form[j] # Closed

Crawling(p, j) == task[p] = j /\ pc[p] \in {"crawling", "logging"}

\* However often its id is delivered, re-queued, redelivered or picked by hand,
\* and whichever processes die, a job is claimed for crawling at most once, plus
\* once for every write that put an outdated status back over the row.
ClaimsBounded == \A j \in Jobs : claims[j] <= 1 + stale[j]

\* Unless an outdated status was written over the row, no two processes work on
\* one crawl: the promise of claim_job and of run_crawl_jobs.
OneCrawler ==
  \A j \in Jobs : stale[j] = 0 =>
    \A p, q \in Procs : Crawling(p, j) /\ Crawling(q, j) => p = q

\* A RUNNING row has a process that is crawling it, unless one died or raised
\* on this job or an outdated status was written over it.  Nothing in the code
\* repairs a RUNNING row, so this is the only time it is ever settled.
RunningIsCrawled ==
  \A j \in Jobs :
    status[j] = "running" /\ stale[j] = 0 /\ faults[j] = 0 =>
      \E p \in Procs : Crawling(p, j)

\* An UPDATE that is committed whose event row is not inserted yet.
InFlight(j) ==
  (IF submit[j] = "log" THEN {<<"pending", "queued">>} ELSE {}) \cup
  {<<"running", outcome[p]>> : p \in {q \in Procs : /\ task[q] = j
                                                   /\ pc[q] = "logging"}}

Entered(j, s) == Cardinality({i \in DOMAIN log[j] : log[j][i][2] = s})
                 + Cardinality({e \in InFlight(j) : e[2] = s})
Left(j, s)    == Cardinality({i \in DOMAIN log[j] : log[j][i][1] = s})
                 + Cardinality({e \in InFlight(j) : e[1] = s})
Is(b) == IF b THEN 1 ELSE 0

\* "Every state change goes through transition_to so the event log is a complete
\* history": in every state the log accounts for the status of the row, each
\* status being entered once more than left when the row is in it.  Events may
\* be inserted out of order, so this is about their number and not the sequence.
LogAccountsForStatus ==
  \A j \in Jobs :
    submit[j] # "new" /\ stale[j] = 0 /\ faults[j] = 0 =>
      \A s \in Statuses :
        Entered(j, s) + Is(s = "pending") = Left(j, s) + Is(s = status[j])

\* A job whose id was published and that nobody has claimed still has a message
\* in the broker or in a worker about to claim it: a message skipped because of
\* another claim is never the last one, although it is acknowledged for good.
\* One skipped because of an admin form that has saved and not committed may be:
\* the worker takes the form's row lock for a claim, and the job stays QUEUED
\* until somebody re-queues it.
PublishedIsReachable ==
  \A j \in Jobs :
    status[j] = "queued" /\ submit[j] = "done"
      /\ claims[j] = 0 /\ faults[j] = 0 /\ ~ overlooked[j] =>
      \/ ready[j] > 0
      \/ \E p \in Procs : task[p] = j /\ pc[p] \in {"received", "claiming"}

\* A settled job keeps its status: no redelivered message, re-queue or second
\* runner brings it back, only a write of an outdated status does.
TerminalIsFinal ==
  [][\A j \in Jobs : status[j] \in Terminal /\ stale'[j] = 0
                       => status'[j] = status[j]]_vars

\* A job that is handed to the broker is crawled to a final status and stays
\* there, if no process dies or raises on it and the admin form stays closed
\* (MaxEdits = 0): also the one that queue_job re-opened is settled in the end.
PublishedIsSettled ==
  \A j \in Jobs :
    [](faults[j] = 0) /\ <>(submit[j] = "publish")
      => <>[](status[j] \in Terminal)

\* run_crawl_jobs, lines 3-5: "it claims jobs with the same atomic query the
\* worker uses, so running it alongside workers can never process a job twice".
\* The query keeps that promise; the blind save of queue_job breaks it.
NeverProcessedTwice == \A j \in Jobs : claims[j] <= 1
=============================================================================
