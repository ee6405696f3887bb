-------------------------- MODULE CrawlJobs_proofs --------------------------
(***************************************************************************)
(* What CrawlJobs promises for every number of jobs, workers and inline    *)
(* runners, and every bound on operators and faults.                       *)
(***************************************************************************)
EXTENDS CrawlJobs, FiniteSetTheorems, TLAPS

\* Whoever refers to a job refers to a saved row, a process that is about to
\* log an outcome has one, and the locked row stays claimable.
Attached ==
  /\ \A p \in Procs : task[p] \in Jobs => status[task[p]] # Unsaved
  /\ \A j \in Jobs : ready[j] > 0 => status[j] # Unsaved
  /\ \A j \in Jobs : form[j] # Closed => status[j] # Unsaved
  /\ \A p \in Procs : pc[p] = "logging" => outcome[p] \in Terminal
  /\ \A p \in Procs : pc[p] = "claiming" => status[task[p]] \in Claimable

\* One process at a time holds the row lock of a job, and none while a form does.
OneClaimant ==
  /\ \A p, q \in Procs :
       pc[p] = "claiming" /\ pc[q] = "claiming" /\ task[p] = task[q] => p = q
  /\ \A p \in Procs, j \in Jobs :
       pc[p] = "claiming" /\ saving[j] => task[p] # j

\* Every claim was paid for: by the claimable status a job is created with or
\* by a stale write, and a status that is still claimable pays for one more.
Budget ==
  \A j \in Jobs :
    /\ claims[j] <= 1 + stale[j]
    /\ status[j] \in Claimable => claims[j] <= stale[j]
    /\ status[j] = Unsaved => claims[j] = 0

\* While nothing stale was written, the row shows what its crawler is doing.
RowFollowsCrawler ==
  \A j \in Jobs : stale[j] = 0 =>
    /\ \A p \in Procs : task[p] = j /\ pc[p] = "crawling" => status[j] = "running"
    /\ \A p \in Procs : task[p] = j /\ pc[p] = "logging" => status[j] \in Terminal
    /\ status[j] = "running" /\ faults[j] = 0 =>
         \E p \in Procs : task[p] = j /\ pc[p] = "crawling"

IInv == /\ TypeOK /\ Attached /\ OneClaimant
        /\ Budget /\ OneCrawler /\ RowFollowsCrawler

\* The definitions every step on data needs.
USE CrawlJobsAssumption
    DEF Procs, Claimable, Terminal, Statuses, Unsaved, Closed, Unknown,
        SubmitSteps, ProcSteps, forms

-----------------------------------------------------------------------------
\* Whatever the report says, the job it finishes is settled.
LEMMA FinalStatusType == \A r \in Reports : FinalStatus(r) \in Terminal
  BY DEF Reports, FinalStatus

\* Before any job is created.
LEMMA InitInvariant == Init => IInv
<1> SUFFICES ASSUME Init PROVE IInv
  OBVIOUS
<1>1. TypeOK
  BY DEF Init, TypeOK
<1>2. Attached /\ OneClaimant /\ Budget /\ OneCrawler /\ RowFollowsCrawler
  BY DEF Init, Attached, OneClaimant, Budget, OneCrawler, Crawling,
         RowFollowsCrawler
<1>3. QED
  BY <1>1, <1>2 DEF IInv

\* The cases of the next-state relation, with the terminal status that both
\* FinishJob and ScopeFailed save as one parameter.
LEMMA NextCases ==
  ASSUME [Next]_vars
  PROVE  \/ \E j \in Jobs, next \in {"mark", "publish", "done"} : CreateJob(j, next)
         \/ \E j \in Jobs : MarkQueued(j) \/ LogQueued(j) \/ Publish(j)
                            \/ SubmitDies(j)
         \/ \E j \in Jobs : Requeue(j) \/ OpenForm(j) \/ SaveForm(j) \/ CommitForm(j)
         \/ \E w \in Workers : Redeliver(w)
         \/ \E w \in Workers, j \in Jobs : Deliver(w, j)
         \/ \E p \in Inlines, j \in Jobs : PickInline(p, j)
         \/ \E p \in Procs : ClaimLock(p) \/ ClaimSkip(p) \/ ClaimCommit(p)
                             \/ LogOutcome(p) \/ Ack(p) \/ CrawlRaises(p)
         \/ \E p \in Procs, final \in Terminal : SavesOutcome(p, final)
         \/ \E p \in Procs, returned \in BOOLEAN : ProcDies(p, returned)
         \/ UNCHANGED vars
  BY FinalStatusType DEF Next, Submission, Operator, Crawler, FinishJob, ScopeFailed

\* A process that is not idle holds a job.
LEMMA Busy ==
  ASSUME TypeOK, NEW p \in Procs, pc[p] # "idle"
  PROVE  task[p] \in Jobs
  BY DEF TypeOK

\* Appending an event keeps the log a table of event sequences.
LEMMA LoggedType ==
  ASSUME log \in [Jobs -> Seq(Statuses \X Statuses)],
         NEW j \in Jobs, NEW from \in Statuses, NEW to \in Statuses,
         Logged(j, from, to)
  PROVE  log' \in [Jobs -> Seq(Statuses \X Statuses)]
<1>1. <<from, to>> \in Statuses \X Statuses
  OBVIOUS
<1>2. \A e \in Statuses \X Statuses : Append(log[j], e) \in Seq(Statuses \X Statuses)
  OBVIOUS
<1>3. QED
  BY <1>1, <1>2 DEF Logged

-----------------------------------------------------------------------------
(* Each part of the invariant is preserved by every action.                 *)

\* Types, with the references between the tables that keep them.
LEMMA TypeStep ==
  ASSUME TypeOK, Attached, [Next]_vars
  PROVE  TypeOK'
<1>1. ASSUME NEW j \in Jobs, NEW next \in {"mark", "publish", "done"},
             CreateJob(j, next)
      PROVE  TypeOK'
  BY <1>1 DEF TypeOK, Attached, CreateJob
<1>2. ASSUME NEW j \in Jobs, MarkQueued(j)
      PROVE  TypeOK'
  BY <1>2 DEF TypeOK, Attached, MarkQueued, Overwrites, Writes, Locked
<1>3. ASSUME NEW j \in Jobs, LogQueued(j)
      PROVE  TypeOK'
  <2>1. "pending" \in Statuses /\ "queued" \in Statuses
    OBVIOUS
  <2>2. log' \in [Jobs -> Seq(Statuses \X Statuses)]
    <3>1. Logged(j, "pending", "queued") /\ log \in [Jobs -> Seq(Statuses \X Statuses)]
      BY <1>3 DEF TypeOK, LogQueued
    <3>2. QED
      BY <2>1, <3>1, LoggedType
  <2>3. QED
    BY <1>3, <2>2 DEF TypeOK, LogQueued
<1>4. ASSUME NEW j \in Jobs, Publish(j)
      PROVE  TypeOK'
  BY <1>4 DEF TypeOK, Attached, Publish
<1>5. ASSUME NEW j \in Jobs, SubmitDies(j)
      PROVE  TypeOK'
  BY <1>5, SMTT(30) DEF TypeOK, Attached, SubmitDies
<1>6. ASSUME NEW j \in Jobs, Requeue(j)
      PROVE  TypeOK'
  BY <1>6 DEF TypeOK, Attached, Requeue
<1>7. ASSUME NEW j \in Jobs, OpenForm(j) \/ SaveForm(j)
      PROVE  TypeOK'
  <2>1. CASE OpenForm(j)
    BY <2>1, SMTT(30) DEF TypeOK, Attached, OpenForm
  <2>2. CASE SaveForm(j)
    BY <2>2, SMTT(30) DEF TypeOK, Attached, SaveForm
  <2>3. QED
    BY <1>7, <2>1, <2>2
<1>8. ASSUME NEW j \in Jobs, CommitForm(j)
      PROVE  TypeOK'
  <2>1. form[j] \in Statuses /\ status[j] # Unsaved
    BY <1>8 DEF TypeOK, Attached, CommitForm
  <2>2. /\ status' = [status EXCEPT ![j] = form[j]]
        /\ form' = [form EXCEPT ![j] = Closed]
        /\ saving' = [saving EXCEPT ![j] = FALSE]
        /\ stale' \in [Jobs -> Nat]
        /\ UNCHANGED <<log, submit, ready, pc, task, outcome, overlooked, claims, faults>>
    BY <1>8 DEF TypeOK, CommitForm, Writes
  <2>3. \A i \in Jobs : (submit'[i] = "new") = (status'[i] = Unsaved)
    BY <2>1, <2>2 DEF TypeOK
  <2>4. \A i \in Jobs : saving'[i] => form'[i] # Closed
    BY <2>2 DEF TypeOK
  <2>5. status' \in [Jobs -> Statuses \cup {Unsaved}] /\ form' \in [Jobs -> Statuses \cup {Closed}]
        /\ saving' \in [Jobs -> BOOLEAN]
    BY <2>1, <2>2 DEF TypeOK
  <2>6. QED
    BY <2>2, <2>3, <2>4, <2>5 DEF TypeOK
<1>9. ASSUME NEW w \in Workers, Redeliver(w)
      PROVE  TypeOK'
  BY <1>9 DEF TypeOK, Attached, Redeliver
<1>10. ASSUME NEW w \in Workers, NEW j \in Jobs, Deliver(w, j)
      PROVE  TypeOK'
  BY <1>10, SMTT(30) DEF TypeOK, Attached, Deliver, Moves
<1>11. ASSUME NEW p \in Inlines, NEW j \in Jobs, PickInline(p, j)
      PROVE  TypeOK'
  BY <1>11 DEF TypeOK, Attached, PickInline, Moves
<1>12. ASSUME NEW p \in Procs, ClaimLock(p)
      PROVE  TypeOK'
  BY <1>12 DEF TypeOK, Attached, ClaimLock, Moves, Locked
<1>13. ASSUME NEW p \in Procs, ClaimSkip(p)
      PROVE  TypeOK'
  BY <1>13 DEF TypeOK, Attached, ClaimSkip, Moves
<1>14. ASSUME NEW p \in Procs, ClaimCommit(p)
      PROVE  TypeOK'
  <2>1. task[p] \in Jobs /\ status[task[p]] \in Statuses
    BY <1>14, Busy DEF ClaimCommit, Moves, Attached
  <2>2. log' \in [Jobs -> Seq(Statuses \X Statuses)]
    <3>1. /\ Logged(task[p], status[task[p]], "running")
          /\ log \in [Jobs -> Seq(Statuses \X Statuses)]
      BY <1>14 DEF TypeOK, ClaimCommit
    <3>2. "running" \in Statuses
      OBVIOUS
    <3>3. QED
      BY <2>1, <3>1, <3>2, LoggedType
  <2>3. /\ status' \in [Jobs -> Statuses \cup {Unsaved}]
        /\ claims' \in [Jobs -> Nat]
        /\ pc' \in [Procs -> ProcSteps]
        /\ UNCHANGED <<submit, ready, task, outcome, form, saving, stale, faults>>
        /\ overlooked' \in [Jobs -> BOOLEAN]
    BY <1>14, <2>1 DEF TypeOK, ClaimCommit, Moves
  <2>4. \A q \in Procs : (pc'[q] = "idle") = (task'[q] = Nobody)
    BY <1>14 DEF TypeOK, ClaimCommit, Moves
  <2>5. \A j \in Jobs : (submit'[j] = "new") = (status'[j] = Unsaved)
    BY <1>14, <2>1 DEF TypeOK, Attached, ClaimCommit, Moves
  <2>6. QED
    BY <2>2, <2>3, <2>4, <2>5 DEF TypeOK
<1>15. ASSUME NEW p \in Procs, LogOutcome(p)
      PROVE  TypeOK'
  <2>1. task[p] \in Jobs /\ outcome[p] \in Statuses
    BY <1>15, Busy DEF LogOutcome, Moves, Attached
  <2>2. log' \in [Jobs -> Seq(Statuses \X Statuses)]
    BY <1>15, <2>1, LoggedType DEF TypeOK, LogOutcome
  <2>3. QED
    BY <1>15, <2>1, <2>2 DEF TypeOK, LogOutcome, Moves
<1>16. ASSUME NEW p \in Procs, Ack(p)
      PROVE  TypeOK'
  BY <1>16 DEF TypeOK, Attached, Ack, Moves
<1>17. ASSUME NEW p \in Procs, CrawlRaises(p)
      PROVE  TypeOK'
  <2>1. task[p] \in Jobs
    BY <1>17, Busy DEF CrawlRaises, Moves
  <2>2. QED
    BY <1>17, <2>1, SMTT(30) DEF TypeOK, CrawlRaises, Moves
<1>18. ASSUME NEW p \in Procs, NEW final \in Terminal,
             SavesOutcome(p, final)
      PROVE  TypeOK'
  <2>1. task[p] \in Jobs /\ status[task[p]] # Unsaved
    BY <1>18, Busy DEF SavesOutcome, Moves, Attached
  <2>2. QED
    BY <1>18, <2>1 DEF TypeOK, SavesOutcome, Moves
<1>19. ASSUME NEW p \in Procs, NEW returned \in BOOLEAN, ProcDies(p, returned)
      PROVE  TypeOK'
  <2>1. task[p] \in Jobs
    BY <1>19, Busy DEF ProcDies
  <2>2. UNCHANGED <<status, log, submit, forms, claims, stale>>
    BY <1>19 DEF ProcDies
  <2>3. ready' \in [Jobs -> Nat] /\ faults' \in [Jobs -> Nat]
    BY <1>19, <2>1 DEF TypeOK, ProcDies
  <2>4. /\ pc' \in [Procs -> ProcSteps] /\ outcome' \in [Procs -> Terminal \cup {Unknown}]
        /\ task' \in [Procs -> Jobs \cup {Nobody}]
        /\ \A q \in Procs : (pc'[q] = "idle") = (task'[q] = Nobody)
    BY <1>19 DEF TypeOK, ProcDies, Moves
  <2>5. QED
    BY <2>2, <2>3, <2>4 DEF TypeOK
<1>20. ASSUME UNCHANGED vars PROVE TypeOK'
  BY <1>20 DEF TypeOK, Attached, vars
<1>21. QED
  BY NextCases, <1>1, <1>2, <1>3, <1>4, <1>5, <1>6, <1>7, <1>8, <1>9,
         <1>10, <1>11, <1>12, <1>13, <1>14, <1>15, <1>16, <1>17, <1>18,
         <1>19, <1>20

\* References stay valid: no row is ever deleted, and the lock keeps writers out.
LEMMA AttachedStep ==
  ASSUME TypeOK, Attached, OneClaimant, [Next]_vars
  PROVE  Attached'
<1>1. ASSUME NEW j \in Jobs, NEW next \in {"mark", "publish", "done"},
             CreateJob(j, next)
      PROVE  Attached'
  BY <1>1 DEF TypeOK, Attached, OneClaimant, CreateJob
<1>2. ASSUME NEW j \in Jobs, MarkQueued(j)
      PROVE  Attached'
  BY <1>2 DEF TypeOK, Attached, OneClaimant, MarkQueued, Overwrites, Writes, Locked
<1>3. ASSUME NEW j \in Jobs, LogQueued(j)
      PROVE  Attached'
  BY <1>3 DEF TypeOK, Attached, OneClaimant, LogQueued, Logged
<1>4. ASSUME NEW j \in Jobs, Publish(j)
      PROVE  Attached'
  BY <1>4 DEF TypeOK, Attached, OneClaimant, Publish
<1>5. ASSUME NEW j \in Jobs, SubmitDies(j)
      PROVE  Attached'
  BY <1>5 DEF TypeOK, Attached, OneClaimant, SubmitDies
<1>6. ASSUME NEW j \in Jobs, Requeue(j)
      PROVE  Attached'
  BY <1>6 DEF TypeOK, Attached, OneClaimant, Requeue
<1>7. ASSUME NEW j \in Jobs, OpenForm(j) \/ SaveForm(j)
      PROVE  Attached'
  BY <1>7 DEF TypeOK, Attached, OneClaimant, OpenForm, SaveForm
<1>8. ASSUME NEW j \in Jobs, CommitForm(j)
      PROVE  Attached'
  <2>1. form[j] \in Statuses /\ form[j] # Unsaved /\ saving[j]
    BY <1>8 DEF TypeOK, CommitForm
  <2>2. /\ \A k \in Jobs : status'[k] = IF k = j THEN form[j] ELSE status[k]
        /\ \A k \in Jobs : form'[k] = IF k = j THEN Closed ELSE form[k]
        /\ UNCHANGED <<task, ready, pc, outcome>>
    BY <1>8 DEF TypeOK, CommitForm, Writes
  <2>3. \A p \in Procs : pc[p] = "claiming" => task[p] \in Jobs \ {j}
    BY <2>1, Busy DEF OneClaimant
  <2>4. QED
    BY <2>1, <2>2, <2>3, SMTT(30) DEF TypeOK, Attached
<1>9. ASSUME NEW w \in Workers, Redeliver(w)
      PROVE  Attached'
  BY <1>9 DEF TypeOK, Attached, OneClaimant, Redeliver
<1>10. ASSUME NEW w \in Workers, NEW j \in Jobs, Deliver(w, j)
      PROVE  Attached'
  BY <1>10 DEF TypeOK, Attached, OneClaimant, Deliver, Moves
<1>11. ASSUME NEW p \in Inlines, NEW j \in Jobs, PickInline(p, j)
      PROVE  Attached'
  BY <1>11 DEF TypeOK, Attached, OneClaimant, PickInline, Moves
<1>12. ASSUME NEW p \in Procs, ClaimLock(p)
      PROVE  Attached'
  BY <1>12 DEF TypeOK, Attached, OneClaimant, ClaimLock, Moves, Locked
<1>13. ASSUME NEW p \in Procs, ClaimSkip(p)
      PROVE  Attached'
  BY <1>13 DEF TypeOK, Attached, OneClaimant, ClaimSkip, Moves
<1>14. ASSUME NEW p \in Procs, ClaimCommit(p)
      PROVE  Attached'
  BY <1>14 DEF TypeOK, Attached, OneClaimant, ClaimCommit, Moves, Logged
<1>15. ASSUME NEW p \in Procs, LogOutcome(p)
      PROVE  Attached'
  BY <1>15 DEF TypeOK, Attached, OneClaimant, LogOutcome, Moves, Logged
<1>16. ASSUME NEW p \in Procs, Ack(p)
      PROVE  Attached'
  BY <1>16 DEF TypeOK, Attached, OneClaimant, Ack, Moves
<1>17. ASSUME NEW p \in Procs, CrawlRaises(p)
      PROVE  Attached'
  BY <1>17 DEF TypeOK, Attached, OneClaimant, CrawlRaises, Moves
<1>18. ASSUME NEW p \in Procs, NEW final \in Terminal,
             SavesOutcome(p, final)
      PROVE  Attached'
  BY <1>18 DEF TypeOK, Attached, OneClaimant, SavesOutcome, Moves, Locked
<1>19. ASSUME NEW p \in Procs, NEW returned \in BOOLEAN, ProcDies(p, returned)
      PROVE  Attached'
  BY <1>19 DEF TypeOK, Attached, OneClaimant, ProcDies, Moves
<1>20. ASSUME UNCHANGED vars PROVE Attached'
  BY <1>20 DEF TypeOK, Attached, OneClaimant, vars
<1>21. QED
  BY NextCases, <1>1, <1>2, <1>3, <1>4, <1>5, <1>6, <1>7, <1>8, <1>9,
         <1>10, <1>11, <1>12, <1>13, <1>14, <1>15, <1>16, <1>17, <1>18,
         <1>19, <1>20

\* SKIP LOCKED lets one process at a time into the locked part of claim_job.
LEMMA OneClaimantStep ==
  ASSUME TypeOK, OneClaimant, [Next]_vars
  PROVE  OneClaimant'
<1>1. ASSUME NEW j \in Jobs, NEW next \in {"mark", "publish", "done"},
             CreateJob(j, next)
      PROVE  OneClaimant'
  BY <1>1 DEF TypeOK, OneClaimant, CreateJob
<1>2. ASSUME NEW j \in Jobs, MarkQueued(j)
      PROVE  OneClaimant'
  BY <1>2 DEF TypeOK, OneClaimant, MarkQueued, Overwrites, Writes, Locked
<1>3. ASSUME NEW j \in Jobs, LogQueued(j)
      PROVE  OneClaimant'
  BY <1>3 DEF TypeOK, OneClaimant, LogQueued, Logged
<1>4. ASSUME NEW j \in Jobs, Publish(j)
      PROVE  OneClaimant'
  BY <1>4 DEF TypeOK, OneClaimant, Publish
<1>5. ASSUME NEW j \in Jobs, SubmitDies(j)
      PROVE  OneClaimant'
  BY <1>5 DEF TypeOK, OneClaimant, SubmitDies
<1>6. ASSUME NEW j \in Jobs, Requeue(j)
      PROVE  OneClaimant'
  BY <1>6 DEF TypeOK, OneClaimant, Requeue
<1>7. ASSUME NEW j \in Jobs, OpenForm(j) \/ SaveForm(j)
      PROVE  OneClaimant'
  <2>1. CASE OpenForm(j)
    BY <2>1 DEF TypeOK, OneClaimant, OpenForm
  <2>2. CASE SaveForm(j)
    <3>1. \A p \in Procs : pc[p] = "claiming" => task[p] # j
      BY <2>2 DEF SaveForm, Locked
    <3>2. UNCHANGED <<pc, task>> /\ \A k \in Jobs : saving'[k] => k = j \/ saving[k]
      BY <2>2 DEF TypeOK, SaveForm
    <3>3. QED
      BY <3>1, <3>2 DEF OneClaimant
  <2>3. QED
    BY <1>7, <2>1, <2>2
<1>8. ASSUME NEW j \in Jobs, CommitForm(j)
      PROVE  OneClaimant'
  BY <1>8 DEF TypeOK, OneClaimant, CommitForm, Writes, Locked
<1>9. ASSUME NEW w \in Workers, Redeliver(w)
      PROVE  OneClaimant'
  BY <1>9 DEF TypeOK, OneClaimant, Redeliver
<1>10. ASSUME NEW w \in Workers, NEW j \in Jobs, Deliver(w, j)
      PROVE  OneClaimant'
  BY <1>10 DEF TypeOK, OneClaimant, Deliver, Moves
<1>11. ASSUME NEW p \in Inlines, NEW j \in Jobs, PickInline(p, j)
      PROVE  OneClaimant'
  BY <1>11 DEF TypeOK, OneClaimant, PickInline, Moves
<1>12. ASSUME NEW p \in Procs, ClaimLock(p)
      PROVE  OneClaimant'
  BY <1>12 DEF TypeOK, OneClaimant, ClaimLock, Moves, Locked
<1>13. ASSUME NEW p \in Procs, ClaimSkip(p)
      PROVE  OneClaimant'
  BY <1>13 DEF TypeOK, OneClaimant, ClaimSkip, Moves
<1>14. ASSUME NEW p \in Procs, ClaimCommit(p)
      PROVE  OneClaimant'
  BY <1>14 DEF TypeOK, OneClaimant, ClaimCommit, Moves, Logged
<1>15. ASSUME NEW p \in Procs, LogOutcome(p)
      PROVE  OneClaimant'
  BY <1>15 DEF TypeOK, OneClaimant, LogOutcome, Moves, Logged
<1>16. ASSUME NEW p \in Procs, Ack(p)
      PROVE  OneClaimant'
  BY <1>16 DEF TypeOK, OneClaimant, Ack, Moves
<1>17. ASSUME NEW p \in Procs, CrawlRaises(p)
      PROVE  OneClaimant'
  BY <1>17 DEF TypeOK, OneClaimant, CrawlRaises, Moves
<1>18. ASSUME NEW p \in Procs, NEW final \in Terminal,
             SavesOutcome(p, final)
      PROVE  OneClaimant'
  BY <1>18 DEF TypeOK, OneClaimant, SavesOutcome, Moves, Locked
<1>19. ASSUME NEW p \in Procs, NEW returned \in BOOLEAN, ProcDies(p, returned)
      PROVE  OneClaimant'
  BY <1>19 DEF TypeOK, OneClaimant, ProcDies, Moves
<1>20. ASSUME UNCHANGED vars PROVE OneClaimant'
  BY <1>20 DEF TypeOK, OneClaimant, vars
<1>21. QED
  BY NextCases, <1>1, <1>2, <1>3, <1>4, <1>5, <1>6, <1>7, <1>8, <1>9,
         <1>10, <1>11, <1>12, <1>13, <1>14, <1>15, <1>16, <1>17, <1>18,
         <1>19, <1>20

\* A claim consumes the claimable status it saw.
LEMMA BudgetStep ==
  ASSUME TypeOK, Attached, Budget, [Next]_vars
  PROVE  Budget'
<1>1. ASSUME NEW j \in Jobs, NEW next \in {"mark", "publish", "done"},
             CreateJob(j, next)
      PROVE  Budget'
  BY <1>1 DEF TypeOK, Attached, Budget, CreateJob
<1>2. ASSUME NEW j \in Jobs, MarkQueued(j)
      PROVE  Budget'
  BY <1>2 DEF TypeOK, Attached, Budget, MarkQueued, Overwrites, Writes, Locked
<1>3. ASSUME NEW j \in Jobs, LogQueued(j)
      PROVE  Budget'
  BY <1>3 DEF TypeOK, Attached, Budget, LogQueued, Logged
<1>4. ASSUME NEW j \in Jobs, Publish(j)
      PROVE  Budget'
  BY <1>4 DEF TypeOK, Attached, Budget, Publish
<1>5. ASSUME NEW j \in Jobs, SubmitDies(j)
      PROVE  Budget'
  BY <1>5 DEF TypeOK, Attached, Budget, SubmitDies
<1>6. ASSUME NEW j \in Jobs, Requeue(j)
      PROVE  Budget'
  BY <1>6 DEF TypeOK, Attached, Budget, Requeue
<1>7. ASSUME NEW j \in Jobs, OpenForm(j) \/ SaveForm(j)
      PROVE  Budget'
  BY <1>7 DEF TypeOK, Attached, Budget, OpenForm, SaveForm
<1>8. ASSUME NEW j \in Jobs, CommitForm(j)
      PROVE  Budget'
  <2>1. CASE status[j] = form[j]
    BY <1>8, <2>1 DEF TypeOK, Attached, Budget, CommitForm, Writes
  <2>2. CASE status[j] # form[j]
    <3>1. stale'[j] = stale[j] + 1 /\ status'[j] # Unsaved
      BY <1>8, <2>2 DEF TypeOK, Attached, CommitForm, Writes
    <3>2. claims' = claims /\ \A k \in Jobs \ {j} :
            stale'[k] = stale[k] /\ status'[k] = status[k]
      BY <1>8 DEF TypeOK, CommitForm, Writes
    <3>3. QED
      BY <3>1, <3>2 DEF TypeOK, Budget
  <2>3. QED
    BY <2>1, <2>2
<1>9. ASSUME NEW w \in Workers, Redeliver(w)
      PROVE  Budget'
  BY <1>9 DEF TypeOK, Attached, Budget, Redeliver
<1>10. ASSUME NEW w \in Workers, NEW j \in Jobs, Deliver(w, j)
      PROVE  Budget'
  BY <1>10 DEF TypeOK, Attached, Budget, Deliver, Moves
<1>11. ASSUME NEW p \in Inlines, NEW j \in Jobs, PickInline(p, j)
      PROVE  Budget'
  BY <1>11 DEF TypeOK, Attached, Budget, PickInline, Moves
<1>12. ASSUME NEW p \in Procs, ClaimLock(p)
      PROVE  Budget'
  BY <1>12 DEF TypeOK, Attached, Budget, ClaimLock, Moves, Locked
<1>13. ASSUME NEW p \in Procs, ClaimSkip(p)
      PROVE  Budget'
  BY <1>13 DEF TypeOK, Attached, Budget, ClaimSkip, Moves
<1>14. ASSUME NEW p \in Procs, ClaimCommit(p)
      PROVE  Budget'
  BY <1>14 DEF TypeOK, Attached, Budget, ClaimCommit, Moves, Logged
<1>15. ASSUME NEW p \in Procs, LogOutcome(p)
      PROVE  Budget'
  BY <1>15 DEF TypeOK, Attached, Budget, LogOutcome, Moves, Logged
<1>16. ASSUME NEW p \in Procs, Ack(p)
      PROVE  Budget'
  BY <1>16 DEF TypeOK, Attached, Budget, Ack, Moves
<1>17. ASSUME NEW p \in Procs, CrawlRaises(p)
      PROVE  Budget'
  BY <1>17 DEF TypeOK, Attached, Budget, CrawlRaises, Moves
<1>18. ASSUME NEW p \in Procs, NEW final \in Terminal,
             SavesOutcome(p, final)
      PROVE  Budget'
  BY <1>18 DEF TypeOK, Attached, Budget, SavesOutcome, Moves, Locked
<1>19. ASSUME NEW p \in Procs, NEW returned \in BOOLEAN, ProcDies(p, returned)
      PROVE  Budget'
  BY <1>19 DEF TypeOK, Attached, Budget, ProcDies, Moves
<1>20. ASSUME UNCHANGED vars PROVE Budget'
  BY <1>20 DEF TypeOK, Attached, Budget, vars
<1>21. QED
  BY NextCases, <1>1, <1>2, <1>3, <1>4, <1>5, <1>6, <1>7, <1>8, <1>9,
         <1>10, <1>11, <1>12, <1>13, <1>14, <1>15, <1>16, <1>17, <1>18,
         <1>19, <1>20

\* A claim needs a claimable row, and a row somebody crawls is not claimable.
LEMMA OneCrawlerStep ==
  ASSUME TypeOK, Attached, OneClaimant, OneCrawler, RowFollowsCrawler, [Next]_vars
  PROVE  OneCrawler'
<1>1. ASSUME NEW j \in Jobs, NEW next \in {"mark", "publish", "done"},
             CreateJob(j, next)
      PROVE  OneCrawler'
  BY <1>1 DEF TypeOK, Attached, OneClaimant, OneCrawler, Crawling,
         RowFollowsCrawler, CreateJob
<1>2. ASSUME NEW j \in Jobs, MarkQueued(j)
      PROVE  OneCrawler'
  BY <1>2 DEF TypeOK, Attached, OneClaimant, OneCrawler, Crawling,
         RowFollowsCrawler, MarkQueued, Overwrites, Writes, Locked
<1>3. ASSUME NEW j \in Jobs, LogQueued(j)
      PROVE  OneCrawler'
  BY <1>3 DEF TypeOK, Attached, OneClaimant, OneCrawler, Crawling,
         RowFollowsCrawler, LogQueued, Logged
<1>4. ASSUME NEW j \in Jobs, Publish(j)
      PROVE  OneCrawler'
  BY <1>4 DEF TypeOK, Attached, OneClaimant, OneCrawler, Crawling,
         RowFollowsCrawler, Publish
<1>5. ASSUME NEW j \in Jobs, SubmitDies(j)
      PROVE  OneCrawler'
  BY <1>5 DEF TypeOK, Attached, OneClaimant, OneCrawler, Crawling,
         RowFollowsCrawler, SubmitDies
<1>6. ASSUME NEW j \in Jobs, Requeue(j)
      PROVE  OneCrawler'
  BY <1>6 DEF TypeOK, Attached, OneClaimant, OneCrawler, Crawling,
         RowFollowsCrawler, Requeue
<1>7. ASSUME NEW j \in Jobs, OpenForm(j) \/ SaveForm(j)
      PROVE  OneCrawler'
  BY <1>7 DEF TypeOK, Attached, OneClaimant, OneCrawler, Crawling,
         RowFollowsCrawler, OpenForm, SaveForm
<1>8. ASSUME NEW j \in Jobs, CommitForm(j)
      PROVE  OneCrawler'
  BY <1>8 DEF TypeOK, Attached, OneClaimant, OneCrawler, Crawling,
         RowFollowsCrawler, CommitForm, Writes, Locked
<1>9. ASSUME NEW w \in Workers, Redeliver(w)
      PROVE  OneCrawler'
  BY <1>9 DEF TypeOK, Attached, OneClaimant, OneCrawler, Crawling,
         RowFollowsCrawler, Redeliver
<1>10. ASSUME NEW w \in Workers, NEW j \in Jobs, Deliver(w, j)
      PROVE  OneCrawler'
  BY <1>10 DEF TypeOK, Attached, OneClaimant, OneCrawler, Crawling,
         RowFollowsCrawler, Deliver, Moves
<1>11. ASSUME NEW p \in Inlines, NEW j \in Jobs, PickInline(p, j)
      PROVE  OneCrawler'
  BY <1>11 DEF TypeOK, Attached, OneClaimant, OneCrawler, Crawling,
         RowFollowsCrawler, PickInline, Moves
<1>12. ASSUME NEW p \in Procs, ClaimLock(p)
      PROVE  OneCrawler'
  BY <1>12 DEF TypeOK, Attached, OneClaimant, OneCrawler, Crawling,
         RowFollowsCrawler, ClaimLock, Moves, Locked
<1>13. ASSUME NEW p \in Procs, ClaimSkip(p)
      PROVE  OneCrawler'
  BY <1>13 DEF TypeOK, Attached, OneClaimant, OneCrawler, Crawling,
         RowFollowsCrawler, ClaimSkip, Moves
<1>14. ASSUME NEW p \in Procs, ClaimCommit(p)
      PROVE  OneCrawler'
  <2> DEFINE k == task[p]
  <2>1. k \in Jobs /\ status[k] \in Claimable
    BY <1>14, Busy DEF ClaimCommit, Moves, Attached
  <2>2. stale[k] = 0 => \A q \in Procs : ~ Crawling(q, k)
    BY <2>1 DEF RowFollowsCrawler, Crawling
  <2>3. \A q \in Procs, l \in Jobs :
          Crawling(q, l)' => Crawling(q, l) \/ (q = p /\ l = k)
    BY <1>14 DEF TypeOK, ClaimCommit, Moves, Crawling
  <2>4. stale' = stale
    BY <1>14 DEF ClaimCommit
  <2>5. QED
    BY <2>2, <2>3, <2>4 DEF OneCrawler
<1>15. ASSUME NEW p \in Procs, LogOutcome(p)
      PROVE  OneCrawler'
  BY <1>15 DEF TypeOK, Attached, OneClaimant, OneCrawler, Crawling,
         RowFollowsCrawler, LogOutcome, Moves, Logged
<1>16. ASSUME NEW p \in Procs, Ack(p)
      PROVE  OneCrawler'
  BY <1>16 DEF TypeOK, Attached, OneClaimant, OneCrawler, Crawling,
         RowFollowsCrawler, Ack, Moves
<1>17. ASSUME NEW p \in Procs, CrawlRaises(p)
      PROVE  OneCrawler'
  BY <1>17 DEF TypeOK, Attached, OneClaimant, OneCrawler, Crawling,
         RowFollowsCrawler, CrawlRaises, Moves
<1>18. ASSUME NEW p \in Procs, NEW final \in Terminal,
             SavesOutcome(p, final)
      PROVE  OneCrawler'
  BY <1>18 DEF TypeOK, Attached, OneClaimant, OneCrawler, Crawling,
         RowFollowsCrawler, SavesOutcome, Moves, Locked
<1>19. ASSUME NEW p \in Procs, NEW returned \in BOOLEAN, ProcDies(p, returned)
      PROVE  OneCrawler'
  BY <1>19 DEF TypeOK, Attached, OneClaimant, OneCrawler, Crawling,
         RowFollowsCrawler, ProcDies, Moves
<1>20. ASSUME UNCHANGED vars PROVE OneCrawler'
  BY <1>20 DEF TypeOK, Attached, OneClaimant, OneCrawler, Crawling,
         RowFollowsCrawler, vars
<1>21. QED
  BY NextCases, <1>1, <1>2, <1>3, <1>4, <1>5, <1>6, <1>7, <1>8, <1>9,
         <1>10, <1>11, <1>12, <1>13, <1>14, <1>15, <1>16, <1>17, <1>18,
         <1>19, <1>20

\* Only the crawler itself moves the row on.
LEMMA RowStep ==
  ASSUME TypeOK, Attached, OneClaimant, OneCrawler,
         RowFollowsCrawler, [Next]_vars
  PROVE  RowFollowsCrawler'
<1>1. ASSUME NEW j \in Jobs, NEW next \in {"mark", "publish", "done"},
             CreateJob(j, next)
      PROVE  RowFollowsCrawler'
  BY <1>1 DEF TypeOK, Attached, OneClaimant, OneCrawler, Crawling,
         RowFollowsCrawler, CreateJob
<1>2. ASSUME NEW j \in Jobs, MarkQueued(j)
      PROVE  RowFollowsCrawler'
  BY <1>2 DEF TypeOK, Attached, OneClaimant, OneCrawler, Crawling,
         RowFollowsCrawler, MarkQueued, Overwrites, Writes, Locked
<1>3. ASSUME NEW j \in Jobs, LogQueued(j)
      PROVE  RowFollowsCrawler'
  BY <1>3 DEF TypeOK, Attached, OneClaimant, OneCrawler, Crawling,
         RowFollowsCrawler, LogQueued, Logged
<1>4. ASSUME NEW j \in Jobs, Publish(j)
      PROVE  RowFollowsCrawler'
  BY <1>4 DEF TypeOK, Attached, OneClaimant, OneCrawler, Crawling,
         RowFollowsCrawler, Publish
<1>5. ASSUME NEW j \in Jobs, SubmitDies(j)
      PROVE  RowFollowsCrawler'
  BY <1>5 DEF TypeOK, Attached, OneClaimant, OneCrawler, Crawling,
         RowFollowsCrawler, SubmitDies
<1>6. ASSUME NEW j \in Jobs, Requeue(j)
      PROVE  RowFollowsCrawler'
  BY <1>6 DEF TypeOK, Attached, OneClaimant, OneCrawler, Crawling,
         RowFollowsCrawler, Requeue
<1>7. ASSUME NEW j \in Jobs, OpenForm(j) \/ SaveForm(j)
      PROVE  RowFollowsCrawler'
  <2>1. UNCHANGED <<status, stale, task, pc, faults>>
    BY <1>7 DEF OpenForm, SaveForm
  <2>2. QED
    BY <2>1 DEF RowFollowsCrawler
<1>8. ASSUME NEW j \in Jobs, CommitForm(j)
      PROVE  RowFollowsCrawler'
  BY <1>8 DEF TypeOK, Attached, OneClaimant, OneCrawler, Crawling,
         RowFollowsCrawler, CommitForm, Writes, Locked
<1>9. ASSUME NEW w \in Workers, Redeliver(w)
      PROVE  RowFollowsCrawler'
  BY <1>9 DEF TypeOK, Attached, OneClaimant, OneCrawler, Crawling,
         RowFollowsCrawler, Redeliver
<1>10. ASSUME NEW w \in Workers, NEW j \in Jobs, Deliver(w, j)
      PROVE  RowFollowsCrawler'
  BY <1>10 DEF TypeOK, Attached, OneClaimant, OneCrawler, Crawling,
         RowFollowsCrawler, Deliver, Moves
<1>11. ASSUME NEW p \in Inlines, NEW j \in Jobs, PickInline(p, j)
      PROVE  RowFollowsCrawler'
  BY <1>11 DEF TypeOK, Attached, OneClaimant, OneCrawler, Crawling,
         RowFollowsCrawler, PickInline, Moves
<1>12. ASSUME NEW p \in Procs, ClaimLock(p)
      PROVE  RowFollowsCrawler'
  BY <1>12 DEF TypeOK, Attached, OneClaimant, OneCrawler, Crawling,
         RowFollowsCrawler, ClaimLock, Moves, Locked
<1>13. ASSUME NEW p \in Procs, ClaimSkip(p)
      PROVE  RowFollowsCrawler'
  BY <1>13 DEF TypeOK, Attached, OneClaimant, OneCrawler, Crawling,
         RowFollowsCrawler, ClaimSkip, Moves
<1>14. ASSUME NEW p \in Procs, ClaimCommit(p)
      PROVE  RowFollowsCrawler'
  <2> DEFINE k == task[p]
  <2>1. k \in Jobs /\ status[k] \in Claimable
    BY <1>14, Busy DEF ClaimCommit, Moves, Attached
  <2>2. stale[k] = 0 => \A q \in Procs : ~ Crawling(q, k)
    BY <2>1 DEF RowFollowsCrawler, Crawling
  <2>3. /\ \A l \in Jobs : status'[l] = IF l = k THEN "running" ELSE status[l]
        /\ \A q \in Procs : pc'[q] = IF q = p THEN "crawling" ELSE pc[q]
        /\ task' = task /\ stale' = stale /\ faults' = faults
    BY <1>14 DEF TypeOK, ClaimCommit, Moves
  <2>4. \A l \in Jobs \ {k}, q \in Procs : task[q] = l => pc'[q] = pc[q]
    BY <2>3
  <2>5. QED
    BY <1>14, <2>2, <2>3, <2>4 DEF RowFollowsCrawler, Crawling, ClaimCommit
<1>15. ASSUME NEW p \in Procs, LogOutcome(p)
      PROVE  RowFollowsCrawler'
  BY <1>15 DEF TypeOK, Attached, OneClaimant, OneCrawler, Crawling,
         RowFollowsCrawler, LogOutcome, Moves, Logged
<1>16. ASSUME NEW p \in Procs, Ack(p)
      PROVE  RowFollowsCrawler'
  BY <1>16 DEF TypeOK, Attached, OneClaimant, OneCrawler, Crawling,
         RowFollowsCrawler, Ack, Moves
<1>17. ASSUME NEW p \in Procs, CrawlRaises(p)
      PROVE  RowFollowsCrawler'
  BY <1>17 DEF TypeOK, Attached, OneClaimant, OneCrawler, Crawling,
         RowFollowsCrawler, CrawlRaises, Moves
<1>18. ASSUME NEW p \in Procs, NEW final \in Terminal,
             SavesOutcome(p, final)
      PROVE  RowFollowsCrawler'
  BY <1>18 DEF TypeOK, Attached, OneClaimant, OneCrawler, Crawling,
         RowFollowsCrawler, SavesOutcome, Moves, Locked
<1>19. ASSUME NEW p \in Procs, NEW returned \in BOOLEAN, ProcDies(p, returned)
      PROVE  RowFollowsCrawler'
  BY <1>19 DEF TypeOK, Attached, OneClaimant, OneCrawler, Crawling,
         RowFollowsCrawler, ProcDies, Moves
<1>20. ASSUME UNCHANGED vars PROVE RowFollowsCrawler'
  BY <1>20 DEF TypeOK, Attached, OneClaimant, OneCrawler, Crawling,
         RowFollowsCrawler, vars
<1>21. QED
  BY NextCases, <1>1, <1>2, <1>3, <1>4, <1>5, <1>6, <1>7, <1>8, <1>9,
         <1>10, <1>11, <1>12, <1>13, <1>14, <1>15, <1>16, <1>17, <1>18,
         <1>19, <1>20

-----------------------------------------------------------------------------
\* The parts of the invariant together are inductive.
LEMMA InvariantStep == IInv /\ [Next]_vars => IInv'
  BY TypeStep, AttachedStep, OneClaimantStep, BudgetStep, OneCrawlerStep, RowStep
     DEF IInv

\* And so they hold in every reachable state.
LEMMA Invariant == Spec => []IInv
  BY InitInvariant, InvariantStep, PTL DEF Spec

\* The variables of every reachable state have their types, and the broker, the
\* processes and the admin forms refer to saved rows only.
THEOREM TypeCorrect == Spec => []TypeOK
<1>1. IInv => TypeOK
  BY DEF IInv
<1>2. QED
  BY <1>1, Invariant, PTL

\* claim_job lets a job be crawled once, plus once per stale write.
THEOREM ClaimsAreBounded == Spec => []ClaimsBounded
<1>1. IInv => ClaimsBounded
  BY DEF IInv, Budget, ClaimsBounded
<1>2. QED
  BY <1>1, Invariant, PTL

\* Without a stale write no two processes crawl the same job.
THEOREM CrawlersExclude == Spec => []OneCrawler
<1>1. IInv => OneCrawler
  BY DEF IInv
<1>2. QED
  BY <1>1, Invariant, PTL

\* Without a stale write or a fault a RUNNING row is being crawled.
THEOREM RunningRowsAreCrawled == Spec => []RunningIsCrawled
<1>1. IInv => RunningIsCrawled
  BY DEF IInv, RowFollowsCrawler, RunningIsCrawled, Crawling
<1>2. QED
  BY <1>1, Invariant, PTL

\* Without a stale write a settled job is never re-opened, and its outcome is
\* never replaced by another one: two runs of one job cannot both report.
THEOREM SettledJobsStaySettled == Spec => TerminalIsFinal
<1> DEFINE Final == \A j \in Jobs : status[j] \in Terminal /\ stale'[j] = 0
                                     => status'[j] = status[j]
<1>1. IInv /\ [Next]_vars => Final
  <2> SUFFICES ASSUME IInv, [Next]_vars PROVE Final
    OBVIOUS
  <2> USE DEF IInv
  <2>1. ASSUME NEW j \in Jobs, NEW next \in {"mark", "publish", "done"},
               CreateJob(j, next)
        PROVE  Final
    BY <2>1, Busy DEF TypeOK, CreateJob
  <2>2. ASSUME NEW j \in Jobs, MarkQueued(j)
        PROVE  Final
    BY <2>2, Busy DEF TypeOK, MarkQueued, Overwrites, Writes
  <2>3. ASSUME NEW j \in Jobs, CommitForm(j)
        PROVE  Final
    BY <2>3, Busy DEF TypeOK, CommitForm, Writes
  <2>4. ASSUME NEW p \in Procs, ClaimCommit(p)
        PROVE  Final
    BY <2>4, Busy DEF TypeOK, Attached, ClaimCommit, Moves
  <2>5. ASSUME NEW p \in Procs, NEW final \in Terminal,
               SavesOutcome(p, final)
        PROVE  Final
    BY <2>5, Busy DEF TypeOK, RowFollowsCrawler, SavesOutcome, Moves
  <2>6. CASE status' = status
    BY <2>6
  <2>7. QED
    BY <2>1, <2>2, <2>3, <2>4, <2>5, <2>6, NextCases
       DEF LogQueued, Publish, SubmitDies, Requeue, OpenForm, SaveForm, Redeliver, Deliver,
           PickInline, ClaimLock, ClaimSkip, LogOutcome, Ack, CrawlRaises,
           ProcDies, vars
<1>2. QED
  BY <1>1, Invariant, PTL DEF Spec, TerminalIsFinal

-----------------------------------------------------------------------------
(* A published job is reachable.                                            *)

\* A job that was never claimed has never left the claimable statuses, not even
\* in an open form.
Unclaimed ==
  \A j \in Jobs : claims[j] = 0 =>
    /\ status[j] \in Claimable \cup {Unsaved}
    /\ form[j] \in Claimable \cup {Closed}
    /\ \A p \in Procs : task[p] = j => pc[p] \notin {"crawling", "logging"}

\* A message of the job, or a process that may yet claim it.
Reachable(j) ==
  \/ ready[j] > 0
  \/ \E p \in Procs : task[p] = j /\ pc[p] \in {"received", "claiming"}

Offered ==
  \A j \in Jobs :
    /\ "queued" \in {status[j], form[j]} /\ submit[j] = "done"
    /\ claims[j] = 0 /\ faults[j] = 0 /\ ~ overlooked[j]
    => Reachable(j)

LEMMA UnclaimedStep ==
  ASSUME IInv, Unclaimed, [Next]_vars PROVE Unclaimed'
<1> USE DEF IInv
<1>1. ASSUME NEW j \in Jobs, NEW next \in {"mark", "publish", "done"}, CreateJob(j, next)
      PROVE  Unclaimed'
  BY <1>1 DEF TypeOK, Unclaimed, CreateJob
<1>2. ASSUME NEW j \in Jobs, MarkQueued(j) \/ LogQueued(j) \/ Publish(j) \/ SubmitDies(j)
      PROVE  Unclaimed'
  BY <1>2 DEF TypeOK, Unclaimed, MarkQueued, LogQueued, Publish, SubmitDies, Overwrites, Writes
<1>3. ASSUME NEW j \in Jobs, Requeue(j) \/ OpenForm(j) \/ SaveForm(j) \/ CommitForm(j) PROVE Unclaimed'
  BY <1>3 DEF TypeOK, Unclaimed, Requeue, OpenForm, SaveForm, CommitForm, Writes
<1>4. ASSUME NEW w \in Workers, Redeliver(w) PROVE Unclaimed'
  BY <1>4 DEF TypeOK, Unclaimed, Redeliver
<1>5. ASSUME NEW w \in Workers, NEW j \in Jobs, Deliver(w, j) PROVE Unclaimed'
  BY <1>5 DEF TypeOK, Unclaimed, Deliver, Moves
<1>6. ASSUME NEW p \in Inlines, NEW j \in Jobs, PickInline(p, j) PROVE Unclaimed'
  BY <1>6 DEF TypeOK, Unclaimed, PickInline, Moves
<1>7. ASSUME NEW p \in Procs,
             ClaimLock(p) \/ ClaimSkip(p) \/ LogOutcome(p) \/ Ack(p) \/ CrawlRaises(p)
      PROVE  Unclaimed'
  <2>1. UNCHANGED <<status, form, claims>>
    BY <1>7 DEF ClaimLock, ClaimSkip, LogOutcome, Ack, CrawlRaises
  <2>2. \A q \in Procs : pc'[q] \in {"crawling", "logging"} => task'[q] = task[q] /\ pc'[q] = pc[q]
    BY <1>7 DEF TypeOK, ClaimLock, ClaimSkip, LogOutcome, Ack, CrawlRaises, Moves
  <2>3. QED
    BY <2>1, <2>2 DEF Unclaimed
<1>8. ASSUME NEW p \in Procs, ClaimCommit(p) PROVE Unclaimed'
  <2>1. task[p] \in Jobs
    BY <1>8, Busy DEF ClaimCommit, Moves
  <2>2. claims'[task[p]] # 0
    BY <1>8, <2>1 DEF TypeOK, ClaimCommit
  <2>3. QED
    BY <1>8, <2>1, <2>2 DEF TypeOK, Unclaimed, ClaimCommit, Moves
<1>9. ASSUME NEW p \in Procs, NEW final \in Terminal, SavesOutcome(p, final) PROVE Unclaimed'
  <2>1. task[p] \in Jobs /\ claims[task[p]] # 0
    BY <1>9, Busy DEF Unclaimed, SavesOutcome, Moves
  <2>2. QED
    BY <1>9, <2>1 DEF TypeOK, Unclaimed, SavesOutcome, Moves
<1>10. ASSUME NEW p \in Procs, NEW returned \in BOOLEAN, ProcDies(p, returned) PROVE Unclaimed'
  BY <1>10 DEF TypeOK, Unclaimed, ProcDies, Moves
<1>11. CASE UNCHANGED vars
  BY <1>11 DEF Unclaimed, vars
<1>12. QED
  BY <1>1, <1>2, <1>3, <1>4, <1>5, <1>6, <1>7, <1>8, <1>9, <1>10, <1>11, NextCases

LEMMA OfferedStep ==
  ASSUME IInv, Unclaimed, Offered, [Next]_vars PROVE Offered'
<1> USE DEF IInv
<1>1. ASSUME NEW j \in Jobs, NEW next \in {"mark", "publish", "done"}, CreateJob(j, next)
      PROVE  Offered'
  <2>1. form[j] = Closed
    BY <1>1 DEF TypeOK, Attached, CreateJob
  <2>2. QED
    BY <1>1, <2>1 DEF TypeOK, Offered, Reachable, CreateJob
<1>2. ASSUME NEW j \in Jobs, MarkQueued(j) \/ LogQueued(j) PROVE Offered'
  <2>1. /\ submit'[j] # "done" /\ UNCHANGED <<ready, pc, task, form, overlooked, claims, faults>>
        /\ \A k \in Jobs \ {j} : status'[k] = status[k] /\ submit'[k] = submit[k]
    BY <1>2 DEF TypeOK, MarkQueued, LogQueued, Overwrites, Writes
  <2>2. QED
    BY <2>1 DEF Offered, Reachable
<1>3. ASSUME NEW j \in Jobs, Publish(j) PROVE Offered'
  BY <1>3 DEF TypeOK, Offered, Reachable, Publish
<1>4. ASSUME NEW j \in Jobs, SubmitDies(j) PROVE Offered'
  BY <1>4 DEF TypeOK, Offered, Reachable, SubmitDies
<1>5. ASSUME NEW j \in Jobs, Requeue(j) PROVE Offered'
  BY <1>5 DEF TypeOK, Offered, Reachable, Requeue
<1>6. ASSUME NEW j \in Jobs, OpenForm(j) \/ SaveForm(j) \/ CommitForm(j) PROVE Offered'
  <2>1. UNCHANGED <<ready, pc, task, submit, claims, faults, overlooked>>
    BY <1>6 DEF OpenForm, SaveForm, CommitForm, Writes
  <2>2. \A k \in Jobs : {status'[k], form'[k]} \subseteq {status[k], form[k], Closed}
    BY <1>6 DEF TypeOK, OpenForm, SaveForm, CommitForm, Writes
  <2>3. QED
    BY <2>1, <2>2 DEF Offered, Reachable
<1>7. ASSUME NEW w \in Workers, Redeliver(w) PROVE Offered'
  BY <1>7, Busy DEF TypeOK, Offered, Reachable, Redeliver
<1>8. ASSUME NEW w \in Workers, NEW j \in Jobs, Deliver(w, j) PROVE Offered'
  <2>1. /\ task'[w] = j /\ pc'[w] = "received" /\ w \in Procs
        /\ \A k \in Jobs \ {j} : ready'[k] = ready[k]
        /\ \A q \in Procs \ {w} : task'[q] = task[q] /\ pc'[q] = pc[q]
        /\ pc[w] = "idle" /\ UNCHANGED <<status, submit, form, overlooked, claims, faults>>
    BY <1>8 DEF TypeOK, Deliver, Moves
  <2>2. \A k \in Jobs : Reachable(k) => Reachable(k)'
    BY <2>1 DEF Reachable
  <2>3. QED
    BY <2>1, <2>2 DEF Offered
<1>9. ASSUME NEW p \in Inlines, NEW j \in Jobs, PickInline(p, j) PROVE Offered'
  BY <1>9, ZenonT(60) DEF TypeOK, Offered, Reachable, PickInline, Moves
<1>10. ASSUME NEW p \in Procs, ClaimLock(p) PROVE Offered'
  BY <1>10, Busy DEF TypeOK, Offered, Reachable, ClaimLock, Moves
<1>11. ASSUME NEW p \in Procs, ClaimSkip(p) PROVE Offered'
  <2> SUFFICES ASSUME NEW j \in Jobs, "queued" \in {status[j], form[j]}, submit[j] = "done",
                      claims[j] = 0, faults[j] = 0, ~ overlooked'[j]
               PROVE  Reachable(j)'
    BY <1>11 DEF Offered, ClaimSkip
  <2>1. ~ overlooked[j] /\ (task[p] = j => ~ (saving[j] /\ status[j] \in Claimable))
    BY <1>11 DEF TypeOK, ClaimSkip
  <2>2. status[j] \in Claimable
    BY DEF TypeOK, Unclaimed
  <2>3. CASE task[p] = j
    <3>1. PICK q \in Procs : pc[q] = "claiming" /\ task[q] = j
      BY <1>11, <2>2, <2>3, <2>1 DEF ClaimSkip, Locked
    <3>2. QED
      BY <1>11, <3>1 DEF TypeOK, Reachable, ClaimSkip, Moves
  <2>4. CASE task[p] # j
    BY <1>11, <2>4, <2>1 DEF TypeOK, Offered, Reachable, ClaimSkip, Moves
  <2>5. QED
    BY <2>3, <2>4
<1>12. ASSUME NEW p \in Procs, LogOutcome(p) \/ Ack(p) \/ CrawlRaises(p) PROVE Offered'
  <2>1. /\ pc[p] \notin {"received", "claiming"} /\ UNCHANGED <<ready, status, submit, form, overlooked, claims>>
        /\ \A q \in Procs \ {p} : task'[q] = task[q] /\ pc'[q] = pc[q]
    BY <1>12 DEF TypeOK, LogOutcome, Ack, CrawlRaises, Moves
  <2>2. \A k \in Jobs : faults'[k] = 0 => faults[k] = 0
    <3>1. task[p] \in Jobs
      BY <1>12, Busy DEF LogOutcome, Ack, CrawlRaises, Moves
    <3>2. QED
      BY <1>12, <3>1 DEF TypeOK, LogOutcome, Ack, CrawlRaises
  <2>3. \A k \in Jobs : Reachable(k) => Reachable(k)'
    BY <2>1 DEF Reachable
  <2>4. QED
    BY <2>1, <2>2, <2>3 DEF Offered
<1>13. ASSUME NEW p \in Procs, ClaimCommit(p) PROVE Offered'
  <2>1. task[p] \in Jobs
    BY <1>13, Busy DEF ClaimCommit, Moves
  <2>2. claims'[task[p]] # 0
    BY <1>13, <2>1 DEF TypeOK, ClaimCommit
  <2>3. QED
    BY <1>13, <2>1, <2>2 DEF TypeOK, Offered, Reachable, ClaimCommit, Moves
<1>14. ASSUME NEW p \in Procs, NEW final \in Terminal, SavesOutcome(p, final) PROVE Offered'
  BY <1>14, Busy DEF TypeOK, Unclaimed, Offered, Reachable, SavesOutcome, Moves
<1>15. ASSUME NEW p \in Procs, NEW returned \in BOOLEAN, ProcDies(p, returned) PROVE Offered'
  BY <1>15, Busy DEF TypeOK, Offered, Reachable, ProcDies, Moves
<1>16. CASE UNCHANGED vars
  BY <1>16 DEF Offered, Reachable, vars
<1>17. QED
  BY <1>1, <1>2, <1>3, <1>4, <1>5, <1>6, <1>7, <1>8, <1>9, <1>10, <1>11, <1>12, <1>13, <1>14,
     <1>15, <1>16, NextCases

\* A claim that is skipped is acknowledged for good, and yet a published job is
\* never forgotten: whoever made the others skip it claims it.
THEOREM PublishedStaysReachable == Spec => []PublishedIsReachable
<1>1. Init => Unclaimed /\ Offered
  BY DEF Init, Unclaimed, Offered
<1>2. IInv /\ Unclaimed /\ Offered /\ [Next]_vars => (IInv /\ Unclaimed /\ Offered)'
  BY InvariantStep, UnclaimedStep, OfferedStep
<1>3. Offered => PublishedIsReachable
  BY DEF Offered, Reachable, PublishedIsReachable
<1>4. QED
  BY <1>1, <1>2, <1>3, InitInvariant, PTL DEF Spec

-----------------------------------------------------------------------------
(* The event log accounts for the status.                                   *)

Events == Statuses \X Statuses

\* The logged events, and those in flight, that leave (1) or enter (2) a status.
InLog(j, k, s)  == {i \in DOMAIN log[j] : log[j][i][k] = s}
Naming(F, k, s)  == {e \in F : e[k] = s}
Pending(j, k, s) == Naming(InFlight(j), k, s)

\* One if the event names the status.
One(named, s) == IF named = s THEN 1 ELSE 0

\* A job that does not exist has no event.
NoEventYet == \A j \in Jobs : submit[j] = "new" => log[j] = << >>

\* The job for which the account is kept.
Clean(j) == submit[j] # "new" /\ stale[j] = 0 /\ faults[j] = 0

\* One more event in the log.
LEMMA AppendCounts ==
  ASSUME TypeOK, NEW j \in Jobs, NEW e \in Events, log'[j] = Append(log[j], e)
  PROVE  \A k \in {1, 2} : \A s :
           /\ Cardinality(InLog(j, k, s)) \in Nat
           /\ Cardinality(InLog(j, k, s)') = Cardinality(InLog(j, k, s)) + One(e[k], s)
<1> SUFFICES ASSUME NEW k \in {1, 2}, NEW s
             PROVE  /\ Cardinality(InLog(j, k, s)) \in Nat
                    /\ Cardinality(InLog(j, k, s)') = Cardinality(InLog(j, k, s)) + One(e[k], s)
  OBVIOUS
<1> DEFINE n == Len(log[j]) + 1
<1>1. log[j] \in Seq(Events)
  BY DEF TypeOK, Events
<1>2. /\ Len(log[j]) \in Nat /\ DOMAIN log[j] = 1..Len(log[j])
      /\ DOMAIN log'[j] = 1..n /\ log'[j][n] = e
      /\ \A i \in 1..Len(log[j]) : log'[j][i] = log[j][i]
  <2>1. \A l \in Seq(Events), x \in Events :
          /\ Len(l) \in Nat /\ DOMAIN l = 1..Len(l)
          /\ DOMAIN Append(l, x) = 1..Len(l) + 1 /\ Append(l, x)[Len(l) + 1] = x
          /\ \A i \in 1..Len(l) : Append(l, x)[i] = l[i]
    OBVIOUS
  <2> HIDE DEF Events
  <2>2. QED
    BY <1>1, <2>1
<1>3. IsFiniteSet(InLog(j, k, s)) /\ Cardinality(InLog(j, k, s)) \in Nat
  <2>1. IsFiniteSet(1..Len(log[j]))
    BY <1>2, FS_Interval
  <2>2. InLog(j, k, s) \in SUBSET (1..Len(log[j]))
    BY <1>2 DEF InLog
  <2>3. QED
    BY <2>1, <2>2, FS_Subset, FS_CardinalityType
<1>4. n \notin InLog(j, k, s)
  BY <1>2 DEF InLog
<1>5. InLog(j, k, s)' = IF e[k] = s THEN InLog(j, k, s) \cup {n} ELSE InLog(j, k, s)
  <2>1. \A i : i \in 1..n <=> (i \in 1..Len(log[j]) \/ i = n)
    BY <1>2
  <2> HIDE DEF n
  <2>2. QED
    BY <1>2, <2>1 DEF InLog
<1>6. Cardinality(InLog(j, k, s) \cup {n}) = Cardinality(InLog(j, k, s)) + 1
  BY <1>3, <1>4, FS_AddElement
<1>7. QED
  BY <1>3, <1>5, <1>6 DEF One

LEMMA LogIsFinite ==
  ASSUME TypeOK, NEW j \in Jobs
  PROVE  \A k, s : Cardinality(InLog(j, k, s)) \in Nat
<1>1. Len(log[j]) \in Nat /\ DOMAIN log[j] = 1..Len(log[j])
  BY DEF TypeOK
<1>2. IsFiniteSet(1..Len(log[j]))
  BY <1>1, FS_Interval
<1>3. \A k, s : InLog(j, k, s) \in SUBSET (1..Len(log[j]))
  BY <1>1 DEF InLog
<1>4. QED
  BY <1>2, <1>3, FS_Subset, FS_CardinalityType

\* One more event in flight, or one less.
LEMMA FlightCounts ==
  \A F, e, k, s : IsFiniteSet(F) /\ e \notin F =>
    /\ Cardinality(Naming(F, k, s)) \in Nat
    /\ Cardinality(Naming(F \cup {e}, k, s)) = Cardinality(Naming(F, k, s)) + One(e[k], s)
<1> SUFFICES ASSUME NEW F, NEW e, NEW k, NEW s, IsFiniteSet(F), e \notin F
             PROVE  /\ Cardinality(Naming(F, k, s)) \in Nat
                    /\ Cardinality(Naming(F \cup {e}, k, s))
                         = Cardinality(Naming(F, k, s)) + One(e[k], s)
  OBVIOUS
<1> DEFINE G == Naming(F, k, s)
           H == Naming(F \cup {e}, k, s)
<1>1. IsFiniteSet(G) /\ Cardinality(G) \in Nat /\ e \notin G
  <2>1. G \in SUBSET F
    BY DEF Naming
  <2>2. QED
    BY <2>1, FS_Subset, FS_CardinalityType
<1>2. H = IF e[k] = s THEN G \cup {e} ELSE G
  BY DEF Naming
<1> HIDE DEF G, H
<1>3. Cardinality(G \cup {e}) = Cardinality(G) + 1
  BY <1>1, FS_AddElement
<1>4. Cardinality(H) = Cardinality(G) + One(e[k], s)
  <2>1. CASE e[k] = s
    BY <1>1, <1>2, <1>3, <2>1 DEF One
  <2>2. CASE e[k] # s
    BY <1>1, <1>2, <2>2 DEF One
  <2>3. QED
    BY <2>1, <2>2
<1>5. QED
  BY <1>1, <1>4 DEF G, H

\* Of a job that was never disturbed at most one crawl is about to be logged.
LEMMA FlightIsFinite ==
  ASSUME IInv, NEW j \in Jobs, stale[j] = 0
  PROVE  /\ IsFiniteSet(InFlight(j))
         /\ \A p \in Procs : Crawling(p, j) =>
              InFlight(j) = (IF submit[j] = "log" THEN {<<"pending", "queued">>} ELSE {})
                              \cup (IF pc[p] = "logging" THEN {<<"running", outcome[p]>>} ELSE {})
<1> DEFINE own == IF submit[j] = "log" THEN {<<"pending", "queued">>} ELSE {}
           loggers == {q \in Procs : task[q] = j /\ pc[q] = "logging"}
<1>1. \A p, q \in Procs : Crawling(p, j) /\ Crawling(q, j) => p = q
  BY DEF IInv, OneCrawler
<1>2. \A p \in Procs : Crawling(p, j) => loggers = IF pc[p] = "logging" THEN {p} ELSE {}
  BY <1>1 DEF Crawling
<1>3. InFlight(j) = own \cup {<<"running", outcome[q]>> : q \in loggers}
  BY DEF InFlight
<1>4. \A p \in Procs : Crawling(p, j) =>
        InFlight(j) = own \cup (IF pc[p] = "logging" THEN {<<"running", outcome[p]>>} ELSE {})
  <2> SUFFICES ASSUME NEW p \in Procs, Crawling(p, j)
               PROVE  {<<"running", outcome[q]>> : q \in loggers}
                        = IF pc[p] = "logging" THEN {<<"running", outcome[p]>>} ELSE {}
    BY <1>3
  <2>1. loggers = IF pc[p] = "logging" THEN {p} ELSE {}
    BY <1>2
  <2> HIDE DEF loggers
  <2>2. QED
    BY <2>1
<1>5. \A x : IsFiniteSet({x})
  BY FS_Singleton
<1>6. IsFiniteSet(own)
  BY <1>5, FS_EmptySet
<1>7. CASE \E p \in Procs : Crawling(p, j)
  <2>1. PICK p \in Procs : Crawling(p, j)
    BY <1>7
  <2> DEFINE one == IF pc[p] = "logging" THEN {<<"running", outcome[p]>>} ELSE {}
  <2>2. IsFiniteSet(one)
    BY <1>5, FS_EmptySet
  <2>3. InFlight(j) = own \cup one
    BY <1>4, <2>1
  <2> HIDE DEF own, one
  <2>4. QED
    BY <1>4, <1>6, <2>2, <2>3, FS_Union DEF own
<1>8. CASE ~ \E p \in Procs : Crawling(p, j)
  <2>1. loggers = {}
    BY <1>8 DEF Crawling
  <2>2. InFlight(j) = own
    <3> HIDE DEF loggers
    <3>1. QED
      BY <1>3, <2>1
  <2>3. QED
    BY <1>4, <1>6, <2>2
<1>9. QED
  BY <1>7, <1>8

\* The account of a status is the sum of both.
Account(j) ==
  \A s \in Statuses :
    Entered(j, s) + One("pending", s) = Left(j, s) + One(status[j], s)

LEMMA Sums ==
  \A j, s : /\ Entered(j, s) = Cardinality(InLog(j, 2, s)) + Cardinality(Pending(j, 2, s))
            /\ Left(j, s) = Cardinality(InLog(j, 1, s)) + Cardinality(Pending(j, 1, s))
  BY DEF Entered, Left, InLog, Pending, Naming

\* Nothing happens to a job.
LEMMA AccountKept ==
  ASSUME NEW j \in Jobs, Account(j), log'[j] = log[j], status'[j] = status[j],
         InFlight(j)' = InFlight(j)
  PROVE  Account(j)'
<1>1. \A s : Entered(j, s)' = Entered(j, s) /\ Left(j, s)' = Left(j, s)
  BY DEF Entered, Left
<1>2. QED
  BY <1>1 DEF Account

\* A change of status is written whose event follows.
LEMMA AccountOpens ==
  ASSUME IInv, NEW j \in Jobs, stale[j] = 0, Account(j), status[j] # Unsaved,
         log'[j] = log[j], NEW e, e = <<status[j], status'[j]>>,
         e \notin InFlight(j), InFlight(j)' = InFlight(j) \cup {e}
  PROVE  Account(j)'
<1> SUFFICES ASSUME NEW s \in Statuses
             PROVE  Entered(j, s)' + One("pending", s) = Left(j, s)' + One(status'[j], s)
  BY DEF Account
<1>1. IsFiniteSet(InFlight(j))
  BY FlightIsFinite
<1>2. \A k \in {1, 2} :
        /\ Cardinality(Pending(j, k, s)) \in Nat
        /\ Cardinality(Pending(j, k, s)') = Cardinality(Pending(j, k, s)) + One(e[k], s)
  <2> DEFINE F == InFlight(j)
  <2>1. \A k \in {1, 2} : /\ Pending(j, k, s)' = Naming(F \cup {e}, k, s)
                          /\ Pending(j, k, s) = Naming(F, k, s)
    BY DEF Pending, Naming
  <2>2. e \notin F /\ IsFiniteSet(F)
    BY <1>1
  <2> HIDE DEF F
  <2>3. \A k : /\ Cardinality(Naming(F, k, s)) \in Nat
               /\ Cardinality(Naming(F \cup {e}, k, s))
                    = Cardinality(Naming(F, k, s)) + One(e[k], s)
    BY <2>2, FlightCounts, SMTT(30)
  <2>4. QED
    BY <2>1, <2>3
<1>3. \A k \in {1, 2} : /\ InLog(j, k, s)' = InLog(j, k, s)
                        /\ Cardinality(InLog(j, k, s)) \in Nat
  <2>1. \A k \in {1, 2} : InLog(j, k, s)' = InLog(j, k, s)
    BY DEF InLog
  <2>2. QED
    BY <2>1, LogIsFinite DEF IInv
<1>4. e[1] = status[j] /\ e[2] = status'[j]
  OBVIOUS
<1>5. Entered(j, s) + One("pending", s) = Left(j, s) + One(status[j], s)
  BY DEF Account
<1>6. /\ Entered(j, s)' = Entered(j, s) + One(status'[j], s) /\ Entered(j, s) \in Nat
      /\ Left(j, s)' = Left(j, s) + One(status[j], s) /\ Left(j, s) \in Nat
  <2>1. /\ Entered(j, s)' = Cardinality(InLog(j, 2, s)') + Cardinality(Pending(j, 2, s)')
        /\ Left(j, s)' = Cardinality(InLog(j, 1, s)') + Cardinality(Pending(j, 1, s)')
    BY DEF Entered, Left, InLog, Pending, Naming
  <2>2. /\ One(status'[j], s) \in Nat /\ One(status[j], s) \in Nat
    BY DEF One
  <2>3. QED
    BY <1>2, <1>3, <1>4, <2>1, <2>2, Sums
<1>7. /\ One(status'[j], s) \in Nat /\ One(status[j], s) \in Nat /\ One("pending", s) \in Nat
  BY DEF One
<1>8. QED
  BY <1>5, <1>6, <1>7

\* An event that was in flight is logged.
LEMMA AccountSettles ==
  ASSUME IInv, NEW j \in Jobs, stale[j] = 0, Account(j), status'[j] = status[j],
         NEW e \in Events, log'[j] = Append(log[j], e),
         e \in InFlight(j), InFlight(j)' = InFlight(j) \ {e}
  PROVE  Account(j)'
<1> SUFFICES ASSUME NEW s \in Statuses
             PROVE  Entered(j, s)' + One("pending", s) = Left(j, s)' + One(status[j], s)
  BY DEF Account
<1>1. IsFiniteSet(InFlight(j) \ {e})
  BY FlightIsFinite, FS_Difference
<1>2. \A k \in {1, 2} :
        /\ Cardinality(Pending(j, k, s)') \in Nat
        /\ Cardinality(Pending(j, k, s)) = Cardinality(Pending(j, k, s)') + One(e[k], s)
  <2> DEFINE F == InFlight(j) \ {e}
  <2>1. InFlight(j) = F \cup {e} /\ e \notin F
    OBVIOUS
  <2>2. \A k \in {1, 2} : /\ Pending(j, k, s)' = Naming(F, k, s)
                          /\ Pending(j, k, s) = Naming(F \cup {e}, k, s)
    BY <2>1 DEF Pending, Naming
  <2>3. e \notin F /\ IsFiniteSet(F)
    BY <1>1
  <2> HIDE DEF F
  <2>4. \A k : /\ Cardinality(Naming(F, k, s)) \in Nat
               /\ Cardinality(Naming(F \cup {e}, k, s))
                    = Cardinality(Naming(F, k, s)) + One(e[k], s)
    BY <2>3, FlightCounts
  <2>5. QED
    BY <2>2, <2>4
<1>3. \A k \in {1, 2} :
        /\ Cardinality(InLog(j, k, s)) \in Nat
        /\ Cardinality(InLog(j, k, s)') = Cardinality(InLog(j, k, s)) + One(e[k], s)
  <2>1. TypeOK
    BY DEF IInv
  <2>2. QED
    BY <2>1, AppendCounts, SMTT(30)
<1>4. Entered(j, s)' = Entered(j, s) /\ Left(j, s)' = Left(j, s)
  <2>1. /\ Entered(j, s)' = Cardinality(InLog(j, 2, s)') + Cardinality(Pending(j, 2, s)')
        /\ Left(j, s)' = Cardinality(InLog(j, 1, s)') + Cardinality(Pending(j, 1, s)')
    BY DEF Entered, Left, InLog, Pending, Naming
  <2>2. One(e[1], s) \in Nat /\ One(e[2], s) \in Nat
    BY DEF One
  <2>3. QED
    BY <1>2, <1>3, <2>1, <2>2, Sums
<1>5. QED
  BY <1>4 DEF Account

\* A change of status and its event are committed at once.
LEMMA AccountCommits ==
  ASSUME IInv, NEW j \in Jobs, stale[j] = 0, Account(j),
         NEW e \in Events, log'[j] = Append(log[j], e),
         e[1] = status[j], e[2] = status'[j], InFlight(j)' = InFlight(j)
  PROVE  Account(j)'
<1> SUFFICES ASSUME NEW s \in Statuses
             PROVE  Entered(j, s)' + One("pending", s) = Left(j, s)' + One(status'[j], s)
  BY DEF Account
<1>1. \A k \in {1, 2} : /\ Cardinality(Pending(j, k, s)') = Cardinality(Pending(j, k, s))
                        /\ Cardinality(Pending(j, k, s)) \in Nat
  <2>1. \A k \in {1, 2} : Pending(j, k, s) \in SUBSET InFlight(j)
    BY DEF Pending, Naming
  <2>2. \A k \in {1, 2} : Pending(j, k, s)' = Pending(j, k, s)
    BY DEF Pending, Naming
  <2>3. QED
    BY <2>1, <2>2, FlightIsFinite, FS_Subset, FS_CardinalityType
<1>2. \A k \in {1, 2} :
        /\ Cardinality(InLog(j, k, s)) \in Nat
        /\ Cardinality(InLog(j, k, s)') = Cardinality(InLog(j, k, s)) + One(e[k], s)
  <2>1. TypeOK
    BY DEF IInv
  <2>2. QED
    BY <2>1, AppendCounts, SMTT(30)
<1>3. /\ Entered(j, s)' = Entered(j, s) + One(status'[j], s) /\ Entered(j, s) \in Nat
      /\ Left(j, s)' = Left(j, s) + One(status[j], s) /\ Left(j, s) \in Nat
  <2>1. /\ Entered(j, s)' = Cardinality(InLog(j, 2, s)') + Cardinality(Pending(j, 2, s)')
        /\ Left(j, s)' = Cardinality(InLog(j, 1, s)') + Cardinality(Pending(j, 1, s)')
    BY DEF Entered, Left, InLog, Pending, Naming
  <2>2. /\ One(status'[j], s) \in Nat /\ One(status[j], s) \in Nat
    BY DEF One
  <2>3. /\ Entered(j, s) = Cardinality(InLog(j, 2, s)) + Cardinality(Pending(j, 2, s))
        /\ Left(j, s) = Cardinality(InLog(j, 1, s)) + Cardinality(Pending(j, 1, s))
    BY Sums
  <2>4. /\ Cardinality(InLog(j, 2, s)') = Cardinality(InLog(j, 2, s)) + One(status'[j], s)
        /\ Cardinality(InLog(j, 1, s)') = Cardinality(InLog(j, 1, s)) + One(status[j], s)
    BY <1>2
  <2>5. /\ Cardinality(Pending(j, 2, s)') = Cardinality(Pending(j, 2, s))
        /\ Cardinality(Pending(j, 1, s)') = Cardinality(Pending(j, 1, s))
        /\ Cardinality(Pending(j, 2, s)) \in Nat /\ Cardinality(Pending(j, 1, s)) \in Nat
        /\ Cardinality(InLog(j, 2, s)) \in Nat /\ Cardinality(InLog(j, 1, s)) \in Nat
    BY <1>1, <1>2
  <2> DEFINE a == Cardinality(InLog(j, 2, s))   b == Cardinality(Pending(j, 2, s))
             c == Cardinality(InLog(j, 1, s))   d == Cardinality(Pending(j, 1, s))
             x == One(status'[j], s)            y == One(status[j], s)
  <2>6. /\ Entered(j, s)' = (a + x) + b /\ Entered(j, s) = a + b
        /\ Left(j, s)' = (c + y) + d /\ Left(j, s) = c + d
    BY <2>1, <2>3, <2>4, <2>5
  <2>7. a \in Nat /\ b \in Nat /\ c \in Nat /\ d \in Nat /\ x \in Nat /\ y \in Nat
    BY <2>2, <2>5
  <2> HIDE DEF a, b, c, d, x, y
  <2>8. Entered(j, s)' = Entered(j, s) + x /\ Entered(j, s) \in Nat
    <3>1. \A m, n, o \in Nat : (m + o) + n = (m + n) + o /\ m + n \in Nat
      OBVIOUS
    <3>2. QED
      BY <2>6, <2>7, <3>1, SMTT(30)
  <2>9. Left(j, s)' = Left(j, s) + y /\ Left(j, s) \in Nat
    <3>1. \A m, n, o \in Nat : (m + o) + n = (m + n) + o /\ m + n \in Nat
      OBVIOUS
    <3>2. QED
      BY <2>6, <2>7, <3>1
  <2>10. QED
    BY <2>8, <2>9 DEF x, y
<1>4. /\ One(status'[j], s) \in Nat /\ One(status[j], s) \in Nat /\ One("pending", s) \in Nat
  BY DEF One
<1>5. QED
  BY <1>3, <1>4, SMTT(30) DEF Account

\* The events in flight of a job whose loggers stay who they are.
LEMMA FlightKept ==
  ASSUME NEW j \in Jobs, (submit'[j] = "log") = (submit[j] = "log"),
         \A q \in Procs : (task'[q] = j /\ pc'[q] = "logging")
                            = (task[q] = j /\ pc[q] = "logging"),
         \A q \in Procs : task[q] = j /\ pc[q] = "logging" => outcome'[q] = outcome[q]
  PROVE  InFlight(j)' = InFlight(j)
<1> DEFINE loggers == {q \in Procs : task[q] = j /\ pc[q] = "logging"}
<1>1. loggers' = loggers
  OBVIOUS
<1>2. \A q \in loggers : outcome'[q] = outcome[q]
  OBVIOUS
<1>3. InFlight(j) = (IF submit[j] = "log" THEN {<<"pending", "queued">>} ELSE {})
                      \cup {<<"running", outcome[q]>> : q \in loggers}
  BY DEF InFlight
<1>4. InFlight(j)' = (IF submit'[j] = "log" THEN {<<"pending", "queued">>} ELSE {})
                       \cup {<<"running", outcome'[q]>> : q \in loggers'}
  BY DEF InFlight
<1> HIDE DEF loggers
<1>5. {<<"running", outcome'[q]>> : q \in loggers'} = {<<"running", outcome[q]>> : q \in loggers}
  BY <1>1, <1>2
<1>6. QED
  BY <1>3, <1>4, <1>5

\* Without a process that logs, only the submitter's event can be in flight.
LEMMA NoLogger ==
  ASSUME NEW j \in Jobs, \A q \in Procs : task[q] = j => pc[q] # "logging"
  PROVE  InFlight(j) = IF submit[j] = "log" THEN {<<"pending", "queued">>} ELSE {}
<1>1. {q \in Procs : task[q] = j /\ pc[q] = "logging"} = {}
  OBVIOUS
<1>2. {<<"running", outcome[p]>> :
         p \in {q \in Procs : task[q] = j /\ pc[q] = "logging"}} = {}
  BY <1>1
<1>3. QED
  BY <1>2 DEF InFlight

Accounts == NoEventYet /\ \A j \in Jobs : Clean(j) => Account(j)

\* The submitting process.
LEMMA SubmissionAccounts ==
  ASSUME IInv, Accounts, NEW i \in Jobs, NEW j \in Jobs, Clean(j)',
         \/ \E next \in {"mark", "publish", "done"} : CreateJob(i, next)
         \/ MarkQueued(i) \/ LogQueued(i) \/ Publish(i) \/ SubmitDies(i)
  PROVE  Account(j)'
<1> USE DEF IInv
<1>1. ASSUME NEW next \in {"mark", "publish", "done"}, CreateJob(i, next), i = j
      PROVE  Account(j)'
  <2>1. status[j] = Unsaved /\ log'[j] = << >> /\ status'[j] = "pending"
    BY <1>1 DEF TypeOK, Accounts, NoEventYet, CreateJob
  <2>2. InFlight(j)' = {}
    <3>1. \A q \in Procs : task'[q] # j
      BY <1>1, <2>1 DEF Attached, CreateJob
    <3>2. submit'[j] # "log"
      BY <1>1 DEF TypeOK, CreateJob
    <3>3. {q \in Procs : task'[q] = j /\ pc'[q] = "logging"} = {}
      BY <3>1
    <3>4. {<<"running", outcome'[p]>> :
             p \in {q \in Procs : task'[q] = j /\ pc'[q] = "logging"}} = {}
      BY <3>3
    <3>5. QED
      BY <3>2, <3>4 DEF InFlight
  <2>3. \A k, s : InLog(j, k, s)' = {} /\ Pending(j, k, s)' = {}
    BY <2>1, <2>2 DEF InLog, Pending, Naming
  <2>4. \A s : Entered(j, s)' = 0 /\ Left(j, s)' = 0
    <3>1. \A s : /\ Entered(j, s)' = Cardinality(InLog(j, 2, s)') + Cardinality(Pending(j, 2, s)')
                 /\ Left(j, s)' = Cardinality(InLog(j, 1, s)') + Cardinality(Pending(j, 1, s)')
      BY DEF Entered, Left, InLog, Pending, Naming
    <3>2. Cardinality({}) = 0
      BY FS_EmptySet
    <3>3. QED
      BY <2>3, <3>1, <3>2
  <2>5. QED
    BY <2>1, <2>4 DEF Account
<1>2. ASSUME MarkQueued(i), i = j
      PROVE  Account(j)'
  <2>1. stale[j] = 0 /\ faults[j] = 0 /\ status[j] = "pending" /\ Clean(j)
    BY <1>2 DEF TypeOK, MarkQueued, Overwrites, Writes, Clean
  <2>2. \A q \in Procs : task[q] = j => pc[q] # "logging"
    BY <2>1 DEF RowFollowsCrawler
  <2>3. InFlight(j) = {}
    BY <1>2, <2>2, NoLogger DEF MarkQueued
  <2>4. InFlight(j)' = {<<"pending", "queued">>}
    <3>1. {q \in Procs : task'[q] = j /\ pc'[q] = "logging"} = {}
      BY <1>2, <2>2 DEF MarkQueued
    <3>2. {<<"running", outcome'[p]>> :
             p \in {q \in Procs : task'[q] = j /\ pc'[q] = "logging"}} = {}
      BY <3>1
    <3>3. submit'[j] = "log"
      BY <1>2 DEF TypeOK, MarkQueued
    <3>4. QED
      BY <3>2, <3>3 DEF InFlight
  <2>5. status'[j] = "queued" /\ log'[j] = log[j]
    BY <1>2 DEF TypeOK, MarkQueued, Overwrites, Writes
  <2> DEFINE e == <<status[j], status'[j]>>
  <2>6. e \notin InFlight(j) /\ InFlight(j)' = InFlight(j) \cup {e}
    BY <2>1, <2>3, <2>4, <2>5
  <2>7. Account(j)
    BY <2>1 DEF Accounts
  <2>8. QED
    BY <2>1, <2>5, <2>6, <2>7, AccountOpens
<1>3. ASSUME LogQueued(i), i = j
      PROVE  Account(j)'
  <2> DEFINE e == <<"pending", "queued">>
  <2>1. Clean(j) /\ stale[j] = 0 /\ status'[j] = status[j]
    BY <1>3 DEF TypeOK, LogQueued, Clean
  <2>2. e \in Events /\ log'[j] = Append(log[j], e)
    BY <1>3 DEF TypeOK, LogQueued, Logged, Events
  <2> DEFINE loggers == {q \in Procs : task[q] = j /\ pc[q] = "logging"}
             theirs  == {<<"running", outcome[q]>> : q \in loggers}
  <2>3. e \notin theirs
    OBVIOUS
  <2>4. InFlight(j) = {e} \cup theirs
    BY <1>3 DEF LogQueued, InFlight
  <2>5. InFlight(j)' = theirs
    <3>1. submit'[j] # "log"
      BY <1>3 DEF TypeOK, LogQueued
    <3>2. theirs' = theirs
      BY <1>3 DEF LogQueued
    <3>3. InFlight(j)' = (IF submit'[j] = "log" THEN {e} ELSE {}) \cup theirs'
      BY DEF InFlight
    <3> HIDE DEF theirs
    <3>4. QED
      BY <3>1, <3>2, <3>3
  <2> HIDE DEF loggers, theirs, e
  <2>6. e \in InFlight(j) /\ InFlight(j)' = InFlight(j) \ {e}
    BY <2>3, <2>4, <2>5
  <2>7. Account(j)
    BY <2>1 DEF Accounts
  <2>8. QED
    BY <2>1, <2>2, <2>6, <2>7, AccountSettles
<1>4. CASE \/ Publish(i)
           \/ i # j /\ \/ \E next \in {"mark", "publish", "done"} : CreateJob(i, next)
                       \/ MarkQueued(i) \/ LogQueued(i)
  <2>1. Clean(j) /\ log'[j] = log[j] /\ status'[j] = status[j]
    BY <1>4 DEF TypeOK, Publish, CreateJob, MarkQueued, LogQueued, Overwrites, Writes, Logged, Clean
  <2>2. UNCHANGED <<pc, task, outcome>> /\ (submit'[j] = "log") = (submit[j] = "log")
    BY <1>4 DEF TypeOK, Publish, CreateJob, MarkQueued, LogQueued
  <2>3. InFlight(j)' = InFlight(j)
    BY <2>2, FlightKept
  <2>4. QED
    BY <2>1, <2>3, AccountKept DEF Accounts
<1>5. CASE SubmitDies(i)
  <2>1. i # j
    BY <1>5 DEF TypeOK, SubmitDies, Clean
  <2>2. Clean(j) /\ log'[j] = log[j] /\ status'[j] = status[j]
    BY <1>5, <2>1 DEF TypeOK, SubmitDies, Clean
  <2>3. InFlight(j)' = InFlight(j)
    BY <1>5, <2>1, FlightKept DEF TypeOK, SubmitDies
  <2>4. QED
    BY <2>2, <2>3, AccountKept DEF Accounts
<1>6. QED
  BY <1>1, <1>2, <1>3, <1>4, <1>5

\* The operator and the broker.
LEMMA OperatorAccounts ==
  ASSUME IInv, Accounts, NEW j \in Jobs, Clean(j)',
         \/ \E i \in Jobs : Requeue(i) \/ OpenForm(i) \/ SaveForm(i) \/ CommitForm(i)
         \/ \E w \in Workers : Redeliver(w)
         \/ \E w \in Workers, i \in Jobs : Deliver(w, i)
         \/ \E p \in Inlines, i \in Jobs : PickInline(p, i)
         \/ UNCHANGED vars
  PROVE  Account(j)'
<1> USE DEF IInv
<1>1. log'[j] = log[j] /\ UNCHANGED submit
  BY DEF Requeue, OpenForm, SaveForm, CommitForm, Redeliver, Deliver, PickInline, vars
<1>2. Clean(j) /\ status'[j] = status[j]
  BY DEF TypeOK, Requeue, OpenForm, SaveForm, CommitForm, Writes, Redeliver, Deliver,
         PickInline, Clean, vars
<1>3. InFlight(j)' = InFlight(j)
  <2>1. \A q \in Procs : (task'[q] = j /\ pc'[q] = "logging")
                            = (task[q] = j /\ pc[q] = "logging")
    BY SMTT(30) DEF TypeOK, Requeue, OpenForm, SaveForm, CommitForm, Redeliver, Deliver, PickInline, Moves, vars
  <2>2. UNCHANGED outcome
    BY DEF Requeue, OpenForm, SaveForm, CommitForm, Redeliver, Deliver, PickInline, vars
  <2>3. QED
    BY <1>1, <2>1, <2>2, FlightKept
<1>4. QED
  BY <1>1, <1>2, <1>3, AccountKept DEF Accounts

\* The processes.
LEMMA CrawlerAccounts ==
  ASSUME IInv, Accounts, NEW j \in Jobs, Clean(j)', NEW p \in Procs,
         \/ ClaimLock(p) \/ ClaimSkip(p) \/ ClaimCommit(p)
         \/ LogOutcome(p) \/ Ack(p) \/ CrawlRaises(p)
         \/ \E final \in Terminal : SavesOutcome(p, final)
         \/ \E returned \in BOOLEAN : ProcDies(p, returned)
  PROVE  Account(j)'
<1> USE DEF IInv
<1>1. task[p] \in Jobs
  <2>1. pc[p] # "idle"
    BY DEF ClaimLock, ClaimSkip, ClaimCommit, LogOutcome, Ack, CrawlRaises, SavesOutcome,
           ProcDies, Moves
  <2>2. QED
    BY <2>1, Busy
<1>2. UNCHANGED submit
  BY DEF ClaimLock, ClaimSkip, ClaimCommit, LogOutcome, Ack, CrawlRaises, SavesOutcome,
         ProcDies
<1> DEFINE Fails == CrawlRaises(p) \/ \E returned \in BOOLEAN : ProcDies(p, returned)
<1>10. ASSUME Fails PROVE task[p] # j
  <2>1. faults'[j] = 0 /\ faults \in [Jobs -> Nat]
    BY DEF TypeOK, Clean
  <2>2. \A n \in Nat : n + 1 # 0
    OBVIOUS
  <2>3. faults' = [faults EXCEPT ![task[p]] = @ + 1]
    BY <1>10 DEF CrawlRaises, ProcDies
  <2>4. QED
    BY <1>1, <2>1, <2>2, <2>3
<1>3. Clean(j)
  <2>1. UNCHANGED stale
    BY DEF ClaimLock, ClaimSkip, ClaimCommit, LogOutcome, Ack, CrawlRaises, SavesOutcome,
           ProcDies
  <2>2. faults'[j] = faults[j]
    BY <1>1, <1>10, ZenonT(60) DEF TypeOK, ClaimLock, ClaimSkip, ClaimCommit, LogOutcome, Ack,
           CrawlRaises, SavesOutcome, ProcDies
  <2>3. QED
    BY <1>2, <2>1, <2>2 DEF Clean
<1>4. Account(j) /\ stale[j] = 0
  BY <1>3 DEF Accounts, Clean
<1>5. ASSUME task[p] # j
      PROVE  Account(j)'
  <2>1. log'[j] = log[j] /\ status'[j] = status[j]
    BY <1>1, <1>5 DEF TypeOK, ClaimLock, ClaimSkip, ClaimCommit, LogOutcome, Ack,
           CrawlRaises, SavesOutcome, ProcDies, Logged
  <2>2. \A q \in Procs : (task'[q] = j /\ pc'[q] = "logging")
                            = (task[q] = j /\ pc[q] = "logging")
    <3>1. \A q \in Procs : q # p => pc'[q] = pc[q] /\ task'[q] = task[q]
      BY ZenonT(60) DEF TypeOK, ClaimLock, ClaimSkip, ClaimCommit, LogOutcome, Ack, CrawlRaises,
             SavesOutcome, ProcDies, Moves
    <3>2. task'[p] # j
      <4>1. task'[p] = task[p] \/ task'[p] = Nobody
        BY DEF TypeOK, ClaimLock, ClaimSkip, ClaimCommit, LogOutcome, Ack, CrawlRaises,
               SavesOutcome, ProcDies
      <4>2. QED
        BY <1>5, <4>1
    <3>3. QED
      BY <1>5, <3>1, <3>2
  <2>3. \A q \in Procs : task[q] = j => outcome'[q] = outcome[q]
    BY <1>5 DEF TypeOK, ClaimLock, ClaimSkip, ClaimCommit, LogOutcome, Ack,
           CrawlRaises, SavesOutcome, ProcDies
  <2>4. InFlight(j)' = InFlight(j)
    BY <1>2, <2>2, <2>3, FlightKept
  <2>5. QED
    BY <1>4, <2>1, <2>4, AccountKept
<1>6. CASE ClaimLock(p) \/ ClaimSkip(p) \/ Ack(p)
  <2>1. log'[j] = log[j] /\ status'[j] = status[j] /\ UNCHANGED outcome
    BY <1>6 DEF ClaimLock, ClaimSkip, Ack
  <2>2. \A q \in Procs : (task'[q] = j /\ pc'[q] = "logging")
                            = (task[q] = j /\ pc[q] = "logging")
    BY <1>6 DEF TypeOK, ClaimLock, ClaimSkip, Ack, Moves
  <2>3. InFlight(j)' = InFlight(j)
    BY <1>2, <2>1, <2>2, FlightKept
  <2>4. QED
    BY <1>4, <2>1, <2>3, AccountKept
<1>7. ASSUME ClaimCommit(p), task[p] = j
      PROVE  Account(j)'
  <2> DEFINE e == <<status[j], status'[j]>>
  <2>1. status'[j] = "running" /\ status[j] \in Statuses
    BY <1>7 DEF TypeOK, ClaimCommit, Attached, Moves
  <2>2. e \in Events /\ log'[j] = Append(log[j], e)
    BY <1>7, <2>1 DEF TypeOK, ClaimCommit, Logged, Events
  <2>3. \A q \in Procs : (task'[q] = j /\ pc'[q] = "logging")
                            = (task[q] = j /\ pc[q] = "logging")
    BY <1>7 DEF TypeOK, ClaimCommit, Moves
  <2>4. InFlight(j)' = InFlight(j)
    BY <1>2, <1>7, <2>3, FlightKept DEF ClaimCommit
  <2>5. e[1] = status[j] /\ e[2] = status'[j]
    OBVIOUS
  <2> HIDE DEF e
  <2>6. QED
    BY <1>4, <2>2, <2>4, <2>5, AccountCommits
<1>8. ASSUME NEW final \in Terminal, SavesOutcome(p, final), task[p] = j
      PROVE  Account(j)'
  <2>1. status[j] = "running" /\ status'[j] = final /\ log'[j] = log[j]
    BY <1>4, <1>8 DEF TypeOK, SavesOutcome, RowFollowsCrawler, Moves
  <2>2. Crawling(p, j) /\ pc[p] # "logging"
    BY <1>8 DEF SavesOutcome, Crawling, Moves
  <2>3. InFlight(j) = IF submit[j] = "log" THEN {<<"pending", "queued">>} ELSE {}
    <3>1. \A q \in Procs : task[q] = j => pc[q] # "logging"
      BY <1>4, <2>2 DEF OneCrawler, Crawling
    <3>2. QED
      BY <3>1, NoLogger
  <2>4. InFlight(j)' = InFlight(j) \cup {<<"running", final>>}
    <3>1. \A q \in Procs : (task'[q] = j /\ pc'[q] = "logging") <=> q = p
      BY <1>4, <1>8, <2>2 DEF TypeOK, OneCrawler, Crawling, SavesOutcome, Moves
    <3>2. {q \in Procs : task'[q] = j /\ pc'[q] = "logging"} = {p}
      BY <3>1
    <3>3. outcome'[p] = final
      BY <1>8 DEF TypeOK, SavesOutcome
    <3>4. {<<"running", outcome'[r]>> :
             r \in {q \in Procs : task'[q] = j /\ pc'[q] = "logging"}} = {<<"running", final>>}
      BY <3>2, <3>3
    <3>5. QED
      BY <1>2, <2>3, <3>4 DEF InFlight
  <2>5. <<status[j], status'[j]>> = <<"running", final>>
    BY <2>1
  <2>6. <<"running", final>> \notin InFlight(j)
    BY <2>3
  <2>7. QED
    BY <1>4, <2>1, <2>4, <2>5, <2>6, AccountOpens
<1>9. ASSUME LogOutcome(p), task[p] = j
      PROVE  Account(j)'
  <2> DEFINE e == <<"running", outcome[p]>>
             own == IF submit[j] = "log" THEN {<<"pending", "queued">>} ELSE {}
  <2>1. pc[p] = "logging" /\ Crawling(p, j) /\ status'[j] = status[j]
    BY <1>9 DEF LogOutcome, Moves, Crawling
  <2>2. e \in Events /\ log'[j] = Append(log[j], e)
    BY <1>9, <2>1 DEF TypeOK, LogOutcome, Logged, Attached, Events
  <2>3. InFlight(j) = own \cup {e}
    BY <1>4, <2>1, FlightIsFinite
  <2>4. InFlight(j)' = own
    <3>1. \A q \in Procs : task'[q] = j => pc'[q] # "logging"
      BY <1>4, <1>9, <2>1 DEF TypeOK, OneCrawler, Crawling, LogOutcome, Moves
    <3>2. {q \in Procs : task'[q] = j /\ pc'[q] = "logging"} = {}
      BY <3>1
    <3>3. {<<"running", outcome'[r]>> :
             r \in {q \in Procs : task'[q] = j /\ pc'[q] = "logging"}} = {}
      BY <3>2
    <3>4. QED
      BY <1>2, <3>3 DEF InFlight
  <2>5. e \notin own
    OBVIOUS
  <2> HIDE DEF e, own
  <2>6. e \in InFlight(j) /\ InFlight(j)' = InFlight(j) \ {e}
    BY <2>3, <2>4, <2>5
  <2>7. QED
    BY <1>4, <2>1, <2>2, <2>6, AccountSettles
<1>11. QED
  BY <1>5, <1>6, <1>7, <1>8, <1>9, <1>10

LEMMA AccountsStep ==
  ASSUME IInv, Accounts, [Next]_vars PROVE Accounts'
<1>1. NoEventYet'
  <2> SUFFICES ASSUME NEW j \in Jobs, submit'[j] = "new" PROVE log'[j] = << >>
    BY DEF NoEventYet
  <2>1. submit[j] = "new"
    <3>1. submit \in [Jobs -> SubmitSteps]
      BY DEF IInv, TypeOK
    <3>2. ASSUME NEW i \in Jobs, NEW next \in {"mark", "publish", "done"}, CreateJob(i, next)
          PROVE  submit[j] = "new"
      BY <3>1, <3>2 DEF CreateJob
    <3>3. ASSUME NEW i \in Jobs, MarkQueued(i) \/ LogQueued(i) \/ Publish(i) \/ SubmitDies(i)
          PROVE  submit[j] = "new"
      BY <3>1, <3>3 DEF MarkQueued, LogQueued, Publish, SubmitDies
    <3>4. CASE UNCHANGED submit
      BY <3>4
    <3>5. QED
      BY <3>2, <3>3, <3>4, NextCases
         DEF Requeue, OpenForm, SaveForm, CommitForm, Redeliver, Deliver, PickInline, ClaimLock,
             ClaimSkip, ClaimCommit, LogOutcome, Ack, CrawlRaises, SavesOutcome, ProcDies,
             vars
  <2>2. status[j] = Unsaved /\ log[j] = << >>
    BY <2>1 DEF IInv, TypeOK, Accounts, NoEventYet
  <2>3. \A p \in Procs : task[p] # j
    BY <2>2 DEF IInv, Attached
  <2>4. log'[j] = log[j]
    BY <2>1, <2>3, NextCases, ZenonT(60) DEF IInv, TypeOK, CreateJob, MarkQueued, LogQueued, Publish,
       SubmitDies, Requeue, OpenForm, SaveForm, CommitForm, Redeliver, Deliver, PickInline, ClaimLock,
       ClaimSkip, ClaimCommit, LogOutcome, Ack, CrawlRaises, SavesOutcome, ProcDies, Logged,
       vars
  <2>5. QED
    BY <2>2, <2>4
<1>2. ASSUME NEW j \in Jobs, Clean(j)'
      PROVE  Account(j)'
  BY <1>2, SubmissionAccounts, OperatorAccounts, CrawlerAccounts, NextCases
<1>3. QED
  BY <1>1, <1>2 DEF Accounts

\* LogAccountsForStatus: whoever writes the status, the crawl's and the
\* submission's events add up to it, until a stale write or a fault.
THEOREM LogIsComplete == Spec => []LogAccountsForStatus
<1>1. Init => Accounts
  BY DEF Init, Accounts, NoEventYet, Clean
<1>2. IInv /\ Accounts /\ [Next]_vars => Accounts'
  BY AccountsStep
<1>3. IInv /\ Accounts => LogAccountsForStatus
  <2> SUFFICES ASSUME Accounts, NEW j \in Jobs, Clean(j), NEW s \in Statuses
               PROVE  Entered(j, s) + Is(s = "pending") = Left(j, s) + Is(s = status[j])
    BY DEF LogAccountsForStatus, Clean
  <2>1. Entered(j, s) + One("pending", s) = Left(j, s) + One(status[j], s)
    BY DEF Accounts, Account
  <2>2. Is(s = "pending") = One("pending", s) /\ Is(s = status[j]) = One(status[j], s)
    BY DEF Is, One
  <2>3. QED
    BY <2>1, <2>2
<1>4. QED
  BY <1>1, <1>2, <1>3, Invariant, PTL DEF Spec
=============================================================================
