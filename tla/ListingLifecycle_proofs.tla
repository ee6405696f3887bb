---------------------- MODULE ListingLifecycle_proofs ----------------------
(***************************************************************************)
(* What crawls, sweeps and the operator together promise of the rows of    *)
(* the listings table, for any number of each and any thresholds.          *)
(***************************************************************************)
EXTENDS ListingLifecycle, TLAPS

\* The rows a sweep holds locked.
Missed(s) == {l \in Listings : sweep[s].held[l] # Absent}

\* What is locked: an upsert holds at most one row, which still has the status
\* it read; a sweep holds rows that are as it read them, visible and older than
\* its crawl; and no row is held twice.
Locks ==
  /\ \A c \in Crawls : upsert[c].listing = None => upsert[c] = Idle
  /\ \A c \in Crawls : upsert[c].listing # None => phase[c] = "running"
  /\ \A c \in Crawls : upsert[c].was # "absent" =>
       row[upsert[c].listing].status = upsert[c].was
  /\ \A c, d \in Crawls :
       upsert[c].was # "absent" /\ upsert[d].was # "absent"
         /\ upsert[c].listing = upsert[d].listing => c = d
  /\ \A c \in Crawls, s \in Sweepers :
       upsert[c].was # "absent" => upsert[c].listing \notin Missed(s)
  /\ \A s, t \in Sweepers : \A l \in Missed(s) \cap Missed(t) : s = t
  /\ \A s \in Sweepers : \A l \in Missed(s) :
       /\ sweep[s].step = "locked"
       /\ row[l] = sweep[s].held[l]
       /\ row[l].status \in Sweepable
       /\ row[l].lastSeen < startedAt[sweep[s].crawl]

\* A sweep holds its crawl alone, and the crawl is over and not swept.
CrawlsHeld ==
  /\ \A c \in Crawls : sweptAt[c] => phase[c] = "succeeded"
  /\ \A s \in Sweepers : sweep[s].step # "idle" =>
       /\ sweep[s].crawl \in Crawls
       /\ phase[sweep[s].crawl] = "succeeded"
       /\ ~ sweptAt[sweep[s].crawl]
  /\ \A s \in Sweepers : sweep[s].step = "idle" => sweep[s].held = NoRows /\ sweep[s].crawl = None
  /\ \A s, t \in Sweepers :
       sweep[s].crawl = sweep[t].crawl /\ sweep[s].crawl # None => s = t

\* A crawl charges nobody before it ends, and one that is not swept no more often
\* than its form has put NULL over the mark.
Uncharged ==
  \A c \in Crawls, l \in Listings :
    /\ ~ sweptAt[c] => charged[c][l] <= unmarked[c]
    /\ charged[c][l] > 0 => phase[c] = "succeeded"

\* What no earlier crawl and no form overwrote is as new as every crawl that saw
\* it; and a crawl stamps its rows after it was claimed.
Ages ==
  /\ \A c \in Crawls : phase[c] \in {"new", "claimed"} => saw[c] = {}
  /\ \A c \in Crawls : phase[c] = "claimed" => startedAt[c] <= clock
  /\ \A c \in Crawls : phase[c] \in {"running", "succeeded", "unfit"}
                         => startedAt[c] <= seenAt[c]
  /\ \A c \in Crawls : \A l \in saw[c] :
       ~ backdated[l] /\ ~ edited[l] => row[l].lastSeen >= seenAt[c]

\* An identity that has no row has no event either.
Unlogged == \A l \in Listings : ~ Exists(l) => logged[l] = "active"

IInv ==
  /\ TypeOK /\ Locks /\ CrawlsHeld /\ Uncharged /\ ChargedOnce /\ Ages
  /\ ChargedWasMissed /\ MissesAreTheStreak /\ StatusFollowsMisses
  /\ Unlogged /\ EventsFollowStatus

USE LifecycleAssumption
    DEF LifecycleAssumption, ListingStatus, Sweepable, Gone, Absent, Idle, Resting, Closed, forms

-----------------------------------------------------------------------------
\* The columns of a row, and of the place of one that does not exist.
LEMMA Columns ==
  ASSUME NEW r \in Rows \cup {Absent}
  PROVE  /\ r.status \in ListingStatus \cup {"absent"}
         /\ r # Absent <=> r.status # "absent"
         /\ r # Absent => r \in Rows
         /\ r.misses \in Nat /\ r.lastSeen \in Nat
<1>1. CASE r = Absent
  BY <1>1
<1>2. CASE r \in Rows
  <2>1. r.status \in ListingStatus /\ r.misses \in Nat /\ r.lastSeen \in Nat
    BY <1>2 DEF Rows
  <2>2. r # Absent
    BY <2>1
  <2>3. QED
    BY <1>2, <2>1, <2>2
<1>3. QED
  BY <1>1, <1>2

\* The same of the table.
LEMMA RowColumns ==
  ASSUME TypeOK, NEW l \in Listings
  PROVE  /\ row[l].status \in ListingStatus \cup {"absent"}
         /\ Exists(l) <=> row[l].status # "absent"
         /\ Exists(l) => row[l] \in Rows
         /\ row[l].misses \in Nat /\ row[l].lastSeen \in Nat
<1>1. row[l] \in Rows \cup {Absent}
  BY DEF TypeOK
<1>2. QED
  BY <1>1, Columns DEF Exists

\* Before the first crawl.
LEMMA InitInvariant == Init => IInv
<1> SUFFICES ASSUME Init PROVE IInv
  OBVIOUS
<1>1. TypeOK
  <2>1. 0 \in 0..MaxClock
    OBVIOUS
  <2>2. row \in [Listings -> Rows \cup {Absent}] /\ form \in [Listings -> Rows \cup {Closed}]
    BY DEF Init
  <2>3. sweep \in [Sweepers -> [step : {"idle", "begun", "observed", "locked"},
                                crawl : Crawls \cup {None},
                                held : [Listings -> Rows \cup {Absent}]]]
    BY DEF Init, NoRows
  <2>4. upsert \in [Crawls -> [listing : Listings \cup {None},
                               was : ListingStatus \cup {"absent"}]]
    BY DEF Init
  <2>5. charged \in [Crawls -> [Listings -> Nat]] /\ streak \in [Listings -> Nat]
    BY DEF Init
  <2>6. /\ sweptAt \in [Crawls -> BOOLEAN] /\ edited \in [Listings -> BOOLEAN]
        /\ backdated \in [Listings -> BOOLEAN]
    BY DEF Init
  <2>7. QED
    BY <2>1, <2>2, <2>3, <2>4, <2>5, <2>6 DEF Init, TypeOK
<1>2. Locks /\ CrawlsHeld
  BY DEF Init, Locks, CrawlsHeld, Missed, NoRows
<1>3. Uncharged /\ ChargedOnce /\ Ages /\ ChargedWasMissed
  BY DEF Init, Uncharged, ChargedOnce, Ages, ChargedWasMissed
<1>4. MissesAreTheStreak /\ StatusFollowsMisses /\ Unlogged /\ EventsFollowStatus
  BY DEF Init, MissesAreTheStreak, StatusFollowsMisses, Unlogged, EventsFollowStatus, Exists
<1>5. QED
  BY <1>1, <1>2, <1>3, <1>4 DEF IInv

\* The cases of the next-state relation.
LEMMA NextCases ==
  ASSUME [Next]_vars
  PROVE  \/ Tick
         \/ \E c \in Crawls : Claim(c) \/ BeginRun(c) \/ UpsertConflict(c)
         \/ \E c \in Crawls, l \in Listings : UpsertRead(c, l)
         \/ \E c \in Crawls, here \in BOOLEAN : UpsertCommit(c, here)
         \/ \E c \in Crawls, succeeded \in BOOLEAN : Finish(c, succeeded)
         \/ \E s \in Sweepers, c \in Crawls : SweepBegin(s, c)
         \/ \E s \in Sweepers :
              SweepSkip(s) \/ SweepObserve(s) \/ SweepLock(s) \/ SweepCommit(s) \/ SweepDies(s)
         \/ \E l \in Listings : OpenForm(l)
         \/ \E l \in Listings : \E chosen \in Choices \cup {form[l].status} :
              SaveForm(l, chosen)
         \/ \E c \in Crawls : OpenJobForm(c) \/ SaveJobForm(c)
         \/ UNCHANGED vars
  BY DEF Next, Crawl, Sweep, Operator, JobOperator

-----------------------------------------------------------------------------
(* What the steps that write rows do to them.                              *)

\* _upsert: the row it locked, or the one it creates, and no other.
LEMMA Upserted ==
  ASSUME TypeOK, Locks, NEW c \in Crawls, NEW here \in BOOLEAN, UpsertCommit(c, here),
         NEW l, l = upsert[c].listing
  PROVE  /\ l \in Listings
         /\ row[l].status = upsert[c].was
         /\ row'[l] = Refreshed(c, upsert[c].was, here)
         /\ row'[l] \in Rows
         /\ row'[l].misses = 0 /\ row'[l].lastSeen = seenAt[c]
         /\ row'[l].status = IF row[l].status \in Gone \cup {"absent"} THEN "active"
                             ELSE row[l].status
         /\ \A m \in Listings \ {l} : row'[m] = row[m]
<1>1. l \in Listings /\ upsert[c].was \in ListingStatus \cup {"absent"} /\ seenAt[c] \in Nat
  BY DEF TypeOK, UpsertCommit
<1>2. row[l].status = upsert[c].was
  BY <1>1, RowColumns DEF Locks, UpsertCommit
<1>3. row'[l] = Refreshed(c, upsert[c].was, here) /\ \A m \in Listings \ {l} : row'[m] = row[m]
  BY <1>1 DEF TypeOK, UpsertCommit
<1>4. row'[l] = [status |-> IF row[l].status \in Gone \cup {"absent"} THEN "active"
                            ELSE row[l].status,
                 misses |-> 0, lastSeen |-> seenAt[c], inScope |-> here]
  BY <1>2, <1>3 DEF Refreshed
<1>5. row'[l] \in Rows
  BY <1>1, <1>2, <1>4 DEF Rows
<1>6. QED
  BY <1>1, <1>2, <1>3, <1>4, <1>5

\* _sweep_job: the rows it locked are charged one miss each.
LEMMA Charged ==
  ASSUME TypeOK, Locks, CrawlsHeld, NEW s \in Sweepers, SweepCommit(s)
  PROVE  /\ \A l \in Missed(s) :
              /\ l \in Listings /\ Exists(l) /\ row'[l] \in Rows
              /\ row'[l].misses = row[l].misses + 1
              /\ row'[l].status = TargetStatus(row[l].misses + 1)
              /\ row'[l].lastSeen = row[l].lastSeen
         /\ \A l \in Listings \ Missed(s) : row'[l] = row[l]
         /\ row' \in [Listings -> Rows \cup {Absent}]
<1>1. Missed(s) \subseteq Listings
  BY DEF Missed
<1>2. \A l \in Listings \ Missed(s) : row'[l] = row[l]
  BY DEF SweepCommit, Missed
<1>3. ASSUME NEW l \in Missed(s)
      PROVE  /\ l \in Listings /\ Exists(l) /\ row'[l] \in Rows
             /\ row'[l].misses = row[l].misses + 1
             /\ row'[l].status = TargetStatus(row[l].misses + 1)
             /\ row'[l].lastSeen = row[l].lastSeen
  <2>1. l \in Listings /\ Exists(l) /\ row[l] \in Rows /\ row[l].misses \in Nat
    BY <1>1, RowColumns DEF Locks
  <2>2. row'[l] = [row[l] EXCEPT !.misses = row[l].misses + 1,
                                 !.status = TargetStatus(row[l].misses + 1)]
    <3>1. row'[l] = AfterMiss(l, sweep[s].held[l])
      BY <2>1, <1>3 DEF SweepCommit, Missed
    <3>2. sweep[s].held[l] = row[l]
      BY <1>3 DEF Locks
    <3>3. QED
      BY <3>1, <3>2 DEF AfterMiss
  <2>3. TargetStatus(row[l].misses + 1) \in ListingStatus
    BY DEF TargetStatus
  <2>4. /\ row'[l].misses = row[l].misses + 1 /\ row'[l].lastSeen = row[l].lastSeen
        /\ row'[l].status = TargetStatus(row[l].misses + 1)
    BY <2>1, <2>2 DEF Rows
  <2>5. row'[l] \in Rows
    <3>1. \A r \in Rows, misses \in Nat, status \in ListingStatus :
            [r EXCEPT !.misses = misses, !.status = status] \in Rows
      BY DEF Rows
    <3>2. row[l].misses + 1 \in Nat
      BY <2>1
    <3>3. [row[l] EXCEPT !.misses = row[l].misses + 1,
                         !.status = TargetStatus(row[l].misses + 1)] \in Rows
      BY <2>1, <2>3, <3>1, <3>2
    <3>4. QED
      BY <2>2, <3>3
  <2>6. QED
    BY <2>1, <2>4, <2>5
<1>4. row' = [l \in Listings |-> row'[l]]
  BY DEF SweepCommit
<1>5. \A l \in Listings : row'[l] \in Rows \cup {Absent}
  BY <1>2, <1>3 DEF TypeOK
<1>6. QED
  BY <1>2, <1>3, <1>4, <1>5

\* The admin form writes a row, and marks it as edited if that changes it.
LEMMA Saved ==
  ASSUME TypeOK, NEW l \in Listings, NEW chosen \in Choices \cup {form[l].status},
         SaveForm(l, chosen)
  PROVE  /\ row'[l] \in Rows
         /\ \A m \in Listings \ {l} : row'[m] = row[m]
         /\ \A m \in Listings : edited[m] => edited'[m]
         /\ ~ edited'[l] => row'[l] = row[l]
         /\ edited' \in [Listings -> BOOLEAN]
         /\ form[l] # Closed /\ form'[l] = Closed
<1>1. form[l] \in Rows
  BY DEF TypeOK, SaveForm
<1>2. chosen \in ListingStatus
  BY <1>1 DEF Rows
<1>3. [form[l] EXCEPT !.status = chosen] \in Rows
  BY <1>1, <1>2 DEF Rows
<1>4. row'[l] = [form[l] EXCEPT !.status = chosen]
      /\ \A m \in Listings \ {l} : row'[m] = row[m]
  BY DEF TypeOK, SaveForm
<1>5. /\ edited' = [edited EXCEPT ![l] = edited[l]
                      \/ [form[l] EXCEPT !.status = chosen] # row[l]]
      /\ edited \in [Listings -> BOOLEAN]
  BY DEF TypeOK, SaveForm
<1>6. edited' \in [Listings -> BOOLEAN]
  BY <1>5
<1>7. (\A m \in Listings : edited[m] => edited'[m]) /\ (~ edited'[l] => row'[l] = row[l])
  BY <1>4, <1>5
<1>8. form[l] # Closed /\ form'[l] = Closed
  BY DEF TypeOK, SaveForm
<1>9. QED
  BY <1>3, <1>4, <1>6, <1>7, <1>8

-----------------------------------------------------------------------------
(* Each part of the invariant is preserved by every action.                 *)

\* The states of a sweeper.
Sweeps == [step : {"idle", "begun", "observed", "locked"}, crawl : Crawls \cup {None},
           held : [Listings -> Rows \cup {Absent}]]

\* Types.
LEMMA TypeStep ==
  ASSUME TypeOK, Locks, CrawlsHeld, [Next]_vars
  PROVE  TypeOK'
<1>1. ASSUME Tick PROVE TypeOK'
  BY <1>1 DEF TypeOK, Tick, ghosts
<1>2. ASSUME NEW c \in Crawls, Claim(c) PROVE TypeOK'
  BY <1>2 DEF TypeOK, Claim, ghosts
<1>3. ASSUME NEW c \in Crawls, BeginRun(c) PROVE TypeOK'
  BY <1>3 DEF TypeOK, BeginRun, ghosts
<1>4. ASSUME NEW c \in Crawls, UpsertConflict(c) PROVE TypeOK'
  <2>1. upsert[c].listing \in Listings /\ row[upsert[c].listing].status \in ListingStatus \cup {"absent"}
    BY <1>4, RowColumns DEF TypeOK, UpsertConflict
  <2>2. [upsert[c] EXCEPT !.was = row[upsert[c].listing].status]
          \in [listing : Listings \cup {None}, was : ListingStatus \cup {"absent"}]
    <3>1. \A u \in [listing : Listings \cup {None}, was : ListingStatus \cup {"absent"}],
             was \in ListingStatus \cup {"absent"} :
            [u EXCEPT !.was = was]
              \in [listing : Listings \cup {None}, was : ListingStatus \cup {"absent"}]
      OBVIOUS
    <3>2. upsert[c] \in [listing : Listings \cup {None}, was : ListingStatus \cup {"absent"}]
      BY DEF TypeOK
    <3>3. QED
      BY <2>1, <3>1, <3>2
  <2>3. upsert' \in [Crawls -> [listing : Listings \cup {None},
                               was : ListingStatus \cup {"absent"}]]
    BY <1>4, <2>2 DEF TypeOK, UpsertConflict
  <2>4. QED
    BY <1>4, <2>3 DEF TypeOK, UpsertConflict, ghosts
<1>5. ASSUME NEW c \in Crawls, NEW l \in Listings, UpsertRead(c, l) PROVE TypeOK'
  <2>1. row[l].status \in ListingStatus \cup {"absent"}
    BY RowColumns
  <2>2. QED
    BY <1>5, <2>1 DEF TypeOK, UpsertRead, ghosts
<1>6. ASSUME NEW c \in Crawls, NEW here \in BOOLEAN, UpsertCommit(c, here) PROVE TypeOK'
  <2>1. /\ upsert[c].listing \in Listings /\ row'[upsert[c].listing] \in Rows
        /\ \A m \in Listings \ {upsert[c].listing} : row'[m] = row[m]
    BY <1>6, Upserted
  <2>2. row' \in [Listings -> Rows \cup {Absent}]
    BY <1>6, <2>1 DEF TypeOK, UpsertCommit
  <2>3. logged' \in [Listings -> ListingStatus]
    BY <1>6, <2>1 DEF TypeOK, UpsertCommit, NewestEvent
  <2>4. /\ upsert' \in [Crawls -> [listing : Listings \cup {None},
                                   was : ListingStatus \cup {"absent"}]]
        /\ saw' \in [Crawls -> SUBSET Listings] /\ streak' \in [Listings -> Nat]
    BY <1>6, <2>1 DEF TypeOK, UpsertCommit
  <2>5. backdated' \in [Listings -> BOOLEAN]
    BY <1>6, <2>1 DEF TypeOK, UpsertCommit
  <2>6. QED
    BY <1>6, <2>2, <2>3, <2>4, <2>5 DEF TypeOK, UpsertCommit
<1>7. ASSUME NEW c \in Crawls, NEW succeeded \in BOOLEAN, Finish(c, succeeded) PROVE TypeOK'
  BY <1>7 DEF TypeOK, Finish, ghosts
<1>8. ASSUME NEW s \in Sweepers, NEW c \in Crawls, SweepBegin(s, c) PROVE TypeOK'
  BY <1>8 DEF TypeOK, SweepBegin, ghosts
<1>9. ASSUME NEW s \in Sweepers, SweepSkip(s) PROVE TypeOK'
  BY <1>9 DEF TypeOK, SweepSkip, ghosts, NoRows
<1>10. ASSUME NEW s \in Sweepers, SweepObserve(s) PROVE TypeOK'
  <2>1. [sweep[s] EXCEPT !.step = "observed"] \in Sweeps
    <3>1. \A w \in Sweeps : [w EXCEPT !.step = "observed"] \in Sweeps
      BY DEF Sweeps
    <3>2. sweep[s] \in Sweeps
      BY DEF TypeOK, Sweeps
    <3>3. QED
      BY <3>1, <3>2
  <2>2. sweep' \in [Sweepers -> Sweeps]
    BY <1>10, <2>1 DEF TypeOK, SweepObserve, Sweeps
  <2>3. QED
    BY <1>10, <2>2 DEF TypeOK, SweepObserve, Sweeps, ghosts
<1>11. ASSUME NEW s \in Sweepers, SweepLock(s) PROVE TypeOK'
  <2> DEFINE held == [l \in Listings |->
                       IF /\ l \in Scoped
                          /\ row[l].lastSeen < startedAt[sweep[s].crawl]
                          /\ ~ Locked(l)
                         THEN row[l] ELSE Absent]
  <2>1. held \in [Listings -> Rows \cup {Absent}]
    BY DEF TypeOK
  <2>2. sweep' = [sweep EXCEPT ![s] = [@ EXCEPT !.step = "locked", !.held = held]]
    BY <1>11 DEF SweepLock
  <2> HIDE DEF held
  <2>3. [sweep[s] EXCEPT !.step = "locked", !.held = held] \in Sweeps
    <3>1. \A w \in Sweeps, h \in [Listings -> Rows \cup {Absent}] :
            [w EXCEPT !.step = "locked", !.held = h] \in Sweeps
      BY DEF Sweeps
    <3>2. sweep[s] \in Sweeps
      BY DEF TypeOK, Sweeps
    <3>3. QED
      BY <2>1, <3>1, <3>2
  <2>4. sweep' \in [Sweepers -> Sweeps]
    BY <2>2, <2>3 DEF TypeOK, Sweeps
  <2>5. QED
    BY <1>11, <2>4 DEF TypeOK, SweepLock, Sweeps, ghosts
<1>12. ASSUME NEW s \in Sweepers, SweepCommit(s) PROVE TypeOK'
  <2>1. row' \in [Listings -> Rows \cup {Absent}]
    BY <1>12, Charged
  <2>2. logged' \in [Listings -> ListingStatus]
    <3>1. \A l \in Listings : TargetStatus(sweep[s].held[l].misses + 1) \in ListingStatus
      BY DEF TargetStatus
    <3>2. QED
      BY <1>12, <3>1 DEF TypeOK, SweepCommit
  <2>3. charged' \in [Crawls -> [Listings -> Nat]]
    <3>1. sweep[s].crawl \in Crawls
      BY <1>12 DEF CrawlsHeld, SweepCommit
    <3>2. [l \in Listings |-> IF l \in Missed(s) THEN charged[sweep[s].crawl][l] + 1
                             ELSE charged[sweep[s].crawl][l]] \in [Listings -> Nat]
      BY <3>1 DEF TypeOK
    <3>3. QED
      BY <1>12, <3>1, <3>2 DEF TypeOK, SweepCommit, Missed
  <2>4. streak' \in [Listings -> Nat]
    <3>1. \A l \in Listings :
            (IF l \in Missed(s) THEN streak[l] + 1 ELSE streak[l]) \in Nat
      BY DEF TypeOK
    <3>2. QED
      BY <1>12, <3>1 DEF SweepCommit, Missed
  <2>5. /\ sweptAt' \in [Crawls -> BOOLEAN]
        /\ sweep' \in [Sweepers -> [step : {"idle", "begun", "observed", "locked"},
                                     crawl : Crawls \cup {None},
                                     held : [Listings -> Rows \cup {Absent}]]]
    BY <1>12 DEF TypeOK, SweepCommit, NoRows
  <2>6. QED
    BY <1>12, <2>1, <2>2, <2>3, <2>4, <2>5 DEF TypeOK, SweepCommit
<1>13. ASSUME NEW s \in Sweepers, SweepDies(s) PROVE TypeOK'
  BY <1>13 DEF TypeOK, SweepDies, ghosts, NoRows
<1>14. ASSUME NEW l \in Listings, OpenForm(l) PROVE TypeOK'
  BY <1>14 DEF TypeOK, OpenForm, ghosts
<1>15. ASSUME NEW l \in Listings, NEW chosen \in Choices \cup {form[l].status},
              SaveForm(l, chosen)
       PROVE  TypeOK'
  <2>1. row' \in [Listings -> Rows \cup {Absent}]
    BY <1>15, Saved DEF TypeOK, SaveForm
  <2>2. edited' \in [Listings -> BOOLEAN]
    BY <1>15, Saved
  <2>3. form' \in [Listings -> Rows \cup {Closed}]
    BY <1>15 DEF TypeOK, SaveForm
  <2>4. QED
    BY <1>15, <2>1, <2>2, <2>3 DEF TypeOK, SaveForm
<1>16. ASSUME NEW c \in Crawls, OpenJobForm(c) PROVE TypeOK'
  BY <1>16 DEF TypeOK, OpenJobForm, ghosts
<1>17. ASSUME NEW c \in Crawls, SaveJobForm(c) PROVE TypeOK'
  BY <1>17 DEF TypeOK, SaveJobForm, ghosts
<1>18. ASSUME UNCHANGED vars PROVE TypeOK'
  BY <1>18 DEF TypeOK, vars, ghosts
<1>19. QED
  BY <1>1, <1>2, <1>3, <1>4, <1>5, <1>6, <1>7, <1>8, <1>9, <1>10, <1>11, <1>12,
     <1>13, <1>14, <1>15, <1>16, <1>17, <1>18, NextCases

\* A sweep locks its crawl, and lets go of it at the end of the transaction.
LEMMA CrawlsHeldStep ==
  ASSUME TypeOK, CrawlsHeld, [Next]_vars
  PROVE  CrawlsHeld'
<1>1. ASSUME NEW c \in Crawls, Claim(c) PROVE CrawlsHeld'
  BY <1>1 DEF TypeOK, CrawlsHeld, Claim
<1>2. ASSUME NEW c \in Crawls, BeginRun(c) PROVE CrawlsHeld'
  BY <1>2 DEF TypeOK, CrawlsHeld, BeginRun
<1>3. ASSUME NEW c \in Crawls, NEW succeeded \in BOOLEAN, Finish(c, succeeded)
      PROVE  CrawlsHeld'
  BY <1>3 DEF TypeOK, CrawlsHeld, Finish
<1>4. ASSUME NEW s \in Sweepers, NEW c \in Crawls, SweepBegin(s, c) PROVE CrawlsHeld'
  BY <1>4 DEF TypeOK, CrawlsHeld, SweepBegin, JobLocked
<1>5. ASSUME NEW s \in Sweepers, SweepSkip(s) PROVE CrawlsHeld'
  BY <1>5 DEF TypeOK, CrawlsHeld, SweepSkip
<1>6. ASSUME NEW s \in Sweepers, SweepObserve(s) PROVE CrawlsHeld'
  BY <1>6 DEF TypeOK, CrawlsHeld, SweepObserve
<1>7. ASSUME NEW s \in Sweepers, SweepLock(s) PROVE CrawlsHeld'
  BY <1>7 DEF TypeOK, CrawlsHeld, SweepLock
<1>8. ASSUME NEW s \in Sweepers, SweepCommit(s) PROVE CrawlsHeld'
  <2>1. /\ sweep[s].crawl \in Crawls /\ phase[sweep[s].crawl] = "succeeded"
        /\ \A t \in Sweepers \ {s} : sweep[t].crawl # sweep[s].crawl
    BY <1>8 DEF CrawlsHeld, SweepCommit
  <2>2. /\ phase' = phase /\ sweep'[s] = Resting
        /\ \A t \in Sweepers \ {s} : sweep'[t] = sweep[t]
    BY <1>8 DEF TypeOK, SweepCommit
  <2>3. \A c \in Crawls \ {sweep[s].crawl} : sweptAt'[c] = sweptAt[c]
    BY <1>8 DEF TypeOK, SweepCommit
  <2>4. QED
    BY <2>1, <2>2, <2>3 DEF CrawlsHeld
<1>9. ASSUME NEW s \in Sweepers, SweepDies(s) PROVE CrawlsHeld'
  BY <1>9 DEF TypeOK, CrawlsHeld, SweepDies
<1>10. ASSUME NEW c \in Crawls, SaveJobForm(c) PROVE CrawlsHeld'
  BY <1>10 DEF TypeOK, CrawlsHeld, SaveJobForm
<1>11. CASE UNCHANGED <<phase, sweptAt, sweep>>
  BY <1>11 DEF CrawlsHeld
<1>12. QED
  BY <1>1, <1>2, <1>3, <1>4, <1>5, <1>6, <1>7, <1>8, <1>9, <1>10, <1>11, NextCases
     DEF Tick, OpenJobForm, UpsertConflict, UpsertRead, UpsertCommit, OpenForm, SaveForm, vars

\* Rows are locked by one writer at a time, and nobody else writes them.
LEMMA LocksStep ==
  ASSUME TypeOK, Locks, CrawlsHeld, [Next]_vars
  PROVE  Locks'
<1>1. ASSUME NEW c \in Crawls, Claim(c) PROVE Locks'
  <2>1. /\ phase[c] = "new" /\ UNCHANGED <<row, upsert, sweep>>
        /\ \A d \in Crawls \ {c} : phase'[d] = phase[d] /\ startedAt'[d] = startedAt[d]
    BY <1>1 DEF TypeOK, Claim
  <2>2. \A s \in Sweepers : sweep[s].step # "idle" => sweep[s].crawl \in Crawls \ {c}
    BY <2>1 DEF CrawlsHeld
  <2>3. \A d \in Crawls : upsert[d].listing # None => d # c
    BY <2>1 DEF Locks
  <2>4. QED
    BY <2>1, <2>2, <2>3 DEF Locks, Missed
<1>2. ASSUME NEW c \in Crawls, BeginRun(c) PROVE Locks'
  BY <1>2 DEF TypeOK, Locks, BeginRun, Missed
<1>3. ASSUME NEW c \in Crawls, NEW succeeded \in BOOLEAN, Finish(c, succeeded) PROVE Locks'
  BY <1>3 DEF TypeOK, Locks, Finish, Missed
<1>4. ASSUME NEW c \in Crawls, NEW l \in Listings, UpsertRead(c, l) PROVE Locks'
  BY <1>4 DEF TypeOK, Locks, Locked, Missed, UpsertRead
<1>5. ASSUME NEW c \in Crawls, UpsertConflict(c) PROVE Locks'
  BY <1>5 DEF TypeOK, Locks, Locked, Missed, UpsertConflict
<1>6. ASSUME NEW c \in Crawls, NEW here \in BOOLEAN, UpsertCommit(c, here) PROVE Locks'
  <2>1. /\ upsert'[c] = Idle
        /\ \A d \in Crawls \ {c} : upsert'[d] = upsert[d]
        /\ UNCHANGED <<phase, startedAt, sweep>>
    BY <1>6 DEF TypeOK, UpsertCommit
  <2>2. /\ upsert[c].listing \in Listings
        /\ row[upsert[c].listing].status = upsert[c].was
        /\ \A m \in Listings \ {upsert[c].listing} : row'[m] = row[m]
    BY <1>6, Upserted
  <2>3. ASSUME NEW d \in Crawls \ {c}, upsert[d].was # "absent"
        PROVE  row'[upsert[d].listing] = row[upsert[d].listing]
    <3>1. upsert[d].listing # upsert[c].listing
      BY <2>2, <2>3 DEF Locks
    <3>2. upsert[d].listing \in Listings
      BY <2>3 DEF TypeOK, Locks
    <3>3. QED
      BY <2>2, <3>1, <3>2
  <2>4. ASSUME NEW s \in Sweepers, NEW l \in Missed(s) PROVE row'[l] = row[l]
    <3>1. l # upsert[c].listing
      BY <2>2, <2>4 DEF Locks
    <3>2. l \in Listings
      BY <2>4 DEF Missed
    <3>3. QED
      BY <2>2, <3>1, <3>2
  <2>5. QED
    BY <2>1, <2>3, <2>4 DEF Locks, Missed
<1>7. ASSUME NEW s \in Sweepers, NEW c \in Crawls, SweepBegin(s, c) PROVE Locks'
  BY <1>7 DEF TypeOK, Locks, SweepBegin, Missed, NoRows
<1>8. ASSUME NEW s \in Sweepers, SweepSkip(s) PROVE Locks'
  BY <1>8 DEF TypeOK, Locks, SweepSkip, Missed, NoRows
<1>9. ASSUME NEW s \in Sweepers, SweepObserve(s) PROVE Locks'
  BY <1>9 DEF TypeOK, Locks, SweepObserve, Missed
<1>10. ASSUME NEW s \in Sweepers, SweepLock(s) PROVE Locks'
  <2>1. /\ sweep'[s].step = "locked" /\ sweep'[s].crawl = sweep[s].crawl
        /\ \A l \in Missed(s)' :
             /\ l \in Scoped /\ row[l].lastSeen < startedAt[sweep[s].crawl] /\ ~ Locked(l)
             /\ sweep'[s].held[l] = row[l]
        /\ \A t \in Sweepers \ {s} : sweep'[t] = sweep[t]
        /\ UNCHANGED <<row, phase, startedAt, upsert>>
    BY <1>10 DEF TypeOK, SweepLock, Missed
  <2>2. \A t, u \in Sweepers : \A l \in Missed(t)' \cap Missed(u)' : t = u
    BY <2>1 DEF Locks, Locked, Missed
  <2>3. \A c \in Crawls, t \in Sweepers :
          upsert[c].was # "absent" => upsert[c].listing \notin Missed(t)'
    BY <2>1 DEF Locks, Locked, Missed
  <2>4. \A t \in Sweepers : \A l \in Missed(t)' :
          /\ sweep'[t].step = "locked" /\ row[l].status \in Sweepable
          /\ row[l] = sweep'[t].held[l]
          /\ row[l].lastSeen < startedAt[sweep'[t].crawl]
    BY <2>1 DEF Locks, Scoped, Missed
  <2>5. QED
    BY <2>1, <2>2, <2>3, <2>4 DEF Locks
<1>11. ASSUME NEW s \in Sweepers, SweepCommit(s) PROVE Locks'
  <2>1. /\ sweep'[s] = Resting /\ \A t \in Sweepers \ {s} : sweep'[t] = sweep[t]
        /\ UNCHANGED <<phase, startedAt, upsert>>
    BY <1>11 DEF TypeOK, SweepCommit
  <2>2. \A l \in Listings \ Missed(s) : row'[l] = row[l]
    BY <1>11, Charged
  <2>3. ASSUME NEW t \in Sweepers \ {s}, NEW l \in Missed(t) PROVE row'[l] = row[l]
    <3>1. l \notin Missed(s) /\ l \in Listings
      BY <2>3 DEF Missed, Locks
    <3>2. QED
      BY <2>2, <3>1
  <2>4. ASSUME NEW c \in Crawls, upsert[c].was # "absent"
        PROVE  row'[upsert[c].listing] = row[upsert[c].listing]
    <3>1. upsert[c].listing \in Listings \ Missed(s)
      BY <2>4 DEF TypeOK, Locks
    <3>2. QED
      BY <2>2, <3>1
  <2>5. Missed(s)' = {} /\ \A t \in Sweepers \ {s} : Missed(t)' = Missed(t)
    BY <2>1 DEF Missed, NoRows
  <2>6. QED
    BY <2>1, <2>3, <2>4, <2>5, SMTT(30) DEF Locks
<1>12. ASSUME NEW s \in Sweepers, SweepDies(s) PROVE Locks'
  BY <1>12 DEF TypeOK, Locks, SweepDies, Missed, NoRows
<1>13. ASSUME NEW l \in Listings, NEW chosen \in Choices \cup {form[l].status},
              SaveForm(l, chosen)
       PROVE  Locks'
  <2>1. \A m \in Listings \ {l} : row'[m] = row[m]
    BY <1>13, Saved
  <2>2. ~ Locked(l) /\ UNCHANGED <<phase, startedAt, upsert, sweep>>
    BY <1>13 DEF SaveForm
  <2>3. \A c \in Crawls : upsert[c].was # "absent"
          => row'[upsert[c].listing] = row[upsert[c].listing]
    BY <2>1, <2>2 DEF TypeOK, Locks, Locked
  <2>4. \A s \in Sweepers : \A m \in Missed(s) : row'[m] = row[m]
    BY <2>1, <2>2 DEF TypeOK, Locked, Missed
  <2>5. QED
    BY <2>2, <2>3, <2>4 DEF Locks, Missed
<1>14. CASE UNCHANGED <<row, phase, startedAt, upsert, sweep>>
  BY <1>14 DEF Locks, Missed
<1>15. QED
  BY <1>1, <1>2, <1>3, <1>4, <1>5, <1>6, <1>7, <1>8, <1>9, <1>10, <1>11, <1>12,
     <1>13, <1>14, NextCases DEF Tick, OpenForm, OpenJobForm, SaveJobForm, vars

\* swept_at is read and set under the lock of the crawl, a sweep that dies takes
\* its charges back, and a form that takes the mark away is counted.
LEMMA ChargesStep ==
  ASSUME TypeOK, CrawlsHeld, Uncharged, ChargedOnce, [Next]_vars
  PROVE  Uncharged' /\ ChargedOnce'
<1>1. \A c \in Crawls, l \in Listings : charged[c][l] \in Nat /\ unmarked[c] \in Nat
  BY DEF TypeOK
<1>2. ASSUME NEW s \in Sweepers, SweepCommit(s) PROVE Uncharged' /\ ChargedOnce'
  <2> DEFINE c == sweep[s].crawl
             new == [l \in Listings |-> IF l \in Missed(s)
                       THEN charged[c][l] + 1 ELSE charged[c][l]]
  <2>1. /\ c \in Crawls /\ sweptAt'[c] /\ phase[c] = "succeeded"
        /\ UNCHANGED <<phase, unmarked>>
        /\ \A d \in Crawls \ {c} : sweptAt'[d] = sweptAt[d]
    BY <1>2 DEF TypeOK, CrawlsHeld, SweepCommit
  <2>2. \A l \in Listings : charged[c][l] <= unmarked[c]
    BY <1>2, <2>1 DEF CrawlsHeld, Uncharged, SweepCommit
  <2>3. \A l \in Listings : new[l] <= 1 + unmarked[c]
    BY <1>1, <2>1, <2>2
  <2>4. charged' = [charged EXCEPT ![c] = new]
    BY <1>2 DEF SweepCommit, Missed
  <2>5. charged'[c] = new /\ \A d \in Crawls \ {c} : charged'[d] = charged[d]
    <3> HIDE DEF new
    <3> QED
      BY <2>1, <2>4 DEF TypeOK
  <2> HIDE DEF new
  <2>6. QED
    BY <2>1, <2>3, <2>5 DEF Uncharged, ChargedOnce
<1>3. ASSUME NEW s \in Sweepers, SweepSkip(s) PROVE Uncharged' /\ ChargedOnce'
  BY <1>3 DEF TypeOK, CrawlsHeld, Uncharged, ChargedOnce, SweepSkip, ghosts
<1>4. ASSUME NEW c \in Crawls, SaveJobForm(c) PROVE Uncharged' /\ ChargedOnce'
  <2>1. /\ UNCHANGED <<phase, charged>> /\ ~ sweptAt'[c]
        /\ \A d \in Crawls \ {c} : sweptAt'[d] = sweptAt[d] /\ unmarked'[d] = unmarked[d]
        /\ unmarked'[c] = IF sweptAt[c] THEN unmarked[c] + 1 ELSE unmarked[c]
    BY <1>4 DEF TypeOK, SaveJobForm
  <2>2. \A l \in Listings : charged[c][l] <= unmarked'[c]
    BY <1>1, <2>1 DEF Uncharged, ChargedOnce
  <2>3. unmarked[c] <= unmarked'[c] /\ unmarked'[c] \in Nat
    BY <2>1 DEF TypeOK
  <2>4. QED
    BY <1>1, <2>1, <2>2, <2>3 DEF Uncharged, ChargedOnce
<1>5. ASSUME UNCHANGED <<sweptAt, charged, unmarked>>,
             \A c \in Crawls : phase[c] = "succeeded" => phase'[c] = "succeeded"
      PROVE  Uncharged' /\ ChargedOnce'
  BY <1>5 DEF Uncharged, ChargedOnce
<1>6. CASE Tick \/ UNCHANGED vars
  BY <1>5, <1>6 DEF Tick, vars, ghosts
<1>7. ASSUME NEW c \in Crawls,
             \/ Claim(c) \/ BeginRun(c) \/ UpsertConflict(c)
             \/ \E l \in Listings : UpsertRead(c, l)
             \/ OpenJobForm(c)
      PROVE  Uncharged' /\ ChargedOnce'
  BY <1>5, <1>7
     DEF TypeOK, Claim, BeginRun, UpsertConflict, UpsertRead, OpenJobForm, ghosts
<1>8. ASSUME NEW c \in Crawls,
             \/ \E here \in BOOLEAN : UpsertCommit(c, here)
             \/ \E succeeded \in BOOLEAN : Finish(c, succeeded)
      PROVE  Uncharged' /\ ChargedOnce'
  BY <1>5, <1>8 DEF TypeOK, UpsertCommit, Finish, ghosts
<1>9. ASSUME NEW s \in Sweepers,
             \/ \E c \in Crawls : SweepBegin(s, c)
             \/ SweepObserve(s) \/ SweepLock(s) \/ SweepDies(s)
      PROVE  Uncharged' /\ ChargedOnce'
  BY <1>5, <1>9 DEF SweepBegin, SweepObserve, SweepLock, SweepDies, ghosts
<1>10. ASSUME NEW l \in Listings,
              OpenForm(l) \/ \E chosen \in Choices \cup {form[l].status} : SaveForm(l, chosen)
       PROVE  Uncharged' /\ ChargedOnce'
  BY <1>5, <1>10 DEF OpenForm, SaveForm, ghosts
<1>11. QED
  BY <1>2, <1>3, <1>4, <1>6, <1>7, <1>8, <1>9, <1>10, NextCases

\* last_seen_at and the crawls that wrote it.
LEMMA AgesStep ==
  ASSUME TypeOK, Locks, CrawlsHeld, Ages, [Next]_vars
  PROVE  Ages'
<1>1. CASE Tick
  BY <1>1 DEF TypeOK, Ages, Tick, ghosts
<1>2. ASSUME NEW c \in Crawls, Claim(c) PROVE Ages'
  BY <1>2 DEF TypeOK, Ages, Claim, ghosts
<1>3. ASSUME NEW c \in Crawls, BeginRun(c) PROVE Ages'
  BY <1>3 DEF TypeOK, Ages, BeginRun, ghosts
<1>4. ASSUME NEW c \in Crawls, NEW succeeded \in BOOLEAN, Finish(c, succeeded) PROVE Ages'
  BY <1>4 DEF TypeOK, Ages, Finish, ghosts
<1>5. ASSUME NEW c \in Crawls, NEW here \in BOOLEAN, UpsertCommit(c, here) PROVE Ages'
  <2> DEFINE l == upsert[c].listing
  <2>1. /\ l \in Listings /\ row'[l].lastSeen = seenAt[c]
        /\ \A m \in Listings \ {l} : row'[m] = row[m]
    BY <1>5, Upserted
  <2>2. /\ phase[c] = "running"
        /\ UNCHANGED <<clock, phase, startedAt, seenAt, edited>>
    BY <1>5 DEF Locks, UpsertCommit
  <2>3. /\ saw'[c] = saw[c] \cup {l} /\ \A d \in Crawls \ {c} : saw'[d] = saw[d]
        /\ \A d \in Crawls : saw[d] \subseteq Listings
    BY <1>5 DEF TypeOK, UpsertCommit
  <2>4. /\ backdated'[l] <=> backdated[l] \/ row[l].lastSeen > seenAt[c]
        /\ \A m \in Listings \ {l} : backdated'[m] = backdated[m]
    BY <1>5, <2>1 DEF TypeOK, UpsertCommit
  <2>5. row[l].lastSeen \in Nat /\ \A d \in Crawls : seenAt[d] \in Nat
    BY <2>1, RowColumns DEF TypeOK
  <2>6. ASSUME NEW d \in Crawls, NEW m \in saw'[d], ~ backdated'[m], ~ edited'[m]
        PROVE  row'[m].lastSeen >= seenAt'[d]
    <3>1. CASE m = l
      <4>1. ~ backdated[l] /\ row[l].lastSeen <= seenAt[c] /\ ~ edited[l]
        BY <2>2, <2>4, <2>5, <2>6, <3>1
      <4>2. CASE d = c
        BY <2>1, <2>2, <2>5, <3>1, <4>2
      <4>3. CASE d # c
        BY <2>1, <2>2, <2>3, <2>5, <2>6, <3>1, <4>1, <4>3 DEF Ages
      <4>4. QED
        BY <4>2, <4>3
    <3>2. CASE m # l
      <4>1. m \in saw[d] /\ m \in Listings \ {l}
        BY <2>3, <2>6, <3>2
      <4>2. QED
        BY <2>1, <2>2, <2>4, <2>6, <4>1 DEF Ages
    <3>3. QED
      BY <3>1, <3>2
  <2>7. \A d \in Crawls : phase'[d] \in {"new", "claimed"} => saw'[d] = {}
    BY <2>2, <2>3 DEF Ages
  <2>8. QED
    BY <2>2, <2>6, <2>7 DEF Ages
<1>6. ASSUME NEW s \in Sweepers, SweepCommit(s) PROVE Ages'
  <2>1. \A l \in Listings : row'[l].lastSeen = row[l].lastSeen
    BY <1>6, Charged
  <2>2. UNCHANGED <<clock, phase, startedAt, seenAt, saw, edited, backdated>>
    BY <1>6 DEF SweepCommit
  <2>3. \A c \in Crawls : saw[c] \subseteq Listings
    BY DEF TypeOK
  <2>4. QED
    BY <2>1, <2>2, <2>3 DEF Ages
<1>7. ASSUME NEW l \in Listings, NEW chosen \in Choices \cup {form[l].status},
             SaveForm(l, chosen)
      PROVE  Ages'
  <2>1. /\ \A m \in Listings \ {l} : row'[m] = row[m]
        /\ \A m \in Listings : edited[m] => edited'[m]
        /\ ~ edited'[l] => row'[l] = row[l]
    BY <1>7, Saved
  <2>2. UNCHANGED <<clock, phase, startedAt, seenAt, saw, backdated>>
    BY <1>7 DEF SaveForm
  <2>3. \A c \in Crawls : saw[c] \subseteq Listings
    BY DEF TypeOK
  <2>4. QED
    BY <2>1, <2>2, <2>3 DEF Ages
<1>8. CASE UNCHANGED <<clock, row, phase, startedAt, seenAt, saw, edited, backdated>>
  BY <1>8 DEF Ages
<1>9. QED
  BY <1>1, <1>2, <1>3, <1>4, <1>5, <1>6, <1>7, <1>8, NextCases
     DEF UpsertConflict, UpsertRead, SweepBegin, SweepSkip, SweepObserve, SweepLock,
         SweepDies, OpenForm, OpenJobForm, SaveJobForm, vars, ghosts

\* A crawl charges rows that are older than its start, and its own are not.
LEMMA MissedStep ==
  ASSUME TypeOK, Locks, CrawlsHeld, Uncharged, Ages, ChargedWasMissed, [Next]_vars
  PROVE  ChargedWasMissed'
<1>1. ASSUME NEW c \in Crawls, NEW here \in BOOLEAN, UpsertCommit(c, here)
      PROVE  ChargedWasMissed'
  <2>1. \A l \in Listings : ~ (charged[c][l] > 0)
    BY <1>1 DEF TypeOK, Locks, Uncharged, UpsertCommit
  <2>2. /\ \A d \in Crawls \ {c} : saw'[d] = saw[d]
        /\ \A l \in Listings : backdated[l] => backdated'[l]
        /\ UNCHANGED <<charged, edited>>
    BY <1>1 DEF TypeOK, UpsertCommit
  <2>3. QED
    BY <2>1, <2>2 DEF ChargedWasMissed
<1>2. ASSUME NEW s \in Sweepers, SweepCommit(s) PROVE ChargedWasMissed'
  <2> DEFINE c == sweep[s].crawl
  <2>1. c \in Crawls /\ phase[c] = "succeeded" /\ Missed(s) \subseteq Listings
    BY <1>2 DEF TypeOK, CrawlsHeld, SweepCommit, Missed
  <2>2. /\ \A d \in Crawls, l \in Listings :
             charged'[d][l] > 0 => charged[d][l] > 0 \/ (d = c /\ l \in Missed(s))
        /\ UNCHANGED <<saw, edited, backdated>>
    <3> DEFINE new == [l \in Listings |-> IF l \in Missed(s)
                        THEN charged[c][l] + 1 ELSE charged[c][l]]
    <3>1. charged' = [charged EXCEPT ![c] = new]
      BY <1>2, <2>1 DEF SweepCommit, Missed
    <3>2. charged'[c] = new /\ \A d \in Crawls \ {c} : charged'[d] = charged[d]
      <4> HIDE DEF new
      <4> QED
        BY <2>1, <3>1 DEF TypeOK
    <3>3. UNCHANGED <<saw, edited, backdated>>
      BY <1>2 DEF SweepCommit
    <3>4. QED
      BY <3>2, <3>3
  <2>3. \A l \in Missed(s) : l \in saw[c] => backdated[l] \/ edited[l]
    <3>1. ASSUME NEW l \in Missed(s), l \in saw[c], ~ backdated[l], ~ edited[l] PROVE FALSE
      <4>1. row[l].lastSeen < startedAt[c]
        BY <2>1 DEF Locks
      <4>2. row[l].lastSeen >= seenAt[c] /\ startedAt[c] <= seenAt[c]
        BY <2>1, <3>1 DEF Ages
      <4>3. row[l].lastSeen \in Nat /\ startedAt[c] \in Nat /\ seenAt[c] \in Nat
        BY <2>1, RowColumns DEF TypeOK
      <4>4. QED
        BY <4>1, <4>2, <4>3
    <3>2. QED
      BY <3>1
  <2>4. QED
    BY <2>2, <2>3 DEF ChargedWasMissed
<1>3. ASSUME NEW l \in Listings, NEW chosen \in Choices \cup {form[l].status},
             SaveForm(l, chosen)
      PROVE  ChargedWasMissed'
  <2>1. \A m \in Listings : edited[m] => edited'[m]
    BY <1>3, Saved
  <2>2. QED
    BY <1>3, <2>1 DEF ChargedWasMissed, SaveForm
<1>4. CASE UNCHANGED <<saw, charged, edited, backdated>>
  BY <1>4 DEF ChargedWasMissed
<1>5. QED
  BY <1>1, <1>2, <1>3, <1>4, NextCases
     DEF Tick, Claim, BeginRun, UpsertConflict, UpsertRead, Finish, SweepBegin, SweepSkip,
         SweepObserve, SweepLock, SweepDies, OpenForm, OpenJobForm, SaveJobForm, vars, ghosts

\* What every row says of the misses in a row: streak, status and newest event.
Followed ==
  MissesAreTheStreak /\ StatusFollowsMisses /\ Unlogged /\ EventsFollowStatus

\* The same of one row.
RowFollowed(l) ==
  /\ ~ Exists(l) => logged[l] = "active"
  /\ Exists(l) /\ ~ edited[l] =>
       /\ row[l].misses = streak[l]
       /\ row[l].status = "delisted" <=> streak[l] >= DelistedAfter
       /\ row[l].status = "active" <=> streak[l] = 0
       /\ row[l].status # "hidden"
       /\ logged[l] = row[l].status

LEMMA FollowedRows == Followed <=> \A l \in Listings : RowFollowed(l)
BY DEF Followed, RowFollowed, MissesAreTheStreak, StatusFollowsMisses, Unlogged,
       EventsFollowStatus

LEMMA FollowedRowsNext == Followed' <=> \A l \in Listings : RowFollowed(l)'
BY DEF Followed, RowFollowed, MissesAreTheStreak, StatusFollowsMisses, Unlogged,
       EventsFollowStatus

\* Upserts start a streak again, sweeps lengthen it.
LEMMA FollowedStep ==
  ASSUME TypeOK, Locks, CrawlsHeld, Followed, [Next]_vars
  PROVE  Followed'
<1> USE FollowedRows, FollowedRowsNext
<1>1. ASSUME NEW c \in Crawls, NEW here \in BOOLEAN, UpsertCommit(c, here) PROVE Followed'
  <2>0. PICK l : l = upsert[c].listing
    OBVIOUS
  <2>1. /\ l \in Listings /\ row[l].status = upsert[c].was
        /\ row'[l] \in Rows /\ row'[l].misses = 0
        /\ row'[l].status = IF row[l].status \in Gone \cup {"absent"} THEN "active"
                            ELSE row[l].status
        /\ \A m \in Listings \ {l} : row'[m] = row[m]
    BY <1>1, <2>0, Upserted
  <2>2. /\ logged'[l] = NewestEvent(l, upsert[c].was) /\ streak'[l] = 0 /\ edited' = edited
        /\ \A m \in Listings \ {l} : logged'[m] = logged[m] /\ streak'[m] = streak[m]
    BY <1>1, <2>0, <2>1 DEF TypeOK, UpsertCommit
  <2>3. RowFollowed(l)'
    <3>1. row[l].status \in ListingStatus \cup {"absent"} /\ (Exists(l) <=> row[l].status # "absent")
      BY <2>1, RowColumns
    <3>2. RowFollowed(l)
      BY <2>1
    <3>3. row'[l] # Absent
      BY <2>1, Columns DEF Rows
    <3>4. QED
      BY <2>1, <2>2, <3>1, <3>2, <3>3 DEF RowFollowed, Exists, NewestEvent
  <2>4. \A m \in Listings \ {l} : RowFollowed(m)'
    BY <2>1, <2>2 DEF RowFollowed, Exists
  <2>5. QED
    BY <2>3, <2>4
<1>2. ASSUME NEW s \in Sweepers, SweepCommit(s) PROVE Followed'
  <2>1. ASSUME NEW l \in Missed(s) PROVE RowFollowed(l)'
    <3>1. /\ l \in Listings /\ Exists(l) /\ row'[l] \in Rows
          /\ row'[l].misses = row[l].misses + 1
          /\ row'[l].status = TargetStatus(row[l].misses + 1)
      BY <1>2, Charged
    <3>2. /\ logged'[l] = IF row'[l].status # row[l].status THEN row'[l].status ELSE logged[l]
          /\ streak'[l] = streak[l] + 1 /\ edited' = edited
      BY <1>2, <2>1, <3>1 DEF SweepCommit, Missed, Locks
    <3>3. row[l].misses \in Nat /\ streak[l] \in Nat
      BY <3>1, RowColumns DEF TypeOK
    <3>4. RowFollowed(l)
      BY <3>1
    <3>5. Exists(l)'
      BY <3>1, Columns DEF Exists, Rows
    <3>6. QED
      BY <3>1, <3>2, <3>3, <3>4, <3>5 DEF RowFollowed, TargetStatus
  <2>2. ASSUME NEW l \in Listings \ Missed(s) PROVE RowFollowed(l)'
    <3>1. row'[l] = row[l]
      BY <1>2, Charged
    <3>2. logged'[l] = logged[l] /\ streak'[l] = streak[l] /\ edited' = edited
      BY <1>2 DEF SweepCommit, Missed
    <3>3. QED
      BY <3>1, <3>2 DEF RowFollowed, Exists
  <2>3. QED
    BY <2>1, <2>2
<1>3. ASSUME NEW l \in Listings, NEW chosen \in Choices \cup {form[l].status},
             SaveForm(l, chosen)
      PROVE  Followed'
  <2>1. /\ row'[l] \in Rows
        /\ \A m \in Listings \ {l} : row'[m] = row[m]
        /\ \A m \in Listings : edited[m] => edited'[m]
        /\ ~ edited'[l] => row'[l] = row[l]
    BY <1>3, Saved
  <2>2. UNCHANGED <<logged, streak>>
    BY <1>3 DEF SaveForm
  <2>3. row'[l] # Absent
    BY <2>1, Columns DEF Rows
  <2>4. QED
    BY <2>1, <2>2, <2>3 DEF RowFollowed, Exists
<1>4. CASE UNCHANGED <<row, logged, streak, edited>>
  BY <1>4 DEF RowFollowed, Exists
<1>5. QED
  BY <1>1, <1>2, <1>3, <1>4, NextCases
     DEF Tick, Claim, BeginRun, UpsertConflict, UpsertRead, Finish, SweepBegin, SweepSkip,
         SweepObserve, SweepLock, SweepDies, OpenForm, OpenJobForm, SaveJobForm, vars, ghosts

-----------------------------------------------------------------------------
(* The theorems.                                                            *)

\* The invariant holds after every step.
LEMMA Invariant == Spec => []IInv
<1>1. Init => IInv
  BY InitInvariant
<1>2. IInv /\ [Next]_vars => IInv'
  BY TypeStep, LocksStep, CrawlsHeldStep, ChargesStep, AgesStep, MissedStep, FollowedStep
     DEF IInv, Followed
<1>3. QED
  BY <1>1, <1>2, PTL DEF Spec

\* Every variable keeps the type of its column.
THEOREM TypeCorrect == Spec => []TypeOK
BY Invariant, PTL DEF IInv

\* swept_at keeps one crawl from charging the same miss twice, whatever sweeps
\* run at once, die or are repeated: it charges once more only for each time the
\* crawl's own admin form puts NULL over the mark.
THEOREM OneMissPerCrawl == Spec => []ChargedOnce
BY Invariant, PTL DEF IInv

\* A crawl charges no listing that it saw, unless an older crawl or an old form
\* overwrote the row.
THEOREM SeenAreNotCharged == Spec => []ChargedWasMissed
BY Invariant, PTL DEF IInv

\* consecutive_misses counts the crawls in a row that missed the listing: what a
\* sweep saves, computed from the instance it read, replaces nobody's update.
THEOREM NoUpdateIsLost == Spec => []MissesAreTheStreak
BY Invariant, PTL DEF IInv

\* The thresholds alone decide whether a row is active, stale or delisted.
THEOREM ThresholdsDecide == Spec => []StatusFollowsMisses
BY Invariant, PTL DEF IInv

\* The newest event of a listing names the status it is in.
THEOREM EventsAreComplete == Spec => []EventsFollowStatus
BY Invariant, PTL DEF IInv

\* Nobody but the operator shows a hidden listing again.
THEOREM HiddenStays == Spec => HiddenIsLocal
<1>1. IInv /\ [Next]_vars =>
        [\A l \in Listings :
           row[l].status = "hidden" /\ row'[l].status # "hidden"
             => form[l] # Closed /\ form'[l] = Closed]_vars
  <2> SUFFICES ASSUME IInv, [Next]_vars, NEW l \in Listings,
                      row[l].status = "hidden", row'[l].status # "hidden"
               PROVE  form[l] # Closed /\ form'[l] = Closed
    OBVIOUS
  <2> TypeOK /\ Locks /\ CrawlsHeld
    BY DEF IInv
  <2>1. ASSUME NEW c \in Crawls, NEW here \in BOOLEAN, UpsertCommit(c, here) PROVE FALSE
    BY <2>1, Upserted
  <2>2. ASSUME NEW s \in Sweepers, SweepCommit(s) PROVE FALSE
    <3>1. l \notin Missed(s)
      BY DEF Locks
    <3>2. QED
      BY <2>2, <3>1, Charged
  <2>3. ASSUME NEW m \in Listings, NEW chosen \in Choices \cup {form[m].status},
               SaveForm(m, chosen)
        PROVE  form[l] # Closed /\ form'[l] = Closed
    BY <2>3, Saved
  <2>4. CASE UNCHANGED row
    BY <2>4
  <2>5. QED
    BY <2>1, <2>2, <2>3, <2>4, NextCases
       DEF Tick, Claim, BeginRun, UpsertConflict, UpsertRead, Finish, SweepBegin, SweepSkip,
           SweepObserve, SweepLock, SweepDies, OpenForm, OpenJobForm, SaveJobForm, vars
<1>2. QED
  BY <1>1, Invariant, PTL DEF Spec, HiddenIsLocal
=============================================================================
