-------------------------- MODULE CrawlRun_proofs --------------------------
(***************************************************************************)
(* What the report of a crawl says, for any listings, pages, reference     *)
(* data and limits, and whatever changes while the crawl is at work; and   *)
(* that a crawl that reports success has seen all that the source offered  *)
(* meanwhile.                                                              *)
(***************************************************************************)
EXTENDS CrawlRun, FiniteSetTheorems, WellFoundedInduction, TLAPS

USE RunAssumption DEF RunAssumption

ErrorTypes == {"ParseError", "TransportError", "PermanentHTTPError"}

Counts == [pages : Nat, stubs : Nat, details : Nat, created : Nat, updated : Nat,
           skipped : Nat, failed : Nat, outOfScope : Nat]
Errors == [entries : Seq((Listings \cup {"list-page"}) \X ErrorTypes), total : Nat]
Fetched == [number : Nat, items : SUBSET Listings, more : BOOLEAN, cursor : Nat]

\* The types of what the crawl itself keeps.
Shape ==
  /\ row = [l \in Listings |-> row[l]]
  /\ stamp \in [Listings -> Nat]
  /\ todo \in Seq(Listings)
  /\ seen \subseteq Listings /\ done \subseteq seen
  /\ counts \in Counts /\ errors \in Errors
  /\ page \in Fetched /\ stopped \in BOOLEAN
  /\ left = [edits |-> left.edits, changes |-> left.changes, faults |-> left.faults]
  /\ left.changes \in 0..Here.changes
  /\ world \in DOMAIN Worlds

Waiting == {"submit", "refused", "queued"}
Aside   == Waiting \cup {"loading", "detect", "over"}

\* How far the crawl is, and what it has by then.
Stage ==
  /\ pc \in Waiting => scope = NoScope
  /\ pc \in Aside => todo = <<>> /\ seen = {} /\ page = NoPage /\ steady = {}
  /\ pc \in Aside \cup {"request", "stubs"} => ~ stopped
  /\ pc \in {"request", "finish", "ended"} => todo = <<>>

\* Whom the entries of the error log are about.
Logged ==
  /\ Len(errors.entries) <= MaxErrors
  /\ \A i \in DOMAIN errors.entries :
       \/ errors.entries[i][1] \in seen
       \/ stopped /\ errors.entries[i][1] = "list-page"

-----------------------------------------------------------------------------
(* The steps, by what they do to the crawl.                                *)

\* The listing a crawl turns to is one of the page and was not processed yet.
LEMMA TurnsTo ==
  ASSUME Shape, NEW l \in AtWork
  PROVE  l \in Listings \ seen /\ todo # <<>> /\ l = Head(todo)
<1>1. 1 \in DOMAIN todo /\ l = todo[1] /\ l \notin seen
  BY DEF AtWork
<1>2. QED
  BY <1>1 DEF Shape

LEMMA Tails ==
  ASSUME Shape, todo # <<>>
  PROVE  /\ Tail(todo) \in Seq(Listings) /\ Len(Tail(todo)) = Len(todo) - 1
         /\ \A i \in 1..Len(Tail(todo)) : Tail(todo)[i] = todo[i + 1]
BY DEF Shape

\* The cases of the next-state relation.
LEMMA NextCases ==
  ASSUME [Next]_vars
  PROVE  \/ Submit \/ Refuse \/ Execute \/ ScopeFailed \/ Load
         \/ RequestPage \/ TurnPage \/ SkipStub \/ Raises
         \/ \E l \in AtWork, d \in {Details[m] : m \in AtWork} :
              Persist(l, d) \/ StubUnreadable(l, d) \/ StubRaises(d)
         \/ \E l \in AtWork : StubGone(l) \/ StubFails(l)
         \/ Finish \/ NextJob \/ Detect
         \/ \E l \in Here.moving : Publish(l) \/ Withdraw(l)
         \/ \E file \in Here.files : SeedLocations(file)
         \/ \E file \in Here.slugs : SeedCategories(file)
         \/ \E p \in Here.toggles : Toggle(p)
         \/ \E e \in Here.remaps, p \in Places \cup {None} : Remap(e, p)
         \/ \E q \in Here.judged : Judge(q[1], q[2])
         \/ UNCHANGED vars
BY DEF Next, Crawler, Walk, StubRead, Source, Operator

-----------------------------------------------------------------------------
(* The crawl keeps its types.                                               *)

\* A set of numbers has a least one.
LEMMA LeastNumber ==
  ASSUME NEW S \in SUBSET Nat, S # {}
  PROVE  \E n \in S : \A m \in S : n <= m
<1>1. PICK n \in S : \A m \in S : ~ (<<m, n>> \in OpToRel(<, Nat))
  BY WFMin, NatLessThanWellFounded
<1>2. \A m \in S : ~ (m < n)
  BY <1>1 DEF OpToRel
<1>3. QED
  BY <1>2

LEMMA MinOfNumbers ==
  ASSUME NEW S \in SUBSET Nat, S # {}
  PROVE  Min(S) \in S /\ \A m \in S : Min(S) <= m
BY LeastNumber DEF Min

\* The situation of a crawl.
LEMMA Bounds ==
  ASSUME Shape
  PROVE  /\ Here.offered \in Seq(Listings) /\ Here.changes \in Nat /\ Here.repeats \in BOOLEAN
         /\ Newest \in Nat
<1>1. Here.offered \in Seq(Listings) /\ Here.changes \in Nat /\ Here.repeats \in BOOLEAN
  BY DEF Shape, Here
<1>2. QED
  BY <1>1, SMTT(30) DEF Shape, Newest

\* What a request for a page does.
LEMMA Requests ==
  ASSUME RequestPage
  PROVE  /\ pc = "request" /\ fresh' = 0
         /\ steady' = IF page.number = 0 THEN Listed ELSE steady
         /\ bumped' = IF page.number = 0 THEN {} ELSE bumped
         /\ shifted' = (page.number > 0 /\ (shifted \/ fresh >= PageSize))
         /\ UNCHANGED <<job, snapshot, index, loads, row, pairs, done, understood, filed,
                        edited, status, scope, world, ref, stamp>>
         /\ left' = left \/ (left.faults > 0 /\ left' = [left EXCEPT !.faults = @ - 1])
         /\ \/ /\ FetchPage(FirstPage(Rest(Listed)), Here.repeats \/ Rest(Listed) # FirstPage(Rest(Listed)))
               /\ left' = left
            \/ RepeatedPage(FirstPage(Rest(Listed)))
            \/ \E type \in ErrorTypes : Stops(type)
BY DEF RequestPage, FetchPage, RepeatedPage, EmptyPage, PageFails, env, plan, copy, stored, walk,
       ErrorTypes

LEMMA PageIsListed ==
  FirstPage(Rest(Listed)) \subseteq Rest(Listed) /\ Rest(Listed) \subseteq Listed
  /\ Listed \subseteq Listings
BY DEF FirstPage, Rest, DivarRest, SheypoorRest, Listed

\* A page of items, and the order in which they are processed.
LEMMA Fetches ==
  ASSUME Shape, NEW items \in SUBSET Listings, NEW more \in BOOLEAN, FetchPage(items, more)
  PROVE  /\ page' \in Fetched /\ page'.number = page.number + 1 /\ page'.items = items
         /\ page'.more = more
         /\ items # {} => \A l \in items : page'.cursor <= stamp[l]
         /\ items # {} => \E l \in items : page'.cursor = stamp[l]
         /\ todo' \in Seq(Listings) /\ {todo'[i] : i \in DOMAIN todo'} = items
         /\ counts' \in Counts /\ UNCHANGED <<seen, errors, stopped>>
<1> DEFINE stamps == {stamp[l] : l \in items}
<1>1. stamps \in SUBSET Nat
  BY DEF Shape
<1>2. items # {} => Min(stamps) \in stamps /\ \A n \in stamps : Min(stamps) <= n
  <2>1. items # {} => stamps # {}
    OBVIOUS
  <2>2. QED
    BY <1>1, <2>1, MinOfNumbers
<1>3. page' = [number |-> page.number + 1, items |-> items, more |-> more,
               cursor |-> IF items = {} THEN 0 ELSE Min(stamps)]
  BY DEF FetchPage
<1>4. (IF items = {} THEN 0 ELSE Min(stamps)) \in Nat
  BY <1>1, <1>2
<1>5. page' \in Fetched
  <2>1. page.number + 1 \in Nat
    BY DEF Shape, Fetched
  <2>2. QED
    BY <1>3, <1>4, <2>1 DEF Fetched
<1>6. /\ page'.number = page.number + 1 /\ page'.items = items /\ page'.more = more
      /\ items # {} => page'.cursor = Min(stamps)
  BY <1>3
<1>7. todo' \in Seq(Listings) /\ {todo'[i] : i \in DOMAIN todo'} = items
  <2>1. Cardinality(items) \in Nat
    BY FS_Subset, FS_CardinalityType
  <2>2. todo' \in [1..Cardinality(items) -> items] /\ Range(todo') = items
    BY DEF FetchPage, InOrder
  <2>3. todo' \in [1..Cardinality(items) -> Listings]
    BY <2>2
  <2>4. QED
    BY <2>1, <2>2, <2>3 DEF Range
<1>8. counts' \in Counts /\ UNCHANGED <<seen, errors, stopped>>
  <2>1. \A c \in Counts : [c EXCEPT !.pages = @ + 1] \in Counts
    BY SMTT(30) DEF Counts
  <2>2. QED
    BY <2>1 DEF Shape, FetchPage
<1>9. QED
  BY <1>2, <1>5, <1>6, <1>7, <1>8

\* _ErrorLog.record, of something new.
LEMMA Records ==
  ASSUME errors \in Errors, NEW id \in Listings \cup {"list-page"}, NEW type \in ErrorTypes,
         Len(errors.entries) <= MaxErrors,
         \A i \in DOMAIN errors.entries : errors.entries[i][1] # id
  PROVE  LET new == Recorded(id, type) IN
         /\ new \in Errors /\ new.total = errors.total + 1
         /\ Len(new.entries) <= MaxErrors
         /\ \A i \in DOMAIN new.entries :
              new.entries[i][1] = id
                \/ (i \in DOMAIN errors.entries /\ new.entries[i] = errors.entries[i])
         /\ \/ new.entries = errors.entries /\ Len(errors.entries) = MaxErrors
            \/ Len(new.entries) = Len(errors.entries) + 1
<1> DEFINE pair == <<id, type>>
           Pairs == (Listings \cup {"list-page"}) \X ErrorTypes
<1>1. errors.entries \in Seq(Pairs) /\ errors.total \in Nat /\ pair \in Pairs
  BY DEF Errors
<1>2. pair \notin Range(errors.entries)
  BY DEF Range
<1>3. CASE Len(errors.entries) >= MaxErrors
  <2>1. Recorded(id, type) = [total |-> errors.total + 1, entries |-> errors.entries]
    BY <1>3 DEF Recorded
  <2>2. Len(errors.entries) = MaxErrors
    BY <1>1, <1>3
  <2>3. QED
    BY <1>1, <2>1, <2>2 DEF Errors
<1>4. CASE ~ (Len(errors.entries) >= MaxErrors)
  <2> DEFINE entries == Append(errors.entries, pair)
  <2>1. Recorded(id, type) = [total |-> errors.total + 1, entries |-> entries]
    BY <1>2, <1>4 DEF Recorded
  <2>2. /\ entries \in Seq(Pairs) /\ Len(entries) = Len(errors.entries) + 1
        /\ \A i \in 1..Len(errors.entries) : entries[i] = errors.entries[i]
        /\ entries[Len(errors.entries) + 1] = pair
    <3> HIDE DEF Pairs, pair
    <3>1. \A s \in Seq(Pairs), e \in Pairs :
            /\ Append(s, e) \in Seq(Pairs) /\ Len(Append(s, e)) = Len(s) + 1
            /\ \A i \in 1..Len(s) : Append(s, e)[i] = s[i]
            /\ Append(s, e)[Len(s) + 1] = e
      OBVIOUS
    <3>2. QED
      BY <1>1, <3>1
  <2>3. Len(entries) <= MaxErrors /\ DOMAIN entries = 1..Len(errors.entries) + 1
        /\ DOMAIN errors.entries = 1..Len(errors.entries)
    BY <1>1, <1>4, <2>2
  <2>4. pair[1] = id
    OBVIOUS
  <2>5. \A i \in DOMAIN entries :
          entries[i][1] = id \/ (i \in DOMAIN errors.entries /\ entries[i] = errors.entries[i])
    <3> HIDE DEF entries, pair
    <3>1. Len(errors.entries) \in Nat
      BY <1>1
    <3>2. QED
      BY <2>2, <2>3, <2>4, <3>1
  <2>6. Recorded(id, type) \in Errors
    <3> HIDE DEF entries
    <3>1. QED
      BY <1>1, <2>1, <2>2 DEF Errors
  <2>7. QED
    <3> HIDE DEF entries
    <3>1. QED
      BY <2>1, <2>2, <2>3, <2>5, <2>6
<1>5. QED
  BY <1>3, <1>4

\* The counters of a listing that failed.
LEMMA CountsFailed ==
  ASSUME NEW c \in Counts, NEW n, n = [c EXCEPT !.stubs = @ + 1, !.failed = @ + 1]
  PROVE  /\ n \in Counts /\ n.stubs = c.stubs + 1 /\ n.failed = c.failed + 1
         /\ n.skipped = c.skipped /\ n.details = c.details /\ n.created = c.created
         /\ n.updated = c.updated /\ n.outOfScope = c.outOfScope
<1>1. c.stubs + 1 \in Nat /\ c.failed + 1 \in Nat
  BY DEF Counts
<1>2. n \in Counts
  BY <1>1 DEF Counts
<1>3. /\ n.stubs = c.stubs + 1 /\ n.failed = c.failed + 1
      /\ n.skipped = c.skipped /\ n.details = c.details /\ n.created = c.created
      /\ n.updated = c.updated /\ n.outOfScope = c.outOfScope
  BY DEF Counts
<1>4. QED
  BY <1>2, <1>3

\* A listing that was saved.
LEMMA Persists ==
  ASSUME Shape, NEW l \in AtWork, NEW d, Persist(l, d)
  PROVE  /\ l \in Listings \ seen /\ pc = "stubs"
         /\ todo # <<>> /\ l = Head(todo) /\ todo' = Tail(todo)
         /\ seen' = seen \cup {l} /\ done' = done \cup {l}
         /\ row' = [m \in Listings |-> row'[m]]
         /\ \A m \in Listings \ {l} : row'[m] = row[m]
         /\ counts' \in Counts
         /\ counts'.stubs = counts.stubs + 1 /\ counts'.details = counts.details + 1
         /\ counts'.skipped = counts.skipped /\ counts'.failed = counts.failed
         /\ counts'.created + counts'.updated = counts.created + counts.updated + 1
         /\ counts'.outOfScope = counts.outOfScope + (IF OutsideRequested(Job, row'[l]) THEN 1 ELSE 0)
         /\ UNCHANGED <<job, snapshot, index, loads, page, errors, stopped, pc, status, scope,
                        steady, bumped, fresh, shifted, edited, world, left, ref, stamp>>
<1>1. l \in Listings \ seen /\ todo # <<>> /\ l = Head(todo)
  BY TurnsTo
<1>2. PICK place, new :
        /\ row' = [row EXCEPT ![l] = Refreshed(l, place, new)]
        /\ counts' = [counts EXCEPT
             !.stubs = @ + 1, !.details = @ + 1,
             !.created = IF Exists(l) THEN @ ELSE @ + 1,
             !.updated = IF Exists(l) THEN @ + 1 ELSE @,
             !.outOfScope = IF OutsideRequested(Job, new) THEN @ + 1 ELSE @]
  BY DEF Persist
<1>3. /\ pc = "stubs" /\ todo' = Tail(todo) /\ seen' = seen \cup {l} /\ done' = done \cup {l}
      /\ UNCHANGED <<job, snapshot, index, loads, page, errors, stopped, pc, status, scope,
                     steady, bumped, fresh, shifted, edited, world, left, ref, stamp>>
  BY DEF Persist, Processes, plan, copy, past, env
<1>4. row'[l] = Refreshed(l, place, new) /\ \A m \in Listings \ {l} : row'[m] = row[m]
  BY <1>1, <1>2 DEF Shape
<1>5. row' = [m \in Listings |-> row'[m]]
  BY <1>1, <1>2 DEF Shape
<1>6. row'[l].property = new.property /\ row'[l].transaction = new.transaction
  BY <1>4 DEF Refreshed
<1>7. OutsideRequested(Job, row'[l]) <=> OutsideRequested(Job, new)
  BY <1>6 DEF OutsideRequested
<1>8. /\ counts' \in Counts
      /\ counts'.stubs = counts.stubs + 1 /\ counts'.details = counts.details + 1
      /\ counts'.skipped = counts.skipped /\ counts'.failed = counts.failed
      /\ counts'.created + counts'.updated = counts.created + counts.updated + 1
      /\ counts'.outOfScope = counts.outOfScope + (IF OutsideRequested(Job, new) THEN 1 ELSE 0)
  <2> DEFINE created == IF Exists(l) THEN counts.created ELSE counts.created + 1
             updated == IF Exists(l) THEN counts.updated + 1 ELSE counts.updated
             outside == IF OutsideRequested(Job, new) THEN counts.outOfScope + 1
                        ELSE counts.outOfScope
  <2>1. counts \in Counts
    BY DEF Shape
  <2>2. /\ counts.created \in Nat /\ counts.updated \in Nat /\ counts.outOfScope \in Nat
    BY <2>1 DEF Counts
  <2>3. created \in Nat /\ updated \in Nat /\ outside \in Nat
    BY <2>2
  <2>4. counts' = [counts EXCEPT !.stubs = @ + 1, !.details = @ + 1, !.created = created,
                                !.updated = updated, !.outOfScope = outside]
    BY <1>2
  <2>5. /\ created + updated = counts.created + counts.updated + 1
        /\ outside = counts.outOfScope + (IF OutsideRequested(Job, new) THEN 1 ELSE 0)
    BY <2>2
  <2>6. /\ counts' \in Counts
        /\ counts'.stubs = counts.stubs + 1 /\ counts'.details = counts.details + 1
        /\ counts'.skipped = counts.skipped /\ counts'.failed = counts.failed
        /\ counts'.created = created /\ counts'.updated = updated /\ counts'.outOfScope = outside
    <3> HIDE DEF created, updated, outside
    <3>1. counts' = [pages |-> counts.pages, stubs |-> counts.stubs + 1,
                     details |-> counts.details + 1, created |-> created, updated |-> updated,
                     skipped |-> counts.skipped, failed |-> counts.failed,
                     outOfScope |-> outside]
      BY <2>1, <2>4 DEF Counts
    <3>2. /\ counts.pages \in Nat /\ counts.stubs \in Nat /\ counts.details \in Nat
          /\ counts.skipped \in Nat /\ counts.failed \in Nat
      BY <2>1 DEF Counts
    <3>3. counts' \in Counts
      BY <2>3, <3>1, <3>2, SMTT(30) DEF Counts
    <3>4. QED
      BY <3>1, <3>3
  <2>7. QED
    <3> HIDE DEF created, updated, outside
    <3> QED
      BY <2>5, <2>6
<1>9. QED
  BY <1>1, <1>3, <1>4, <1>5, <1>7, <1>8

\* A listing that failed.
LEMMA Failures ==
  ASSUME Shape, Logged, NEW l \in AtWork,
         NEW d, StubUnreadable(l, d) \/ StubGone(l) \/ StubFails(l)
  PROVE  /\ l \in Listings \ seen /\ pc = "stubs"
         /\ todo # <<>> /\ l = Head(todo) /\ todo' = Tail(todo)
         /\ seen' = seen \cup {l}
         /\ counts' \in Counts
         /\ counts'.stubs = counts.stubs + 1 /\ counts'.failed = counts.failed + 1
         /\ counts'.skipped = counts.skipped /\ counts'.details = counts.details
         /\ counts'.created = counts.created /\ counts'.updated = counts.updated
         /\ counts'.outOfScope = counts.outOfScope
         /\ \E type \in ErrorTypes : errors' = Recorded(l, type)
         /\ left' = left \/ (left.faults > 0 /\ left' = [left EXCEPT !.faults = @ - 1])
         /\ UNCHANGED <<job, snapshot, index, loads, page, stopped, pc, status, scope, row, done,
                        steady, bumped, fresh, shifted, edited, world, ref, stamp>>
<1>1. l \in Listings \ seen /\ todo # <<>> /\ l = Head(todo)
  BY TurnsTo
<1>2. PICK type \in ErrorTypes : Fails(l, type)
  BY DEF StubUnreadable, StubGone, StubFails, ErrorTypes
<1>3. /\ left' = left \/ (left.faults > 0 /\ left' = [left EXCEPT !.faults = @ - 1])
      /\ UNCHANGED <<world, ref, stamp>>
  BY DEF StubUnreadable, StubGone, StubFails, env
<1>4. /\ pc = "stubs" /\ todo' = Tail(todo) /\ seen' = seen \cup {l}
      /\ counts' = [counts EXCEPT !.stubs = @ + 1, !.failed = @ + 1]
      /\ errors' = Recorded(l, type)
      /\ UNCHANGED <<job, snapshot, index, loads, page, stopped, pc, status, scope, row, done,
                     steady, bumped, fresh, shifted, edited>>
  BY <1>2 DEF Fails, Processes, plan, copy, past, stored
<1>5. counts \in Counts
  BY DEF Shape
<1>6. QED
  BY <1>1, <1>3, <1>4, <1>5, CountsFailed

\* A stub of an earlier page.
LEMMA Skips ==
  ASSUME Shape, SkipStub
  PROVE  /\ pc = "stubs" /\ todo # <<>> /\ Head(todo) \in seen /\ todo' = Tail(todo)
         /\ counts' \in Counts
         /\ counts'.stubs = counts.stubs + 1 /\ counts'.skipped = counts.skipped + 1
         /\ counts'.failed = counts.failed /\ counts'.details = counts.details
         /\ counts'.created = counts.created /\ counts'.updated = counts.updated
         /\ counts'.outOfScope = counts.outOfScope
         /\ UNCHANGED <<job, snapshot, index, loads, page, seen, errors, stopped, pc, status, scope,
                        row, done, steady, bumped, fresh, shifted, edited, world, left, ref, stamp>>
<1>1. counts \in Counts /\ counts' = [counts EXCEPT !.stubs = @ + 1, !.skipped = @ + 1]
  BY DEF Shape, SkipStub
<1>2. counts.stubs + 1 \in Nat /\ counts.skipped + 1 \in Nat
  BY <1>1, SMTT(30) DEF Counts
<1>3. counts' \in Counts
  BY <1>1, <1>2 DEF Counts
<1>4. /\ counts'.stubs = counts.stubs + 1 /\ counts'.skipped = counts.skipped + 1
      /\ counts'.failed = counts.failed /\ counts'.details = counts.details
      /\ counts'.created = counts.created /\ counts'.updated = counts.updated
      /\ counts'.outOfScope = counts.outOfScope
  BY <1>1 DEF Counts
<1>5. QED
  BY <1>3, <1>4 DEF SkipStub, plan, copy, stored, env, past

\* Publications and withdrawals.
LEMMA SourceSteps ==
  ASSUME Shape, NEW l, Publish(l) \/ Withdraw(l)
  PROVE  /\ pc \in {"request", "stubs"} /\ left.changes > 0
         /\ left' = [left EXCEPT !.changes = @ - 1]
         /\ left'.changes = left.changes - 1
         /\ \E t \in Nat : stamp' = [stamp EXCEPT ![l] = t]
         /\ steady' \subseteq steady
         /\ UNCHANGED <<job, snapshot, index, loads, page, todo, seen, counts, errors, stopped,
                        row, pairs, done, understood, filed, world, ref, edited, pc, status, scope>>
<1>1. Newest \in Nat
  BY Bounds
<1>2. left' = [left EXCEPT !.changes = @ - 1]
  BY DEF Publish, Withdraw, Changes
<1>3. left'.changes = left.changes - 1
  BY <1>2 DEF Shape
<1>4. QED
  BY <1>1, <1>2, <1>3 DEF Publish, Withdraw, Changes, plan, copy, walk, stored

\* What operators and seed commands leave alone.
LEMMA EditSteps ==
  ASSUME \/ \E file \in Here.files : SeedLocations(file)
         \/ \E file \in Here.slugs : SeedCategories(file)
         \/ \E p \in Here.toggles : Toggle(p)
         \/ \E e \in Here.remaps, p \in Places \cup {None} : Remap(e, p)
         \/ \E q \in Here.judged : Judge(q[1], q[2])
  PROVE  /\ edited' /\ left' = [left EXCEPT !.edits = @ - 1]
         /\ UNCHANGED row \/ (pc = "detect" /\ \E l, new : row' = [row EXCEPT ![l] = new])
         /\ UNCHANGED <<job, snapshot, index, loads, page, todo, seen, counts, errors, stopped,
                        pairs, done, understood, filed, world, stamp, pc, status, scope, steady,
                        bumped, fresh, shifted>>
<1>1. edited' /\ left' = [left EXCEPT !.edits = @ - 1]
      /\ UNCHANGED <<job, snapshot, index, loads, page, todo, seen, counts, errors, stopped,
                     pairs, done, understood, filed, world, stamp, pc, status, scope, steady,
                     bumped, fresh, shifted>>
  BY DEF SeedLocations, SeedCategories, Toggle, Remap, Judge, Edits, plan, copy, walk
<1>2. UNCHANGED row \/ (pc = "detect" /\ \E l, new : row' = [row EXCEPT ![l] = new])
  BY DEF SeedLocations, SeedCategories, Toggle, Remap, Judge
<1>3. QED
  BY <1>1, <1>2

\* The steps that neither look at the source nor change the reference data.
Between ==
  Submit \/ Refuse \/ Execute \/ ScopeFailed \/ Load \/ TurnPage \/ Raises \/ Finish \/ Detect
    \/ (\E d : StubRaises(d)) \/ UNCHANGED vars

LEMMA BetweenSteps ==
  ASSUME Between
  PROVE  /\ UNCHANGED <<job, page, todo, seen, counts, errors, stopped, row, done, steady, bumped,
                        fresh, shifted, world, ref, stamp>>
         /\ left' = left \/ (left.faults > 0 /\ left' = [left EXCEPT !.faults = @ - 1])
BY DEF Between, Submit, Refuse, Execute, ScopeFailed, Load, LoadPlaces, LoadAliases, LoadSources,
       TurnPage, Raises, Finish, Detect, StubRaises, plan, copy, walk, stored, env, past, vars

\* The same cases, by these groups.
LEMMA Cases ==
  ASSUME [Next]_vars
  PROVE  \/ Between \/ RequestPage \/ SkipStub \/ NextJob
         \/ \E l \in AtWork : \E d : Persist(l, d)
         \/ \E l \in AtWork : \E d : StubUnreadable(l, d) \/ StubGone(l) \/ StubFails(l)
         \/ \E l \in Here.moving : Publish(l) \/ Withdraw(l)
         \/ \/ \E file \in Here.files : SeedLocations(file)
            \/ \E file \in Here.slugs : SeedCategories(file)
            \/ \E p \in Here.toggles : Toggle(p)
            \/ \E e \in Here.remaps, p \in Places \cup {None} : Remap(e, p)
            \/ \E q \in Here.judged : Judge(q[1], q[2])
BY NextCases DEF Between

-----------------------------------------------------------------------------
(* Types, stages and the report are kept.                                   *)

LEMMA InitInvariant == Init => Shape /\ Stage /\ Logged /\ ReportAddsUp
<1> SUFFICES ASSUME Init PROVE Shape /\ Stage /\ Logged /\ ReportAddsUp
  OBVIOUS
<1>1. world \in DOMAIN Worlds /\ Here.offered \in Seq(Listings) /\ Here.changes \in Nat
  BY DEF Init, Here
<1>2. stamp \in [Listings -> Nat]
  <2>1. Len(Here.offered) \in Nat /\ DOMAIN Here.offered = 1..Len(Here.offered)
    BY <1>1
  <2>2. IsFiniteSet(DOMAIN Here.offered)
    <3>1. \A n \in Nat : IsFiniteSet(1..n)
      BY FS_Interval
    <3>2. QED
      BY <2>1, <3>1
  <2>3. \A S \in SUBSET DOMAIN Here.offered : Cardinality(S) \in Nat
    BY <2>2, FS_Subset, FS_CardinalityType
  <2>4. QED
    BY <2>3 DEF Init
<1>3. NoCounts \in Counts /\ NoErrors \in Errors /\ NoPage \in Fetched
  BY DEF NoCounts, NoErrors, NoPage, Counts, Errors, Fetched
<1>4. Shape
  <2>1. left = [edits |-> Here.edits, changes |-> Here.changes, faults |-> Here.faults]
    BY DEF Init
  <2>2. /\ left = [edits |-> left.edits, changes |-> left.changes, faults |-> left.faults]
        /\ left.changes \in 0..Here.changes
    BY <1>1, <2>1
  <2>3. row = [l \in Listings |-> row[l]] /\ todo \in Seq(Listings)
    BY DEF Init
  <2>4. QED
    BY <1>1, <1>2, <1>3, <2>2, <2>3 DEF Init, Shape
<1>5. Stage /\ Logged
  BY DEF Init, Stage, Logged, Waiting, Aside, NoErrors
<1>6. ReportAddsUp
  <2>1. Cardinality({}) = 0
    BY FS_EmptySet
  <2>2. {l \in done : OutsideRequested(Job, row[l])} = {}
    BY DEF Init
  <2>3. QED
    BY <2>1, <2>2 DEF Init, ReportAddsUp, NoCounts, NoErrors
<1>7. QED
  BY <1>4, <1>5, <1>6

LEMMA ShapeStep == ASSUME Shape, Stage, Logged, [Next]_vars PROVE Shape'
<1>1. \A changes : left' = left \/ left' = [left EXCEPT !.faults = changes]
                    \/ left' = [left EXCEPT !.edits = changes]
        => left' = [edits |-> left'.edits, changes |-> left'.changes, faults |-> left'.faults]
           /\ left'.changes = left.changes
  BY DEF Shape
<1>2. CASE Between
  <2>1. left' = left \/ left' = [left EXCEPT !.faults = left.faults - 1]
    BY <1>2, BetweenSteps
  <2>2. QED
    BY <1>1, <1>2, <2>1, BetweenSteps DEF Shape, Here
<1>3. CASE RequestPage
  <2> DEFINE items == FirstPage(Rest(Listed))
             more == Here.repeats \/ Rest(Listed) # items
  <2>1. items \in SUBSET Listings
    BY PageIsListed
  <2>2. left' = left \/ left' = [left EXCEPT !.faults = left.faults - 1]
    BY <1>3, Requests
  <2>3. UNCHANGED <<row, stamp, done, world>>
    BY <1>3, Requests
  <2>4. CASE FetchPage(items, more)
    <3>1. more \in BOOLEAN
      OBVIOUS
    <3>2. /\ page' \in Fetched /\ todo' \in Seq(Listings) /\ counts' \in Counts
          /\ UNCHANGED <<seen, errors, stopped>>
      <4> HIDE DEF items, more
      <4>1. QED
        BY <2>1, <2>4, <3>1, Fetches
    <3>3. QED
      BY <1>1, <2>2, <2>3, <3>2 DEF Shape, Here
  <2>5. CASE RepeatedPage(items)
    BY <1>1, <2>2, <2>3, <2>5 DEF Shape, RepeatedPage, walk, Here
  <2>6. ASSUME NEW type \in ErrorTypes, Stops(type) PROVE Shape'
    <3>1. /\ stopped' = TRUE /\ errors' = Recorded("list-page", type)
          /\ UNCHANGED <<page, todo, seen, counts>>
      BY <2>6 DEF Stops
    <3>2. \A i \in DOMAIN errors.entries : errors.entries[i][1] # "list-page"
      BY <1>3, Requests DEF Shape, Stage, Logged
    <3>3. errors' \in Errors
      BY <3>1, <3>2, Records DEF Shape, Logged
    <3>4. QED
      BY <1>1, <2>2, <2>3, <3>1, <3>3 DEF Shape, Here
  <2>7. QED
    BY <1>3, <2>4, <2>5, <2>6, Requests
<1>4. CASE SkipStub
  <2>1. todo' \in Seq(Listings)
    BY <1>4, Skips, Tails DEF Shape
  <2>2. QED
    BY <1>4, <2>1, Skips DEF Shape, Here
<1>5. CASE NextJob
  <2>1. NoCounts \in Counts /\ NoErrors \in Errors /\ NoPage \in Fetched
    BY DEF NoCounts, NoErrors, NoPage, Counts, Errors, Fetched
  <2>2. /\ counts' = NoCounts /\ errors' = NoErrors /\ page' = NoPage /\ todo' = <<>>
        /\ seen' = {} /\ done' = {} /\ stopped' = FALSE
        /\ UNCHANGED <<row, stamp, left, world>>
    BY <1>5 DEF NextJob, env
  <2>3. todo' \in Seq(Listings)
    BY <2>2
  <2>4. QED
    BY <2>1, <2>2, <2>3 DEF Shape, Here
<1>6. ASSUME NEW l \in AtWork, NEW d, Persist(l, d) PROVE Shape'
  <2>1. todo' \in Seq(Listings)
    BY <1>6, Persists, Tails DEF Shape
  <2>2. /\ seen' = seen \cup {l} /\ done' = done \cup {l} /\ l \in Listings
        /\ row' = [m \in Listings |-> row'[m]] /\ counts' \in Counts
        /\ UNCHANGED <<page, errors, stopped, world, left, stamp>>
    BY <1>6, Persists
  <2>3. QED
    BY <2>1, <2>2 DEF Shape, Here
<1>7. ASSUME NEW l \in AtWork, NEW d, StubUnreadable(l, d) \/ StubGone(l) \/ StubFails(l)
      PROVE  Shape'
  <2>1. todo' \in Seq(Listings)
    BY <1>7, Failures, Tails DEF Shape
  <2>2. /\ l \in Listings \ seen /\ seen' = seen \cup {l} /\ counts' \in Counts
        /\ UNCHANGED <<page, stopped, row, done, world, stamp>>
        /\ left' = left \/ left' = [left EXCEPT !.faults = left.faults - 1]
    BY <1>7, Failures
  <2>3. errors' \in Errors
    <3>1. PICK type \in ErrorTypes : errors' = Recorded(l, type)
      BY <1>7, Failures
    <3>2. \A i \in DOMAIN errors.entries : errors.entries[i][1] # l
      BY <2>2 DEF Logged
    <3>3. QED
      BY <2>2, <3>1, <3>2, Records DEF Shape, Logged
  <2>4. QED
    BY <1>1, <2>1, <2>2, <2>3 DEF Shape, Here
<1>8. ASSUME NEW l, Publish(l) \/ Withdraw(l) PROVE Shape'
  <2>1. /\ left.changes > 0 /\ left' = [left EXCEPT !.changes = @ - 1]
        /\ left'.changes = left.changes - 1
    BY <1>8, SourceSteps
  <2>2. left' = [edits |-> left'.edits, changes |-> left'.changes, faults |-> left'.faults]
    BY <2>1 DEF Shape
  <2>3. stamp' \in [Listings -> Nat]
    BY <1>8, SourceSteps DEF Shape
  <2>4. Here' = Here /\ Here.changes \in Nat
    BY <1>8, SourceSteps, Bounds DEF Here
  <2>5. left'.changes \in 0..Here.changes
    BY <2>1, <2>4 DEF Shape
  <2>6. QED
    BY <1>8, <2>2, <2>3, <2>4, <2>5, SourceSteps DEF Shape
<1>9. ASSUME \/ \E file \in Here.files : SeedLocations(file)
             \/ \E file \in Here.slugs : SeedCategories(file)
             \/ \E p \in Here.toggles : Toggle(p)
             \/ \E e \in Here.remaps, p \in Places \cup {None} : Remap(e, p)
             \/ \E q \in Here.judged : Judge(q[1], q[2])
      PROVE  Shape'
  <2>1. left' = [left EXCEPT !.edits = left.edits - 1]
    BY <1>9, EditSteps
  <2>2. row' = [l \in Listings |-> row'[l]]
    BY <1>9, EditSteps DEF Shape
  <2>3. QED
    BY <1>1, <1>9, <2>1, <2>2, EditSteps DEF Shape, Here
<1>10. QED
  BY <1>2, <1>3, <1>4, <1>5, <1>6, <1>7, <1>8, <1>9, Cases

LEMMA StageStep == ASSUME Shape, Stage, Logged, [Next]_vars PROVE Stage'
<1> USE DEF Waiting, Aside
<1>1. CASE Submit \/ Refuse \/ Execute \/ ScopeFailed \/ Finish \/ Detect \/ Raises
  BY <1>1 DEF Stage, Submit, Refuse, Execute, ScopeFailed, Finish, Detect, Raises, copy, walk,
              stored, env, past
<1>2. CASE Load
  BY <1>2 DEF Stage, Load, LoadPlaces, LoadAliases, LoadSources, plan, walk, stored, env, past
<1>3. CASE TurnPage \/ \E d : StubRaises(d)
  BY <1>3 DEF Stage, TurnPage, StubRaises, walk, past
<1>4. CASE RequestPage
  <2> DEFINE items == FirstPage(Rest(Listed))
  <2>1. pc = "request" /\ scope' = scope
    BY <1>4, Requests
  <2>2. CASE FetchPage(items, Here.repeats \/ Rest(Listed) # items)
    <3>1. pc' = "stubs" /\ stopped' = stopped
      BY <2>2 DEF FetchPage
    <3>2. QED
      BY <2>1, <3>1 DEF Stage
  <2>3. CASE RepeatedPage(items)
    BY <2>1, <2>3 DEF Stage, RepeatedPage, walk
  <2>4. ASSUME NEW type \in ErrorTypes, Stops(type) PROVE Stage'
    BY <2>1, <2>4 DEF Stage, Stops
  <2>5. QED
    BY <1>4, <2>2, <2>3, <2>4, Requests
<1>5. CASE SkipStub
  BY <1>5, Skips DEF Stage
<1>6. CASE NextJob
  BY <1>6 DEF Stage, NextJob
<1>7. ASSUME NEW l \in AtWork, NEW d, Persist(l, d) PROVE Stage'
  BY <1>7, Persists DEF Stage
<1>8. ASSUME NEW l \in AtWork, NEW d, StubUnreadable(l, d) \/ StubGone(l) \/ StubFails(l)
      PROVE  Stage'
  BY <1>8, Failures DEF Stage
<1>9. ASSUME NEW l, Publish(l) \/ Withdraw(l) PROVE Stage'
  BY <1>9, SourceSteps DEF Stage
<1>10. ASSUME \/ \E file \in Here.files : SeedLocations(file)
              \/ \E file \in Here.slugs : SeedCategories(file)
              \/ \E p \in Here.toggles : Toggle(p)
              \/ \E e \in Here.remaps, p \in Places \cup {None} : Remap(e, p)
              \/ \E q \in Here.judged : Judge(q[1], q[2])
       PROVE  Stage'
  BY <1>10, EditSteps DEF Stage
<1>11. CASE UNCHANGED vars
  BY <1>11 DEF Stage, vars, plan, copy, walk, stored, env, past
<1>12. QED
  BY <1>1, <1>2, <1>3, <1>4, <1>5, <1>6, <1>7, <1>8, <1>9, <1>10, <1>11, Cases DEF Between

LEMMA LoggedStep == ASSUME Shape, Stage, Logged, [Next]_vars PROVE Logged'
<1>1. CASE Between \/ SkipStub \/ NextJob
  BY <1>1, BetweenSteps, Skips DEF Logged, NextJob, NoErrors
<1>2. CASE RequestPage
  <2> DEFINE items == FirstPage(Rest(Listed))
  <2>1. CASE FetchPage(items, Here.repeats \/ Rest(Listed) # items) \/ RepeatedPage(items)
    BY <2>1 DEF Logged, FetchPage, RepeatedPage, walk
  <2>2. ASSUME NEW type \in ErrorTypes, Stops(type) PROVE Logged'
    <3>1. \A i \in DOMAIN errors.entries : errors.entries[i][1] # "list-page"
      BY <1>2, Requests DEF Shape, Stage, Logged
    <3>2. errors' = Recorded("list-page", type) /\ stopped' /\ seen' = seen
      BY <2>2 DEF Stops
    <3>3. QED
      BY <3>1, <3>2, Records DEF Shape, Logged
  <2>3. QED
    BY <1>2, <2>1, <2>2, Requests
<1>3. ASSUME NEW l \in AtWork, NEW d, Persist(l, d) PROVE Logged'
  BY <1>3, Persists DEF Logged
<1>4. ASSUME NEW l \in AtWork, NEW d, StubUnreadable(l, d) \/ StubGone(l) \/ StubFails(l)
      PROVE  Logged'
  <2>1. l \in Listings \ seen /\ seen' = seen \cup {l} /\ UNCHANGED stopped
    BY <1>4, Failures
  <2>2. PICK type \in ErrorTypes : errors' = Recorded(l, type)
    BY <1>4, Failures
  <2>3. \A i \in DOMAIN errors.entries : errors.entries[i][1] # l
    BY <2>1 DEF Logged
  <2>4. QED
    BY <2>1, <2>2, <2>3, Records DEF Shape, Logged
<1>5. ASSUME NEW l, Publish(l) \/ Withdraw(l) PROVE Logged'
  BY <1>5, SourceSteps DEF Logged
<1>6. ASSUME \/ \E file \in Here.files : SeedLocations(file)
             \/ \E file \in Here.slugs : SeedCategories(file)
             \/ \E p \in Here.toggles : Toggle(p)
             \/ \E e \in Here.remaps, p \in Places \cup {None} : Remap(e, p)
             \/ \E q \in Here.judged : Judge(q[1], q[2])
      PROVE  Logged'
  BY <1>6, EditSteps DEF Logged
<1>7. QED
  BY <1>1, <1>2, <1>3, <1>4, <1>5, <1>6, Cases

-----------------------------------------------------------------------------
(* The report.                                                              *)

\* What was persisted outside of what the job asks for.
Outside == {l \in done : OutsideRequested(Job, row[l])}

LEMMA Finite ==
  ASSUME Shape
  PROVE  /\ IsFiniteSet(seen) /\ IsFiniteSet(done) /\ IsFiniteSet(Outside)
         /\ Cardinality(seen) \in Nat /\ Cardinality(done) \in Nat
         /\ Cardinality(Outside) \in Nat
<1>1. seen \in SUBSET Listings /\ done \in SUBSET Listings /\ Outside \in SUBSET Listings
  BY DEF Shape, Outside
<1>2. IsFiniteSet(seen) /\ IsFiniteSet(done) /\ IsFiniteSet(Outside)
  BY <1>1, FS_Subset
<1>3. QED
  BY <1>2, FS_CardinalityType

\* The counters of a report.
LEMMA ReportParts ==
  ASSUME Shape
  PROVE  /\ counts.stubs \in Nat /\ counts.skipped \in Nat /\ counts.failed \in Nat
         /\ counts.details \in Nat /\ counts.created \in Nat /\ counts.updated \in Nat
         /\ counts.outOfScope \in Nat /\ errors.total \in Nat
         /\ Len(errors.entries) \in Nat
BY DEF Shape, Counts, Errors

\* A step that touches nothing the report adds up.
LEMMA ReportUntouched ==
  ASSUME ReportAddsUp, UNCHANGED <<counts, errors, stopped, done, seen, job, world>>,
         \A l \in done : row'[l] = row[l]
  PROVE  ReportAddsUp'
<1>1. Outside' = Outside
  BY DEF Outside, Job, Here
<1>2. QED
  BY <1>1 DEF ReportAddsUp, Outside

\* What a new failure adds to the log.
LEMMA LogAddsUp ==
  ASSUME Shape, Logged, ReportAddsUp, NEW id \in Listings \cup {"list-page"},
         NEW type \in ErrorTypes, errors' = Recorded(id, type),
         \A i \in DOMAIN errors.entries : errors.entries[i][1] # id
  PROVE  /\ errors'.total = errors.total + 1
         /\ \/ errors'.total = Len(errors'.entries)
            \/ errors'.total > MaxErrors /\ Len(errors'.entries) = MaxErrors
<1>1. /\ errors'.total = errors.total + 1 /\ Len(errors'.entries) <= MaxErrors
      /\ \/ errors'.entries = errors.entries /\ Len(errors.entries) = MaxErrors
         \/ Len(errors'.entries) = Len(errors.entries) + 1
  BY Records DEF Shape, Logged
<1>2. \/ errors.total = Len(errors.entries)
      \/ errors.total > MaxErrors /\ Len(errors.entries) = MaxErrors
  BY DEF ReportAddsUp
<1>3. errors.total \in Nat /\ Len(errors.entries) \in Nat
  BY ReportParts
<1>4. QED
  BY <1>1, <1>2, <1>3

LEMMA ReportStep ==
  ASSUME Shape, Stage, Logged, ReportAddsUp, [Next]_vars PROVE ReportAddsUp'
<1>1. CASE Between
  BY <1>1, BetweenSteps, ReportUntouched
<1>2. CASE RequestPage
  <2> DEFINE items == FirstPage(Rest(Listed))
  <2>1. UNCHANGED <<done, row, job, world>>
    BY <1>2, Requests
  <2>2. CASE FetchPage(items, Here.repeats \/ Rest(Listed) # items)
    <3>1. UNCHANGED <<seen, errors, stopped>> /\ counts' = [counts EXCEPT !.pages = @ + 1]
      BY <2>2 DEF FetchPage
    <3>2. /\ counts'.stubs = counts.stubs /\ counts'.skipped = counts.skipped
          /\ counts'.failed = counts.failed /\ counts'.details = counts.details
          /\ counts'.created = counts.created /\ counts'.updated = counts.updated
          /\ counts'.outOfScope = counts.outOfScope
      BY <3>1 DEF Shape, Counts
    <3>3. Outside' = Outside
      BY <2>1 DEF Outside, Job, Here
    <3>4. QED
      BY <2>1, <3>1, <3>2, <3>3 DEF ReportAddsUp, Outside
  <2>3. CASE RepeatedPage(items)
    BY <2>1, <2>3, ReportUntouched DEF RepeatedPage, walk
  <2>4. ASSUME NEW type \in ErrorTypes, Stops(type) PROVE ReportAddsUp'
    <3>1. ~ stopped /\ stopped' /\ UNCHANGED <<counts, seen>>
          /\ errors' = Recorded("list-page", type)
      BY <1>2, <2>4, Requests DEF Stops, Stage
    <3>2. \A i \in DOMAIN errors.entries : errors.entries[i][1] # "list-page"
      BY <3>1 DEF Shape, Logged
    <3>3. /\ errors'.total = errors.total + 1
          /\ \/ errors'.total = Len(errors'.entries)
             \/ errors'.total > MaxErrors /\ Len(errors'.entries) = MaxErrors
      BY <3>1, <3>2, LogAddsUp
    <3>4. errors.total = counts.failed
      BY <3>1, ReportParts DEF ReportAddsUp
    <3>5. Outside' = Outside
      BY <2>1 DEF Outside, Job, Here
    <3>6. QED
      BY <2>1, <3>1, <3>3, <3>4, <3>5 DEF ReportAddsUp, Outside
  <2>5. QED
    BY <1>2, <2>2, <2>3, <2>4, Requests
<1>3. CASE SkipStub
  <2>1. /\ counts'.stubs = counts.stubs + 1 /\ counts'.skipped = counts.skipped + 1
        /\ counts'.failed = counts.failed /\ counts'.details = counts.details
        /\ counts'.created = counts.created /\ counts'.updated = counts.updated
        /\ counts'.outOfScope = counts.outOfScope
        /\ UNCHANGED <<job, seen, errors, stopped, row, done, world>>
    BY <1>3, Skips
  <2>2. Outside' = Outside
    BY <2>1 DEF Outside, Job, Here
  <2>3. counts'.stubs = counts'.skipped + counts'.failed + counts'.details
    <3>1. counts.stubs = counts.skipped + counts.failed + counts.details
      BY DEF ReportAddsUp
    <3>2. QED
      BY <2>1, <3>1, ReportParts, SMTT(30)
  <2>4. QED
    BY <2>1, <2>2, <2>3 DEF ReportAddsUp, Outside
<1>4. CASE NextJob
  <2>1. /\ counts' = NoCounts /\ errors' = NoErrors /\ stopped' = FALSE
        /\ done' = {} /\ seen' = {}
    BY <1>4 DEF NextJob
  <2>2. {l \in done' : OutsideRequested(Job', row'[l])} = {} /\ Cardinality({}) = 0
    BY <2>1, FS_EmptySet
  <2>3. QED
    BY <2>1, <2>2 DEF ReportAddsUp, NoCounts, NoErrors
<1>5. ASSUME NEW l \in AtWork, NEW d, Persist(l, d) PROVE ReportAddsUp'
  <2>1. /\ l \in Listings \ seen /\ seen' = seen \cup {l} /\ done' = done \cup {l}
        /\ \A m \in Listings \ {l} : row'[m] = row[m]
        /\ counts'.stubs = counts.stubs + 1 /\ counts'.details = counts.details + 1
        /\ counts'.skipped = counts.skipped /\ counts'.failed = counts.failed
        /\ counts'.created + counts'.updated = counts.created + counts.updated + 1
        /\ counts'.outOfScope
             = counts.outOfScope + (IF OutsideRequested(Job, row'[l]) THEN 1 ELSE 0)
        /\ UNCHANGED <<job, errors, stopped, world>>
    BY <1>5, Persists
  <2>2. l \notin done /\ l \notin Outside /\ done \subseteq Listings
    BY <2>1 DEF Shape, Outside
  <2>3. Cardinality(seen') = Cardinality(seen) + 1 /\ Cardinality(done') = Cardinality(done) + 1
    <3>1. Cardinality(seen \cup {l}) = Cardinality(seen) + 1
      BY <2>1, Finite, FS_AddElement
    <3>2. Cardinality(done \cup {l}) = Cardinality(done) + 1
      BY <2>2, Finite, FS_AddElement
    <3>3. QED
      BY <2>1, <3>1, <3>2
  <2>4. Job' = Job
    BY <2>1 DEF Job, Here
  <2>5. Outside' = IF OutsideRequested(Job, row'[l]) THEN Outside \cup {l} ELSE Outside
    BY <2>1, <2>2, <2>4 DEF Outside
  <2>6. Cardinality(Outside')
          = Cardinality(Outside) + (IF OutsideRequested(Job, row'[l]) THEN 1 ELSE 0)
    <3>1. Cardinality(Outside \cup {l}) = Cardinality(Outside) + 1
      BY <2>2, Finite, FS_AddElement
    <3>2. QED
      BY <2>5, <3>1, Finite
  <2>7. /\ counts.stubs = counts.skipped + counts.failed + counts.details
        /\ counts.details = counts.created + counts.updated
        /\ counts.details = Cardinality(done)
        /\ counts.details + counts.failed = Cardinality(seen)
        /\ errors.total = counts.failed + (IF stopped THEN 1 ELSE 0)
        /\ \/ errors.total = Len(errors.entries)
           \/ errors.total > MaxErrors /\ Len(errors.entries) = MaxErrors
        /\ counts.outOfScope = Cardinality(Outside)
    BY DEF ReportAddsUp, Outside
  <2>8. counts'.stubs = counts'.skipped + counts'.failed + counts'.details
        /\ counts'.details = counts'.created + counts'.updated
    BY <2>1, <2>7, ReportParts, SMTT(30)
  <2>9. /\ counts'.details = Cardinality(done')
        /\ counts'.details + counts'.failed = Cardinality(seen')
        /\ counts'.outOfScope = Cardinality(Outside')
    <3>1. counts'.outOfScope = Cardinality(Outside')
      BY <2>1, <2>6, <2>7
    <3>2. counts'.details = Cardinality(done')
      BY <2>1, <2>3, <2>7
    <3>3. counts'.details + counts'.failed = Cardinality(seen')
      <4>1. counts'.details = counts.details + 1 /\ counts'.failed = counts.failed
        BY <2>1
      <4>2. counts.details + counts.failed = Cardinality(seen)
        BY <2>7
      <4>3. \A a, b, c \in Nat : a + b = c => (a + 1) + b = c + 1
        OBVIOUS
      <4>4. (counts.details + 1) + counts.failed = Cardinality(seen) + 1
        <5>1. counts.details \in Nat /\ counts.failed \in Nat
          BY ReportParts
        <5>2. Cardinality(seen) \in Nat
          BY Finite
        <5>3. QED
          BY <4>2, <4>3, <5>1, <5>2
      <4>5. QED
        BY <2>3, <4>1, <4>4
    <3>4. QED
      BY <3>1, <3>2, <3>3
  <2>10. QED
    BY <2>1, <2>7, <2>8, <2>9 DEF ReportAddsUp, Outside
<1>6. ASSUME NEW l \in AtWork, NEW d, StubUnreadable(l, d) \/ StubGone(l) \/ StubFails(l)
      PROVE  ReportAddsUp'
  <2>1. /\ l \in Listings \ seen /\ seen' = seen \cup {l}
        /\ counts'.stubs = counts.stubs + 1 /\ counts'.failed = counts.failed + 1
        /\ counts'.skipped = counts.skipped /\ counts'.details = counts.details
        /\ counts'.created = counts.created /\ counts'.updated = counts.updated
        /\ counts'.outOfScope = counts.outOfScope
        /\ \E type \in ErrorTypes : errors' = Recorded(l, type)
        /\ UNCHANGED <<job, stopped, row, done, world>>
    BY <1>6, Failures
  <2>2. Cardinality(seen') = Cardinality(seen) + 1
    BY <2>1, Finite, FS_AddElement
  <2>3. Outside' = Outside
    BY <2>1 DEF Outside, Job, Here
  <2>4. /\ errors'.total = errors.total + 1
        /\ \/ errors'.total = Len(errors'.entries)
           \/ errors'.total > MaxErrors /\ Len(errors'.entries) = MaxErrors
    <3>1. \A i \in DOMAIN errors.entries : errors.entries[i][1] # l
      BY <2>1 DEF Logged
    <3>2. QED
      BY <2>1, <3>1, LogAddsUp
  <2>5. counts'.stubs = counts'.skipped + counts'.failed + counts'.details
    <3>1. counts.stubs = counts.skipped + counts.failed + counts.details
      BY DEF ReportAddsUp
    <3>2. /\ counts'.stubs = counts.stubs + 1 /\ counts'.failed = counts.failed + 1
          /\ counts'.skipped = counts.skipped /\ counts'.details = counts.details
      BY <2>1
    <3>3. /\ counts.skipped \in Nat /\ counts.failed \in Nat /\ counts.details \in Nat
      BY ReportParts
    <3>4. QED
      BY <3>1, <3>2, <3>3
  <2>6. counts'.details + counts'.failed = Cardinality(seen')
    <3>1. counts.details + counts.failed = Cardinality(seen)
      BY DEF ReportAddsUp
    <3>2. QED
      BY <2>1, <2>2, <3>1, ReportParts, Finite, SMTT(30)
  <2>7. errors'.total = counts'.failed + (IF stopped' THEN 1 ELSE 0)
    <3>1. errors.total = counts.failed + (IF stopped THEN 1 ELSE 0)
      BY DEF ReportAddsUp
    <3>2. QED
      BY <2>1, <2>4, <3>1, ReportParts
  <2>8. QED
    BY <2>1, <2>3, <2>4, <2>5, <2>6, <2>7 DEF ReportAddsUp, Outside
<1>7. ASSUME NEW l, Publish(l) \/ Withdraw(l) PROVE ReportAddsUp'
  BY <1>7, SourceSteps, ReportUntouched
<1>8. ASSUME \/ \E file \in Here.files : SeedLocations(file)
             \/ \E file \in Here.slugs : SeedCategories(file)
             \/ \E p \in Here.toggles : Toggle(p)
             \/ \E e \in Here.remaps, p \in Places \cup {None} : Remap(e, p)
             \/ \E q \in Here.judged : Judge(q[1], q[2])
      PROVE  ReportAddsUp'
  <2>1. UNCHANGED row \/ done = {}
    BY <1>8, EditSteps DEF Shape, Stage, Aside
  <2>2. QED
    BY <1>8, <2>1, EditSteps, ReportUntouched
<1>9. QED
  BY <1>1, <1>2, <1>3, <1>4, <1>5, <1>6, <1>7, <1>8, Cases

\* The invariant of the crawl.
LEMMA CrawlInvariant == Spec => [](Shape /\ Stage /\ Logged /\ ReportAddsUp)
<1>1. Shape /\ Stage /\ Logged /\ ReportAddsUp /\ [Next]_vars
        => (Shape /\ Stage /\ Logged /\ ReportAddsUp)'
  BY ShapeStep, StageStep, LoggedStep, ReportStep
<1>2. QED
  BY <1>1, InitInvariant, PTL DEF Spec

\* A report accounts for every stub, every failure and every listing exactly
\* once, however many there are and whatever fails (runner.py, run_crawl,
\* CrawlCounts and _ErrorLog).
THEOREM ReportsAddUp == Spec => []ReportAddsUp
BY CrawlInvariant, PTL

-----------------------------------------------------------------------------
(* What was crawled.                                                        *)

Coming == {todo[i] : i \in DOMAIN todo}

\* A listing that the source lists for the scope, whatever its stamp.
InScope(l) ==
  /\ scope # NoScope /\ scope.place \in Pages[l].at
  /\ Job.source = "divar" /\ scope.category # None => scope.category \in Pages[l].slugs

\* Until the tables change a job finds again what it was created with, and all
\* that is processed or still to be was listed for its scope.
Scoped ==
  /\ pc \in {"loading", "request", "stubs"} => scope # NoScope
  /\ pc = "queued" /\ ~ edited
       => /\ snapshot.place = SourcePlace(ref.mapping, Job.source, snapshot.target)
          /\ snapshot.category = None => MappedSlug(Job) = None
  /\ scope # NoScope /\ ~ edited
       => scope.place = snapshot.place /\ scope.category = snapshot.category
  /\ scope # NoScope /\ snapshot.category # None => scope.category = snapshot.category
  /\ \A l \in done \cup Coming : InScope(l)

\* What is left of a page was on it.
LEMMA ComingShrinks ==
  ASSUME Shape, todo # <<>>, todo' = Tail(todo)
  PROVE  Coming' \subseteq Coming
<1>1. /\ DOMAIN todo = 1..Len(todo) /\ Len(todo) \in Nat
      /\ Tail(todo) \in Seq(Listings) /\ Len(Tail(todo)) = Len(todo) - 1
      /\ \A i \in 1..Len(Tail(todo)) : Tail(todo)[i] = todo[i + 1]
  BY Tails DEF Shape
<1>2. \A i \in DOMAIN Tail(todo) : i + 1 \in DOMAIN todo /\ Tail(todo)[i] = todo[i + 1]
  BY <1>1
<1>3. QED
  BY <1>2 DEF Coming

LEMMA HeadIsComing ==
  ASSUME Shape, todo # <<>> PROVE Head(todo) \in Coming
<1>1. Head(todo) = todo[1] /\ 1 \in DOMAIN todo
  BY DEF Shape
<1>2. QED
  BY <1>1 DEF Coming

\* Steps that leave the scope and the snapshot alone.
LEMMA ScopedUntouched ==
  ASSUME Scoped, UNCHANGED <<job, world, snapshot, scope, ref, edited>>,
         (done \cup Coming)' \subseteq done \cup Coming,
         pc' \in {"loading", "request", "stubs"} => scope # NoScope,
         pc' = "queued" => pc = "queued"
  PROVE  Scoped'
<1>1. Job' = Job /\ MappedSlug(Job)' = MappedSlug(Job)
  BY DEF Job, Here, MappedSlug
<1>2. \A l : InScope(l) => InScope(l)'
  BY <1>1 DEF InScope
<1>3. QED
  BY <1>1, <1>2 DEF Scoped

LEMMA ScopedStep == ASSUME Shape, Stage, Scoped, Logged, [Next]_vars PROVE Scoped'
<1> USE DEF Waiting, Aside
<1>1. CASE Submit
  <2>1. PICK p : /\ snapshot' = [target |-> p, place |-> ScopeOf(Job, p, Job.category).place,
                                 category |-> ScopeOf(Job, p, Job.category).category]
                 /\ pc = "submit" /\ pc' = "queued"
                 /\ UNCHANGED <<job, todo, done, world, ref, scope>>
    BY <1>1 DEF Submit, walk, stored, env
  <2>2. Job' = Job /\ MappedSlug(Job)' = MappedSlug(Job)
    BY <2>1 DEF Job, Here, MappedSlug
  <2>3. /\ snapshot'.target = p /\ snapshot'.place = SourcePlace(ref.mapping, Job.source, p)
        /\ snapshot'.category = Category(Job, Job.category)
    BY <2>1 DEF ScopeOf
  <2>4. snapshot'.category = None => MappedSlug(Job) = None
    BY <2>3 DEF Category
  <2>5. scope' = NoScope /\ (done \cup Coming)' = {}
    BY <2>1 DEF Stage, Shape, Coming
  <2>6. QED
    BY <2>1, <2>2, <2>3, <2>4, <2>5 DEF Scoped
<1>2. CASE Execute
  <2>1. /\ pc = "queued" /\ pc' = "loading" /\ Resolvable(Job, snapshot.target)
        /\ scope' = ScopeOf(Job, snapshot.target, snapshot.category)
        /\ UNCHANGED <<job, snapshot, todo, done, world, ref, edited>>
    BY <1>2 DEF Execute, plan, walk, stored, env, past
  <2>2. /\ scope'.place = SourcePlace(ref.mapping, Job.source, snapshot.target)
        /\ scope'.category = Category(Job, snapshot.category)
    BY <2>1 DEF ScopeOf
  <2>3. scope' # NoScope
    BY <2>1, <2>2 DEF Resolvable, NoScope
  <2>4. ~ edited => scope'.place = snapshot.place /\ scope'.category = snapshot.category
    BY <2>1, <2>2 DEF Scoped, Category
  <2>5. snapshot.category # None => scope'.category = snapshot.category
    BY <2>2 DEF Category
  <2>6. (done \cup Coming)' = {}
    BY <2>1 DEF Stage, Shape, Coming
  <2>7. QED
    BY <2>1, <2>3, <2>4, <2>5, <2>6 DEF Scoped
<1>3. CASE Load
  <2>1. /\ pc = "loading" /\ pc' \in {"loading", "request"}
        /\ UNCHANGED <<job, world, snapshot, scope, ref, edited, todo, done>>
    BY <1>3 DEF Load, LoadPlaces, LoadAliases, LoadSources, plan, walk, stored, env, past
  <2>2. QED
    BY <2>1, ScopedUntouched DEF Scoped, Coming
<1>4. CASE Refuse \/ ScopeFailed \/ TurnPage \/ Raises \/ Finish \/ Detect
             \/ (\E d : StubRaises(d)) \/ UNCHANGED vars
  <2>1. /\ pc' = pc \/ pc' \in {"refused", "ended", "raised", "over", "finish"}
             \/ (pc = "stubs" /\ pc' = "request")
        /\ UNCHANGED <<job, world, snapshot, scope, ref, edited, todo, done>>
    BY <1>4 DEF Refuse, ScopeFailed, TurnPage, Raises, Finish, Detect, StubRaises, plan, walk,
                stored, env, past, vars
  <2>2. QED
    BY <2>1, ScopedUntouched DEF Scoped, Coming
<1>5. CASE RequestPage
  <2> DEFINE items == FirstPage(Rest(Listed))
             more == Here.repeats \/ Rest(Listed) # items
  <2>1. pc = "request" /\ UNCHANGED <<job, world, snapshot, scope, ref, edited, done>>
    BY <1>5, Requests
  <2>2. CASE FetchPage(items, more)
    <3>1. items \in SUBSET Listings /\ more \in BOOLEAN
      BY PageIsListed
    <3>2. Coming' = items /\ pc' = "stubs"
      <4>1. pc' = "stubs"
        BY <2>2 DEF FetchPage
      <4>2. {todo'[i] : i \in DOMAIN todo'} = items
        <5> HIDE DEF items, more
        <5>1. QED
          BY <2>2, <3>1, Fetches
      <4>3. QED
        BY <4>1, <4>2 DEF Coming
    <3>3. scope # NoScope
      BY <2>1 DEF Scoped
    <3>4. Job' = Job
      BY <2>1 DEF Job, Here
    <3>5. \A l \in items : InScope(l)'
      <4>1. items \subseteq Listed
        BY PageIsListed
      <4>2. QED
        BY <2>1, <3>3, <3>4, <4>1 DEF Listed, InScope
    <3>6. \A l \in done : InScope(l)'
      BY <2>1, <3>4 DEF Scoped, InScope
    <3>7. QED
      BY <2>1, <3>2, <3>3, <3>5, <3>6 DEF Scoped
  <2>3. ASSUME RepeatedPage(items) \/ \E type \in ErrorTypes : Stops(type) PROVE Scoped'
    <3>1. todo' = todo /\ pc' = "finish"
      BY <2>3 DEF RepeatedPage, Stops, walk
    <3>2. QED
      BY <2>1, <3>1, ScopedUntouched DEF Coming
  <2>4. QED
    BY <1>5, <2>2, <2>3, Requests
<1>6. CASE SkipStub
  <2>1. Coming' \subseteq Coming
    BY <1>6, Skips, ComingShrinks
  <2>2. QED
    BY <1>6, <2>1, Skips, ScopedUntouched DEF Scoped
<1>7. CASE NextJob
  <2>1. scope' = NoScope /\ todo' = <<>> /\ done' = {} /\ pc' \in {"submit", "detect"}
    BY <1>7 DEF NextJob
  <2>2. QED
    BY <2>1 DEF Scoped, Coming
<1>8. ASSUME NEW l \in AtWork, NEW d, Persist(l, d) PROVE Scoped'
  <2>1. Coming' \subseteq Coming /\ l \in Coming
    BY <1>8, Persists, ComingShrinks, HeadIsComing
  <2>2. QED
    BY <1>8, <2>1, Persists, ScopedUntouched DEF Scoped
<1>9. ASSUME NEW l \in AtWork, NEW d, StubUnreadable(l, d) \/ StubGone(l) \/ StubFails(l)
      PROVE  Scoped'
  <2>1. Coming' \subseteq Coming
    BY <1>9, Failures, ComingShrinks
  <2>2. QED
    BY <1>9, <2>1, Failures, ScopedUntouched DEF Scoped
<1>10. ASSUME NEW l, Publish(l) \/ Withdraw(l) PROVE Scoped'
  BY <1>10, SourceSteps, ScopedUntouched DEF Scoped, Coming
<1>11. ASSUME \/ \E file \in Here.files : SeedLocations(file)
              \/ \E file \in Here.slugs : SeedCategories(file)
              \/ \E p \in Here.toggles : Toggle(p)
              \/ \E e \in Here.remaps, p \in Places \cup {None} : Remap(e, p)
              \/ \E q \in Here.judged : Judge(q[1], q[2])
       PROVE  Scoped'
  <2>1. edited' /\ UNCHANGED <<job, world, snapshot, scope, pc, todo, done>>
    BY <1>11, EditSteps
  <2>2. Job' = Job
    BY <2>1 DEF Job, Here
  <2>3. \A l \in done \cup Coming : InScope(l)'
    BY <2>1, <2>2 DEF Scoped, InScope
  <2>4. QED
    BY <2>1, <2>3 DEF Scoped, Coming
<1>12. QED
  BY <1>1, <1>2, <1>3, <1>4, <1>5, <1>6, <1>7, <1>8, <1>9, <1>10, <1>11, Cases DEF Between

LEMMA InitScoped == Init => Scoped
BY DEF Init, Scoped, Coming, NoScope

\* The place and the category of a report are those that were crawled, and each
\* listing it counts was listed there, unless the reference tables changed
\* between creation and execution; a category named at creation stays (scope.py,
\* build_scope; models.py, _resolve_snapshot).
THEOREM ReportsNameWhatWasCrawled == Spec => []ReportIsWhatWasCrawled
<1> DEFINE Inv == Shape /\ Stage /\ Logged /\ Scoped
<1>1. Init => Inv
  BY InitInvariant, InitScoped
<1>2. Inv /\ [Next]_vars => Inv'
  BY ShapeStep, StageStep, LoggedStep, ScopedStep
<1>3. Inv => ReportIsWhatWasCrawled
  BY DEF Scoped, InScope, ReportIsWhatWasCrawled
<1>4. QED
  BY <1>1, <1>2, <1>3, PTL DEF Spec
-----------------------------------------------------------------------------
(* Pages of a source that changes between the requests.                     *)

\* How many listings come before one, and those with fewer than n.
Position(l) == Cardinality(Above(l, Listed))
Top(n)  == {l \in Listed : Position(l) < n}

-----------------------------------------------------------------------------
(* The order of the listings.                                               *)

LEMMA ListedIsFinite ==
  Listed \in SUBSET Listings /\ \A S \in SUBSET Listings : IsFiniteSet(S) /\ Cardinality(S) \in Nat
<1>1. Listed \in SUBSET Listings
  BY DEF Listed
<1>2. \A S \in SUBSET Listings : IsFiniteSet(S)
  BY FS_Subset
<1>3. QED
  BY <1>1, <1>2, FS_CardinalityType

LEMMA Includes ==
  ASSUME NEW T \in SUBSET Listings, NEW S \in SUBSET T
  PROVE  Cardinality(S) <= Cardinality(T)
BY ListedIsFinite, FS_Subset

LEMMA AboveIsFinite ==
  ASSUME NEW S \in SUBSET Listings, NEW l
  PROVE  Above(l, S) \in SUBSET S /\ IsFiniteSet(Above(l, S)) /\ Cardinality(Above(l, S)) \in Nat
<1>1. Above(l, S) \in SUBSET S
  BY DEF Above
<1>2. QED
  BY <1>1, ListedIsFinite

LEMMA RankIsNumber == \A l : Position(l) \in Nat
BY ListedIsFinite, AboveIsFinite DEF Position

\* What is newer has no more above it.
LEMMA NewerIsHigher ==
  ASSUME Shape, NEW S \in SUBSET Listings, NEW l \in Listings, NEW m \in Listings,
         stamp[l] >= stamp[m]
  PROVE  Cardinality(Above(l, S)) <= Cardinality(Above(m, S))
<1>1. Above(l, S) \subseteq Above(m, S)
  BY DEF Above, Shape
<1>2. QED
  BY <1>1, AboveIsFinite, FS_Subset

\* A set of listings has a newest one and an oldest one.
LEMMA Oldest ==
  ASSUME Shape, NEW S \in SUBSET Listings, S # {}
  PROVE  \E l \in S : \A m \in S : stamp[l] <= stamp[m]
<1> DEFINE stamps == {stamp[l] : l \in S}
<1>1. stamps \in SUBSET Nat /\ stamps # {}
  BY DEF Shape
<1>2. \E n \in stamps : \A k \in stamps : n <= k
  <2> HIDE DEF stamps
  <2>1. QED
    BY <1>1, LeastNumber
<1>3. QED
  BY <1>2

LEMMA NewestOne ==
  ASSUME Shape, NEW S \in SUBSET Listings, S # {}
  PROVE  \E l \in S : \A m \in S : stamp[m] <= stamp[l]
<1> DEFINE ranks == {Cardinality(Above(l, S)) : l \in S}
<1>1. ranks \in SUBSET Nat /\ ranks # {}
  <2>1. \A l \in S : Cardinality(Above(l, S)) \in Nat
    BY AboveIsFinite
  <2>2. QED
    BY <2>1
<1>2. \E n \in ranks : \A k \in ranks : n <= k
  <2> HIDE DEF ranks
  <2>1. QED
    BY <1>1, LeastNumber
<1>3. PICK l \in S : \A m \in S : Cardinality(Above(l, S)) <= Cardinality(Above(m, S))
  BY <1>2
<1>4. ASSUME NEW m \in S, ~ (stamp[m] <= stamp[l]) PROVE FALSE
  <2>1. stamp[l] \in Nat /\ stamp[m] \in Nat /\ stamp[m] > stamp[l]
    BY <1>4 DEF Shape
  <2>2. Above(m, S) \in SUBSET Above(l, S) /\ m \in Above(l, S) /\ m \notin Above(m, S)
    BY <2>1 DEF Above, Shape
  <2>3. Cardinality(Above(m, S)) <= Cardinality(Above(l, S))
        /\ (Cardinality(Above(l, S)) = Cardinality(Above(m, S)) => Above(l, S) = Above(m, S))
    BY <2>2, AboveIsFinite, FS_Subset
  <2>4. Cardinality(Above(l, S)) <= Cardinality(Above(m, S))
    BY <1>3
  <2>5. QED
    BY <2>2, <2>3, <2>4, AboveIsFinite
<1>5. QED
  BY <1>4

\* A page is the upper end of what is left.
LEMMA PageIsUpperEnd ==
  ASSUME Shape, NEW rest \in SUBSET Listings
  PROVE  /\ rest # {} => FirstPage(rest) # {}
         /\ \A l \in rest \ FirstPage(rest), m \in FirstPage(rest) : stamp[l] < stamp[m]
<1>1. ASSUME rest # {} PROVE FirstPage(rest) # {}
  <2>1. PICK l \in rest : \A m \in rest : stamp[m] <= stamp[l]
    BY <1>1, NewestOne
  <2>2. Above(l, rest) = {}
    BY <2>1 DEF Above, Shape
  <2>3. Cardinality(Above(l, rest)) = 0
    BY <2>2, FS_EmptySet
  <2>4. QED
    BY <2>3 DEF FirstPage
<1>2. ASSUME NEW l \in rest \ FirstPage(rest), NEW m \in FirstPage(rest)
      PROVE  stamp[l] < stamp[m]
  <2>1. m \in rest /\ Cardinality(Above(m, rest)) < PageSize
        /\ ~ (Cardinality(Above(l, rest)) < PageSize)
    BY <1>2 DEF FirstPage
  <2>2. stamp[l] \in Nat /\ stamp[m] \in Nat
    BY <2>1 DEF Shape
  <2>3. stamp[l] >= stamp[m] => Cardinality(Above(l, rest)) <= Cardinality(Above(m, rest))
    BY <2>1, NewerIsHigher
  <2>4. Cardinality(Above(l, rest)) \in Nat /\ Cardinality(Above(m, rest)) \in Nat
    BY AboveIsFinite
  <2>5. QED
    BY <2>1, <2>2, <2>3, <2>4
<1>3. QED
  BY <1>1, <1>2

-----------------------------------------------------------------------------
(* Counting from the top.                                                   *)

\* A listing of rank n or more has the n listings of lower rank above it.
LEMMA TopIsAbove ==
  ASSUME Shape, NEW n \in Nat, NEW l \in Listed, Position(l) >= n
  PROVE  /\ Top(n) \subseteq Above(l, Listed)
         /\ Cardinality(Top(n)) >= n /\ Cardinality(Top(n)) \in Nat /\ IsFiniteSet(Top(n))
<1>1. Listed \in SUBSET Listings /\ Top(n) \in SUBSET Listings
  BY ListedIsFinite DEF Top
<1>2. Top(n) \subseteq Above(l, Listed)
  <2>1. ASSUME NEW m \in Top(n), ~ (stamp[m] > stamp[l]) PROVE FALSE
    <3>1. stamp[m] \in Nat /\ stamp[l] \in Nat /\ m \in Listed /\ Position(m) < n
      BY <1>1 DEF Shape, Top
    <3>2. Position(l) <= Position(m)
      BY <1>1, <2>1, <3>1, NewerIsHigher DEF Position
    <3>3. QED
      BY <3>1, <3>2, RankIsNumber
  <2>2. QED
    BY <2>1 DEF Above, Top
<1>3. PICK y \in Listed \ Top(n) : \A m \in Listed \ Top(n) : stamp[m] <= stamp[y]
  <2>1. l \in Listed \ Top(n)
    BY RankIsNumber DEF Top
  <2>2. QED
    BY <1>1, <2>1, NewestOne
<1>4. Above(y, Listed) \in SUBSET Top(n)
  <2>1. ASSUME NEW m \in Above(y, Listed), m \notin Top(n) PROVE FALSE
    <3>1. m \in Listed \ Top(n) /\ stamp[m] > stamp[y]
      BY <2>1 DEF Above
    <3>2. stamp[m] <= stamp[y] /\ stamp[m] \in Nat /\ stamp[y] \in Nat
      BY <1>1, <1>3, <3>1 DEF Shape
    <3>3. QED
      BY <3>1, <3>2
  <2>2. QED
    BY <2>1
<1>5. Position(y) <= Cardinality(Top(n))
  BY <1>1, <1>4, Includes DEF Position
<1>6. Position(y) >= n
  BY <1>3, RankIsNumber DEF Top
<1>7. Cardinality(Top(n)) \in Nat /\ IsFiniteSet(Top(n))
  BY <1>1, ListedIsFinite
<1>8. QED
  BY <1>2, <1>5, <1>6, <1>7, RankIsNumber

\* What a page that is counted from the top leaves is a whole page further down.
LEMMA LeftIsFurtherDown ==
  ASSUME Shape, NEW n \in Nat, NEW rest, rest = {l \in Listed : Position(l) >= n},
         NEW l \in rest \ FirstPage(rest)
  PROVE  Position(l) >= n + PageSize
<1>1. Listed \in SUBSET Listings /\ rest \in SUBSET Listings /\ l \in Listed /\ Position(l) >= n
  BY ListedIsFinite
<1>2. /\ Top(n) \subseteq Above(l, Listed) /\ IsFiniteSet(Top(n))
      /\ Cardinality(Top(n)) >= n /\ Cardinality(Top(n)) \in Nat
  BY <1>1, TopIsAbove
<1>3. /\ IsFiniteSet(Above(l, rest)) /\ Cardinality(Above(l, rest)) \in Nat
      /\ ~ (Cardinality(Above(l, rest)) < PageSize)
  BY <1>1, AboveIsFinite DEF FirstPage
<1>4. Above(l, rest) \cap Top(n) = {}
  BY RankIsNumber DEF Above, Top
<1>5. Cardinality(Above(l, rest) \cup Top(n))
        = Cardinality(Above(l, rest)) + Cardinality(Top(n))
  <2>1. Cardinality(Above(l, rest) \cap Top(n)) = 0
    BY <1>4, FS_EmptySet
  <2>2. Cardinality(Above(l, rest) \cup Top(n))
          = Cardinality(Above(l, rest)) + Cardinality(Top(n)) - Cardinality(Above(l, rest) \cap Top(n))
    BY <1>2, <1>3, FS_Union
  <2>3. QED
    BY <1>2, <1>3, <2>1, <2>2
<1>6. Above(l, rest) \cup Top(n) \in SUBSET Above(l, Listed) /\ Above(l, Listed) \in SUBSET Listings
  BY <1>1, <1>2 DEF Above
<1>7. Cardinality(Above(l, rest) \cup Top(n)) <= Position(l)
  BY <1>6, Includes DEF Position
<1>8. QED
  BY <1>2, <1>3, <1>5, <1>7, RankIsNumber

\* No two listings are published or bumped at once.
Ordered ==
  \A l \in Listings :
    /\ stamp[l] < Newest
    /\ \A m \in Listings \ {l} : stamp[l] > 0 => stamp[m] # stamp[l]

\* No more than n listings have fewer than n above them.
LEMMA TopIsNoMore ==
  ASSUME Shape, Ordered, NEW n \in Nat
  PROVE  Cardinality(Top(n)) <= n
<1>1. Listed \in SUBSET Listings /\ Top(n) \in SUBSET Listings
      /\ IsFiniteSet(Top(n)) /\ Cardinality(Top(n)) \in Nat
  BY ListedIsFinite DEF Top
<1>2. CASE Top(n) = {}
  BY <1>2, FS_EmptySet
<1>3. CASE Top(n) # {}
  <2>1. PICK z \in Top(n) : \A m \in Top(n) : stamp[z] <= stamp[m]
    BY <1>1, <1>3, Oldest
  <2>2. Top(n) \ {z} \in SUBSET Above(z, Listed)
    <3>1. ASSUME NEW m \in Top(n) \ {z} PROVE m \in Above(z, Listed)
      <4>1. m \in Listed /\ stamp[z] <= stamp[m] /\ stamp[m] \in Nat /\ stamp[z] \in Nat
            /\ stamp[m] > 0
        BY <1>1, <2>1 DEF Shape, Top, Listed
      <4>2. stamp[m] # stamp[z]
        BY <1>1, <4>1 DEF Ordered
      <4>3. QED
        BY <4>1, <4>2 DEF Above
    <3>2. QED
      BY <3>1
  <2>3. Above(z, Listed) \in SUBSET Listings
    BY <1>1 DEF Above
  <2>4. Cardinality(Top(n) \ {z}) <= Position(z)
    BY <2>2, <2>3, Includes DEF Position
  <2>5. Cardinality(Top(n) \ {z}) = Cardinality(Top(n)) - 1
    BY <1>1, FS_RemoveElement
  <2>6. Position(z) < n
    BY DEF Top
  <2>7. QED
    BY <1>1, <2>4, <2>5, <2>6, RankIsNumber
<1>4. QED
  BY <1>2, <1>3

\* The first listing of a page has no more above it than the pages before.
LEMMA PageBegins ==
  ASSUME Shape, Ordered, NEW n \in Nat, NEW rest, rest = {l \in Listed : Position(l) >= n},
         rest # {}
  PROVE  \E m \in FirstPage(rest) : Position(m) <= n
<1>1. Listed \in SUBSET Listings /\ rest \in SUBSET Listings
  BY ListedIsFinite
<1>2. PICK m \in rest : \A l \in rest : stamp[l] <= stamp[m]
  BY <1>1, NewestOne
<1>3. Above(m, rest) = {} /\ Above(m, Listed) \in SUBSET Top(n)
  <2>1. \A l \in rest : stamp[l] \in Nat /\ stamp[m] \in Nat /\ ~ (stamp[l] > stamp[m])
    BY <1>1, <1>2 DEF Shape
  <2>2. QED
    BY <2>1, RankIsNumber DEF Above, Top
<1>4. m \in FirstPage(rest)
  <2>1. Cardinality(Above(m, rest)) = 0
    BY <1>3, FS_EmptySet
  <2>2. QED
    BY <2>1 DEF FirstPage
<1>5. Position(m) <= Cardinality(Top(n))
  <2>1. Top(n) \in SUBSET Listings
    BY <1>1 DEF Top
  <2>2. QED
    BY <1>3, <2>1, Includes DEF Position
<1>6. Cardinality(Top(n)) \in Nat
  <2>1. Top(n) \in SUBSET Listings
    BY <1>1 DEF Top
  <2>2. QED
    BY <2>1, ListedIsFinite
<1>7. Cardinality(Top(n)) <= n
  BY TopIsNoMore
<1>8. Position(m) <= n
  BY <1>5, <1>6, <1>7, RankIsNumber
<1>9. QED
  BY <1>4, <1>8

\* A publication moves what is below it down by one place at most.
LEMMA PublishMoves ==
  ASSUME Shape, Ordered, NEW p, Publish(p), NEW m \in Listings
  PROVE  /\ m # p => Position(m) <= Position(m)' /\ stamp'[m] = stamp[m]
         /\ Position(m)' <= Position(m) + 1 /\ Position(m)' \in Nat
         /\ \A x \in Listings \ {p} : x \in Listed <=> x \in Listed'
<1>1. /\ stamp' = [stamp EXCEPT ![p] = Newest]
      /\ UNCHANGED <<job, scope, world>>
  BY DEF Publish, Changes, plan
<1>2. \A x \in Listings : stamp'[x] = IF x = p THEN Newest ELSE stamp[x]
  BY <1>1 DEF Shape
<1>3. /\ Newest \in Nat /\ \A x \in Listings : stamp[x] \in Nat /\ stamp[x] < Newest
  BY Bounds DEF Shape, Ordered
<1>4. Job' = Job
  BY <1>1 DEF Job, Here
<1>5. \A x \in Listings \ {p} : x \in Listed <=> x \in Listed'
  BY <1>1, <1>2, <1>4 DEF Listed
<1>7. Listed \in SUBSET Listings /\ Listed' \in SUBSET Listings
  BY DEF Listed
<1>8. p \in Listed => p \in Listed'
  BY <1>1, <1>2, <1>3, <1>4, <1>7 DEF Listed
<1>9. m # p => Above(m, Listed) \subseteq Above(m, Listed)'
  <2>1. ASSUME m # p, NEW x \in Above(m, Listed) PROVE x \in Above(m, Listed)'
    <3>1. x \in Listed /\ x \in Listings /\ stamp[x] > stamp[m]
      BY <1>7 DEF Above
    <3>2. x \in Listed'
      BY <1>5, <1>8, <3>1
    <3>3. stamp'[x] > stamp'[m]
      BY <1>2, <1>3, <2>1, <3>1
    <3>4. QED
      BY <3>2, <3>3 DEF Above
  <2>2. QED
    BY <2>1
<1>10. Above(m, Listed)' \subseteq Above(m, Listed) \cup {p}
  <2>1. ASSUME NEW x \in Above(m, Listed)', x # p PROVE x \in Above(m, Listed)
    <3>1. x \in Listed' /\ x \in Listings /\ stamp'[x] > stamp'[m]
      BY <1>7 DEF Above
    <3>2. x \in Listed
      BY <1>5, <2>1, <3>1
    <3>3. stamp[x] > stamp[m]
      BY <1>2, <1>3, <2>1, <3>1
    <3>4. QED
      BY <3>2, <3>3 DEF Above
  <2>2. QED
    BY <2>1
<1>11. /\ Above(m, Listed) \in SUBSET Listings /\ Above(m, Listed)' \in SUBSET Listings
  BY <1>7 DEF Above
<1>12. m # p => Position(m) <= Position(m)'
  BY <1>9, <1>11, Includes DEF Position
<1>13. Position(m)' <= Position(m) + 1 /\ Position(m)' \in Nat
  <2> DEFINE up == Above(m, Listed)
  <2>1. IsFiniteSet(up) /\ IsFiniteSet(up \cup {p})
        /\ Cardinality(up \cup {p}) = IF p \in up THEN Cardinality(up) ELSE Cardinality(up) + 1
    BY <1>11, ListedIsFinite, FS_AddElement
  <2>2. Cardinality(Above(m, Listed)') <= Cardinality(up \cup {p})
    BY <1>10, <2>1, FS_Subset
  <2>3. Cardinality(Above(m, Listed)') \in Nat /\ Cardinality(up) \in Nat
    BY <1>11, ListedIsFinite
  <2>4. QED
    BY <2>1, <2>2, <2>3 DEF Position
<1>14. QED
  BY <1>2, <1>5, <1>12, <1>13

-----------------------------------------------------------------------------
(* What a crawl has seen, and where the rest is.                            *)

Counted ==
  /\ job \in 1..Len(Here.jobs)
  /\ fresh \in Nat
  /\ page.number = 0 => page = NoPage

\* The circumstances under which a crawl sees everything.
Calm == ~ Here.repeats /\ (Job.source = "sheypoor" => ~ shifted)

\* A listing that the pages to come hold.
Ahead(l) ==
  IF Job.source = "divar" THEN stamp[l] < page.cursor ELSE Position(l) >= page.number * PageSize

SteadyListed == steady \subseteq Listed

\* What was offered all along, and was not bumped from a page to come, was seen, is
\* on the page, or is on one to come.
Covered ==
  ~ stopped /\ Calm =>
    \A l \in steady \ bumped : page.number > 0 /\ (l \in seen \cup Coming \/ (page.more /\ Ahead(l)))

\* The listing that began the page is no further down than what came since.
Topmost ==
  Job.source = "sheypoor" /\ ~ stopped /\ Calm /\ page.items # {} =>
    \E m \in page.items : Position(m) <= (page.number - 1) * PageSize + fresh

LEMMA Sources ==
  ASSUME Shape, Counted PROVE Job.source \in {"divar", "sheypoor"}
BY DEF Shape, Counted, Job, Here

\* A step that leaves the source and the scope alone.
LEMMA SameSource ==
  ASSUME UNCHANGED <<job, world, scope, stamp>>
  PROVE  Here' = Here /\ Job' = Job /\ Listed' = Listed /\ \A l : Position(l)' = Position(l)
<1>1. Here' = Here /\ Job' = Job
  BY DEF Here, Job
<1>2. Listed' = Listed
  BY <1>1 DEF Listed
<1>3. \A l : Above(l, Listed)' = Above(l, Listed)
  BY <1>2 DEF Above
<1>4. QED
  BY <1>1, <1>2, <1>3 DEF Position

LEMMA NothingLost ==
  ASSUME SteadyListed, Covered, Topmost,
         UNCHANGED <<job, world, scope, stamp, page, steady, bumped, stopped, shifted, fresh>>,
         seen \cup Coming \subseteq (seen \cup Coming)'
  PROVE  SteadyListed' /\ Covered' /\ Topmost'
<1>1. Here' = Here /\ Job' = Job /\ Listed' = Listed /\ \A l : Position(l)' = Position(l)
  BY SameSource
<1>2. Calm' = Calm /\ \A l : Ahead(l)' = Ahead(l)
  BY <1>1 DEF Calm, Ahead
<1>3. SteadyListed'
  BY <1>1 DEF SteadyListed
<1>4. Covered'
  BY <1>2 DEF Covered
<1>5. Topmost'
  BY <1>1, <1>2 DEF Topmost
<1>6. QED
  BY <1>3, <1>4, <1>5

LEMMA Anew ==
  ASSUME steady' = {}, page' = NoPage
  PROVE  SteadyListed' /\ Covered' /\ Topmost'
BY DEF SteadyListed, Covered, Topmost, NoPage

\* Pages are numbered from one, and one more is one page size more.
LEMMA Times ==
  \A n, p \in Nat : /\ n * p \in Nat /\ (n + 1) * p = n * p + p
                    /\ 0 * p = 0
                    /\ n > 0 => (n - 1) * p + p = n * p
OBVIOUS

\* While no whole page comes in between two requests, no page comes twice.
LEMMA NoPageTwice ==
  ASSUME Shape, Stage, Ordered, Counted, Topmost, RequestPage, Calm',
         RepeatedPage(FirstPage(Rest(Listed)))
  PROVE  FALSE
<1> DEFINE items == FirstPage(Rest(Listed))
<1>1. Job.source = "sheypoor" /\ items # {} /\ items = page.items
  BY DEF RepeatedPage, SamePage
<1>2. /\ pc = "request" /\ UNCHANGED <<job, world>>
      /\ shifted' = (page.number > 0 /\ (shifted \/ fresh >= PageSize))
  BY Requests
<1>3. page.number > 0 /\ page.number \in Nat
  BY <1>1 DEF Counted, NoPage, Shape, Fetched
<1>4. Here' = Here /\ Job' = Job
  BY <1>2 DEF Here, Job
<1>5. ~ shifted /\ ~ (fresh >= PageSize) /\ Calm /\ ~ Here.repeats
  BY <1>1, <1>2, <1>3, <1>4 DEF Calm
<1>6. PICK m \in items : Position(m) <= (page.number - 1) * PageSize + fresh
  BY <1>1, <1>2, <1>5 DEF Topmost, Stage
<1>7. m \in SheypoorRest(Listed)
  BY <1>1, <1>5, <1>6, PageIsListed DEF Rest
<1>8. Position(m) >= page.number * PageSize
  BY <1>7 DEF SheypoorRest, Position
<1>9. /\ (page.number - 1) * PageSize + PageSize = page.number * PageSize
      /\ page.number * PageSize \in Nat
  BY <1>3, Times
<1>10. Position(m) \in Nat /\ fresh \in Nat
  BY RankIsNumber DEF Counted
<1> HIDE DEF items
<1>11. (page.number - 1) * PageSize \in Int
  BY <1>3
<1>12. QED
  BY <1>5, <1>6, <1>8, <1>9, <1>10, <1>11

\* What is left for the pages to come, when one of them is requested.
LEMMA RestIsAhead ==
  ASSUME Shape, Stage, Counted, SteadyListed, Covered, RequestPage, Calm'
  PROVE  \A l \in steady' \ bumped' : l \in seen \cup Rest(Listed)
<1>1. /\ pc = "request" /\ UNCHANGED <<job, world>>
      /\ steady' = IF page.number = 0 THEN Listed ELSE steady
      /\ bumped' = IF page.number = 0 THEN {} ELSE bumped
      /\ shifted' = (page.number > 0 /\ (shifted \/ fresh >= PageSize))
  BY Requests
<1>2. Here' = Here /\ Job' = Job
  BY <1>1 DEF Here, Job
<1>3. ~ Here.repeats /\ ~ stopped /\ todo = <<>> /\ page.number \in Nat
  BY <1>1, <1>2 DEF Calm, Stage, Shape, Fetched
<1>4. CASE page.number = 0
  <2>1. \A l \in Listed : Cardinality(Above(l, Listed)) >= page.number * PageSize
    BY <1>4, RankIsNumber, Times DEF Position
  <2>2. Rest(Listed) = Listed
    BY <1>3, <1>4, <2>1 DEF Rest, DivarRest, SheypoorRest
  <2>3. QED
    BY <1>1, <1>4, <2>2
<1>5. CASE page.number # 0
  <2>1. Calm
    <3>1. page.number > 0
      BY <1>3, <1>5
    <3>2. shifted => shifted'
      BY <1>1, <3>1
    <3>3. QED
      BY <1>2, <1>3, <3>2 DEF Calm
  <2>2. Coming = {}
    BY <1>3 DEF Coming
  <2>3. \A l \in steady \ bumped : l \in seen \/ Ahead(l)
    BY <1>3, <2>1, <2>2 DEF Covered
  <2>4. \A l \in steady : l \in Listed
    BY DEF SteadyListed
  <2>5. \A l \in Listed : Ahead(l) => l \in Rest(Listed)
    BY <1>3 DEF Ahead, Position, Rest, DivarRest, SheypoorRest
  <2>6. QED
    BY <1>1, <1>5, <2>3, <2>4, <2>5
<1>6. QED
  BY <1>4, <1>5

LEMMA FetchCovers ==
  ASSUME Shape, Stage, Ordered, Counted, SteadyListed, Covered, RequestPage,
         FetchPage(FirstPage(Rest(Listed)), Here.repeats \/ Rest(Listed) # FirstPage(Rest(Listed)))
  PROVE  Covered' /\ Topmost'
<1> DEFINE rest == Rest(Listed)
           items == FirstPage(rest)
           more == Here.repeats \/ rest # items
<1>1. /\ UNCHANGED <<job, world, scope, stamp>> /\ fresh' = 0 /\ pc = "request"
  BY Requests
<1>2. Here' = Here /\ Job' = Job /\ Listed' = Listed /\ \A l : Position(l)' = Position(l)
  BY <1>1, SameSource
<1>3. rest \in SUBSET Listings /\ rest \subseteq Listed /\ items \in SUBSET Listings
      /\ items \subseteq rest /\ more \in BOOLEAN
  BY PageIsListed
<1>4. /\ page'.number = page.number + 1 /\ page'.items = items /\ page'.more = more
      /\ items # {} => \E l \in items : page'.cursor = stamp[l]
      /\ Coming' = items /\ seen' = seen
  <2> HIDE DEF items, more
  <2>1. FetchPage(items, more)
    BY DEF items, more
  <2>2. /\ page'.number = page.number + 1 /\ page'.items = items /\ page'.more = more
        /\ items # {} => \E l \in items : page'.cursor = stamp[l]
        /\ {todo'[i] : i \in DOMAIN todo'} = items /\ seen' = seen
    BY <1>3, <2>1, Fetches
  <2>3. QED
    BY <2>2 DEF Coming
<1>5. page.number \in Nat /\ page'.number > 0 /\ page.number * PageSize \in Nat
      /\ page'.number * PageSize = page.number * PageSize + PageSize
      /\ (page'.number - 1) * PageSize = page.number * PageSize
  <2>1. page.number \in Nat
    BY DEF Shape, Fetched
  <2>2. page'.number - 1 = page.number /\ page'.number > 0
    BY <1>4, <2>1
  <2>3. QED
    BY <1>4, <2>1, <2>2, Times
<1>6. Calm' /\ Job.source = "sheypoor"
        => rest = {l \in Listed : Position(l) >= page.number * PageSize}
  BY <1>2 DEF Calm, Rest, SheypoorRest, Position
<1>7. ASSUME Calm', NEW l \in rest \ items PROVE page'.more /\ Ahead(l)'
  <2>1. page'.more
    BY <1>3, <1>4
  <2>2. CASE Job.source = "divar"
    <3>1. items # {} /\ \A m \in items : stamp[l] < stamp[m]
      BY <1>3, PageIsUpperEnd
    <3>2. stamp[l] < page'.cursor
      BY <1>4, <3>1
    <3>3. QED
      BY <1>1, <1>2, <2>1, <2>2, <3>2 DEF Ahead
  <2>3. CASE Job.source # "divar"
    <3>1. Position(l) >= page.number * PageSize + PageSize
      BY <1>5, <1>6, <1>7, <2>3, LeftIsFurtherDown, Sources
    <3>2. Position(l)' >= page'.number * PageSize
      BY <1>2, <1>5, <3>1
    <3>3. QED
      BY <1>2, <2>1, <2>3, <3>2 DEF Ahead
  <2>4. QED
    BY <2>2, <2>3
<1>8. Covered'
  <2>1. ASSUME Calm', NEW l \in steady' \ bumped'
        PROVE  l \in (seen \cup Coming)' \/ (page'.more /\ Ahead(l)')
    <3>1. l \in seen \cup rest
      BY <2>1, RestIsAhead
    <3>2. QED
      BY <1>4, <1>7, <2>1, <3>1
  <2>2. QED
    BY <1>5, <2>1 DEF Covered
<1>9. Topmost'
  <2>1. ASSUME Calm', Job.source = "sheypoor", items # {}
        PROVE  \E m \in items : Position(m)' <= (page'.number - 1) * PageSize + fresh'
    <3>1. rest # {}
      BY <1>3, <2>1
    <3>2. PICK m \in items : Position(m) <= page.number * PageSize
      BY <1>5, <1>6, <2>1, <3>1, PageBegins
    <3>3. QED
      BY <1>1, <1>2, <1>5, <3>2
  <2>2. QED
    BY <1>2, <1>4, <2>1 DEF Topmost
<1>10. QED
  BY <1>8, <1>9

LEMMA ComingButHead ==
  ASSUME Shape, todo # <<>>, todo' = Tail(todo)
  PROVE  Coming \subseteq Coming' \cup {Head(todo)}
<1>1. /\ DOMAIN todo = 1..Len(todo) /\ Len(todo) \in Nat
      /\ Tail(todo) \in Seq(Listings) /\ Len(Tail(todo)) = Len(todo) - 1
      /\ \A i \in 1..Len(Tail(todo)) : Tail(todo)[i] = todo[i + 1]
  BY Tails DEF Shape
<1>2. Head(todo) = todo[1]
  BY DEF Shape
<1>3. ASSUME NEW i \in DOMAIN todo, i # 1 PROVE todo[i] \in Coming'
  <2>1. i - 1 \in DOMAIN Tail(todo) /\ Tail(todo)[i - 1] = todo[i]
    BY <1>1, <1>3
  <2>2. QED
    BY <2>1 DEF Coming
<1>4. QED
  BY <1>2, <1>3 DEF Coming

\* A publication moves the other listings no further up; the one that it moves is
\* seen, on the page or bumped.
LEMMA PublishCovers ==
  ASSUME Shape, Ordered, Counted, SteadyListed, Covered, Topmost, NEW p, Publish(p)
  PROVE  SteadyListed' /\ Covered' /\ Topmost'
<1>1. /\ bumped' = bumped \cup ({p} \ (seen \cup Range(todo))) /\ fresh' = fresh + 1
      /\ UNCHANGED <<job, world, page, todo, seen, stopped, steady, shifted>>
  BY DEF Publish, Changes, plan, walk
<1>2. Here' = Here /\ Job' = Job /\ Coming' = Coming
  BY <1>1 DEF Here, Job, Coming
<1>3. Calm' = Calm
  BY <1>1, <1>2 DEF Calm
<1>4. steady \subseteq Listings
  BY DEF SteadyListed, Listed
<1>5. SteadyListed'
  <2>1. /\ stamp' = [stamp EXCEPT ![p] = Newest] /\ scope' = scope
    BY DEF Publish, Changes, plan
  <2>2. \A x \in Listings : stamp[x] \in Nat /\ stamp[x] < Newest
    BY DEF Shape, Ordered
  <2>3. p \in Listings => Newest > 0 /\ stamp'[p] = Newest
    BY <2>1, <2>2, Bounds DEF Shape
  <2>4. p \in Listed => p \in Listed'
    BY <1>2, <2>1, <2>3 DEF Listed
  <2>5. QED
    BY <1>1, <1>4, <2>4, PublishMoves DEF SteadyListed
<1>6. ASSUME NEW l \in steady, l # p, Ahead(l) PROVE Ahead(l)'
  <2>1. l \in Listings /\ l # p
    BY <1>4, <1>6
  <2>2. Position(l) <= Position(l)' /\ stamp'[l] = stamp[l]
    BY <2>1, PublishMoves
  <2>3. page.number * PageSize \in Nat /\ Position(l) \in Nat /\ Position(l)' \in Nat
    <3>1. \A n, k \in Nat : n * k \in Nat
      OBVIOUS
    <3>2. page.number \in Nat
      BY DEF Shape, Fetched
    <3>3. Position(l)' \in Nat
      BY <2>1, PublishMoves
    <3>4. QED
      BY <3>1, <3>2, <3>3, RankIsNumber
  <2>4. QED
    BY <1>1, <1>2, <1>6, <2>2, <2>3 DEF Ahead
<1>7. Covered'
  <2>1. ASSUME ~ stopped, Calm, NEW l \in steady \ bumped'
        PROVE  page.number > 0 /\ (l \in seen \cup Coming \/ (page.more /\ Ahead(l)'))
    <3>1. page.number > 0 /\ (l \in seen \cup Coming \/ (page.more /\ Ahead(l)))
      BY <1>1, <2>1 DEF Covered
    <3>2. l = p => l \in seen \cup Coming
      BY <1>1, <2>1 DEF Coming, Range
    <3>3. QED
      BY <1>6, <3>1, <3>2
  <2>2. QED
    BY <1>1, <1>2, <1>3, <2>1 DEF Covered
<1>8. Topmost'
  <2>1. ASSUME NEW m \in page.items, Position(m) <= (page.number - 1) * PageSize + fresh
        PROVE  Position(m)' <= (page.number - 1) * PageSize + fresh'
    <3>1. Position(m)' <= Position(m) + 1
      BY PublishMoves DEF Shape, Fetched
    <3>2. page.number \in Nat /\ fresh \in Nat
      BY DEF Shape, Fetched, Counted
    <3>3. (page.number - 1) * PageSize \in Int
      BY <3>2
    <3>4. Position(m) \in Nat /\ Position(m)' \in Nat
      <4>1. Position(m)' \in Nat
        BY PublishMoves DEF Shape, Fetched
      <4>2. QED
        BY <4>1, RankIsNumber
    <3>5. QED
      BY <1>1, <2>1, <3>1, <3>2, <3>3, <3>4
  <2>2. QED
    BY <1>1, <1>2, <1>3, <2>1 DEF Topmost
<1>9. QED
  BY <1>5, <1>7, <1>8

\* A withdrawal does not move the listings that Divar's cursor leaves.
LEMMA WithdrawCovers ==
  ASSUME Shape, Counted, SteadyListed, Covered, NEW p, Withdraw(p)
  PROVE  SteadyListed' /\ Covered' /\ Topmost'
<1>1. /\ steady' = steady \ {p} /\ bumped' = bumped /\ shifted' = TRUE /\ stamp' = [stamp EXCEPT ![p] = 0]
      /\ UNCHANGED <<job, world, scope, page, todo, seen, stopped>>
  BY DEF Withdraw, Changes, plan, walk
<1>2. Here' = Here /\ Job' = Job /\ Coming' = Coming
  BY <1>1 DEF Here, Job, Coming
<1>3. \A l \in Listings \ {p} : stamp'[l] = stamp[l]
  BY <1>1 DEF Shape
<1>4. SteadyListed'
  BY <1>1, <1>2, <1>3 DEF SteadyListed, Listed
<1>5. Job.source = "sheypoor" => ~ Calm'
  BY <1>1, <1>2 DEF Calm
<1>6. Topmost'
  BY <1>2, <1>5 DEF Topmost
<1>7. CASE Job.source = "divar"
  <2>1. Calm' = Calm
    BY <1>2, <1>7 DEF Calm
  <2>2. \A l \in steady' : l \in Listings \ {p}
    BY <1>1 DEF SteadyListed, Listed
  <2>3. \A l \in steady' : Ahead(l) => Ahead(l)'
    BY <1>1, <1>2, <1>3, <1>7, <2>2 DEF Ahead
  <2>4. QED
    BY <1>1, <1>2, <1>4, <1>6, <2>1, <2>3 DEF Covered
<1>8. QED
  BY <1>4, <1>5, <1>6, <1>7, Sources DEF Covered

\* What the next request must find is still there after every step.
LEMMA CoverStep ==
  ASSUME Shape, Stage, Logged, Ordered, Counted, SteadyListed, Covered, Topmost, [Next]_vars
  PROVE  SteadyListed' /\ Covered' /\ Topmost'
<1> DEFINE Goal == SteadyListed' /\ Covered' /\ Topmost'
<1>1. CASE Between
  <2>1. /\ UNCHANGED <<job, page, todo, seen, stopped, steady, bumped, fresh, shifted, world, stamp>>
    BY <1>1, BetweenSteps
  <2>2. scope' = scope \/ (steady = {} /\ page = NoPage)
    <3>1. scope' = scope \/ pc = "queued"
      BY <1>1 DEF Between, Submit, Refuse, Execute, ScopeFailed, Load, LoadPlaces, LoadAliases,
                  LoadSources, TurnPage, Raises, Finish, Detect, StubRaises, vars
    <3>2. QED
      BY <3>1 DEF Stage, Aside, Waiting
  <2>3. CASE scope' = scope
    BY <2>1, <2>3, NothingLost DEF Coming
  <2>4. CASE steady = {} /\ page = NoPage
    BY <2>1, <2>4, Anew
  <2>5. QED
    BY <2>2, <2>3, <2>4
<1>2. CASE RequestPage
  <2> DEFINE items == FirstPage(Rest(Listed))
  <2>1. /\ UNCHANGED <<job, world, scope, stamp>>
        /\ steady' = IF page.number = 0 THEN Listed ELSE steady
    BY <1>2, Requests
  <2>2. Listed' = Listed
    BY <2>1, SameSource
  <2>3. SteadyListed'
    BY <2>1, <2>2 DEF SteadyListed
  <2>4. CASE FetchPage(items, Here.repeats \/ Rest(Listed) # items)
    BY <1>2, <2>3, <2>4, FetchCovers
  <2>5. CASE RepeatedPage(items)
    <3>1. ~ Calm'
      BY <1>2, <2>5, NoPageTwice
    <3>2. QED
      BY <2>3, <3>1 DEF Covered, Topmost
  <2>6. ASSUME NEW type \in ErrorTypes, Stops(type) PROVE Goal
    BY <2>3, <2>6 DEF Stops, Covered, Topmost
  <2>7. QED
    BY <1>2, <2>4, <2>5, <2>6, Requests
<1>3. CASE SkipStub
  <2>1. Head(todo) \in seen /\ todo # <<>> /\ todo' = Tail(todo) /\ seen' = seen
    BY <1>3, Skips
  <2>2. Coming \subseteq Coming' \cup {Head(todo)}
    BY <2>1, ComingButHead
  <2>3. seen \cup Coming \subseteq (seen \cup Coming)'
    BY <2>1, <2>2
  <2>4. QED
    BY <1>3, <2>3, Skips, NothingLost
<1>4. CASE NextJob
  BY <1>4, Anew DEF NextJob
<1>5. ASSUME NEW l \in AtWork, NEW d, Persist(l, d) PROVE Goal
  <2>1. l = Head(todo) /\ todo # <<>> /\ todo' = Tail(todo) /\ seen' = seen \cup {l}
    BY <1>5, Persists
  <2>2. Coming \subseteq Coming' \cup {Head(todo)}
    BY <2>1, ComingButHead
  <2>3. seen \cup Coming \subseteq (seen \cup Coming)'
    BY <2>1, <2>2
  <2>4. QED
    BY <1>5, <2>3, Persists, NothingLost
<1>6. ASSUME NEW l \in AtWork, NEW d, StubUnreadable(l, d) \/ StubGone(l) \/ StubFails(l)
      PROVE  Goal
  <2>1. l = Head(todo) /\ todo # <<>> /\ todo' = Tail(todo) /\ seen' = seen \cup {l}
    BY <1>6, Failures
  <2>2. Coming \subseteq Coming' \cup {Head(todo)}
    BY <2>1, ComingButHead
  <2>3. seen \cup Coming \subseteq (seen \cup Coming)'
    BY <2>1, <2>2
  <2>4. QED
    BY <1>6, <2>3, Failures, NothingLost
<1>7. ASSUME NEW p, Publish(p) PROVE Goal
  BY <1>7, PublishCovers
<1>8. ASSUME NEW p, Withdraw(p) PROVE Goal
  BY <1>8, WithdrawCovers
<1>9. ASSUME \/ \E file \in Here.files : SeedLocations(file)
             \/ \E file \in Here.slugs : SeedCategories(file)
             \/ \E p \in Here.toggles : Toggle(p)
             \/ \E e \in Here.remaps, p \in Places \cup {None} : Remap(e, p)
             \/ \E q \in Here.judged : Judge(q[1], q[2])
      PROVE  Goal
  BY <1>9, EditSteps, NothingLost DEF Coming
<1>10. QED
  BY <1>1, <1>2, <1>3, <1>4, <1>5, <1>6, <1>7, <1>8, <1>9, Cases

-----------------------------------------------------------------------------
(* The order, the end and the outcome.                                      *)

LEMMA OrderedStep == ASSUME Shape, Logged, Ordered, [Next]_vars PROVE Ordered'
<1>1. ASSUME UNCHANGED <<stamp, world>>, left'.changes = left.changes PROVE Ordered'
  BY <1>1 DEF Ordered, Newest, Here
<1>2. ASSUME left' = left \/ left' = [left EXCEPT !.faults = left.faults - 1]
               \/ left' = [left EXCEPT !.edits = left.edits - 1]
      PROVE  left'.changes = left.changes
  BY <1>2 DEF Shape
<1>3. CASE Between \/ SkipStub \/ NextJob \/ RequestPage
  <2>1. UNCHANGED <<stamp, world>>
    BY <1>3, BetweenSteps, Skips, Requests DEF NextJob, env
  <2>2. left' = left \/ left' = [left EXCEPT !.faults = left.faults - 1]
    BY <1>3, BetweenSteps, Skips, Requests DEF NextJob, env
  <2>3. QED
    BY <1>1, <1>2, <2>1, <2>2
<1>4. ASSUME NEW l \in AtWork, NEW d,
             Persist(l, d) \/ StubUnreadable(l, d) \/ StubGone(l) \/ StubFails(l)
      PROVE  Ordered'
  <2>1. UNCHANGED <<stamp, world>>
    BY <1>4, Persists, Failures
  <2>2. left' = left \/ left' = [left EXCEPT !.faults = left.faults - 1]
    BY <1>4, Persists, Failures
  <2>3. QED
    BY <1>1, <1>2, <2>1, <2>2
<1>5. ASSUME NEW p, Publish(p) \/ Withdraw(p) PROVE Ordered'
  <2>1. left'.changes = left.changes - 1 /\ UNCHANGED world
    BY <1>5, SourceSteps
  <2>2. Newest' = Newest + 1 /\ Newest \in Nat
    <3>1. left.changes \in Nat /\ Here' = Here
      BY <2>1, Bounds DEF Shape, Here
    <3>2. Len(Here.offered) \in Nat /\ Here.changes \in Nat
      BY Bounds
    <3>3. QED
      BY <2>1, <3>1, <3>2, Bounds DEF Newest
  <2>3. stamp' = [stamp EXCEPT ![p] = Newest] \/ stamp' = [stamp EXCEPT ![p] = 0]
    BY <1>5 DEF Publish, Withdraw
  <2>4. \A l \in Listings : stamp[l] \in Nat
        /\ (stamp'[l] = stamp[l] \/ (l = p /\ stamp'[l] \in {0, Newest}))
    BY <2>3 DEF Shape
  <2>5. QED
    BY <2>2, <2>4 DEF Ordered
<1>6. ASSUME \/ \E file \in Here.files : SeedLocations(file)
             \/ \E file \in Here.slugs : SeedCategories(file)
             \/ \E p \in Here.toggles : Toggle(p)
             \/ \E e \in Here.remaps, p \in Places \cup {None} : Remap(e, p)
             \/ \E q \in Here.judged : Judge(q[1], q[2])
      PROVE  Ordered'
  BY <1>1, <1>2, <1>6, EditSteps
<1>7. QED
  BY <1>3, <1>4, <1>5, <1>6, Cases

LEMMA CountedStep == ASSUME Shape, Logged, Counted, [Next]_vars PROVE Counted'
<1>1. ASSUME UNCHANGED <<job, world, fresh, page>> PROVE Counted'
  BY <1>1 DEF Counted, Here
<1>2. CASE Between \/ SkipStub
  BY <1>1, <1>2, BetweenSteps, Skips
<1>3. CASE NextJob
  <2>1. /\ fresh' = 0 /\ page' = NoPage /\ world' = world
        /\ job' = job \/ (job < Len(Here.jobs) /\ job' = job + 1)
    BY <1>3 DEF NextJob, env
  <2>2. Here' = Here /\ Len(Here.jobs) \in Nat
    BY <2>1 DEF Here, Shape
  <2>3. QED
    BY <2>1, <2>2 DEF Counted
<1>4. CASE RequestPage
  <2> DEFINE items == FirstPage(Rest(Listed))
             more == Here.repeats \/ Rest(Listed) # items
  <2>1. UNCHANGED <<job, world>> /\ fresh' = 0
    BY <1>4, Requests
  <2>2. page' = page \/ (page'.number = page.number + 1 /\ page.number \in Nat)
    <3>1. items \in SUBSET Listings /\ more \in BOOLEAN
      BY PageIsListed
    <3>2. CASE FetchPage(items, more)
      <4> HIDE DEF items, more
      <4>1. QED
        BY <3>1, <3>2, Fetches DEF Shape, Fetched
    <3>3. CASE RepeatedPage(items) \/ \E type \in ErrorTypes : Stops(type)
      BY <3>3 DEF RepeatedPage, Stops, walk
    <3>4. QED
      BY <1>4, <3>2, <3>3, Requests
  <2>3. QED
    BY <2>1, <2>2 DEF Counted, Here
<1>5. ASSUME NEW l \in AtWork, NEW d,
             Persist(l, d) \/ StubUnreadable(l, d) \/ StubGone(l) \/ StubFails(l)
      PROVE  Counted'
  BY <1>1, <1>5, Persists, Failures
<1>6. ASSUME NEW p, Publish(p) \/ Withdraw(p) PROVE Counted'
  <2>1. UNCHANGED <<job, world, page>> /\ (fresh' = fresh \/ fresh' = fresh + 1)
    BY <1>6 DEF Publish, Withdraw, Changes, plan, walk
  <2>2. QED
    BY <2>1 DEF Counted, Here
<1>7. ASSUME \/ \E file \in Here.files : SeedLocations(file)
             \/ \E file \in Here.slugs : SeedCategories(file)
             \/ \E p \in Here.toggles : Toggle(p)
             \/ \E e \in Here.remaps, p \in Places \cup {None} : Remap(e, p)
             \/ \E q \in Here.judged : Judge(q[1], q[2])
      PROVE  Counted'
  BY <1>1, <1>7, EditSteps
<1>8. QED
  BY <1>2, <1>3, <1>4, <1>5, <1>6, <1>7, Cases

\* A crawl that was not stopped ends where its source or its limit ends.
Walked ==
  pc \in {"finish", "ended"} /\ ~ stopped /\ Calm => ~ page.more \/ LimitReached

\* What a status says.
Settled == pc = "ended" /\ status = "succeeded" => ~ stopped /\ counts.failed = 0

LEMMA EndStep ==
  ASSUME Shape, Stage, Logged, Ordered, Counted, Topmost, Walked, Settled, [Next]_vars
  PROVE  Walked' /\ Settled'
<1>1. ASSUME UNCHANGED <<job, world, page, stopped, shifted>> PROVE Calm' = Calm /\ LimitReached' = LimitReached
  BY <1>1 DEF Calm, LimitReached, Job, Here
<1>2. CASE TurnPage
  <2>1. UNCHANGED <<job, world, page, stopped, shifted>>
        /\ pc' = (IF page.more /\ ~ LimitReached THEN "request" ELSE "finish")
    BY <1>2 DEF TurnPage, plan, walk, env, past
  <2>2. QED
    BY <1>1, <2>1 DEF Walked, Settled
<1>3. CASE Finish
  <2>1. /\ UNCHANGED <<job, world, page, stopped, shifted, counts>> /\ status' = FinalStatus
        /\ pc = "finish"
    BY <1>3 DEF Finish, plan, walk, env, past
  <2>2. Walked'
    BY <1>1, <2>1 DEF Walked
  <2>3. FinalStatus = "succeeded" => ~ stopped /\ ~ (counts.failed > 0)
    BY DEF FinalStatus
  <2>4. counts.failed \in Nat
    BY ReportParts
  <2>5. QED
    BY <2>1, <2>2, <2>3, <2>4 DEF Settled
<1>4. CASE ScopeFailed
  <2>1. pc = "queued" /\ status' = "failed" /\ page' = page
    BY <1>4 DEF ScopeFailed, walk
  <2>2. QED
    BY <2>1 DEF Stage, Aside, Waiting, NoPage, Walked, Settled
<1>5. CASE Submit \/ Refuse \/ Execute \/ Load \/ Raises \/ Detect \/ (\E d : StubRaises(d))
  BY <1>5 DEF Submit, Refuse, Execute, Load, LoadPlaces, LoadAliases, LoadSources, Raises, Detect,
              StubRaises, Walked, Settled
<1>6. CASE UNCHANGED vars
  BY <1>1, <1>6 DEF vars, plan, walk, env, past, Walked, Settled
<1>7. CASE RequestPage
  <2> DEFINE items == FirstPage(Rest(Listed))
  <2>1. CASE FetchPage(items, Here.repeats \/ Rest(Listed) # items)
    BY <2>1 DEF FetchPage, Walked, Settled
  <2>2. CASE RepeatedPage(items)
    BY <1>7, <2>2, NoPageTwice DEF RepeatedPage, Walked, Settled
  <2>3. ASSUME NEW type \in ErrorTypes, Stops(type) PROVE Walked' /\ Settled'
    BY <2>3 DEF Stops, Walked, Settled
  <2>4. QED
    BY <1>7, <2>1, <2>2, <2>3, Requests
<1>8. CASE SkipStub
  BY <1>8, Skips DEF Walked, Settled
<1>9. CASE NextJob
  BY <1>9 DEF NextJob, Walked, Settled
<1>10. ASSUME NEW l \in AtWork, NEW d,
              Persist(l, d) \/ StubUnreadable(l, d) \/ StubGone(l) \/ StubFails(l)
       PROVE  Walked' /\ Settled'
  BY <1>10, Persists, Failures DEF Walked, Settled
<1>11. ASSUME NEW p, Publish(p) \/ Withdraw(p) PROVE Walked' /\ Settled'
  BY <1>11, SourceSteps DEF Walked, Settled
<1>12. ASSUME \/ \E file \in Here.files : SeedLocations(file)
              \/ \E file \in Here.slugs : SeedCategories(file)
              \/ \E p \in Here.toggles : Toggle(p)
              \/ \E e \in Here.remaps, p \in Places \cup {None} : Remap(e, p)
              \/ \E q \in Here.judged : Judge(q[1], q[2])
       PROVE  Walked' /\ Settled'
  BY <1>1, <1>12, EditSteps DEF Walked, Settled
<1>13. QED
  BY <1>2, <1>3, <1>4, <1>5, <1>6, <1>7, <1>8, <1>9, <1>10, <1>11, <1>12, Cases DEF Between

-----------------------------------------------------------------------------
(* The first state, and the theorem.                                        *)

\* The listings that are offered at first have the order of the list.
LEMMA InitOrdered == ASSUME Init PROVE Ordered
<1> DEFINE offered == Here.offered
           Since(l) == {i \in DOMAIN offered : \E j \in 1..i : offered[j] = l}
<1>1. world \in DOMAIN Worlds /\ offered \in Seq(Listings) /\ left.changes = Here.changes
      /\ Here.changes \in Nat
  BY DEF Init, Here
<1>2. \A l \in Listings : stamp[l] = Cardinality(Since(l))
  BY DEF Init
<1>3. Len(offered) \in Nat /\ DOMAIN offered = 1..Len(offered)
  BY <1>1
<1>4. Newest = Len(offered) + 1
  BY <1>1, <1>3 DEF Newest
<1> HIDE DEF offered
<1>5. IsFiniteSet(DOMAIN offered) /\ Cardinality(DOMAIN offered) = Len(offered)
  <2>1. \A n \in Nat : IsFiniteSet(1..n) /\ Cardinality(1..n) = n
    <3>1. \A n \in Nat : IsFiniteSet(1..n) /\ Cardinality(1..n) = IF 1 > n THEN 0 ELSE n - 1 + 1
      BY FS_Interval
    <3>2. QED
      BY <3>1
  <2>2. QED
    BY <1>3, <2>1
<1>6. \A l : /\ IsFiniteSet(Since(l)) /\ Cardinality(Since(l)) \in Nat
             /\ Cardinality(Since(l)) <= Len(offered)
  <2>1. \A S \in SUBSET DOMAIN offered :
          IsFiniteSet(S) /\ Cardinality(S) \in Nat /\ Cardinality(S) <= Len(offered)
    BY <1>5, FS_Subset, FS_CardinalityType
  <2>2. \A l : Since(l) \in SUBSET DOMAIN offered
    OBVIOUS
  <2> HIDE DEF Since
  <2>3. QED
    BY <2>1, <2>2
<1>7. ASSUME NEW l \in Listings, NEW m \in Listings \ {l}, stamp[l] > 0, stamp[m] = stamp[l]
      PROVE  FALSE
  <2>1. Cardinality(Since(l)) > 0 /\ Cardinality(Since(m)) = Cardinality(Since(l))
    BY <1>2, <1>7
  <2>2. Since(l) # {}
    <3>1. Cardinality({}) = 0
      BY FS_EmptySet
    <3>2. Since(l) = {} => Cardinality(Since(l)) = 0
      <4> HIDE DEF Since
      <4>1. QED
        BY <3>1
    <3>3. QED
      BY <2>1, <3>2
  <2>3. Since(l) \subseteq Since(m) \/ Since(m) \subseteq Since(l)
    <3>1. ASSUME NEW i \in Since(l) \ Since(m), NEW k \in Since(m) \ Since(l) PROVE FALSE
      <4>1. i \in Nat /\ k \in Nat
        BY <1>3
      <4>2. CASE i <= k
        <5>1. 1..i \subseteq 1..k
          BY <4>1, <4>2
        <5>2. QED
          BY <5>1
      <4>3. CASE k <= i
        <5>1. 1..k \subseteq 1..i
          BY <4>1, <4>3
        <5>2. QED
          BY <5>1
      <4>4. QED
        BY <4>1, <4>2, <4>3
    <3>2. QED
      BY <3>1
  <2>4. Since(l) = Since(m)
    <3> HIDE DEF Since
    <3>1. QED
      BY <1>6, <2>1, <2>3, FS_Subset
  <2>5. PICK i \in Since(l) : \A k \in Since(l) : i <= k
    <3>1. Since(l) \in SUBSET Nat
      BY <1>3
    <3> HIDE DEF Since
    <3>2. QED
      BY <2>2, <3>1, LeastNumber
  <2>6. \A x : x = l \/ x = m => \E j \in 1..i : offered[j] = x
    BY <2>4, <2>5
  <2>7. \A j \in 1..i : (\E x : (x = l \/ x = m) /\ offered[j] = x) => j = i
    <3>1. ASSUME NEW j \in 1..i, offered[j] = l \/ offered[j] = m PROVE j = i
      <4>1. i \in 1..Len(offered) /\ j \in DOMAIN offered /\ j \in 1..j
        BY <1>3
      <4>2. j \in Since(l)
        BY <2>4, <3>1, <4>1
      <4>3. QED
        BY <2>5, <4>1, <4>2
    <3>2. QED
      BY <3>1
  <2>8. offered[i] = l /\ offered[i] = m
    BY <2>6, <2>7
  <2>9. QED
    BY <2>8
<1>8. \A l \in Listings : stamp[l] < Newest
  <2> HIDE DEF Since
  <2>1. QED
    BY <1>2, <1>3, <1>4, <1>6
<1>9. QED
  BY <1>7, <1>8 DEF Ordered

LEMMA InitWalk ==
  ASSUME Init PROVE Counted /\ SteadyListed /\ Covered /\ Topmost /\ Walked /\ Settled
<1>1. 1 \in 1..Len(Here.jobs)
  <2>1. Len(Here.jobs) \in Nat \ {0}
    BY DEF Init, Here
  <2>2. QED
    BY <2>1
<1>2. Counted
  BY <1>1 DEF Init, Counted
<1>3. SteadyListed /\ Covered /\ Topmost
  BY DEF Init, SteadyListed, Covered, Topmost, NoPage
<1>4. Walked /\ Settled
  BY DEF Init, Walked, Settled
<1>5. QED
  BY <1>2, <1>3, <1>4

\* When a crawl reports success, what it has covered is what it has persisted.
LEMMA SuccessSeesAll ==
  ASSUME Shape, Stage, ReportAddsUp, Counted, Covered, Walked, Settled
  PROVE  SucceededSawAll
<1> SUFFICES ASSUME pc = "ended", status = "succeeded", ~ Here.repeats,
                    ~ (page.more /\ LimitReached), Job.source = "sheypoor" => ~ shifted
             PROVE  steady \ bumped \subseteq done
  BY DEF SucceededSawAll
<1>1. ~ stopped /\ counts.failed = 0 /\ Calm
  BY DEF Settled, Calm
<1>2. ~ page.more
  BY <1>1 DEF Walked
<1>3. Coming = {}
  BY DEF Stage, Coming
<1>4. steady \ bumped \subseteq seen
  BY <1>1, <1>2, <1>3 DEF Covered
<1>5. done = seen
  <2>1. Cardinality(done) = Cardinality(seen)
    BY <1>1, ReportParts, Finite DEF ReportAddsUp
  <2>2. done \in SUBSET seen
    BY DEF Shape
  <2>3. QED
    BY <2>1, <2>2, Finite, FS_Subset
<1>6. QED
  BY <1>4, <1>5

\* A crawl that reports success and was not cut off by its page limit has
\* persisted every listing that was offered from its first request on, but for
\* those bumped to the top before it came to them: Divar's cursor passes nothing
\* else over, and Sheypoor's page numbers do not as long as nothing is withdrawn
\* and no whole page comes in between two requests (runner.py, run_crawl;
\* iter_list_pages of adapters/divar.py and adapters/sheypoor.py).
THEOREM SuccessfulCrawlsSawAll == Spec => []SucceededSawAll
<1> DEFINE Inv == /\ Shape /\ Stage /\ Logged /\ ReportAddsUp /\ Ordered /\ Counted
                  /\ SteadyListed /\ Covered /\ Topmost /\ Walked /\ Settled
<1>1. Init => Inv
  BY InitInvariant, InitOrdered, InitWalk
<1>2. Inv /\ [Next]_vars => Inv'
  BY ShapeStep, StageStep, LoggedStep, ReportStep, OrderedStep, CountedStep, CoverStep, EndStep
<1>3. Inv => SucceededSawAll
  BY SuccessSeesAll
<1>4. QED
  BY <1>1, <1>2, <1>3, PTL DEF Spec
=============================================================================
