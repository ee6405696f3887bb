------------------------------ MODULE CrawlRun ------------------------------
(***************************************************************************)
(* One crawl job after the other, from the request that creates it to its  *)
(* report (core/crawling/models.py, scope.py, tasks.py, runner.py), over   *)
(* the pages of a source whose offers change meanwhile                     *)
(* (core/sources/adapters/), with reference data that operators and seed   *)
(* commands change meanwhile, the normalization of each listing and the    *)
(* row it leaves, and a detection of duplicates at the end.                *)
(*                                                                         *)
(* Crawls that overlap, and what else happens to jobs and rows, are in     *)
(* CrawlJobs, ListingLifecycle and DedupReview.                            *)
(***************************************************************************)
EXTENDS Places, Payloads, Categories, FiniteSets, TLC

CONSTANTS
  Listings,    \* the listings of both sources
  Pages,       \* a listing at its source: where it is listed, and its detail page
  Worlds,      \* bound: the situations that are explored, by name
  PageSize,    \* listings on a page of a source
  MaxPages,    \* bound: pages that one crawl requests
  MaxErrors,   \* MAX_REPORTED_ERRORS
  BucketLimit  \* DEDUP_MAX_LISTINGS_PER_BUCKET

INSTANCE Matching

ASSUME RunAssumption ==
  /\ IsFiniteSet(Listings)
  /\ None \notin Listings /\ "list-page" \notin Listings   \* whom an error is about
  /\ PageSize \in Nat \ {0} /\ MaxPages \in Nat /\ MaxErrors \in Nat /\ BucketLimit \in Nat \ {0}
  /\ \A w \in DOMAIN Worlds :
       /\ Worlds[w].offered \in Seq(Listings) /\ Worlds[w].changes \in Nat
       /\ Worlds[w].repeats \in BOOLEAN /\ Len(Worlds[w].jobs) \in Nat \ {0}
       /\ \A i \in 1..Len(Worlds[w].jobs) : Worlds[w].jobs[i].source \in {"divar", "sheypoor"}

\* What a situation starts from and what may be done to it: tables whose
\* references are to rows, and seed files that bring the places they refer to.
ASSUME WorldsAssumption ==
  \A w \in DOMAIN Worlds :
    LET W == Worlds[w]
        Refs(rows) == rows \cup {None}
    IN /\ W.jobs \in Seq(Range(W.jobs))
       /\ W.edits \in Nat /\ W.faults \in Nat
       /\ W.ref \in [rows : SUBSET Places, active : SUBSET W.ref.rows,
                     mapping : [ExternalIds -> Refs(W.ref.rows)],
                     alias : [Names -> Refs(W.ref.rows)], slug : {W.ref.slug}]
       /\ \A file \in W.files :
            /\ file.places \subseteq Places
            /\ file.mapping \in [DOMAIN file.mapping -> file.places]
            /\ file.aliases \in Seq([name : Names, place : file.places])

VARIABLES
  world,       \* the situation, which does not change
  left,        \* bound: edits, changes of the source and faults still to come
  ref,         \* the reference tables
  stamp,       \* when a listing was published or bumped; 0: not offered
  job,         \* which of Here.jobs is at work
  pc,          \* how far it is
  status,      \* CrawlJob.status once it has ended
  snapshot,    \* CrawlJob: its place, source_external_id and source_category
  scope,       \* the CrawlScope of the run
  index,       \* its LocationIndex
  loads,       \* the queries of LocationIndex.load that are done
  page,        \* the page that was last fetched
  todo,        \* its stubs that are not processed
  seen,        \* seen_ids
  counts,      \* CrawlCounts
  errors,      \* _ErrorLog
  stopped,     \* stopped_reason is set
  row,         \* listings table
  pairs,       \* duplicate candidates
  \* history
  done,        \* the listings this crawl persisted
  steady,      \* offered from the request of the first page on
  bumped,      \* of those: moved to the top before the crawl came to them
  fresh,       \* publications and bumps since the last page was requested
  shifted,     \* something was withdrawn, or a whole page came in between two
  edited,      \* the reference tables changed since the job was created
  understood,  \* the attributes and the price that were read from their pages
  filed        \* the places a listing was resolved to

plan   == <<job, snapshot>>
copy   == <<index, loads>>
walk   == <<page, todo, seen, counts, errors, stopped>>
stored == <<row, pairs, done, understood, filed>>
env    == <<world, left, ref, stamp>>
past   == <<steady, bumped, fresh, shifted, edited>>
vars   == <<plan, copy, walk, stored, env, past, pc, status, scope>>

Here == Worlds[world]   \* its jobs, files and bounds
Job  == Here.jobs[job]

NoCounts == [pages |-> 0, stubs |-> 0, details |-> 0, created |-> 0, updated |-> 0,
             skipped |-> 0, failed |-> 0, outOfScope |-> 0]
NoErrors == [entries |-> <<>>, total |-> 0]
NoPage   == [number |-> 0, items |-> {}, more |-> FALSE, cursor |-> 0]
NoScope  == [place |-> None, category |-> None]
NoJob    == [target |-> None, place |-> None, category |-> None]
NoRow    == [status |-> "absent"]

Exists(l) == row[l] # NoRow
Stored == {l \in Listings : Exists(l)}
Rows == {row[l] : l \in Stored}

Init ==
  /\ world \in DOMAIN Worlds
  /\ left = [edits |-> Here.edits, changes |-> Here.changes, faults |-> Here.faults]
  /\ ref = Here.ref
  /\ stamp = [l \in Listings |->
       Cardinality({i \in DOMAIN Here.offered :
                      \E j \in 1..i : Here.offered[j] = l})]
  /\ job = 1 /\ pc = "submit" /\ status = "none"
  /\ snapshot = NoJob /\ scope = NoScope
  /\ index = EmptyIndex /\ loads = 0
  /\ page = NoPage /\ todo = <<>> /\ seen = {}
  /\ counts = NoCounts /\ errors = NoErrors /\ stopped = FALSE
  /\ row = [l \in Listings |-> NoRow] /\ pairs = {}
  /\ done = {} /\ understood = <<>> /\ steady = {} /\ bumped = {}
  /\ fresh = 0 /\ shifted = FALSE /\ edited = FALSE
  /\ filed = [l \in Listings |-> {}]

-----------------------------------------------------------------------------
(* Creation of the job.                                                    *)

\* The one place asked for: an active one over the API (CrawlScopeInput-
\* Serializer), the one that bears the codes on the command line.
Asked(j) ==
  IF j.via = "api" THEN {j.place} \cap ref.active ELSE Bearing(ref.rows, j.flags)

\* resolve_category
MappedSlug(j) ==
  LET kind == <<j.source, j.transaction, j.property>>
  IN IF kind \in DOMAIN ref.slug THEN ref.slug[kind] ELSE None

\* Mutant: the category is looked up again, whatever the job says.
CategoryAgain(j, chosen) == MappedSlug(j)

\* job.source_category or resolve_category(...)
Category(j, chosen) == IF chosen # None THEN chosen ELSE MappedSlug(j)

\* build_scope: SourceDisabled and ScopeResolutionError are the two ways to
\* have none.
Resolvable(j, p) == j.source \in Here.enabled /\ SourcePlace(ref.mapping, j.source, p) # None

ScopeOf(j, p, chosen) ==
  [place |-> SourcePlace(ref.mapping, j.source, p), category |-> Category(j, chosen)]

\* create_job and _resolve_snapshot
Submit ==
  \E p \in Asked(Job) :
    /\ pc = "submit" /\ Cardinality(Asked(Job)) = 1
    /\ Resolvable(Job, p)
    /\ snapshot' = [target |-> p, place |-> ScopeOf(Job, p, Job.category).place,
                    category |-> ScopeOf(Job, p, Job.category).category]
    /\ pc' = "queued"
    /\ edited' = FALSE
    /\ UNCHANGED <<job, copy, walk, stored, env, status, scope, steady, bumped, fresh, shifted>>

\* No such place, several, no identifier or a disabled source: a ValidationError
\* or CommandError, and no job.
Refuse ==
  /\ pc = "submit"
  /\ ~ (Cardinality(Asked(Job)) = 1 /\ \A p \in Asked(Job) : Resolvable(Job, p))
  /\ pc' = "refused"
  /\ UNCHANGED <<plan, copy, walk, stored, env, past, status, scope>>

-----------------------------------------------------------------------------
(* execute_job: the scope once more, the index, the pages, the report.     *)

Execute ==
  /\ pc = "queued"
  /\ Resolvable(Job, snapshot.target)
  /\ scope' = ScopeOf(Job, snapshot.target, snapshot.category)
  /\ pc' = "loading"
  /\ UNCHANGED <<plan, copy, walk, stored, env, past, status>>

\* _scope_failed
ScopeFailed ==
  /\ pc = "queued"
  /\ ~ Resolvable(Job, snapshot.target)
  /\ pc' = "ended" /\ status' = "failed"
  /\ UNCHANGED <<plan, copy, walk, stored, env, past, scope>>

\* LocationIndex.load: five queries, each of which sees what is committed by
\* then.  Targets are looked up among the places read before.
LoadPlaces(n, level) ==
  /\ pc = "loading" /\ loads = n
  /\ index' = [index EXCEPT !.known = @ \cup (ref.active \cap level)]
  /\ loads' = n + 1
  /\ UNCHANGED <<plan, walk, stored, env, past, pc, status, scope>>

LoadAliases ==
  /\ pc = "loading" /\ loads = 3
  /\ index' = [index EXCEPT !.text =
       [n \in Names |-> TextTarget(index.known, ref.alias, n)]]
  /\ loads' = 4
  /\ UNCHANGED <<plan, walk, stored, env, past, pc, status, scope>>

LoadSources ==
  /\ pc = "loading" /\ loads = 4
  /\ index' = [index EXCEPT !.source =
       [e \in ExternalIds |-> Known(index.known, ref.mapping[e])]]
  /\ loads' = 5 /\ pc' = "request"
  /\ UNCHANGED <<plan, walk, stored, env, past, status, scope>>

-----------------------------------------------------------------------------
(* Pages.                                                                  *)

\* What the source lists for the scope.  Sheypoor's list url has no category.
Listed ==
  {l \in Listings :
     /\ stamp[l] > 0 /\ Pages[l].source = Job.source
     /\ scope.place \in Pages[l].at
     /\ Job.source = "divar" /\ scope.category # None
          => scope.category \in Pages[l].slugs}

\* Newest first: those of some listings that come before l.
Above(l, listed) == {m \in listed : stamp[m] > stamp[l]}

\* Divar continues after the last listing of the page before: its cursor.
DivarRest(listed) == {l \in listed : page.number = 0 \/ stamp[l] < page.cursor}

\* Sheypoor counts from the top of what it lists now.
SheypoorRest(listed) ==
  {l \in listed : Cardinality(Above(l, listed)) >= page.number * PageSize}

\* A source that `repeats' answers every request with its first page and a
\* link to the next one.
Rest(listed) ==
  IF Here.repeats THEN listed
  ELSE IF Job.source = "divar" THEN DivarRest(listed) ELSE SheypoorRest(listed)

FirstPage(rest) == {l \in rest : Cardinality(Above(l, rest)) < PageSize}

InOrder(items) ==
  {s \in [1..Cardinality(items) -> items] :
     /\ Range(s) = items
     /\ \A i, j \in DOMAIN s : i < j => stamp[s[i]] > stamp[s[j]]}

\* Mutant: what the log already has is not counted again.
RecordedOnce(id, type) ==
  IF <<id, type>> \in Range(errors.entries) \/ Len(errors.entries) >= MaxErrors
    THEN errors
    ELSE [total |-> errors.total + 1, entries |-> Append(errors.entries, <<id, type>>)]

\* Mutant: the log has no limit.
RecordedAll(id, type) ==
  [total |-> errors.total + 1, entries |-> Append(errors.entries, <<id, type>>)]

\* _ErrorLog.record: one entry per source id and type, and no more than the
\* limit.
Recorded(id, type) ==
  [total   |-> errors.total + 1,
   entries |-> IF \/ <<id, type>> \in Range(errors.entries)
                  \/ Len(errors.entries) >= MaxErrors
                 THEN errors.entries ELSE Append(errors.entries, <<id, type>>)]

\* Mutant: one listing in common is taken for the page before.
SamePageInPart(items) == Job.source = "sheypoor" /\ items \cap page.items # {}

\* Mutant: Sheypoor's adapter goes on, too.
SamePageUnnoticed(items) == FALSE

\* page_ids == previous_ids: the source ignored the number of the page.
SamePage(items) == Job.source = "sheypoor" /\ items = page.items

\* Sheypoor: parse_list_page refuses a page without listings, and a page with
\* the listings of the one before ends the crawl.
FetchPage(items, more) ==
  /\ Job.source = "sheypoor" => items # {}
  /\ ~ SamePage(items)
  /\ page' = [number |-> page.number + 1, items |-> items, more |-> more,
              cursor |-> IF items = {} THEN 0 ELSE Min({stamp[l] : l \in items})]
  /\ todo' \in InOrder(items)
  /\ counts' = [counts EXCEPT !.pages = @ + 1]
  /\ pc' = "stubs"
  /\ UNCHANGED <<seen, errors, stopped, env>>

RepeatedPage(items) ==
  /\ items # {} /\ SamePage(items)
  /\ pc' = "finish"
  /\ UNCHANGED <<walk, env>>

\* A SourceError of a list page stops the crawl.
Stops(type) ==
  /\ stopped' = TRUE
  /\ errors' = Recorded("list-page", type)
  /\ pc' = "finish"
  /\ UNCHANGED <<page, todo, seen, counts>>

EmptyPage(items) ==
  /\ Job.source = "sheypoor" /\ items = {}
  /\ Stops("ParseError")
  /\ UNCHANGED env

PageFails ==
  /\ left.faults > 0
  /\ left' = [left EXCEPT !.faults = @ - 1]
  /\ Stops("TransportError")
  /\ UNCHANGED <<world, ref, stamp>>

\* The next list page is requested.
RequestPage ==
  /\ pc = "request" /\ page.number < MaxPages
  /\ \E listed \in {Listed} : \E rest \in {Rest(listed)} : \E items \in {FirstPage(rest)} :
       /\ steady' = IF page.number = 0 THEN listed ELSE steady
       /\ bumped' = IF page.number = 0 THEN {} ELSE bumped
       /\ \/ FetchPage(items, Here.repeats \/ rest # items)
          \/ RepeatedPage(items)
          \/ EmptyPage(items)
          \/ PageFails
  /\ shifted' = (page.number > 0 /\ (shifted \/ fresh >= PageSize))
  /\ fresh' = 0
  /\ UNCHANGED <<plan, copy, stored, edited, status, scope>>

\* After the last stub: the next page is requested unless the source has none
\* or the page limit (0: NULL) is reached.
LimitReached == Job.limit # 0 /\ page.number >= Job.limit

TurnPage ==
  /\ pc = "stubs" /\ todo = <<>>
  /\ pc' = IF page.more /\ ~ LimitReached THEN "request" ELSE "finish"
  /\ UNCHANGED <<plan, copy, walk, stored, env, past, status, scope>>
-----------------------------------------------------------------------------
(* Stubs: _process_stub.                                                   *)

\* parse_detail of the two adapters
Details ==
  [l \in Listings |->
     IF Pages[l].source = "divar" THEN DivarDetail(Pages[l]) ELSE SheypoorDetail(Pages[l])]

\* A page has the form of its source; what it prints are names and words, what
\* it refers to are identifiers, and what stands in a field is a text.
ASSUME PagesAssumption ==
  \A l \in Listings :
    /\ \/ Pages[l].source = "divar" /\ IsTree(Pages[l].tree)
       \/ Pages[l].source = "sheypoor" /\ IsStream(Pages[l].rows)
    /\ Pages[l].texts \in Seq(Names) /\ IsFiniteSet(Pages[l].words)
    /\ Details[l].read = "detail" =>
         /\ Details[l].refs \in Seq(ExternalIds) /\ Details[l].raw \in Texts
         /\ \A f \in MoneyFields \cup {"area"} : FirstValue(Details[l].attributes, f) \in Texts

\* What it means that reference data tells the truth and that nothing a page
\* prints is ambiguous: whatever an identifier or a printed name stands for, now
\* or after an edit, the listing lies there.
LiesIn(l, p) == p = None \/ Within(Pages[l].lies, p)

ASSUME TruthAssumption ==
  \A w \in DOMAIN Worlds, l \in Listings :
    LET W == Worlds[w] IN
    ~ W.untrue =>
      /\ Details[l].read = "detail" => \A e \in Range(Details[l].refs) :
           /\ e \notin W.remaps /\ LiesIn(l, W.ref.mapping[e])
           /\ \A file \in W.files : e \in DOMAIN file.mapping => LiesIn(l, file.mapping[e])
      /\ ~ Pages[l].ambiguous => \A n \in Range(Pages[l].texts) :
           /\ \A p \in Places : NameOf[p] = n => LiesIn(l, p)
           /\ LiesIn(l, W.ref.alias[n])
           /\ \A file \in W.files : \A i \in DOMAIN file.aliases :
                file.aliases[i].name = n => LiesIn(l, file.aliases[i].place)

\* normalize_detail, but for the place: it depends on the detail page alone.
Normalized(l, d) ==
  LET transaction == TransactionOf(d.path, Pages[l].says)
      money == Money(d.attributes, d.raw, transaction)
  IN [transaction |-> transaction, property |-> PropertyOf(d.path),
      amounts |-> money.amounts, negotiable |-> money.negotiable,
      area |-> Area(d.attributes), title |-> Pages[l].words,
      published |-> Pages[l].published]

\* What a NULL leaves as it was.
Coalesced(old, new) == IF new = None THEN old ELSE new

NewRow(l) ==
  [id |-> Cardinality(Rows) + 1, source |-> Pages[l].source, status |-> "active",
   duplicateOf |-> None, province |-> None, city |-> None, region |-> None,
   published |-> None]

\* _apply_fields: places and the publication date keep their value when the
\* crawl has none; everything else is written anew.
Refreshed(l, place, new) ==
  LET old == IF Exists(l) THEN row[l] ELSE NewRow(l)
      at  == IF place = None THEN Nowhere ELSE Located(index.known, place)
  IN [id |-> old.id, source |-> old.source, duplicateOf |-> old.duplicateOf,
      status |-> IF old.status \in {"stale", "delisted"} THEN "active" ELSE old.status,
      province |-> Coalesced(old.province, at.province),
      city |-> Coalesced(old.city, at.city),
      region |-> Coalesced(old.region, at.region),
      published |-> Coalesced(old.published, new.published),
      transaction |-> new.transaction, property |-> new.property, title |-> new.title,
      amounts |-> new.amounts, negotiable |-> new.negotiable, area |-> new.area,
      lastSeen |-> job]

\* A stub that was on an earlier page.
SkipStub ==
  /\ pc = "stubs" /\ todo # <<>> /\ Head(todo) \in seen
  /\ todo' = Tail(todo)
  /\ counts' = [counts EXCEPT !.stubs = @ + 1, !.skipped = @ + 1]
  /\ UNCHANGED <<plan, copy, stored, env, past, page, seen, errors, stopped, pc,
                 status, scope>>

\* The stub whose turn it is, if it is a new one.
AtWork == {todo[i] : i \in {1} \cap DOMAIN todo} \ seen

Processes(l) ==
  /\ pc = "stubs"
  /\ todo' = Tail(todo)
  /\ seen' = seen \cup {l}
  /\ UNCHANGED <<plan, copy, page, stopped, pc, status, scope, past>>

\* Detail, normalization and upsert succeed.
Persist(l, d) ==
  /\ Processes(l)
  /\ d.read = "detail"
  /\ \E place \in {Resolve(index, d.refs, Pages[l].texts)}, new \in {Normalized(l, d)} :
       /\ row' = [row EXCEPT ![l] = Refreshed(l, place, new)]
       /\ filed' = [filed EXCEPT ![l] = @ \cup ({place} \ {None})]
       /\ counts' = [counts EXCEPT
            !.stubs = @ + 1, !.details = @ + 1,
            !.created = IF Exists(l) THEN @ ELSE @ + 1,
            !.updated = IF Exists(l) THEN @ + 1 ELSE @,
            !.outOfScope = IF OutsideRequested(Job, new) THEN @ + 1 ELSE @]
  /\ done' = done \cup {l}
  /\ understood' = With(understood, l, [attributes |-> d.attributes, raw |-> d.raw])
  /\ UNCHANGED <<errors, pairs, env>>

Fails(l, type) ==
  /\ Processes(l)
  /\ counts' = [counts EXCEPT !.stubs = @ + 1, !.failed = @ + 1]
  /\ errors' = Recorded(l, type)
  /\ UNCHANGED stored

\* The listing was withdrawn after its page was fetched.
StubGone(l) ==
  /\ stamp[l] = 0
  /\ Fails(l, "PermanentHTTPError")
  /\ UNCHANGED env

\* The page cannot be read.
StubUnreadable(l, d) ==
  /\ d.read = "ParseError"
  /\ Fails(l, "ParseError")
  /\ UNCHANGED env

StubFails(l) ==
  /\ left.faults > 0 /\ left' = [left EXCEPT !.faults = @ - 1]
  /\ Fails(l, "TransportError")
  /\ UNCHANGED <<world, ref, stamp>>

\* Anything but a SourceError leaves run_job: the job stays RUNNING.
Raises ==
  /\ pc = "request" \/ (pc = "stubs" /\ AtWork # {})
  /\ left.faults > 0 /\ left' = [left EXCEPT !.faults = @ - 1]
  /\ pc' = "raised"
  /\ UNCHANGED <<plan, copy, walk, stored, past, world, ref, stamp, status, scope>>

\* So does a page that parse_detail stumbles over.
StubRaises(d) ==
  /\ pc = "stubs" /\ d.read = "TypeError"
  /\ pc' = "raised"
  /\ UNCHANGED <<plan, copy, walk, stored, env, past, status, scope>>

\* The detail page is there.
StubRead(l) ==
  /\ stamp[l] > 0
  /\ \E d \in {Details[l]} : Persist(l, d) \/ StubUnreadable(l, d) \/ StubRaises(d)

\* _final_status
FinalStatus ==
  IF stopped THEN (IF counts.created + counts.updated > 0 THEN "partial" ELSE "failed")
  ELSE IF counts.failed > 0 THEN (IF counts.details > 0 THEN "partial" ELSE "failed")
  ELSE "succeeded"

\* finish_job
Finish ==
  /\ pc = "finish"
  /\ status' = FinalStatus
  /\ pc' = "ended"
  /\ UNCHANGED <<plan, copy, walk, stored, env, past, scope>>

NextJob ==
  /\ pc \in {"refused", "raised", "ended"}
  /\ IF job < Len(Here.jobs)
       THEN job' = job + 1 /\ pc' = "submit"
       ELSE job' = job /\ pc' = "detect"
  /\ status' = "none" /\ snapshot' = NoJob /\ scope' = NoScope
  /\ index' = EmptyIndex /\ loads' = 0
  /\ page' = NoPage /\ todo' = <<>> /\ seen' = {}
  /\ counts' = NoCounts /\ errors' = NoErrors /\ stopped' = FALSE
  /\ done' = {} /\ understood' = <<>> /\ steady' = {} /\ bumped' = {}
  /\ fresh' = 0 /\ shifted' = FALSE
  /\ UNCHANGED <<env, row, pairs, filed, edited>>

\* detect_candidates on what the crawls left; DedupReview has the concurrency.
Detect ==
  /\ pc = "detect"
  /\ pairs' = pairs \cup Detected(Rows, BucketLimit)
  /\ pc' = "over"
  /\ UNCHANGED <<plan, copy, walk, env, past, status, scope, row, done,
                 understood, filed>>

-----------------------------------------------------------------------------
(* The source changes.                                                     *)

Newest == Len(Here.offered) + (Here.changes - left.changes) + 1

Changes ==
  /\ pc \in {"request", "stubs"}
  /\ left.changes > 0
  /\ left' = [left EXCEPT !.changes = @ - 1]
  /\ UNCHANGED <<plan, copy, walk, stored, world, ref, edited, pc, status, scope>>

\* A listing appears, or is bumped to the top.
Publish(l) ==
  /\ Changes
  /\ stamp' = [stamp EXCEPT ![l] = Newest]
  /\ bumped' = bumped \cup ({l} \ (seen \cup Range(todo)))
  /\ fresh' = fresh + 1
  /\ UNCHANGED <<steady, shifted>>

Withdraw(l) ==
  /\ Changes
  /\ stamp[l] > 0
  /\ stamp' = [stamp EXCEPT ![l] = 0]
  /\ steady' = steady \ {l}
  /\ shifted' = TRUE
  /\ UNCHANGED <<bumped, fresh>>

-----------------------------------------------------------------------------
(* The reference data and the rows change: seed commands and admin pages.  *)

Edits ==
  /\ left.edits > 0 /\ left' = [left EXCEPT !.edits = @ - 1]
  /\ edited' = TRUE
  /\ UNCHANGED <<plan, copy, walk, pairs, done, understood, filed, world, stamp, pc, status, scope,
                 steady, bumped, fresh, shifted>>

\* seed_locations, one transaction: rows are added or updated, never deleted,
\* and new ones are active; identifiers and aliases of the file are moved to its
\* places, in the order of the file.
SeedLocations(file) ==
  /\ pc \in {"queued", "loading"} /\ Edits
  /\ ref' = [ref EXCEPT
       !.rows    = @ \cup file.places,
       !.active  = @ \cup (file.places \ ref.rows),
       !.mapping = [e \in ExternalIds |->
          IF e \in DOMAIN file.mapping THEN file.mapping[e] ELSE @[e]],
       !.alias   = [n \in Names |->
          LET named == {i \in DOMAIN file.aliases : file.aliases[i].name = n}
          IN IF named = {} THEN @[n] ELSE file.aliases[Max(named)].place]]
  /\ UNCHANGED row

\* seed_source_categories, one transaction.
SeedCategories(file) ==
  /\ pc = "queued" /\ Edits
  /\ ref' = [ref EXCEPT !.slug = file @@ @]
  /\ UNCHANGED row

\* An operator switches a place on or off ...
Toggle(p) ==
  /\ pc \in {"submit", "queued", "loading"} /\ Edits
  /\ p \in ref.rows
  /\ ref' = [ref EXCEPT !.active = IF p \in @ THEN @ \ {p} ELSE @ \cup {p}]
  /\ UNCHANGED row

\* ... points an identifier to another place or deletes the mapping ...
Remap(e, p) ==
  /\ pc \in {"queued", "loading"} /\ Edits
  /\ p \in ref.rows \cup {None} /\ p # ref.mapping[e]
  /\ ref' = [ref EXCEPT !.mapping[e] = p]
  /\ UNCHANGED row

\* ... hides a listing, or confirms it as a duplicate, before the detection.
Judge(l, m) ==
  /\ pc = "detect" /\ Edits
  /\ {l, m} \ {None} \subseteq Stored
  /\ row' = [row EXCEPT ![l] = IF m = None THEN [@ EXCEPT !.status = "hidden"]
                               ELSE [@ EXCEPT !.duplicateOf = row[m].id]]
  /\ UNCHANGED ref

-----------------------------------------------------------------------------
Load ==
  \/ LoadPlaces(0, Provinces) \/ LoadPlaces(1, Cities) \/ LoadPlaces(2, Regions)
  \/ LoadAliases \/ LoadSources

Walk ==
  \/ RequestPage \/ TurnPage \/ SkipStub \/ Raises
  \/ \E l \in AtWork : StubRead(l) \/ StubGone(l) \/ StubFails(l)

Crawler ==
  \/ Submit \/ Refuse \/ Execute \/ ScopeFailed \/ Load \/ Walk \/ Finish
  \/ NextJob \/ Detect

Source == \E l \in Here.moving : Publish(l) \/ Withdraw(l)

Operator ==
  \/ \E file \in Here.files : SeedLocations(file)
  \/ \E file \in Here.slugs : SeedCategories(file)
  \/ \E p \in Here.toggles : Toggle(p)
  \/ \E e \in Here.remaps, p \in Places \cup {None} : Remap(e, p)
  \/ \E q \in Here.judged : Judge(q[1], q[2])

Next == Crawler \/ Source \/ Operator

Spec == Init /\ [][Next]_vars

\* A crawl runs on by itself.
FairSpec == Spec /\ WF_vars(Crawler)
-----------------------------------------------------------------------------
(* Properties.                                                             *)

Steps == {"submit", "refused", "queued", "loading", "request", "stubs", "finish",
          "ended", "raised", "detect", "over"}

\* The types of the state; a job refers to places and identifiers that exist.
TypeOK ==
  /\ world \in DOMAIN Worlds
  /\ left \in [edits : 0..Here.edits, changes : 0..Here.changes,
               faults : 0..Here.faults]
  /\ ref.active \subseteq ref.rows /\ ref.rows \subseteq Places
  /\ \A e \in ExternalIds : ref.mapping[e] \in ref.rows \cup {None}
  /\ \A n \in Names : ref.alias[n] \in ref.rows \cup {None}
  /\ job \in DOMAIN Here.jobs /\ pc \in Steps
  /\ status \in {"none", "succeeded", "partial", "failed"}
  /\ (status = "none") = (pc # "ended")
  /\ pc \in {"queued", "loading", "request", "stubs", "finish"}
       => snapshot.target \in ref.rows /\ snapshot.place \in ExternalIds
  /\ pc \in {"loading", "request", "stubs", "finish"} => scope.place \in ExternalIds
  /\ Range(todo) \subseteq page.items
  /\ Len(errors.entries) <= MaxErrors
  /\ pc \in {"request", "stubs", "finish"} => loads = 5

\* The report accounts for every stub exactly once: it was skipped, it failed or
\* its listing was persisted, and a persisted listing was either created or
\* updated (CrawlJobs takes details for what was saved).  Every failure and the
\* error that stopped the crawl are counted, and as long as the bounded log has
\* room each has its entry.
ReportAddsUp ==
  /\ counts.stubs = counts.skipped + counts.failed + counts.details
  /\ counts.details = counts.created + counts.updated
  /\ counts.details = Cardinality(done)
  /\ counts.details + counts.failed = Cardinality(seen)
  /\ errors.total = counts.failed + (IF stopped THEN 1 ELSE 0)
  /\ \/ errors.total = Len(errors.entries)
     \/ errors.total > MaxErrors /\ Len(errors.entries) = MaxErrors
  /\ counts.outOfScope = Cardinality({l \in done : OutsideRequested(Job, row[l])})

\* A crawl that reports success and was not cut off by its page limit has
\* persisted every listing the source offered from the first request on, although
\* listings came, went and were bumped between its requests, with one exception:
\* a listing that was bumped to the top before the crawl came to it is offered
\* all the time and still missed, on either source, since the crawl goes on
\* downwards (the sweep then charges it as missed).  Sheypoor counts pages from
\* the top: there it holds when nothing was withdrawn meanwhile, and when never
\* exactly a page of listings came in between two requests, which looks like a
\* source that repeats itself.
SucceededSawAll ==
  pc = "ended" /\ status = "succeeded" /\ ~ Here.repeats
    /\ ~ (page.more /\ LimitReached)
    /\ (Job.source = "sheypoor" => ~ shifted)
  => steady \ bumped \subseteq done

\* What an index returns it has the row of: _build reads the row of a region
\* without looking, and a place added or switched off between the queries of the
\* load would end the crawl with a KeyError.
IndexIsClosed ==
  /\ \A n \in Names :
       index.text[n] \in index.known \cup {None}
  /\ \A e \in ExternalIds : index.source[e] \in index.known \cup {None}

\* The three levels of a row that every crawl filed in the same place lie in
\* each other, and the city has its province if the crawl that found the place
\* knew the city.  A row filed in two places may mix them, since an empty level
\* keeps its old value.
StoredPlaceIsAChain ==
  \A l \in Listings : Exists(l) /\ Cardinality(filed[l]) <= 1 =>
    LET r == row[l] IN
    /\ r.region # None => r.city = CityOf[r.region]
    /\ r.city # None /\ r.province # None => r.province = ProvinceOf[r.city]
    /\ l \in done /\ r.city \in index.known
         /\ Resolve(index, Details[l].refs, Pages[l].texts) # None => r.province # None
    /\ (filed[l] = {}) = (r.city = None /\ r.province = None)

\* A listing is filed in a place it does lie in, or nowhere, as long as the
\* reference data tells the truth and nothing it prints is the name of two
\* places.  Text may narrow down the place that the source's identifier gives.
PlaceIsTrue ==
  \A l \in Listings : \A p \in filed[l] :
    Here.untrue \/ Pages[l].ambiguous \/ Within(Pages[l].lies, p)

\* The place and the category that the report names are those that were crawled,
\* and every persisted listing was listed there, unless the reference tables
\* changed between creation and execution; a category named at creation stays.
ReportIsWhatWasCrawled ==
  /\ scope # NoScope /\ ~ edited => scope.place = snapshot.place
                                    /\ scope.category = snapshot.category
  /\ scope # NoScope /\ snapshot.category # None => scope.category = snapshot.category
  /\ ~ edited => \A l \in done : snapshot.place \in Pages[l].at
  /\ Job.source = "divar" /\ snapshot.category # None
       => \A l \in done : snapshot.category \in Pages[l].slugs

\* What the pages say, read without the adapters.
Published ==
  [l \in Listings |->
     IF Pages[l].source = "divar"
       THEN [attributes |-> DivarItems(Pages[l].tree),
             raw |-> DivarPrice(DivarItems(Pages[l].tree))]
       ELSE [attributes |-> SheypoorItems(Pages[l].rows), raw |-> SheypoorCost(Pages[l].rows)]]

Misread == {l \in Listings : Pages[l].source = "sheypoor" /\ Misleading(Pages[l].rows)}

\* A page that is read has in every field the text that stands there first, from
\* top to bottom and with every link followed, and its price; a page that cannot
\* be read, and one whose values are lost, has a text that prints what looks like
\* a row of the stream, or runs into the next row.
PageIsRead ==
  /\ \A l \in done \ Misread : \A said \in {Published[l]} :
       /\ \A f \in MoneyFields \cup {"area"} :
            FirstValue(understood[l].attributes, f) = FirstValue(said.attributes, f)
       /\ understood[l].raw = said.raw
  /\ \A i \in DOMAIN errors.entries :
       errors.entries[i][2] = "ParseError"
         => errors.entries[i][1] \in Misread \cup {"list-page"}

\* A stored amount is one that the listing states, in Toman: an attribute of the
\* field or, without any, the price of the list.  Texts whose terms do not all
\* carry the unit are excepted (see the README), and a plain price is not lost.
NoWrongAmount ==
  \A l \in Stored \ Misread : \A d \in {Published[l]} :
    LET raw == IF UsesRaw(d.attributes) THEN {d.raw} ELSE {}
        texts(f) == {FirstValue(d.attributes, f)} \cup raw
        plain(f) == {t \in {FirstValue(d.attributes, f)}
                          \cup (IF f = RawField(d.raw, row[l].transaction) THEN raw ELSE {}) :
                       Len(t.terms) = 1 /\ Stated(t) # Missing}
    IN \A f \in MoneyFields :
         LET v == row[l].amounts[f]
         IN /\ v # Missing => \E u \in texts(f) : v = Stated(u) \/ HalfUnited(u)
            /\ \A t \in plain(f) : v = Stated(t)

\* A recorded pair is one of two sources in one city that agree on the area, or
\* on price and title, whichever of the two is looked at first; and two rows that
\* agree on area and price are recorded, if they are in one bucket.
CandidatesAreEvidence ==
  pc = "over" =>
  /\ \A pair \in pairs : \E r, s \in Rows :
       /\ pair = {r.id, s.id} /\ r.source # s.source
       /\ r.city = s.city /\ r.city # None
       /\ r.duplicateOf = None /\ s.duplicateOf = None /\ r.status # "hidden"
       /\ ~ Differ(r.property, s.property, "other")
       /\ \/ AreasAgree(r, s) /\ AreasAgree(s, r)
          \/ PricesAgree(r, s) /\ PricesAgree(s, r) /\ TitlesAgree(r, s)
  /\ \A r, s \in Rows :
       /\ r.source # s.source /\ ~ Blocked(r, s)
       /\ s \in Bucket(Rows, r) /\ Kept(Rows, r, BucketLimit) /\ Kept(Rows, s, BucketLimit)
       /\ AreasAgree(r, s) /\ PricesAgree(r, s)
       => {r.id, s.id} \in pairs

Faulted ==
  \/ left.faults < Here.faults
  \/ page.items \cap Misread # {}

\* Divar's adapter asks for pages as long as the source has more of them: on one
\* that repeats itself a crawl without a page limit goes on for ever.
Endless == Job.source = "divar" /\ Here.repeats /\ Job.limit = 0

\* A job that was created is settled in the end, also without a scope and whatever
\* changes meanwhile; only a fault, or a page that prints what looks like a row,
\* may prevent it.  On a source that repeats itself it is settled too, by the guard
\* of Sheypoor's adapter or by the page limit; a crawl of Divar without a limit has
\* neither and is excepted.
CrawlEnds == pc = "queued" ~> (pc = "ended" \/ Faulted \/ Endless)
=============================================================================
