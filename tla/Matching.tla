------------------------------ MODULE Matching ------------------------------
(***************************************************************************)
(* Whether two listings may be one property, and which pairs a detection   *)
(* compares at all (core/dedup/matching.py; _candidate_listings, _buckets  *)
(* and fingerprint of core/dedup/services.py).                             *)
(*                                                                         *)
(* Listings are rows: source, transaction, property, province, city, title *)
(* (a set of words), area (tenths), amounts, published (a day), status,    *)
(* duplicateOf, lastSeen, id.  0 and None stand for NULL.                  *)
(***************************************************************************)
EXTENDS Integers, FiniteSets, Sequences

CONSTANT None

\* DedupPolicy
AreaWeight == 40
PriceWeight == 30
TitleWeight == 20
PublishedWeight == 10
MinSignals == 2
MinScore == 50

Comparable == {"active", "stale"}

Larger(m, n)   == IF m >= n THEN m ELSE n
Distance(m, n) == IF m >= n THEN m - n ELSE n - m

\* _headline_price: sale price, else deposit, else rent.
Headline(r) ==
  IF r.amounts["sale"] # 0 THEN r.amounts["sale"]
  ELSE IF r.amounts["deposit"] # 0 THEN r.amounts["deposit"] ELSE r.amounts["rent"]

\* Both are specified and they differ.
Differ(m, n, unspecified) == m # unspecified /\ n # unspecified /\ m # n

Blocked(r, s) ==
  \/ r.id = s.id \/ r.source = s.source
  \/ r.duplicateOf # None \/ s.duplicateOf # None
  \/ {r.status, s.status} \cap Comparable # {r.status, s.status}
  \/ Differ(r.transaction, s.transaction, "unspecified")
  \/ Differ(r.property, s.property, "other")
  \/ Differ(r.city, s.city, None)
  \/ Differ(r.province, s.province, None)

\* Mutant: the tolerance is taken from the first listing alone.
AreasAgreeFirst(r, s) ==
  /\ r.area # 0 /\ s.area # 0
  /\ 20 * Distance(r.area, s.area) <= Larger(600, r.area)

\* 3 square metres or 5 %, whichever is more.
AreasAgree(r, s) ==
  /\ r.area # 0 /\ s.area # 0
  /\ 20 * Distance(r.area, s.area) <= Larger(600, Larger(r.area, s.area))

PricesAgree(r, s) ==
  /\ Headline(r) # 0 /\ Headline(s) # 0
  /\ 20 * Distance(Headline(r), Headline(s)) <= Larger(Headline(r), Headline(s))

\* title_jaccard >= 0.5; two empty titles agree on nothing.
TitlesAgree(r, s) ==
  /\ r.title \cup s.title # {}
  /\ 2 * Cardinality(r.title \cap s.title) >= Cardinality(r.title \cup s.title)

PublishedTogether(r, s) ==
  r.published # None /\ s.published # None /\ Distance(r.published, s.published) <= 3

\* Python rounds a half to the even neighbour.
RoundHalfEven(n, d) ==
  LET q == n \div d
      rest == 2 * (n % d)
  IN IF rest > d \/ (rest = d /\ q % 2 = 1) THEN q + 1 ELSE q

TitleScore(r, s) ==
  Larger(1, RoundHalfEven(TitleWeight * Cardinality(r.title \cap s.title),
                          Cardinality(r.title \cup s.title)))

\* signals: what the pair agrees on, and what each is worth.
Signals(r, s) ==
  {signal \in {"area", "price", "title", "published"} :
     CASE signal = "area"      -> AreasAgree(r, s)
       [] signal = "price"     -> PricesAgree(r, s)
       [] signal = "title"     -> TitlesAgree(r, s)
       [] signal = "published" -> PublishedTogether(r, s)}

Score(r, s) ==
  LET worth(signal, weight) == IF signal \in Signals(r, s) THEN weight ELSE 0
  IN worth("area", AreaWeight) + worth("price", PriceWeight)
     + (IF "title" \in Signals(r, s) THEN TitleScore(r, s) ELSE 0)
     + worth("published", PublishedWeight)

\* match_pair
Matches(r, s) ==
  /\ ~ Blocked(r, s)
  /\ Cardinality(Signals(r, s)) >= MinSignals
  /\ Score(r, s) >= MinScore

-----------------------------------------------------------------------------
(* Detection.                                                              *)

\* _candidate_listings
Candidates(rows) ==
  {r \in rows : r.status \in Comparable /\ r.duplicateOf = None /\ r.city # None}

\* order_by('-last_seen_at', '-id')
Newer(r, s) == r.lastSeen > s.lastSeen \/ (r.lastSeen = s.lastSeen /\ r.id > s.id)

Bucket(rows, r) ==
  {s \in Candidates(rows) : s.transaction = r.transaction /\ s.city = r.city}

\* _buckets: of those in r's bucket, is r among the newest `limit'?
Kept(rows, r, limit) ==
  /\ r \in Candidates(rows)
  /\ Cardinality({s \in Bucket(rows, r) : Newer(s, r)}) < limit

\* detect_candidates: the pairs that are compared and match.
Detected(rows, limit) ==
  {{p[1].id, p[2].id} : p \in
     {q \in rows \X rows :
        /\ Kept(rows, q[1], limit) /\ Kept(rows, q[2], limit)
        /\ q[2] \in Bucket(rows, q[1]) /\ Newer(q[1], q[2])
        /\ Matches(q[1], q[2])}}
=============================================================================
