-------------------------- MODULE CrawlRows_proofs --------------------------
(***************************************************************************)
(* What the rows of a crawl say, and which of them are recorded as         *)
(* candidates, for any pages and tables; how the pages are read and what   *)
(* becomes of the amounts they state.                                      *)
(***************************************************************************)
EXTENDS CrawlPlaces_proofs
-----------------------------------------------------------------------------
(* What two rows must agree on to be a candidate.                           *)

\* What a row is compared by.
Comparand == {"id", "source", "status", "duplicateOf", "transaction", "property", "province",
              "city", "title", "amounts", "area", "published", "lastSeen"}

Measured(r) ==
  /\ Comparand \subseteq DOMAIN r
  /\ r.id \in Nat /\ r.lastSeen \in Nat /\ r.area \in Nat
  /\ \A f \in MoneyFields : r.amounts[f] \in Nat
  /\ IsFiniteSet(r.title)

LEMMA Distances ==
  ASSUME NEW m \in Nat, NEW n \in Nat
  PROVE  /\ Distance(m, n) = Distance(n, m) /\ Larger(m, n) = Larger(n, m)
         /\ Distance(m, n) \in Nat /\ Larger(m, n) \in Nat
BY DEF Distance, Larger

\* Neither area nor price depends on which of the two rows is looked at first.
LEMMA AgreementIsMutual ==
  ASSUME NEW r, NEW s, Measured(r), Measured(s)
  PROVE  /\ AreasAgree(r, s) <=> AreasAgree(s, r)
         /\ PricesAgree(r, s) <=> PricesAgree(s, r)
<1>1. AreasAgree(r, s) <=> AreasAgree(s, r)
  <2>1. r.area \in Nat /\ s.area \in Nat
    BY DEF Measured
  <2>2. /\ Distance(r.area, s.area) = Distance(s.area, r.area)
        /\ Larger(r.area, s.area) = Larger(s.area, r.area)
    BY <2>1, Distances
  <2>3. QED
    BY <2>2 DEF AreasAgree
<1>2. Headline(r) \in Nat /\ Headline(s) \in Nat
  BY DEF Headline, Measured, MoneyFields
<1>3. PricesAgree(r, s) <=> PricesAgree(s, r)
  BY <1>2, Distances DEF PricesAgree
<1>4. QED
  BY <1>1, <1>3

\* A share of a weight is never more than the weight.
LEMMA SharesRound ==
  ASSUME NEW k \in Nat, NEW n \in Nat \ {0}, k <= n
  PROVE  RoundHalfEven(20 * k, n) \in 0..20
<1> DEFINE q == (20 * k) \div n
           m == (20 * k) % n
<1>1. 20 * k \in Nat /\ q \in Nat /\ m \in 0..(n - 1) /\ 20 * k = n * q + m
  OBVIOUS
<1>2. q <= 20
  <2>1. \A i \in Nat, j \in Nat : i * j \in Nat
    OBVIOUS
  <2>2. ASSUME q >= 21 PROVE FALSE
    <3>1. \A i \in Nat, j \in Nat : j >= 21 => i * j >= i * 21
      OBVIOUS
    <3>2. n * q >= n * 21 /\ n * q \in Nat
      BY <1>1, <2>1, <2>2, <3>1
    <3> HIDE DEF q, m
    <3>3. QED
      BY <1>1, <3>2
  <2> HIDE DEF q, m
  <2>3. QED
    BY <1>1, <2>2
<1>3. q = 20 => m = 0
  <2> HIDE DEF q, m
  <2> QED
    BY <1>1
<1>4. RoundHalfEven(20 * k, n) =
        IF 2 * m > n \/ (2 * m = n /\ q % 2 = 1) THEN q + 1 ELSE q
  BY DEF RoundHalfEven
<1>5. QED
  <2> HIDE DEF q, m
  <2> QED
    BY <1>1, <1>2, <1>3, <1>4

LEMMA TitlesScore ==
  ASSUME NEW r, NEW s, IsFiniteSet(r.title), IsFiniteSet(s.title), TitlesAgree(r, s)
  PROVE  TitleScore(r, s) \in 1..20
<1> DEFINE k == Cardinality(r.title \cap s.title)
           n == Cardinality(r.title \cup s.title)
<1>1. IsFiniteSet(r.title \cap s.title) /\ IsFiniteSet(r.title \cup s.title)
  BY FS_Intersection, FS_Union
<1>2. k \in Nat /\ n \in Nat /\ k <= n
  BY <1>1, FS_CardinalityType, FS_Subset
<1>3. n # 0
  BY <1>1, FS_EmptySet DEF TitlesAgree
<1>4. RoundHalfEven(20 * k, n) \in 0..20
  <2> HIDE DEF k, n
  <2> QED
    BY <1>2, <1>3, SharesRound
<1>5. QED
  BY <1>4 DEF TitleScore, TitleWeight, Larger

LEMMA SignalsAre ==
  ASSUME NEW r, NEW s
  PROVE  /\ Signals(r, s) \subseteq {"area", "price", "title", "published"}
         /\ "area" \in Signals(r, s) <=> AreasAgree(r, s)
         /\ "price" \in Signals(r, s) <=> PricesAgree(r, s)
         /\ "title" \in Signals(r, s) <=> TitlesAgree(r, s)
BY DEF Signals

\* The title and the date alone are worth less than a match, and so is the price
\* with either of them but the title.
LEMMA MatchNeeds ==
  ASSUME NEW r, NEW s, Measured(r), Measured(s), Matches(r, s)
  PROVE  AreasAgree(r, s) \/ (PricesAgree(r, s) /\ TitlesAgree(r, s))
<1> DEFINE area == IF "area" \in Signals(r, s) THEN 40 ELSE 0
           price == IF "price" \in Signals(r, s) THEN 30 ELSE 0
           title == IF "title" \in Signals(r, s) THEN TitleScore(r, s) ELSE 0
           published == IF "published" \in Signals(r, s) THEN 10 ELSE 0
<1>1. area + price + title + published >= 50
  BY DEF Matches, Score, MinScore, AreaWeight, PriceWeight, PublishedWeight
<1>2. title \in 0..20 /\ (~ TitlesAgree(r, s) => title = 0)
  <2>1. TitlesAgree(r, s) => TitleScore(r, s) \in 1..20
    BY TitlesScore DEF Measured
  <2>2. QED
    BY <2>1, SignalsAre
<1>3. area \in {0, 40} /\ (~ AreasAgree(r, s) => area = 0)
  BY SignalsAre
<1>4. price \in {0, 30} /\ (~ PricesAgree(r, s) => price = 0)
  BY SignalsAre
<1>5. published \in {0, 10}
  OBVIOUS
<1> HIDE DEF area, price, title, published
<1>6. \A i \in {0, 30}, j \in 0..20, k \in {0, 10} : 0 + i + j + k >= 50 => i = 30 /\ j # 0
  OBVIOUS
<1>7. ASSUME ~ AreasAgree(r, s) PROVE price = 30 /\ title # 0
  BY <1>1, <1>2, <1>3, <1>4, <1>5, <1>6, <1>7
<1>8. QED
  BY <1>2, <1>4, <1>7

\* Area and price are enough.
LEMMA AreaAndPriceMatch ==
  ASSUME NEW r, NEW s, Measured(r), Measured(s), ~ Blocked(r, s),
         AreasAgree(r, s), PricesAgree(r, s)
  PROVE  Matches(r, s)
<1> DEFINE title == IF "title" \in Signals(r, s) THEN TitleScore(r, s) ELSE 0
<1>1. {"area", "price"} \in SUBSET Signals(r, s)
  BY SignalsAre
<1>2. Cardinality(Signals(r, s)) >= 2
  <2>1. IsFiniteSet({"area", "price"}) /\ Cardinality({"area", "price"}) = 2
    <3> DEFINE area == {"area"}
    <3>1. IsFiniteSet(area) /\ Cardinality(area) = 1
      BY FS_Singleton
    <3>2. "price" \notin area /\ {"area", "price"} = area \cup {"price"}
      OBVIOUS
    <3> HIDE DEF area
    <3>3. IsFiniteSet(area \cup {"price"})
          /\ Cardinality(area \cup {"price"}) = Cardinality(area) + 1
      BY <3>1, <3>2, FS_AddElement
    <3>4. QED
      BY <3>1, <3>2, <3>3
  <2>2. IsFiniteSet(Signals(r, s))
    <3>1. {"area", "price", "title", "published"}
            = {"area"} \cup ({"price"} \cup ({"title"} \cup {"published"}))
      OBVIOUS
    <3>2. IsFiniteSet({"area"} \cup ({"price"} \cup ({"title"} \cup {"published"})))
      BY FS_Singleton, FS_Union
    <3>3. QED
      BY <3>1, <3>2, SignalsAre, FS_Subset
  <2>3. Cardinality(Signals(r, s)) \in Nat
    BY <2>2, FS_CardinalityType
  <2>4. Cardinality({"area", "price"}) <= Cardinality(Signals(r, s))
    BY <1>1, <2>2, FS_Subset
  <2>5. QED
    BY <2>1, <2>3, <2>4
<1>3. title \in 0..20
  BY SignalsAre, TitlesScore DEF Measured
<1>4. Score(r, s) = 40 + 30 + title + (IF "published" \in Signals(r, s) THEN 10 ELSE 0)
  BY <1>1 DEF Score, AreaWeight, PriceWeight, PublishedWeight
<1>5. Score(r, s) >= 50
  <2> HIDE DEF title
  <2> QED
    BY <1>3, <1>4
<1>6. QED
  BY <1>2, <1>5 DEF Matches, MinSignals, MinScore

LEMMA BlockingIsMutual == \A r, s : Blocked(r, s) <=> Blocked(s, r)
<1>1. \A r, s : {r.status, s.status} = {s.status, r.status}
  OBVIOUS
<1>2. QED
  BY <1>1 DEF Blocked, Differ

\* What detect_candidates records of a table, whatever its bucket limit.
LEMMA DetectedIsEvidence ==
  ASSUME NEW rows, NEW limit, \A r \in rows : Measured(r), NEW pair \in Detected(rows, limit)
  PROVE  \E r, s \in rows :
       /\ pair = {r.id, s.id} /\ r.source # s.source
       /\ r.city = s.city /\ r.city # None
       /\ r.duplicateOf = None /\ s.duplicateOf = None /\ r.status # "hidden"
       /\ ~ Differ(r.property, s.property, "other")
       /\ \/ AreasAgree(r, s) /\ AreasAgree(s, r)
          \/ PricesAgree(r, s) /\ PricesAgree(s, r) /\ TitlesAgree(r, s)
<1>1. PICK r \in rows, s \in rows :
        /\ pair = {r.id, s.id} /\ Kept(rows, r, limit) /\ s \in Bucket(rows, r) /\ Matches(r, s)
  BY DEF Detected
<1>2. /\ r.city = s.city /\ r.city # None /\ r.duplicateOf = None /\ s.duplicateOf = None
      /\ r.status # "hidden"
  BY <1>1 DEF Kept, Bucket, Candidates, Comparable
<1>3. r.source # s.source /\ ~ Differ(r.property, s.property, "other")
  BY <1>1 DEF Matches, Blocked
<1>4. \/ AreasAgree(r, s) /\ AreasAgree(s, r)
      \/ PricesAgree(r, s) /\ PricesAgree(s, r) /\ TitlesAgree(r, s)
  BY <1>1, MatchNeeds, AgreementIsMutual
<1>5. QED
  BY <1>1, <1>2, <1>3, <1>4

LEMMA EvidenceIsDetected ==
  ASSUME NEW rows, NEW limit, \A r \in rows : Measured(r), NEW r \in rows, NEW s \in rows,
         ~ Blocked(r, s), s \in Bucket(rows, r), Kept(rows, r, limit), Kept(rows, s, limit),
         AreasAgree(r, s), PricesAgree(r, s)
  PROVE  {r.id, s.id} \in Detected(rows, limit)
<1>1. Newer(r, s) \/ Newer(s, r)
  <2>1. r.id \in Nat /\ s.id \in Nat /\ r.lastSeen \in Nat /\ s.lastSeen \in Nat /\ r.id # s.id
    BY DEF Measured, Blocked
  <2>2. QED
    BY <2>1 DEF Newer
<1>2. Matches(r, s) /\ Matches(s, r)
  BY AreaAndPriceMatch, AgreementIsMutual, BlockingIsMutual
<1>3. r \in Bucket(rows, s)
  BY DEF Bucket, Kept
<1>4. CASE Newer(r, s)
  <2>1. <<r, s>> \in {q \in rows \X rows :
        /\ Kept(rows, q[1], limit) /\ Kept(rows, q[2], limit)
        /\ q[2] \in Bucket(rows, q[1]) /\ Newer(q[1], q[2])
        /\ Matches(q[1], q[2])}
    BY <1>2, <1>4
  <2>2. QED
    BY <2>1 DEF Detected
<1>5. CASE Newer(s, r)
  <2>1. <<s, r>> \in {q \in rows \X rows :
        /\ Kept(rows, q[1], limit) /\ Kept(rows, q[2], limit)
        /\ q[2] \in Bucket(rows, q[1]) /\ Newer(q[1], q[2])
        /\ Matches(q[1], q[2])}
    BY <1>2, <1>3, <1>5
  <2>2. {s.id, r.id} \in Detected(rows, limit)
    BY <2>1 DEF Detected
  <2>3. {s.id, r.id} = {r.id, s.id}
    OBVIOUS
  <2>4. QED
    BY <2>2, <2>3
<1>6. QED
  BY <1>1, <1>4, <1>5
-----------------------------------------------------------------------------
(* What a row says was read from its detail page.                           *)

\* What every crawl writes anew.
Contents == {"transaction", "property", "amounts", "negotiable", "area", "title"}

Written ==
  /\ job \in Nat
  /\ \A l \in Listings : Exists(l) =>
       /\ Details[l].read = "detail"
       /\ Comparand \cup Contents \subseteq DOMAIN row[l]
       /\ row[l].id \in Nat /\ row[l].lastSeen \in Nat
       /\ \A f \in Contents : row[l][f] = Normalized(l, Details[l])[f]

LEMMA Members == \A S : \A s \in Seq(S) : \A i \in DOMAIN s : s[i] \in S
OBVIOUS

\* A text has an amount, which may be 0 for NULL.
LEMMA AmountsAreNumbers ==
  ASSUME NEW t \in Texts
  PROVE  /\ ParsePrice(t).amount \in Nat
         /\ t.terms # <<>> => Min(Numbers(t)) \in Nat
<1>1. /\ DOMAIN t.terms \in SUBSET Nat
      /\ \A i \in DOMAIN t.terms : t.terms[i].tenths \in Nat /\ t.terms[i].unit \in DOMAIN UnitFactor
  <2>1. t.terms \in Seq([tenths : Nat, unit : DOMAIN UnitFactor])
    BY DEF Texts
  <2>2. DOMAIN t.terms = 1..Len(t.terms) /\ Len(t.terms) \in Nat
    BY <2>1
  <2>3. \A i \in DOMAIN t.terms : t.terms[i] \in [tenths : Nat, unit : DOMAIN UnitFactor]
    BY <2>1, Members
  <2>4. QED
    BY <2>2, <2>3
<1>2. ASSUME t.terms # <<>> PROVE Min(Numbers(t)) \in Nat
  <2>1. 1 \in DOMAIN t.terms
    BY <1>2 DEF Texts
  <2>2. Numbers(t) \in SUBSET Nat /\ Numbers(t) # {}
    BY <1>1, <2>1 DEF Numbers
  <2>3. QED
    BY <2>2, MinOfNumbers
<1>3. \A n \in Nat : Toman(t, n) \in Nat
  <2>1. \A n \in Nat : (2 * n + 100) \div (2 * 100) \in Nat /\ (2 * n + 10) \div (2 * 10) \in Nat
    OBVIOUS
  <2>2. QED
    BY <2>1 DEF Toman, HalfUp
<1>4. ASSUME t.terms # <<>> PROVE Amount(t) \in Nat
  <2> DEFINE factor == IF Units(t) = {} THEN 1 ELSE UnitFactor[CHOOSE u \in Units(t) : TRUE]
  <2>1. factor \in Nat
    <3>1. \A u \in Units(t) : u \in DOMAIN UnitFactor
      BY <1>1 DEF Units
    <3>2. Units(t) # {} => (CHOOSE u \in Units(t) : TRUE) \in Units(t)
      OBVIOUS
    <3>3. \A u \in DOMAIN UnitFactor : UnitFactor[u] \in Nat
      BY PricingAssumption DEF PricingAssumption
    <3>4. QED
      BY <3>1, <3>2, <3>3
  <2>2. Amount(t) = Missing \/ Amount(t) = Toman(t, Min(Numbers(t)) * factor)
    BY DEF Amount
  <2>3. Min(Numbers(t)) * factor \in Nat
    <3>1. \A m, n \in Nat : m * n \in Nat
      OBVIOUS
    <3> HIDE DEF factor
    <3>2. QED
      BY <1>2, <1>4, <2>1, <3>1
  <2>4. QED
    <3> HIDE DEF factor
    <3> QED
      BY <1>3, <2>2, <2>3 DEF Missing
<1>5. Amount(t) \in Nat
  BY <1>4 DEF Amount, Missing
<1>6. QED
  BY <1>2, <1>5 DEF ParsePrice, Missing

LEMMA ContentsAreTyped ==
  ASSUME NEW l \in Listings, Details[l].read = "detail"
  PROVE  LET new == Normalized(l, Details[l]) IN
         /\ \A f \in MoneyFields : new.amounts[f] \in Nat
         /\ new.area \in Nat /\ IsFiniteSet(new.title)
<1> DEFINE new == Normalized(l, Details[l])
           d == Details[l]
<1>1. /\ d.raw \in Texts /\ IsFiniteSet(Pages[l].words)
      /\ \A f \in MoneyFields \cup {"area"} : FirstValue(d.attributes, f) \in Texts
  BY PagesAssumption DEF PagesAssumption
<1>2. \A t \in Texts : ParsePrice(t).amount \in Nat /\ (t.terms # <<>> => Min(Numbers(t)) \in Nat)
  BY AmountsAreNumbers
<1>3. /\ new.title = Pages[l].words /\ new.area = Area(d.attributes)
      /\ new.amounts = Money(d.attributes, d.raw, TransactionOf(d.path, Pages[l].says)).amounts
  BY DEF Normalized
<1>4. new.area \in Nat
  <2> HIDE DEF new, d
  <2> QED
    BY <1>1, <1>2, <1>3 DEF Area, Missing
<1>5. \A f \in MoneyFields : new.amounts[f] \in Nat
  <2> HIDE DEF new, d
  <2>1. ASSUME NEW a, NEW raw, NEW transaction, raw \in Texts,
               \A f \in MoneyFields : FirstValue(a, f) \in Texts
        PROVE  \A f \in MoneyFields : Money(a, raw, transaction).amounts[f] \in Nat
    <3>1. ParsePrice(raw).amount \in Nat
          /\ \A f \in MoneyFields : ParsePrice(FirstValue(a, f)).amount \in Nat
      BY <1>2, <2>1
    <3>2. QED
      BY <3>1 DEF Money, MoneyFields
  <2>2. QED
    BY <1>1, <1>3, <2>1
<1>6. QED
  BY <1>1, <1>3, <1>4, <1>5

LEMMA WrittenIsMeasured ==
  ASSUME Written, NEW l \in Listings, Exists(l)
  PROVE  Measured(row[l])
<1>1. /\ Details[l].read = "detail" /\ Comparand \subseteq DOMAIN row[l]
      /\ row[l].id \in Nat /\ row[l].lastSeen \in Nat
      /\ row[l].amounts = Normalized(l, Details[l]).amounts
      /\ row[l].area = Normalized(l, Details[l]).area
      /\ row[l].title = Normalized(l, Details[l]).title
  BY DEF Written, Contents
<1>2. QED
  BY <1>1, ContentsAreTyped DEF Measured

LEMMA RowsAreFinite ==
  ASSUME Shape
  PROVE  Cardinality(Rows) \in Nat
<1> DEFINE of == [l \in Stored |-> row[l]]
<1>1. IsFiniteSet(Stored)
  <2>1. Stored \in SUBSET Listings /\ IsFiniteSet(Listings)
    BY RunAssumption DEF Stored, RunAssumption
  <2>2. QED
    BY <2>1, FS_Subset
<1>2. of \in Surjection(Stored, Rows)
  BY DEF Surjection, Rows
<1>3. IsFiniteSet(Rows)
  BY <1>1, <1>2, FS_Surjection
<1>4. QED
  BY <1>3, FS_CardinalityType

\* What an operator's verdict leaves of a row.
LEMMA Verdicts ==
  ASSUME Shape, Written, NEW l, NEW m, Judge(l, m)
  PROVE  /\ job' = job
         /\ \A k \in Listings :
              /\ Exists(k)' <=> Exists(k)
              /\ Exists(k) => /\ DOMAIN row'[k] = DOMAIN row[k]
                              /\ \A f \in DOMAIN row[k] \ {"status", "duplicateOf"} :
                                   row'[k][f] = row[k][f]
<1>1. job' = job
  BY DEF Judge, Edits, plan
<1>2. {l, m} \ {None} \subseteq Stored
      /\ row' = [row EXCEPT ![l] = IF m = None THEN [@ EXCEPT !.status = "hidden"]
                                   ELSE [@ EXCEPT !.duplicateOf = row[m].id]]
  BY DEF Judge
<1>3. CASE l = None
  <2>1. row' = row
    BY <1>2, <1>3, RunAssumption DEF Shape, RunAssumption
  <2>2. QED
    BY <1>1, <2>1 DEF Exists
<1>4. CASE l # None
  <2>1. l \in Listings /\ Exists(l)
    BY <1>2, <1>4 DEF Stored
  <2>2. "city" \in DOMAIN row[l]
    BY <2>1 DEF Written, Comparand
  <2>3. \A k \in Listings \ {l} : row'[k] = row[k]
    BY <1>2 DEF Shape
  <2>4. row'[l] = IF m = None THEN [row[l] EXCEPT !.status = "hidden"]
                  ELSE [row[l] EXCEPT !.duplicateOf = row[m].id]
    BY <1>2, <2>1 DEF Shape
  <2>5. /\ DOMAIN row'[l] = DOMAIN row[l]
        /\ \A f \in DOMAIN row[l] \ {"status", "duplicateOf"} : row'[l][f] = row[l][f]
    BY <2>4
  <2>6. row'[l] # NoRow
    <3>1. "city" \notin DOMAIN NoRow
      BY DEF NoRow
    <3>2. QED
      BY <2>2, <2>5, <3>1
  <2>7. Exists(l)' /\ \A k \in Listings \ {l} : Exists(k)' <=> Exists(k)
    BY <2>3, <2>6 DEF Exists
  <2>8. QED
    BY <1>1, <2>1, <2>3, <2>5, <2>7
<1>5. QED
  BY <1>3, <1>4

\* What the crawl writes of a listing it has read.
LEMMA Writes ==
  ASSUME Shape, Written, NEW l \in Listings, NEW place, NEW new
  PROVE  LET r == Refreshed(l, place, new) IN
         /\ Comparand \cup Contents \subseteq DOMAIN r /\ r # NoRow
         /\ r.id \in Nat /\ r.lastSeen \in Nat
         /\ \A f \in Contents : r[f] = new[f]
<1> DEFINE r == Refreshed(l, place, new)
           old == IF Exists(l) THEN row[l] ELSE NewRow(l)
<1>1. old.id \in Nat
  <2>1. ~ Exists(l) => old.id = Cardinality(Rows) + 1
    BY DEF NewRow
  <2>2. Exists(l) => old.id \in Nat
    BY DEF Written
  <2>3. QED
    BY <2>1, <2>2, RowsAreFinite
<1>2. r.id = old.id /\ r.lastSeen = job /\ Comparand \cup Contents \subseteq DOMAIN r
  BY DEF Refreshed, Comparand, Contents
<1>3. \A f \in Contents : r[f] = new[f]
  BY DEF Refreshed, Contents
<1>4. r # NoRow
  <2>1. "city" \in DOMAIN r /\ "city" \notin DOMAIN NoRow
    BY <1>2 DEF Comparand, NoRow
  <2>2. QED
    BY <2>1
<1>5. QED
  <2>1. r.id \in Nat /\ r.lastSeen \in Nat
    BY <1>1, <1>2 DEF Written
  <2>2. QED
    BY <1>2, <1>3, <1>4, <2>1

LEMMA JobIsNext ==
  ASSUME Shape, Logged, [Next]_vars
  PROVE  NextJob \/ job' = job
<1>1. CASE Between
  BY <1>1, BetweenSteps
<1>2. CASE RequestPage \/ SkipStub
  BY <1>2 DEF RequestPage, SkipStub, plan
<1>3. ASSUME NEW l \in AtWork, NEW d,
             Persist(l, d) \/ StubUnreadable(l, d) \/ StubGone(l) \/ StubFails(l)
      PROVE  job' = job
  BY <1>3, Persists, Failures
<1>4. ASSUME NEW l, Publish(l) \/ Withdraw(l) PROVE job' = job
  BY <1>4 DEF Publish, Withdraw, Changes, plan
<1>5. ASSUME \/ \E file \in Here.files : SeedLocations(file)
             \/ \E file \in Here.slugs : SeedCategories(file)
             \/ \E p \in Here.toggles : Toggle(p)
             \/ \E e \in Here.remaps, p \in Places \cup {None} : Remap(e, p)
             \/ \E q \in Here.judged : Judge(q[1], q[2])
      PROVE  job' = job
  BY <1>5, EditSteps
<1>6. QED
  BY <1>1, <1>2, <1>3, <1>4, <1>5, Cases

LEMMA WrittenStep ==
  ASSUME Shape, Stage, Logged, Indexed, Written, [Next]_vars
  PROVE  Written'
<1>1. CASE UNCHANGED <<job, row>>
  BY <1>1 DEF Written, Exists
<1>2. CASE NextJob
  <2>1. row' = row /\ job' \in Nat
    BY <1>2 DEF NextJob, Written
  <2>2. QED
    BY <2>1 DEF Written, Exists
<1>3. ASSUME NEW l \in AtWork, Persist(l, Details[l]) PROVE Written'
  <2> DEFINE place == Resolve(index, Details[l].refs, Pages[l].texts)
             new == Normalized(l, Details[l])
             r == Refreshed(l, place, new)
  <2>1. l \in Listings /\ row' = [row EXCEPT ![l] = r]
    BY <1>3, Files
  <2>2. row'[l] = r /\ \A k \in Listings \ {l} : row'[k] = row[k]
    BY <2>1 DEF Shape
  <2>3. Details[l].read = "detail" /\ job' = job
    BY <1>3, Persists DEF Persist
  <2>4. /\ Comparand \cup Contents \subseteq DOMAIN r /\ r # NoRow
        /\ r.id \in Nat /\ r.lastSeen \in Nat
        /\ \A f \in Contents : r[f] = new[f]
    <3> HIDE DEF place, new
    <3> QED
      BY <2>1, Writes
  <2>5. ASSUME NEW k \in Listings, Exists(k)'
        PROVE  /\ Details[k].read = "detail"
               /\ Comparand \cup Contents \subseteq DOMAIN row'[k]
               /\ row'[k].id \in Nat /\ row'[k].lastSeen \in Nat
               /\ \A f \in Contents : row'[k][f] = Normalized(k, Details[k])[f]
    <3>1. CASE k = l
      <4> HIDE DEF r
      <4> QED
        BY <2>2, <2>3, <2>4, <3>1
    <3>2. CASE k # l
      <4>1. row'[k] = row[k] /\ Exists(k)
        BY <2>2, <2>5, <3>2 DEF Exists
      <4>2. QED
        BY <4>1 DEF Written
    <3>3. QED
      BY <3>1, <3>2
  <2>6. QED
    BY <2>3, <2>5 DEF Written
<1>4. ASSUME NEW q, Judge(q[1], q[2]) PROVE Written'
  <2>1. /\ job' = job
        /\ \A k \in Listings :
             /\ Exists(k)' <=> Exists(k)
             /\ Exists(k) => /\ DOMAIN row'[k] = DOMAIN row[k]
                             /\ \A f \in DOMAIN row[k] \ {"status", "duplicateOf"} :
                                  row'[k][f] = row[k][f]
    BY <1>4, Verdicts
  <2>2. ASSUME NEW k \in Listings, Exists(k)'
        PROVE  /\ Details[k].read = "detail"
               /\ Comparand \cup Contents \subseteq DOMAIN row'[k]
               /\ row'[k].id \in Nat /\ row'[k].lastSeen \in Nat
               /\ \A f \in Contents : row'[k][f] = Normalized(k, Details[k])[f]
    <3>1. /\ Details[k].read = "detail"
          /\ Comparand \cup Contents \subseteq DOMAIN row[k]
          /\ row[k].id \in Nat /\ row[k].lastSeen \in Nat
          /\ \A f \in Contents : row[k][f] = Normalized(k, Details[k])[f]
      BY <2>1, <2>2 DEF Written
    <3>2. /\ DOMAIN row'[k] = DOMAIN row[k]
          /\ \A f \in DOMAIN row[k] \ {"status", "duplicateOf"} : row'[k][f] = row[k][f]
      BY <2>1, <2>2
    <3>3. {"id", "lastSeen"} \cup Contents \subseteq DOMAIN row[k] \ {"status", "duplicateOf"}
      BY <3>1 DEF Comparand, Contents
    <3>4. QED
      BY <3>1, <3>2, <3>3
  <2>3. QED
    BY <2>1, <2>2 DEF Written
<1>5. QED
  <2>1. \/ row' = row \/ NextJob
        \/ \E l \in AtWork : Persist(l, Details[l])
        \/ \E q \in Here.judged : Judge(q[1], q[2])
    BY StepsOfPlaces, Loads
  <2>2. QED
    BY <1>1, <1>2, <1>3, <1>4, <2>1, JobIsNext

-----------------------------------------------------------------------------
(* The detection.                                                           *)

\* It looks at the rows once, and nothing changes them after it.
Compared ==
  /\ pc # "over" => pairs = {}
  /\ pc = "over" => pairs = Detected(Rows, BucketLimit)

LEMMA OnlyDetectionCompares ==
  ASSUME Shape, Logged, [Next]_vars
  PROVE  \/ Detect
         \/ /\ pairs' = pairs /\ (pc' = "over" <=> pc = "over")
            /\ pc = "over" => row' = row
<1> DEFINE Leaves == /\ pairs' = pairs /\ (pc' = "over" <=> pc = "over")
                     /\ pc = "over" => row' = row
<1>1. CASE Submit \/ Refuse \/ Execute \/ ScopeFailed \/ TurnPage \/ Raises \/ Finish
  BY <1>1 DEF Submit, Refuse, Execute, ScopeFailed, TurnPage, Raises, Finish, stored
<1>2. CASE Load \/ (\E d : StubRaises(d)) \/ UNCHANGED vars
  BY <1>2 DEF Load, LoadPlaces, LoadAliases, LoadSources, StubRaises, vars, stored
<1>3. CASE RequestPage
  BY <1>3 DEF RequestPage, FetchPage, RepeatedPage, EmptyPage, PageFails, Stops, stored
<1>4. CASE SkipStub \/ NextJob
  BY <1>4 DEF SkipStub, NextJob, stored
<1>5. ASSUME NEW l, NEW d, Persist(l, d) \/ StubUnreadable(l, d) \/ StubGone(l) \/ StubFails(l)
      PROVE  Leaves
  BY <1>5 DEF Persist, StubUnreadable, StubGone, StubFails, Fails, Processes, stored
<1>6. ASSUME NEW l, Publish(l) \/ Withdraw(l) PROVE Leaves
  BY <1>6 DEF Publish, Withdraw, Changes, stored
<1>7. ASSUME \/ \E file \in Here.files : SeedLocations(file)
             \/ \E file \in Here.slugs : SeedCategories(file)
             \/ \E p \in Here.toggles : Toggle(p)
             \/ \E e \in Here.remaps, p \in Places \cup {None} : Remap(e, p)
             \/ \E q \in Here.judged : Judge(q[1], q[2])
      PROVE  Leaves
  BY <1>7, EditSteps
<1>8. QED
  BY <1>1, <1>2, <1>3, <1>4, <1>5, <1>6, <1>7, Cases DEF Between

LEMMA ComparedStep == ASSUME Shape, Logged, Compared, [Next]_vars PROVE Compared'
<1>1. CASE Detect
  <2>1. pc = "detect" /\ pc' = "over" /\ row' = row
        /\ pairs' = pairs \cup Detected(Rows, BucketLimit)
    BY <1>1 DEF Detect
  <2>2. Rows' = Rows
    BY <2>1 DEF Rows, Stored, Exists
  <2>3. QED
    BY <2>1, <2>2 DEF Compared
<1>2. CASE pairs' = pairs /\ (pc' = "over" <=> pc = "over") /\ (pc = "over" => row' = row)
  <2>1. pc = "over" => Rows' = Rows
    BY <1>2 DEF Rows, Stored, Exists
  <2>2. QED
    BY <1>2, <2>1 DEF Compared
<1>3. QED
  BY <1>1, <1>2, OnlyDetectionCompares

LEMMA InitRows == Init => Written /\ Compared
BY DEF Init, Written, Compared, Exists

\* Whatever the crawls left and operators judged: a recorded pair is of two
\* sources, in one city, and agrees on the area or on price and title, in either
\* order; and two rows of one bucket that agree on area and price are recorded
\* (dedup/matching.py; detect_candidates of dedup/services.py).
THEOREM CandidatesHaveEvidence == Spec => []CandidatesAreEvidence
<1> DEFINE Inv == Shape /\ Stage /\ Logged /\ Indexed /\ Written /\ Compared
<1>1. Init => Inv
  BY InitInvariant, InitPlaces, InitRows
<1>2. Inv /\ [Next]_vars => Inv'
  BY ShapeStep, StageStep, LoggedStep, IndexedStep, WrittenStep, ComparedStep
<1>3. ASSUME Written, Compared, pc = "over" PROVE CandidatesAreEvidence
  <2>1. \A r \in Rows : Measured(r)
    BY <1>3, WrittenIsMeasured DEF Rows, Stored
  <2>2. pairs = Detected(Rows, BucketLimit)
    BY <1>3 DEF Compared
  <2>3. \A pair \in pairs : \E r, s \in Rows :
         /\ pair = {r.id, s.id} /\ r.source # s.source
         /\ r.city = s.city /\ r.city # None
         /\ r.duplicateOf = None /\ s.duplicateOf = None /\ r.status # "hidden"
         /\ ~ Differ(r.property, s.property, "other")
         /\ \/ AreasAgree(r, s) /\ AreasAgree(s, r)
            \/ PricesAgree(r, s) /\ PricesAgree(s, r) /\ TitlesAgree(r, s)
    BY <2>1, <2>2, DetectedIsEvidence
  <2>4. ASSUME NEW r \in Rows, NEW s \in Rows, ~ Blocked(r, s), s \in Bucket(Rows, r),
               Kept(Rows, r, BucketLimit), Kept(Rows, s, BucketLimit),
               AreasAgree(r, s), PricesAgree(r, s)
        PROVE  {r.id, s.id} \in pairs
    BY <2>1, <2>2, <2>4, EvidenceIsDetected
  <2>5. QED
    BY <2>3, <2>4 DEF CandidatesAreEvidence
<1>4. Inv => CandidatesAreEvidence
  BY <1>3 DEF CandidatesAreEvidence
<1>5. QED
  BY <1>1, <1>2, <1>4, PTL DEF Spec
-----------------------------------------------------------------------------
(* Definitions by recursion along numbers.                                  *)

LEMMA Climb ==
  ASSUME NEW N \in Nat, NEW T, 0 \in T, \A n \in 1..N : n - 1 \in T => n \in T
  PROVE  0..N \subseteq T
<1> DEFINE bad == {n \in 0..N : n \notin T}
<1>1. ASSUME bad # {} PROVE FALSE
  <2>1. PICK n \in bad : \A m \in bad : n <= m
    <3>1. bad \in SUBSET Nat
      OBVIOUS
    <3> HIDE DEF bad
    <3>2. QED
      BY <1>1, <3>1, LeastNumber
  <2>2. n \in 1..N
    BY <2>1
  <2>3. n - 1 \in 0..N /\ n - 1 < n
    BY <2>2
  <2>4. n - 1 \notin bad
    BY <2>1, <2>2, <2>3
  <2>5. QED
    BY <2>1, <2>2, <2>3, <2>4
<1>2. QED
  BY <1>1

\* A step that stays in a set can be repeated.
StepsIn(L, S) == [(1..L) \X S -> S]

Repeated(f, L, S, x, H) ==
  f \in [0..L -> S] /\ f[0] = x /\ \A n \in 1..L : f[n] = H[<<n, f[n - 1]>>]

LEMMA Recursion ==
  ASSUME NEW L \in Nat, NEW S, NEW x \in S, NEW H \in StepsIn(L, S)
  PROVE  \E f : Repeated(f, L, S, x, H)
<1> DEFINE Upto(n, f) == f[0] = x /\ \A i \in 1..n : f[i] = H[<<i, f[i - 1]>>]
           T == {n \in 0..L : \E f \in [0..n -> S] : Upto(n, f)}
<1>1. 0 \in T
  <2> DEFINE g == [i \in 0..0 |-> x]
  <2>1. g \in [0..0 -> S] /\ g[0] = x /\ 0 \in 0..L
    OBVIOUS
  <2>2. \A i \in 1..0 : g[i] = H[<<i, g[i - 1]>>]
    OBVIOUS
  <2> HIDE DEF g
  <2>3. QED
    BY <2>1, <2>2
<1>2. ASSUME NEW n \in 1..L, n - 1 \in T PROVE n \in T
  <2>1. PICK f \in [0..(n - 1) -> S] : Upto(n - 1, f)
    BY <1>2
  <2> DEFINE next == H[<<n, f[n - 1]>>]
             g == [i \in 0..n |-> IF i = n THEN next ELSE f[i]]
  <2>2. n - 1 \in 0..(n - 1) /\ next \in S
    <3>1. n - 1 \in 0..(n - 1)
      OBVIOUS
    <3>2. f[n - 1] \in S
      BY <3>1
    <3>3. QED
      BY <3>1, <3>2 DEF StepsIn
  <2>3. g \in [0..n -> S]
    <3> HIDE DEF next
    <3>1. \A i \in 0..n : i # n => i \in 0..(n - 1)
      OBVIOUS
    <3>2. QED
      BY <2>2, <3>1
  <2>4. Upto(n, g)
    <3>1. g[0] = x
      BY <2>1
    <3>2. ASSUME NEW i \in 1..n PROVE g[i] = H[<<i, g[i - 1]>>]
      <4>1. g[i - 1] = f[i - 1]
        OBVIOUS
      <4>2. CASE i = n
        <5>1. g[i] = next
          BY <4>2
        <5>2. QED
          BY <4>1, <4>2, <5>1
      <4>3. CASE i # n
        <5>1. i \in 1..(n - 1) /\ g[i] = f[i]
          BY <4>3
        <5>2. QED
          BY <2>1, <4>1, <5>1
      <4>4. QED
        BY <4>2, <4>3
    <3>3. QED
      BY <3>1, <3>2
  <2>5. QED
    <3> HIDE DEF g
    <3> QED
      BY <2>3, <2>4
<1>3. L \in T
  <2>1. 0..L \subseteq T
    <3> HIDE DEF T
    <3> QED
      BY <1>1, <1>2, Climb
  <2>2. L \in 0..L
    OBVIOUS
  <2>3. QED
    <3> HIDE DEF T
    <3> QED BY <2>1, <2>2
<1>4. QED
  BY <1>3 DEF Repeated

-----------------------------------------------------------------------------
(* The attributes of a page.                                                *)

LEMMA FirstOfAppend ==
  ASSUME NEW X, NEW s \in Seq(X), NEW a \in X, NEW key, NEW v
  PROVE  FirstText(Append(s, a), key, v) =
           IF \E i \in DOMAIN s : s[i][key] = v THEN FirstText(s, key, v)
           ELSE IF a[key] = v THEN a.text ELSE NoText
<1> DEFINE found == {i \in DOMAIN s : s[i][key] = v}
           t == Append(s, a)
           more == {i \in DOMAIN t : t[i][key] = v}
<1>1. /\ Len(s) \in Nat /\ DOMAIN s = 1..Len(s) /\ DOMAIN t = 1..(Len(s) + 1)
      /\ \A i \in DOMAIN s : t[i] = s[i]
      /\ t[Len(s) + 1] = a
  OBVIOUS
<1>2. found \in SUBSET Nat /\ more \in SUBSET Nat
  BY <1>1
<1>3. more = found \cup {i \in {Len(s) + 1} : a[key] = v}
  BY <1>1
<1>4. FirstText(s, key, v) = IF found = {} THEN NoText ELSE s[Min(found)].text
  BY DEF FirstText
<1>5. FirstText(t, key, v) = IF more = {} THEN NoText ELSE t[Min(more)].text
  BY DEF FirstText
<1>6. CASE found # {}
  <2>1. Min(found) \in found /\ Min(more) \in more
        /\ (\A m \in found : Min(found) <= m) /\ (\A m \in more : Min(more) <= m)
    <3> HIDE DEF found, more
    <3> QED
      BY <1>2, <1>3, <1>6, MinOfNumbers
  <2>2. Min(found) \in 1..Len(s) /\ Min(found) \in more
    BY <1>1, <1>3, <2>1
  <2>3. Min(more) \in found
    <3>1. Min(more) <= Min(found)
      BY <2>1, <2>2
    <3>2. Min(more) # Len(s) + 1
      <4> HIDE DEF found, more, t
      <4> QED
        BY <1>1, <1>2, <2>1, <2>2, <3>1
    <3> HIDE DEF found, more, t
    <3>3. QED
      BY <1>3, <2>1, <3>2
  <2>4. Min(more) = Min(found)
    <3> HIDE DEF found, more, t
    <3>1. Min(more) <= Min(found) /\ Min(found) <= Min(more) /\ Min(more) \in Nat /\ Min(found) \in Nat
      BY <1>2, <2>1, <2>2, <2>3
    <3>2. QED
      BY <3>1
  <2>5. t[Min(more)] = s[Min(found)]
    BY <1>1, <2>2, <2>4
  <2>6. more # {}
    BY <2>1
  <2>7. \E i \in DOMAIN s : s[i][key] = v
    BY <1>6
  <2> HIDE DEF found, more, t
  <2>8. FirstText(t, key, v) = FirstText(s, key, v)
    BY <1>4, <1>5, <1>6, <2>5, <2>6
  <2>9. QED
    BY <2>7, <2>8 DEF t
<1>7. CASE found = {}
  <2>1. ~ \E i \in DOMAIN s : s[i][key] = v
    BY <1>7
  <2>2. CASE a[key] = v
    <3>1. more = {Len(s) + 1}
      BY <1>3, <1>7, <2>2
    <3>2. Min(more) = Len(s) + 1
      <4> HIDE DEF more
      <4>1. Min(more) \in more
        BY <1>2, <3>1, MinOfNumbers
      <4>2. QED
        BY <3>1, <4>1
    <3>3. FirstText(t, key, v) = a.text
      <4> HIDE DEF more, t
      <4> QED
        BY <1>1, <1>5, <3>1, <3>2
    <3>4. QED
      BY <2>1, <2>2, <3>3
  <2>3. CASE a[key] # v
    <3>1. more = {}
      BY <1>3, <1>7, <2>3
    <3>2. QED
      BY <1>5, <2>1, <2>3, <3>1
  <2>4. QED
    BY <2>2, <2>3
<1>8. QED
  BY <1>6, <1>7

LEMMA NoneIsFirst ==
  ASSUME NEW s, NEW key, NEW v, ~ \E i \in DOMAIN s : s[i][key] = v
  PROVE  FirstText(s, key, v) = NoText
BY DEF FirstText

\* What the page's dictionary has is what stands first, field by field.
Keys == {"field", "label"}

SameFirsts(s, t) ==
  \A key \in Keys : \A v :
    /\ (\E i \in DOMAIN s : s[i][key] = v) <=> (\E i \in DOMAIN t : t[i][key] = v)
    /\ FirstText(s, key, v) = FirstText(t, key, v)

LEMMA FirstOfLabelsKept ==
  ASSUME NEW X, NEW items \in Seq(X), \A a, b \in X : a.label = b.label => a.field = b.field
  PROVE  SameFirsts(FirstOfLabels(items), items)
<1> DEFINE L == Len(items)
           Builds(f) == f = [n \in 0..L |-> IF n = 0 THEN <<>> ELSE SetDefault(f[n - 1], items[n])]
           kept == CHOOSE f : Builds(f)
           H == [q \in (1..L) \X Seq(X) |-> SetDefault(q[2], items[q[1]])]
<1>1. L \in Nat /\ DOMAIN items = 1..L /\ \A n \in 1..L : items[n] \in X
  BY Members
<1>2. \A n \in 1..L, y \in Seq(X) : SetDefault(y, items[n]) \in Seq(X) /\ H[<<n, y>>] = SetDefault(y, items[n])
  BY <1>1 DEF SetDefault
<1>3. H \in StepsIn(L, Seq(X))
  BY <1>2 DEF StepsIn
<1>4. \E f \in [0..L -> Seq(X)] : Builds(f)
  <2>1. PICK f : Repeated(f, L, Seq(X), <<>>, H)
    <3>1. <<>> \in Seq(X)
      OBVIOUS
    <3> HIDE DEF H, L
    <3>2. QED
      BY <1>1, <1>3, <3>1, Recursion
  <2>2. \A n \in 0..L : f[n] = IF n = 0 THEN <<>> ELSE SetDefault(f[n - 1], items[n])
    <3>1. ASSUME NEW n \in 1..L PROVE f[n] = SetDefault(f[n - 1], items[n])
      <4>1. n - 1 \in 0..L /\ n \in 0..L /\ n # 0
        BY <1>1
      <4>2. f[n - 1] \in Seq(X)
        BY <2>1, <4>1 DEF Repeated
      <4> HIDE DEF H
      <4>3. f[n] = H[<<n, f[n - 1]>>]
        BY <2>1, <4>1 DEF Repeated
      <4>4. QED
        BY <1>2, <4>2, <4>3
    <3>2. QED
      BY <1>1, <2>1, <3>1 DEF Repeated
  <2>3. f = [n \in 0..L |-> f[n]] /\ f \in [0..L -> Seq(X)]
    BY <2>1 DEF Repeated
  <2>4. Builds(f)
    BY <2>2, <2>3
  <2>5. QED
    BY <2>3, <2>4
<1>5. Builds(kept)
  BY <1>4
<1>6. \A n \in 1..L : kept[n] = SetDefault(kept[n - 1], items[n])
  <2> HIDE DEF kept
  <2> QED BY <1>1, <1>5
<1>7. kept[0] = <<>>
  <2>1. 0 \in 0..L
    BY <1>1
  <2> HIDE DEF kept
  <2>2. QED BY <1>5, <2>1
<1>8. FirstOfLabels(items) = kept[L]
  BY DEF FirstOfLabels
<1> HIDE DEF kept, H
<1> DEFINE start(n) == SubSeq(items, 1, n)
           T == {n \in 0..L : kept[n] \in Seq(X) /\ SameFirsts(kept[n], start(n))}
<1>9. \A n \in 0..L : start(n) \in Seq(X) /\ DOMAIN start(n) = 1..n /\ \A i \in 1..n : start(n)[i] = items[i]
  BY <1>1
<1>10. \A n \in 1..L : start(n) = Append(start(n - 1), items[n])
  <2>1. ASSUME NEW n \in 1..L PROVE start(n) = Append(start(n - 1), items[n])
    <3> DEFINE b == Append(start(n - 1), items[n])
    <3>1. n - 1 \in 0..L /\ n \in 0..L
      BY <1>1
    <3>2. start(n - 1) \in Seq(X) /\ Len(start(n - 1)) = n - 1 /\ \A i \in 1..(n - 1) : start(n - 1)[i] = items[i]
      BY <1>1, <1>9, <3>1
    <3>3. Len(start(n)) = n /\ Len(b) = n /\ b \in Seq(X) /\ start(n) \in Seq(X)
      BY <1>1, <1>9, <3>1, <3>2
    <3>4. \A i \in 1..n : b[i] = items[i] /\ start(n)[i] = items[i]
      <4>1. \A i \in 1..n : i = n \/ i \in 1..(n - 1)
        BY <1>1
      <4>2. b[n] = items[n] /\ \A i \in 1..(n - 1) : b[i] = start(n - 1)[i]
        <5> HIDE DEF start
        <5>1. n = Len(start(n - 1)) + 1
          BY <1>1, <3>2
        <5>2. QED
          BY <3>2, <5>1
      <4>3. \A i \in 1..n : start(n)[i] = items[i]
        BY <1>9, <3>1
      <4> HIDE DEF start, b
      <4>4. QED
        BY <3>2, <4>1, <4>2, <4>3
    <3> HIDE DEF b, start
    <3>5. start(n) = b
      BY <3>3, <3>4
    <3>6. QED
      BY <3>5 DEF b
  <2>2. QED
    BY <2>1
<1> HIDE DEF start
<1>11. 0 \in T
  <2>1. DOMAIN start(0) = {} /\ 0 \in 0..L
    BY <1>1, <1>9
  <2>2. SameFirsts(kept[0], start(0))
    BY <1>7, <2>1, NoneIsFirst DEF SameFirsts
  <2>3. QED
    <3>1. <<>> \in Seq(X)
      OBVIOUS
    <3>2. QED
      BY <1>7, <2>1, <2>2, <3>1
<1>12. ASSUME NEW n \in 1..L, n - 1 \in T PROVE n \in T
  <2> DEFINE a == items[n]
             s == kept[n - 1]
             t == start(n - 1)
  <2>1. /\ s \in Seq(X) /\ SameFirsts(s, t) /\ a \in X /\ n \in 0..L /\ n - 1 \in 0..L
    BY <1>1, <1>12
  <2>2. t \in Seq(X) /\ start(n) = Append(t, a)
    BY <1>9, <1>10, <2>1
  <2>3. kept[n] = SetDefault(s, a)
    BY <1>6
  <2>4. /\ DOMAIN Append(t, a) = DOMAIN t \cup {Len(t) + 1}
        /\ \A i \in DOMAIN t : Append(t, a)[i] = t[i]
        /\ Append(t, a)[Len(t) + 1] = a
    <3> HIDE DEF t, a
    <3> QED BY <2>1, <2>2
  <2> HIDE DEF a, s, t
  <2>5. CASE a.label \in Labels(s)
    <3>1. kept[n] = s
      BY <2>3, <2>5 DEF SetDefault
    <3>2. \A key \in Keys : \E i \in DOMAIN t : t[i][key] = a[key]
      <4>1. PICK i \in DOMAIN s : s[i].label = a.label
        BY <2>5 DEF Labels
      <4>2. \E j \in DOMAIN t : t[j].label = a.label
        BY <2>1, <4>1 DEF SameFirsts, Keys
      <4>3. PICK j \in DOMAIN t : t[j].label = a.label
        BY <4>2
      <4>4. t[j] \in X
        BY <2>2, Members
      <4>5. t[j].field = a.field
        BY <2>1, <4>3, <4>4
      <4>6. QED
        BY <4>3, <4>5 DEF Keys
    <3>3. ASSUME NEW key \in Keys, NEW v
          PROVE  /\ (\E i \in DOMAIN s : s[i][key] = v) <=> (\E i \in DOMAIN Append(t, a) : Append(t, a)[i][key] = v)
                 /\ FirstText(s, key, v) = FirstText(Append(t, a), key, v)
      <4>1. /\ (\E i \in DOMAIN s : s[i][key] = v) <=> (\E i \in DOMAIN t : t[i][key] = v)
            /\ FirstText(s, key, v) = FirstText(t, key, v)
        BY <2>1 DEF SameFirsts
      <4>2. (\E i \in DOMAIN Append(t, a) : Append(t, a)[i][key] = v)
              <=> (\E i \in DOMAIN t : t[i][key] = v) \/ a[key] = v
        BY <2>4
      <4>3. a[key] = v => \E i \in DOMAIN t : t[i][key] = v
        BY <3>2
      <4>4. FirstText(Append(t, a), key, v) = FirstText(t, key, v)
        <5>1. CASE \E i \in DOMAIN t : t[i][key] = v
          BY <2>1, <2>2, <5>1, FirstOfAppend
        <5>2. CASE ~ \E i \in DOMAIN t : t[i][key] = v
          BY <2>1, <2>2, <4>3, <5>2, FirstOfAppend, NoneIsFirst
        <5>3. QED
          BY <5>1, <5>2
      <4>5. QED
        BY <4>1, <4>2, <4>3, <4>4
    <3>4. SameFirsts(s, Append(t, a))
      BY <3>3 DEF SameFirsts
    <3>5. QED
      BY <2>1, <2>2, <3>1, <3>4
  <2>6. CASE a.label \notin Labels(s)
    <3>1. kept[n] = Append(s, a)
      BY <2>3, <2>6 DEF SetDefault
    <3>2. /\ DOMAIN Append(s, a) = DOMAIN s \cup {Len(s) + 1}
          /\ \A i \in DOMAIN s : Append(s, a)[i] = s[i]
          /\ Append(s, a)[Len(s) + 1] = a
      BY <2>1
    <3>3. ASSUME NEW key \in Keys, NEW v
          PROVE  /\ (\E i \in DOMAIN Append(s, a) : Append(s, a)[i][key] = v)
                      <=> (\E i \in DOMAIN Append(t, a) : Append(t, a)[i][key] = v)
                 /\ FirstText(Append(s, a), key, v) = FirstText(Append(t, a), key, v)
      <4>1. /\ (\E i \in DOMAIN s : s[i][key] = v) <=> (\E i \in DOMAIN t : t[i][key] = v)
            /\ FirstText(s, key, v) = FirstText(t, key, v)
        BY <2>1 DEF SameFirsts
      <4>2. (\E i \in DOMAIN Append(t, a) : Append(t, a)[i][key] = v)
              <=> (\E i \in DOMAIN t : t[i][key] = v) \/ a[key] = v
        BY <2>4
      <4>3. (\E i \in DOMAIN Append(s, a) : Append(s, a)[i][key] = v)
              <=> (\E i \in DOMAIN s : s[i][key] = v) \/ a[key] = v
        BY <3>2
      <4>4. FirstText(Append(t, a), key, v) =
              IF \E i \in DOMAIN t : t[i][key] = v THEN FirstText(t, key, v)
              ELSE IF a[key] = v THEN a.text ELSE NoText
        BY <2>1, <2>2, FirstOfAppend
      <4>5. FirstText(Append(s, a), key, v) =
              IF \E i \in DOMAIN s : s[i][key] = v THEN FirstText(s, key, v)
              ELSE IF a[key] = v THEN a.text ELSE NoText
        BY <2>1, FirstOfAppend
      <4>6. QED
        BY <4>1, <4>2, <4>3, <4>4, <4>5
    <3>4. SameFirsts(Append(s, a), Append(t, a))
      BY <3>3 DEF SameFirsts
    <3>5. Append(s, a) \in Seq(X)
      BY <2>1
    <3>6. QED
      BY <2>1, <2>2, <3>1, <3>4, <3>5
  <2>7. QED
    BY <2>5, <2>6
<1>13. L \in T
  <2>1. 0..L \subseteq T
    <3> HIDE DEF T
    <3> QED BY <1>1, <1>11, <1>12, Climb
  <2>2. QED
    <3> HIDE DEF T
    <3> QED BY <1>1, <2>1
<1>14. start(L) = items
  <2>1. Len(start(L)) = L /\ start(L) \in Seq(X) /\ \A i \in 1..L : start(L)[i] = items[i]
    BY <1>1, <1>9, SMTT(30)
  <2>2. QED
    BY <1>1, <2>1
<1>15. QED
  BY <1>8, <1>13, <1>14
-----------------------------------------------------------------------------
(* Sequences of sequences, one behind the other.                            *)

\* Where the n'th of them ends, and what stands before.
Ends(off, s) ==
  /\ off \in [0..Len(s) -> Nat] /\ off[0] = 0
  /\ \A n \in 1..Len(s) : off[n] = off[n - 1] + Len(s[n])

Flat(t, off, s) ==
  /\ Len(t) = off[Len(s)]
  /\ \A n \in 1..Len(s) : \A j \in 1..Len(s[n]) : t[off[n - 1] + j] = s[n][j]

LEMMA Concatenation ==
  ASSUME NEW X, NEW a \in Seq(X), NEW b \in Seq(X)
  PROVE  /\ a \o b \in Seq(X) /\ Len(a \o b) = Len(a) + Len(b)
         /\ Len(a) \in Nat /\ Len(b) \in Nat
         /\ \A i \in 1..Len(a) : (a \o b)[i] = a[i]
         /\ \A j \in 1..Len(b) : (a \o b)[Len(a) + j] = b[j]
OBVIOUS

LEMMA Flattening ==
  ASSUME NEW X, NEW s \in Seq(Seq(X))
  PROVE  /\ FlattenSeq(s) \in Seq(X)
         /\ \E off : Ends(off, s) /\ Flat(FlattenSeq(s), off, s)
<1> DEFINE L == Len(s)
<1>1. L \in Nat /\ DOMAIN s = 1..L /\ \A n \in 1..L : s[n] \in Seq(X)
  BY Members
<1>2. CASE L = 0
  <2>1. s = <<>> /\ FlattenSeq(s) = s
    BY <1>1, <1>2 DEF FlattenSeq
  <2>2. Ends([n \in 0..0 |-> 0], s) /\ Flat(s, [n \in 0..0 |-> 0], s)
    BY <1>2, <2>1 DEF Ends, Flat
  <2>3. QED
    BY <2>1, <2>2
<1>3. CASE L # 0
  <2> DEFINE Grows(f) == f = [i \in 1..L |-> IF i = 1 THEN s[i] ELSE f[i - 1] \o s[i]]
             flat == CHOOSE f : Grows(f)
             H == [q \in (1..L) \X Seq(X) |-> q[2] \o s[q[1]]]
  <2>1. H \in StepsIn(L, Seq(X)) /\ \A n \in 1..L, y \in Seq(X) : H[<<n, y>>] = y \o s[n]
    <3>1. \A n \in 1..L, y \in Seq(X) : y \o s[n] \in Seq(X)
      BY <1>1, Concatenation
    <3>2. QED
      BY <3>1 DEF StepsIn
  <2>2. <<>> \in Seq(X)
    OBVIOUS
  <2>3. PICK g : Repeated(g, L, Seq(X), <<>>, H)
    <3> HIDE DEF H, L
    <3> QED BY <1>1, <2>1, <2>2, Recursion
  <2> HIDE DEF H
  <2>4. \A n \in 1..L : g[n] = g[n - 1] \o s[n] /\ n - 1 \in 0..L /\ n \in 0..L
                        /\ g[n - 1] \in Seq(X) /\ g[n] \in Seq(X)
    <3>1. ASSUME NEW n \in 1..L PROVE g[n] = g[n - 1] \o s[n] /\ n - 1 \in 0..L /\ n \in 0..L
                        /\ g[n - 1] \in Seq(X) /\ g[n] \in Seq(X)
      <4>1. n - 1 \in 0..L /\ n \in 0..L
        BY <1>1
      <4>2. g[n - 1] \in Seq(X) /\ g[n] \in Seq(X) /\ g[n] = H[<<n, g[n - 1]>>]
        BY <2>3, <4>1 DEF Repeated
      <4>3. QED
        BY <2>1, <4>1, <4>2
    <3>2. QED
      BY <3>1
  <2>5. g[0] = <<>>
    BY <2>3 DEF Repeated
  <2>6. \E f : Grows(f)
    <3> DEFINE f == [i \in 1..L |-> g[i]]
    <3>1. ASSUME NEW i \in 1..L PROVE f[i] = IF i = 1 THEN s[i] ELSE f[i - 1] \o s[i]
      <4>1. CASE i = 1
        <5>1. g[1] = <<>> \o s[1] /\ s[1] \in Seq(X)
          <6>1. 1 \in 1..L /\ 1 - 1 = 0
            BY <1>1, <1>3
          <6>2. QED
            BY <1>1, <2>4, <2>5, <6>1
        <5>2. <<>> \o s[1] = s[1]
          BY <5>1
        <5>3. QED
          BY <4>1, <5>1, <5>2
      <4>2. CASE i # 1
        <5>1. i - 1 \in 1..L
          BY <1>1, <4>2
        <5>2. QED
          BY <2>4, <4>2, <5>1
      <4>3. QED
        BY <4>1, <4>2
    <3>2. Grows(f)
      BY <3>1
    <3>3. QED
      BY <3>2
  <2>7. Grows(flat)
    BY <2>6
  <2>8. FlattenSeq(s) = flat[L]
    BY <1>3 DEF FlattenSeq
  <2> HIDE DEF flat
  <2>9. \A i \in 1..L : flat[i] = IF i = 1 THEN s[i] ELSE flat[i - 1] \o s[i]
    BY <2>7
  <2> DEFINE same == {n \in 0..L : n = 0 \/ flat[n] = g[n]}
  <2>10. L \in same
    <3>1. 0 \in same
      BY <1>1
    <3>2. ASSUME NEW n \in 1..L, n - 1 \in same PROVE n \in same
      <4>1. CASE n = 1
        <5>1. g[1] = <<>> \o s[1] /\ s[1] \in Seq(X)
          <6>1. 1 \in 1..L /\ 1 - 1 = 0
            BY <1>1, <1>3
          <6>2. QED
            BY <1>1, <2>4, <2>5, <6>1
        <5>2. <<>> \o s[1] = s[1]
          BY <5>1
        <5>3. flat[n] = s[1]
          BY <2>9, <4>1
        <5>4. QED
          BY <1>1, <4>1, <5>1, <5>2, <5>3
      <4>2. CASE n # 1
        <5>1. n - 1 # 0 /\ n \in 0..L
          BY <1>1, <4>2
        <5>2. flat[n - 1] = g[n - 1]
          BY <3>2, <5>1
        <5>3. flat[n] = g[n]
          BY <2>4, <2>9, <4>2, <5>2
        <5>4. QED
          BY <5>1, <5>3
      <4>3. QED
        BY <4>1, <4>2
    <3>3. 0..L \subseteq same
      <4> HIDE DEF same, L
      <4> QED BY <1>1, <3>1, <3>2, Climb
    <3>4. QED
      <4> HIDE DEF same
      <4> QED BY <1>1, <3>3
  <2>11. FlattenSeq(s) = g[L]
    BY <1>3, <2>8, <2>10
  <2> DEFINE off == [n \in 0..L |-> Len(g[n])]
  <2>12. \A n \in 0..L : g[n] \in Seq(X) /\ off[n] \in Nat /\ off[n] = Len(g[n])
    <3>1. \A n \in 0..L : g[n] \in Seq(X)
      BY <2>3 DEF Repeated
    <3>2. \A a \in Seq(X) : Len(a) \in Nat
      OBVIOUS
    <3>3. QED
      BY <3>1, <3>2
  <2>13. Ends(off, s)
    <3>1. \A n \in 1..L : off[n] = off[n - 1] + Len(s[n])
      <4>1. ASSUME NEW n \in 1..L PROVE off[n] = off[n - 1] + Len(s[n])
        <5>1. g[n] = g[n - 1] \o s[n] /\ g[n - 1] \in Seq(X) /\ s[n] \in Seq(X)
              /\ n \in 0..L /\ n - 1 \in 0..L
          BY <1>1, <2>4
        <5>2. Len(g[n - 1] \o s[n]) = Len(g[n - 1]) + Len(s[n])
          BY <5>1
        <5>3. QED
          BY <2>12, <5>1, <5>2
      <4>2. QED
        BY <4>1
    <3>2. off[0] = 0 /\ off \in [0..L -> Nat]
      <4>1. 0 \in 0..L /\ Len(<<>>) = 0
        BY <1>1
      <4>2. QED
        BY <2>5, <2>12, <4>1
    <3> HIDE DEF off
    <3>3. QED
      BY <3>1, <3>2 DEF Ends
  <2> HIDE DEF off
  <2> DEFINE T == {n \in 0..L : /\ \A m \in 1..n : off[m - 1] + Len(s[m]) <= off[n]
                                /\ \A m \in 1..n : \A j \in 1..Len(s[m]) : g[n][off[m - 1] + j] = s[m][j]}
  <2>14. 0 \in T
    BY <1>1
  <2>15. ASSUME NEW n \in 1..L, n - 1 \in T PROVE n \in T
    <3>1. /\ g[n] = g[n - 1] \o s[n] /\ n - 1 \in 0..L /\ n \in 0..L
          /\ g[n - 1] \in Seq(X) /\ s[n] \in Seq(X)
      BY <1>1, <2>4
    <3>2. off[n] = off[n - 1] + Len(s[n]) /\ off[n - 1] = Len(g[n - 1])
      BY <2>12, <2>13, <3>1 DEF Ends
    <3>3. /\ \A i \in 1..Len(g[n - 1]) : g[n][i] = g[n - 1][i]
          /\ \A j \in 1..Len(s[n]) : g[n][Len(g[n - 1]) + j] = s[n][j]
      <4> DEFINE a == g[n - 1]
                 b == s[n]
      <4>1. /\ \A i \in 1..Len(a) : (a \o b)[i] = a[i]
            /\ \A j \in 1..Len(b) : (a \o b)[Len(a) + j] = b[j]
        <5>1. a \in Seq(X) /\ b \in Seq(X)
          BY <3>1
        <5> HIDE DEF a, b
        <5>2. QED
          BY <5>1, Concatenation
      <4>2. QED
        BY <3>1, <4>1
    <3>4. Len(s[n]) \in Nat /\ off[n - 1] \in Nat /\ off[n] \in Nat
      BY <2>12, <3>1, Concatenation
    <3>5. ASSUME NEW m \in 1..n
          PROVE  /\ off[m - 1] + Len(s[m]) <= off[n]
                 /\ \A j \in 1..Len(s[m]) : g[n][off[m - 1] + j] = s[m][j]
      <4>1. CASE m = n
        <5>1. /\ off[n - 1] + Len(s[n]) <= off[n]
              /\ \A j \in 1..Len(s[n]) : g[n][off[n - 1] + j] = s[n][j]
          BY <3>2, <3>3, <3>4
        <5>2. QED
          BY <4>1, <5>1
      <4>2. CASE m # n
        <5>1. m \in 1..(n - 1) /\ m - 1 \in 0..L /\ m \in 1..L
          BY <1>1, <4>2
        <5>2. /\ off[m - 1] + Len(s[m]) <= off[n - 1]
              /\ \A j \in 1..Len(s[m]) : g[n - 1][off[m - 1] + j] = s[m][j]
          BY <2>15, <5>1
        <5>3. off[m - 1] \in Nat /\ Len(s[m]) \in Nat
          BY <1>1, <2>12, <5>1, Concatenation
        <5>4. /\ \A j \in 1..Len(s[m]) : off[m - 1] + j \in 1..Len(g[n - 1])
              /\ off[m - 1] + Len(s[m]) <= off[n]
          <6>1. \A a, b, c, d, e \in Nat : a + b <= c /\ d = c + e =>
                  a + b <= d /\ \A j \in 1..b : a + j \in 1..c
            OBVIOUS
          <6>2. off[m - 1] + Len(s[m]) <= off[n - 1]
            BY <5>2
          <6>3. QED
            BY <3>2, <3>4, <5>3, <6>1, <6>2
        <5>5. QED
          <6>1. off[m - 1] + Len(s[m]) <= off[n]
            BY <5>4
          <6>2. ASSUME NEW j \in 1..Len(s[m]) PROVE g[n][off[m - 1] + j] = s[m][j]
            BY <3>3, <5>2, <5>4
          <6>3. QED
            BY <6>1, <6>2
      <4>3. QED
        BY <4>1, <4>2
    <3>6. QED
      BY <3>1, <3>5
  <2>16. L \in T
    <3>1. 0..L \subseteq T
      <4> HIDE DEF T, L
      <4> QED BY <1>1, <2>14, <2>15, Climb
    <3>2. QED
      <4> HIDE DEF T
      <4> QED BY <1>1, <3>1
  <2>17. L \in 0..L
    BY <1>1
  <2>18. Flat(g[L], off, s)
    BY <2>12, <2>16, <2>17 DEF Flat
  <2>19. QED
    BY <2>11, <2>12, <2>13, <2>17, <2>18
<1>4. QED
  BY <1>2, <1>3
-----------------------------------------------------------------------------
(* The order of the widgets.                                                *)

Positions == Seq(Nat)

LEMMA SamePositions ==
  ASSUME NEW p \in Positions, NEW q \in Positions, Len(p) = Len(q),
         \A i \in 1..Len(p) : p[i] = q[i]
  PROVE  p = q
BY DEF Positions

LEMMA PrefixIs ==
  ASSUME NEW p \in Positions, NEW q \in Positions
  PROVE  IsPrefix(p, q) <=> Len(p) <= Len(q) /\ \A i \in 1..Len(p) : p[i] = q[i]
<1> USE DEF Positions
<1>1. Len(p) \in Nat /\ Len(q) \in Nat
  OBVIOUS
<1>2. CASE Len(p) <= Len(q)
  <2> DEFINE a == SubSeq(p, 1, Len(p))
             b == SubSeq(q, 1, Len(p))
  <2>1. /\ a \in Seq(Nat) /\ b \in Seq(Nat) /\ Len(a) = Len(p) /\ Len(b) = Len(p)
        /\ \A i \in 1..Len(p) : a[i] = p[i] /\ b[i] = q[i]
    BY <1>1, <1>2
  <2>2. (\A i \in 1..Len(p) : a[i] = b[i]) => a = b
    <3> HIDE DEF a, b
    <3> QED BY <2>1, SamePositions
  <2>3. QED
    BY <1>2, <2>1, <2>2 DEF IsPrefix
<1>3. QED
  BY <1>2 DEF IsPrefix

LEMMA PositionIs ==
  ASSUME NEW p \in Positions
  PROVE  Len(p) \in Nat /\ DOMAIN p = 1..Len(p) /\ \A i \in 1..Len(p) : p[i] \in Nat
BY DEF Positions

LEMMA BesideIsOrder ==
  ASSUME NEW p \in Positions, NEW q \in Positions
  PROVE  Beside(p, q) => ~ Beside(q, p) /\ ~ IsPrefix(p, q) /\ ~ IsPrefix(q, p) /\ p # q
<1> SUFFICES ASSUME Beside(p, q)
             PROVE  ~ Beside(q, p) /\ ~ IsPrefix(p, q) /\ ~ IsPrefix(q, p) /\ p # q
  OBVIOUS
<1>1. PICK i \in DOMAIN p \cap DOMAIN q : p[i] < q[i] /\ \A j \in 1..(i - 1) : p[j] = q[j]
  BY DEF Beside
<1>2. i \in 1..Len(p) /\ i \in 1..Len(q) /\ p[i] \in Nat /\ q[i] \in Nat /\ p[i] # q[i]
  BY <1>1, PositionIs
<1>3. ~ IsPrefix(p, q) /\ ~ IsPrefix(q, p) /\ p # q
  BY <1>2, PrefixIs
<1>4. ASSUME Beside(q, p) PROVE FALSE
  <2>1. PICK k \in DOMAIN p \cap DOMAIN q : q[k] < p[k] /\ \A j \in 1..(k - 1) : q[j] = p[j]
    BY <1>4 DEF Beside
  <2>2. k \in 1..Len(p) /\ p[k] \in Nat /\ q[k] \in Nat /\ k \in Nat /\ i \in Nat
    BY <1>2, <2>1, PositionIs
  <2>3. CASE i < k
    <3>1. i \in 1..(k - 1)
      BY <1>2, <2>2, <2>3
    <3>2. QED
      BY <1>2, <2>1, <3>1
  <2>4. CASE k < i
    <3>1. k \in 1..(i - 1)
      BY <1>2, <2>2, <2>4
    <3>2. QED
      BY <1>1, <2>1, <2>2, <3>1
  <2>5. CASE k = i
    BY <1>1, <1>2, <2>1, <2>2, <2>5
  <2>6. QED
    BY <2>2, <2>3, <2>4, <2>5
<1>5. QED
  BY <1>3, <1>4

LEMMA BeforeIsOrder ==
  ASSUME NEW p \in Positions, NEW q \in Positions, Before(p, q)
  PROVE  ~ Before(q, p) /\ p # q
<1>1. CASE Beside(p, q)
  BY <1>1, BesideIsOrder DEF Before, IsStrictPrefix
<1>2. CASE IsStrictPrefix(p, q)
  <2>1. IsPrefix(p, q) /\ p # q
    BY <1>2 DEF IsStrictPrefix
  <2>2. ~ Beside(q, p)
    BY <2>1, BesideIsOrder
  <2>3. ASSUME IsPrefix(q, p) PROVE FALSE
    <3>1. Len(p) = Len(q) /\ \A i \in 1..Len(p) : p[i] = q[i]
      BY <2>1, <2>3, PrefixIs, PositionIs
    <3>2. QED
      BY <2>1, <3>1, SamePositions
  <2>4. QED
    BY <2>1, <2>2, <2>3 DEF Before, IsStrictPrefix
<1>3. QED
  BY <1>1, <1>2 DEF Before

LEMMA PrefixOfAppend ==
  ASSUME NEW p \in Positions, NEW q \in Positions, NEW n \in Nat, IsPrefix(p, q)
  PROVE  IsPrefix(p, Append(q, n))
<1> DEFINE qn == Append(q, n)
<1>1. /\ qn \in Positions /\ Len(qn) = Len(q) + 1 /\ \A i \in 1..Len(q) : qn[i] = q[i]
      /\ Len(p) \in Nat /\ Len(q) \in Nat
  BY DEF Positions
<1>2. Len(p) <= Len(q) /\ \A i \in 1..Len(p) : p[i] = q[i]
  BY PrefixIs
<1> HIDE DEF qn
<1>3. IsPrefix(p, qn)
  BY <1>1, <1>2, PrefixIs
<1>4. QED
  BY <1>3 DEF qn

\* What is beside a widget is beside all that it contains.
LEMMA BesideContents ==
  ASSUME NEW p \in Positions, NEW q \in Positions, NEW n \in Nat
  PROVE  /\ Beside(p, q) => Beside(Append(p, n), q) /\ Beside(p, Append(q, n))
         /\ IsPrefix(p, q) => IsPrefix(p, Append(q, n))
         /\ \A m \in Nat : m < n => Beside(Append(p, m), Append(p, n))
         /\ Append(p, n) \in Positions /\ IsStrictPrefix(p, Append(p, n))
<1> USE DEF Positions
<1>1. \A r \in Seq(Nat), k \in Nat :
        /\ Append(r, k) \in Seq(Nat) /\ Len(Append(r, k)) = Len(r) + 1
        /\ DOMAIN Append(r, k) = 1..(Len(r) + 1) /\ DOMAIN r = 1..Len(r) /\ Len(r) \in Nat
        /\ \A i \in 1..Len(r) : Append(r, k)[i] = r[i]
        /\ Append(r, k)[Len(r) + 1] = k
  OBVIOUS
<1>2. ASSUME Beside(p, q) PROVE Beside(Append(p, n), q) /\ Beside(p, Append(q, n))
  <2> DEFINE pn == Append(p, n)
             qn == Append(q, n)
  <2>1. PICK i \in DOMAIN p \cap DOMAIN q : p[i] < q[i] /\ \A j \in 1..(i - 1) : p[j] = q[j]
    BY <1>2 DEF Beside
  <2>2. /\ i \in DOMAIN pn /\ i \in DOMAIN qn /\ pn[i] = p[i] /\ qn[i] = q[i]
        /\ \A j \in 1..(i - 1) : pn[j] = p[j] /\ qn[j] = q[j]
    BY <1>1, <2>1, SMTT(30)
  <2> HIDE DEF pn, qn
  <2>3. Beside(pn, q) /\ Beside(p, qn)
    BY <2>1, <2>2 DEF Beside
  <2>4. QED
    BY <2>3 DEF pn, qn
<1>3. IsPrefix(p, q) => IsPrefix(p, Append(q, n))
  BY PrefixOfAppend
<1>4. ASSUME NEW m \in Nat, m < n PROVE Beside(Append(p, m), Append(p, n))
  <2> DEFINE pm == Append(p, m)
             pn == Append(p, n)
             k == Len(p) + 1
  <2>1. k \in DOMAIN pm \cap DOMAIN pn /\ pm[k] < pn[k] /\ \A j \in 1..(k - 1) : pm[j] = pn[j]
    BY <1>1, <1>4
  <2> HIDE DEF pm, pn, k
  <2>2. Beside(pm, pn)
    BY <2>1 DEF Beside
  <2>3. QED
    BY <2>2 DEF pm, pn
<1>5. IsStrictPrefix(p, Append(p, n))
  <2>1. p # Append(p, n)
    BY <1>1
  <2>2. IsPrefix(p, Append(p, n))
    <3>1. IsPrefix(p, p)
      BY <1>1, PrefixIs
    <3>2. QED
      BY <3>1, PrefixOfAppend
  <2>3. QED
    BY <2>1, <2>2 DEF IsStrictPrefix
<1>6. QED
  BY <1>1, <1>2, <1>3, <1>4, <1>5

-----------------------------------------------------------------------------
(* The walk over the tree.                                                  *)

LEMMA ChildrenAre ==
  ASSUME NEW tree, IsTree(tree), NEW at \in DOMAIN tree \cup {<<>>}
  PROVE  /\ Children(tree, at) \in Seq(DOMAIN tree)
         /\ \A i \in DOMAIN Children(tree, at) : i \in Nat /\ Children(tree, at)[i] = Append(at, i)
         /\ \A p \in DOMAIN tree :
              Front(p) = at => \E i \in DOMAIN Children(tree, at) : p = Children(tree, at)[i]
<1> DEFINE k == Cardinality({p \in DOMAIN tree : Front(p) = at})
           c == Children(tree, at)
<1>1. c = [i \in 1..k |-> Append(at, i)]
  BY DEF Children
<1>2. k \in Nat
  <2>1. IsFiniteSet({p \in DOMAIN tree : Front(p) = at})
    BY FS_Subset DEF IsTree
  <2>2. QED
    BY <2>1, FS_CardinalityType
<1>3. Range(c) = {p \in DOMAIN tree : Front(p) = at}
  BY DEF IsTree
<1>4. Range(c) = {c[i] : i \in DOMAIN c}
  BY DEF Range
<1> HIDE DEF k, c
<1>5. \A i \in 1..k : c[i] \in DOMAIN tree
  BY <1>1, <1>3, <1>4
<1>6. c \in Seq(DOMAIN tree)
  <2>1. c \in [1..k -> DOMAIN tree]
    BY <1>1, <1>5
  <2>2. QED
    BY <1>2, <2>1
<1>7. \A i \in DOMAIN c : i \in Nat /\ c[i] = Append(at, i)
  BY <1>1, <1>2
<1>8. \A p \in DOMAIN tree : Front(p) = at => \E i \in DOMAIN c : p = c[i]
  BY <1>3, <1>4
<1>9. QED
  BY <1>6, <1>7, <1>8 DEF c

\* What was yielded, and what stands on the stack.
Walking(tree, V, s) ==
  /\ s \in Seq(DOMAIN tree) /\ V \subseteq DOMAIN tree
  /\ \A i, j \in DOMAIN s : i < j => Beside(s[i], s[j])
  /\ \A q \in DOMAIN tree : q \in V \/ \E i \in DOMAIN s : IsPrefix(s[i], q)
  /\ \A v \in V : \A i \in DOMAIN s : Before(v, s[i])

LEMMA TreeIs ==
  ASSUME NEW tree, IsTree(tree)
  PROVE  /\ DOMAIN tree \subseteq Positions \ {<<>>}
         /\ \A p \in DOMAIN tree : Len(p) \in Nat \ {0}
BY DEF IsTree, Positions

\* A widget in another is the child of a widget, which it follows to it.
LEMMA ChildOnTheWay ==
  ASSUME NEW tree, IsTree(tree), NEW at \in DOMAIN tree \cup {<<>>}, NEW q \in DOMAIN tree,
         IsPrefix(at, q), at # q
  PROVE  \E i \in DOMAIN Children(tree, at) : IsPrefix(Children(tree, at)[i], q)
<1> DEFINE n == Len(at) + 1
           p == SubSeq(q, 1, n)
<1>1. q \in Positions /\ at \in Positions
  <2>1. <<>> \in Positions
    BY DEF Positions
  <2>2. QED
    BY <2>1, TreeIs
<1>2. Len(at) \in Nat /\ Len(q) \in Nat /\ Len(at) <= Len(q) /\ \A i \in 1..Len(at) : at[i] = q[i]
  BY <1>1, PrefixIs, PositionIs
<1>3. Len(at) # Len(q)
  BY <1>1, <1>2, SamePositions
<1>4. n \in 1..Len(q)
  BY <1>2, <1>3
<1>5. p \in DOMAIN tree
  BY <1>4 DEF IsTree
<1>6. p \in Positions /\ Len(p) = n /\ \A i \in 1..n : p[i] = q[i]
  <2>1. \A r \in Seq(Nat) : \A m \in 1..Len(r) :
          /\ SubSeq(r, 1, m) \in Seq(Nat) /\ Len(SubSeq(r, 1, m)) = m
          /\ \A i \in 1..m : SubSeq(r, 1, m)[i] = r[i]
    OBVIOUS
  <2>2. QED
    BY <1>1, <1>4, <2>1 DEF Positions
<1> HIDE DEF p
<1>7. Front(p) = at
  <2> DEFINE f == SubSeq(p, 1, Len(p) - 1)
  <2>1. Len(p) - 1 = Len(at) /\ Len(p) \in Nat /\ Len(p) - 1 \in Nat
    BY <1>2, <1>6
  <2>2. f \in Positions /\ Len(f) = Len(at) /\ \A i \in 1..Len(at) : f[i] = p[i]
    <3>1. \A r \in Seq(Nat) : \A m \in 0..Len(r) :
            /\ SubSeq(r, 1, m) \in Seq(Nat) /\ Len(SubSeq(r, 1, m)) = m
            /\ \A i \in 1..m : SubSeq(r, 1, m)[i] = r[i]
      OBVIOUS
    <3>2. Len(at) \in 0..Len(p)
      BY <1>2, <1>6
    <3>3. QED
      BY <1>6, <2>1, <3>1, <3>2 DEF Positions
  <2>3. \A i \in 1..Len(at) : p[i] = at[i]
    BY <1>2, <1>6
  <2> HIDE DEF f
  <2>4. f = at
    BY <1>1, <2>2, <2>3, SamePositions
  <2>5. QED
    BY <2>4 DEF f, Front
<1>8. PICK i \in DOMAIN Children(tree, at) : p = Children(tree, at)[i]
  BY <1>5, <1>7, ChildrenAre
<1>9. IsPrefix(p, q)
  BY <1>1, <1>4, <1>6, PrefixIs
<1>10. QED
  BY <1>8, <1>9

LEMMA EmptyIsPrefix == \A p \in Positions : IsPrefix(<<>>, p)
<1>1. <<>> \in Positions /\ Len(<<>>) = 0
  BY DEF Positions
<1>2. QED
  BY <1>1, PrefixIs, PositionIs

LEMMA WalkStarts ==
  ASSUME NEW tree, IsTree(tree)
  PROVE  Walking(tree, {}, Children(tree, <<>>))
<1> DEFINE c == Children(tree, <<>>)
<1>1. /\ c \in Seq(DOMAIN tree)
      /\ \A i \in DOMAIN c : i \in Nat /\ c[i] = Append(<<>>, i)
  <2>1. <<>> \in DOMAIN tree \cup {<<>>}
    OBVIOUS
  <2>2. QED
    BY <2>1, ChildrenAre
<1>2. <<>> \in Positions
  BY DEF Positions
<1>3. \A i, j \in DOMAIN c : i < j => Beside(c[i], c[j])
  BY <1>1, <1>2, BesideContents
<1>4. ASSUME NEW q \in DOMAIN tree PROVE \E i \in DOMAIN c : IsPrefix(c[i], q)
  <2>1. q \in Positions /\ q # <<>>
    BY TreeIs
  <2>2. QED
    BY <2>1, EmptyIsPrefix, ChildOnTheWay
<1>5. QED
  BY <1>1, <1>3, <1>4 DEF Walking

LEMMA WalkStep ==
  ASSUME NEW tree, IsTree(tree), NEW V, NEW s, Walking(tree, V, s), s # <<>>
  PROVE  Walking(tree, V \cup {Head(s)}, Opened(tree, s))
<1> DEFINE h == Head(s)
           t == Tail(s)
           c == Children(tree, h)
           o == c \o t
<1>1. /\ s \in Seq(DOMAIN tree) /\ V \subseteq DOMAIN tree
      /\ \A i, j \in DOMAIN s : i < j => Beside(s[i], s[j])
      /\ \A q \in DOMAIN tree : q \in V \/ \E i \in DOMAIN s : IsPrefix(s[i], q)
      /\ \A v \in V : \A i \in DOMAIN s : Before(v, s[i])
  BY DEF Walking
<1>2. /\ Len(s) \in Nat \ {0} /\ DOMAIN s = 1..Len(s) /\ h = s[1]
      /\ t \in Seq(DOMAIN tree) /\ Len(t) = Len(s) - 1 /\ \A i \in 1..Len(t) : t[i] = s[i + 1]
  BY <1>1
<1>3. h \in DOMAIN tree
  BY <1>1, <1>2, Members
<1>4. /\ c \in Seq(DOMAIN tree)
      /\ \A i \in DOMAIN c : i \in Nat /\ c[i] = Append(h, i)
  BY <1>3, ChildrenAre
<1>5. Len(c) \in Nat /\ DOMAIN c = 1..Len(c)
  BY <1>4
<1>6. h \in Positions /\ (\A i \in DOMAIN s : s[i] \in Positions) /\ V \subseteq Positions
  BY <1>1, <1>3, Members, TreeIs
<1> HIDE DEF h, t, c
<1>7. /\ o \in Seq(DOMAIN tree) /\ DOMAIN o = 1..(Len(c) + Len(t))
      /\ \A i \in 1..Len(c) : o[i] = c[i]
      /\ \A j \in 1..Len(t) : o[Len(c) + j] = t[j]
  BY <1>2, <1>4
<1> HIDE DEF o
<1>8. \A k \in DOMAIN o : \/ k \in 1..Len(c) /\ k \in Nat /\ o[k] = Append(h, k)
                          \/ k - Len(c) + 1 \in DOMAIN s /\ k > Len(c) /\ o[k] = s[k - Len(c) + 1]
                             /\ k - Len(c) + 1 > 1
  <2>1. ASSUME NEW k \in DOMAIN o, k \notin 1..Len(c)
        PROVE  k - Len(c) + 1 \in DOMAIN s /\ k > Len(c) /\ o[k] = s[k - Len(c) + 1]
               /\ k - Len(c) + 1 > 1
    <3>1. k - Len(c) \in 1..Len(t) /\ k = Len(c) + (k - Len(c)) /\ k > Len(c)
      BY <1>2, <1>5, <1>7, <2>1
    <3>2. o[k] = t[k - Len(c)]
      BY <1>7, <3>1
    <3>3. QED
      BY <1>2, <3>1, <3>2
  <2>2. QED
    BY <1>4, <1>5, <1>7, <2>1
<1>9. ASSUME NEW i \in DOMAIN o, NEW j \in DOMAIN o, i < j PROVE Beside(o[i], o[j])
  <2>1. CASE i \in 1..Len(c) /\ j \in 1..Len(c)
    <3>1. i \in Nat /\ j \in Nat /\ o[i] = Append(h, i) /\ o[j] = Append(h, j)
      BY <1>4, <1>5, <1>7, <2>1
    <3>2. QED
      BY <1>6, <1>9, <3>1, BesideContents
  <2>2. CASE i \in 1..Len(c) /\ j \notin 1..Len(c)
    <3>1. i \in Nat /\ o[i] = Append(h, i)
      BY <1>4, <1>5, <1>7, <2>2
    <3>2. PICK m \in DOMAIN s : o[j] = s[m] /\ m > 1
      BY <1>8, <2>2
    <3>3. Beside(s[1], s[m])
      BY <1>1, <1>2, <3>2
    <3>4. s[m] \in Positions
      BY <1>6
    <3>5. QED
      BY <1>2, <1>6, <3>1, <3>2, <3>3, <3>4, BesideContents
  <2>3. CASE i \notin 1..Len(c) /\ j \notin 1..Len(c)
    <3> DEFINE m == i - Len(c) + 1
               n == j - Len(c) + 1
    <3>1. m \in DOMAIN s /\ n \in DOMAIN s /\ o[i] = s[m] /\ o[j] = s[n]
      BY <1>8, <2>3
    <3>2. m < n
      BY <1>5, <1>7, <1>9
    <3> HIDE DEF m, n
    <3>3. QED
      BY <1>1, <3>1, <3>2
  <2>4. CASE i \notin 1..Len(c) /\ j \in 1..Len(c)
    BY <1>5, <1>7, <1>9, <2>4
  <2>5. QED
    BY <2>1, <2>2, <2>3, <2>4
<1>10. ASSUME NEW q \in DOMAIN tree, q \notin V \cup {h}
       PROVE  \E i \in DOMAIN o : IsPrefix(o[i], q)
  <2>1. PICK m \in DOMAIN s : IsPrefix(s[m], q)
    BY <1>1, <1>10
  <2>2. CASE m = 1
    <3>1. PICK i \in DOMAIN c : IsPrefix(c[i], q)
      BY <1>2, <1>3, <1>10, <2>1, <2>2, ChildOnTheWay DEF c
    <3>2. i \in DOMAIN o /\ o[i] = c[i]
      BY <1>2, <1>5, <1>7
    <3>3. QED
      BY <3>1, <3>2
  <2>3. CASE m # 1
    <3>1. m - 1 \in 1..Len(t) /\ t[m - 1] = s[m]
      <4>1. m \in Nat /\ m - 1 \in 1..Len(t) /\ (m - 1) + 1 = m
        BY <1>2, <2>3
      <4>2. QED
        BY <1>2, <4>1
    <3>2. Len(c) + (m - 1) \in DOMAIN o /\ o[Len(c) + (m - 1)] = s[m]
      <4>1. \A j \in 1..Len(t) : Len(c) + j \in DOMAIN o /\ o[Len(c) + j] = t[j]
        BY <1>2, <1>5, <1>7
      <4>2. QED
        BY <3>1, <4>1
    <3>3. QED
      BY <2>1, <3>2
  <2>4. QED
    BY <2>2, <2>3
<1>11. ASSUME NEW v \in V \cup {h}, NEW i \in DOMAIN o PROVE Before(v, o[i])
  <2>1. CASE v = h /\ i \in 1..Len(c)
    <3>1. i \in Nat /\ o[i] = Append(h, i)
      BY <1>4, <1>5, <1>7, <2>1
    <3>2. QED
      BY <1>6, <2>1, <3>1, BesideContents DEF Before
  <2>2. CASE v # h /\ i \in 1..Len(c)
    <3>1. i \in Nat /\ o[i] = Append(h, i)
      BY <1>4, <1>5, <1>7, <2>2
    <3>2. v \in Positions /\ Before(v, h)
      BY <1>1, <1>2, <1>6, <1>11, <2>2
    <3>3. CASE Beside(v, h)
      BY <1>6, <3>1, <3>2, <3>3, BesideContents DEF Before
    <3>4. CASE IsStrictPrefix(v, h)
      <4>1. IsPrefix(v, Append(h, i)) /\ IsPrefix(v, h)
        BY <1>6, <3>1, <3>2, <3>4, BesideContents DEF IsStrictPrefix
      <4>2. Len(v) \in Nat /\ Len(h) \in Nat /\ Len(v) <= Len(h)
        BY <1>6, <3>2, <4>1, PrefixIs, PositionIs
      <4>3. Len(Append(h, i)) = Len(h) + 1
        BY <1>6, <3>1 DEF Positions
      <4>4. v # Append(h, i)
        BY <4>2, <4>3
      <4>5. QED
        BY <3>1, <4>1, <4>4 DEF Before, IsStrictPrefix
    <3>5. QED
      BY <3>2, <3>3, <3>4 DEF Before
  <2>3. CASE i \notin 1..Len(c)
    <3>1. PICK m \in DOMAIN s : o[i] = s[m] /\ m > 1
      BY <1>8, <2>3
    <3>2. CASE v = h
      <4>1. Beside(h, s[m])
        BY <1>1, <1>2, <3>1
      <4>2. QED
        BY <3>1, <3>2, <4>1 DEF Before
    <3>3. CASE v # h
      BY <1>1, <1>11, <3>1, <3>3
    <3>4. QED
      BY <3>2, <3>3
  <2>4. QED
    BY <2>1, <2>2, <2>3
<1>12. Walking(tree, V \cup {h}, o)
  BY <1>1, <1>3, <1>7, <1>9, <1>10, <1>11 DEF Walking
<1>13. QED
  BY <1>12 DEF o, h, t, c, Opened

Enumerates(w, tree) ==
  /\ w \in [1..Cardinality(DOMAIN tree) -> DOMAIN tree]
  /\ \A i, j \in DOMAIN w : i < j => Before(w[i], w[j])

\* There is one way to go from top to bottom.
LEMMA OneOrder ==
  ASSUME NEW tree, IsTree(tree), NEW v, NEW w, Enumerates(v, tree), Enumerates(w, tree)
  PROVE  v = w
<1> DEFINE N == Cardinality(DOMAIN tree)
<1>1. N \in Nat /\ IsFiniteSet(DOMAIN tree) /\ IsFiniteSet(1..N) /\ Cardinality(1..N) = N
  <2>1. IsFiniteSet(DOMAIN tree) /\ N \in Nat
    BY FS_CardinalityType DEF IsTree
  <2> HIDE DEF N
  <2>2. IsFiniteSet(1..N) /\ Cardinality(1..N) = IF 1 > N THEN 0 ELSE N - 1 + 1
    BY <2>1, FS_Interval
  <2>3. QED
    BY <2>1, <2>2
<1>2. ASSUME NEW x, Enumerates(x, tree)
      PROVE  /\ x \in [1..N -> DOMAIN tree]
             /\ \A i, j \in 1..N : i < j => Before(x[i], x[j])
             /\ \A i \in 1..N : x[i] \in Positions
             /\ \A i, j \in 1..N : x[i] = x[j] => i = j
             /\ \A p \in DOMAIN tree : \E i \in 1..N : x[i] = p
  <2>1. /\ x \in [1..N -> DOMAIN tree]
        /\ \A i, j \in 1..N : i < j => Before(x[i], x[j])
        /\ \A i \in 1..N : x[i] \in Positions
    BY <1>2, TreeIs DEF Enumerates
  <2> HIDE DEF N
  <2>2. \A i, j \in 1..N : x[i] = x[j] => i = j
    <3>1. \A i, j \in 1..N : i < j => x[i] # x[j]
      BY <2>1, BeforeIsOrder
    <3>2. QED
      BY <1>1, <3>1
  <2>3. x \in Injection(1..N, DOMAIN tree)
    BY <2>1, <2>2 DEF Injection, IsInjective
  <2>4. x \in Surjection(1..N, DOMAIN tree)
    <3>1. Cardinality(1..N) = Cardinality(DOMAIN tree)
      BY <1>1 DEF N
    <3>2. QED
      BY <1>1, <2>3, <3>1, FS_Injection
  <2>5. \A p \in DOMAIN tree : \E i \in 1..N : x[i] = p
    BY <2>4 DEF Surjection
  <2>6. QED
    BY <2>1, <2>2, <2>5
<1>3. /\ v \in [1..N -> DOMAIN tree] /\ w \in [1..N -> DOMAIN tree]
      /\ \A i, j \in 1..N : i < j => Before(v[i], v[j]) /\ Before(w[i], w[j])
      /\ \A i \in 1..N : v[i] \in Positions /\ w[i] \in Positions
      /\ \A i, j \in 1..N : v[i] = v[j] \/ w[i] = w[j] => i = j
      /\ \A i \in 1..N : \E j \in 1..N : v[j] = w[i]
      /\ \A i \in 1..N : \E j \in 1..N : w[j] = v[i]
  <2> HIDE DEF N
  <2> QED BY <1>2
<1> HIDE DEF N
<1> DEFINE differ == {n \in 1..N : v[n] # w[n]}
<1>4. ASSUME differ # {} PROVE FALSE
  <2>1. PICK n \in differ : \A m \in differ : n <= m
    <3>1. differ \in SUBSET Nat
      OBVIOUS
    <3> HIDE DEF differ
    <3>2. QED
      BY <1>4, <3>1, LeastNumber
  <2>2. n \in 1..N /\ v[n] # w[n] /\ \A m \in 1..N : m < n => v[m] = w[m]
    BY <1>1, <2>1
  <2>3. PICK j \in 1..N : v[j] = w[n]
    BY <1>3, <2>2
  <2>4. PICK k \in 1..N : w[k] = v[n]
    BY <1>3, <2>2
  <2>5. j > n
    <3>1. ASSUME j < n PROVE FALSE
      <4>1. w[j] = w[n]
        BY <2>2, <2>3, <3>1
      <4>2. j = n
        BY <1>3, <2>2, <4>1
      <4>3. QED
        BY <3>1, <4>2
    <3>2. QED
      BY <2>2, <2>3, <3>1
  <2>6. k > n
    <3>1. ASSUME k < n PROVE FALSE
      <4>1. v[k] = v[n]
        BY <2>2, <2>4, <3>1
      <4>2. k = n
        BY <1>3, <2>2, <4>1
      <4>3. QED
        BY <3>1, <4>2
    <3>2. QED
      BY <2>2, <2>4, <3>1
  <2>7. Before(v[n], w[n]) /\ Before(w[n], v[n])
    BY <1>3, <2>2, <2>3, <2>4, <2>5, <2>6
  <2>8. QED
    BY <1>3, <2>2, <2>7, BeforeIsOrder
<1>5. \A n \in 1..N : v[n] = w[n]
  BY <1>4
<1>6. v \in [1..N -> DOMAIN tree] /\ w \in [1..N -> DOMAIN tree]
  BY <1>3
<1>7. v = [n \in 1..N |-> v[n]] /\ w = [n \in 1..N |-> w[n]]
  BY <1>6
<1>8. [n \in 1..N |-> v[n]] = [n \in 1..N |-> w[n]]
  BY <1>5
<1>9. QED
  BY <1>7, <1>8

\* Turns of iter_widgets that never find the stack empty before they must.
Turns(f, tree) ==
  /\ \A n \in 1..Cardinality(DOMAIN tree) : n = 1 => f[n] = Children(tree, <<>>)
  /\ \A n \in 2..Cardinality(DOMAIN tree) :
       f[n - 1] # <<>> => f[n] = Opened(tree, f[n - 1])

Yielded(f, n) == {Head(f[m]) : m \in 1..(n - 1)}

LEMMA WalkGoesOn ==
  ASSUME NEW tree, IsTree(tree), NEW f, Turns(f, tree), NEW n \in 1..Cardinality(DOMAIN tree)
  PROVE  Walking(tree, Yielded(f, n), f[n]) /\ f[n] # <<>>
<1> DEFINE N == Cardinality(DOMAIN tree)
           T == {m \in 0..N : m # 0 => (Walking(tree, Yielded(f, m), f[m]) /\ f[m] # <<>>)}
<1>1. N \in Nat /\ IsFiniteSet(DOMAIN tree)
  BY FS_CardinalityType DEF IsTree
<1>2. ASSUME NEW m \in 1..N, Walking(tree, Yielded(f, m), f[m]) PROVE f[m] # <<>>
  <2> SUFFICES ASSUME f[m] = <<>> PROVE FALSE
    OBVIOUS
  <2>1. DOMAIN tree \subseteq Yielded(f, m) /\ Yielded(f, m) \subseteq DOMAIN tree
    BY <1>2 DEF Walking
  <2>2. [k \in 1..(m - 1) |-> Head(f[k])] \in Surjection(1..(m - 1), DOMAIN tree)
    BY <2>1 DEF Yielded, Surjection
  <2>3. m - 1 \in Nat /\ m - 1 < N
    BY <1>1
  <2>4. ExistsSurjection(1..(m - 1), DOMAIN tree)
    BY <2>2 DEF ExistsSurjection
  <2>5. N <= m - 1
    <3>1. m - 1 \in Nat
      BY <1>1
    <3>2. QED
      BY <2>4, <3>1, FS_SurjCardinalityBound
  <2> HIDE DEF N
  <2>6. QED
    BY <1>1, <2>3, <2>5
<1>3. 0 \in T
  <2>1. 0 \in 0..N
    <3> HIDE DEF N
    <3> QED BY <1>1
  <2> HIDE DEF N
  <2>2. QED
    BY <2>1
<1>4. ASSUME NEW m \in 1..N, m - 1 \in T PROVE m \in T
  <2>1. CASE m = 1
    <3>1. Yielded(f, 1) = {}
      BY DEF Yielded
    <3>2. Walking(tree, Yielded(f, m), f[m])
      BY <2>1, <3>1, WalkStarts DEF Turns
    <3>3. QED
      BY <1>1, <1>2, <3>2
  <2>2. CASE m # 1
    <3>1. m - 1 # 0 /\ m \in 2..N /\ m \in 0..N /\ m - 1 \in Nat
      BY <1>1, <2>2
    <3>2. Walking(tree, Yielded(f, m - 1), f[m - 1]) /\ f[m - 1] # <<>>
      BY <1>4, <3>1
    <3>3. f[m] = Opened(tree, f[m - 1])
      BY <3>1, <3>2 DEF Turns
    <3>4. Yielded(f, m) = Yielded(f, m - 1) \cup {Head(f[m - 1])}
      <4>1. \A k : k \in 1..(m - 1) <=> k \in 1..(m - 1 - 1) \/ k = m - 1
        BY <3>1
      <4>2. QED
        BY <4>1 DEF Yielded
    <3>5. Walking(tree, Yielded(f, m), f[m])
      BY <3>2, <3>3, <3>4, WalkStep
    <3>6. QED
      BY <1>2, <3>1, <3>5
  <2>3. QED
    BY <2>1, <2>2
<1>5. 0..N \subseteq T
  <2> HIDE DEF T, N
  <2> QED BY <1>1, <1>3, <1>4, Climb
<1>6. n \in T /\ n # 0
  <2>1. n \in 0..N /\ n # 0
    BY <1>1
  <2> HIDE DEF T, N
  <2>2. QED
    BY <1>5, <2>1
<1>7. QED
  BY <1>6

LEMMA TurnsEnumerate ==
  ASSUME NEW tree, IsTree(tree), NEW f, Turns(f, tree)
  PROVE  Enumerates([n \in 1..Cardinality(DOMAIN tree) |-> Head(f[n])], tree)
<1> DEFINE N == Cardinality(DOMAIN tree)
           w == [n \in 1..N |-> Head(f[n])]
<1>1. \A n \in 1..N : /\ f[n] \in Seq(DOMAIN tree) /\ f[n] # <<>>
                      /\ \A v \in Yielded(f, n) : \A i \in DOMAIN f[n] : Before(v, f[n][i])
  BY WalkGoesOn DEF Walking
<1>2. \A n \in 1..N : w[n] = f[n][1] /\ 1 \in DOMAIN f[n] /\ w[n] \in DOMAIN tree
  <2>1. \A S : \A s \in Seq(S) : s # <<>> => Head(s) = s[1] /\ 1 \in DOMAIN s /\ s[1] \in S
    OBVIOUS
  <2>2. \A n \in 1..N : w[n] = Head(f[n])
    OBVIOUS
  <2> HIDE DEF w, N
  <2>3. QED
    BY <1>1, <2>1, <2>2
<1>3. \A i, j \in 1..N : i < j => Before(w[i], w[j])
  <2>1. ASSUME NEW i \in 1..N, NEW j \in 1..N, i < j PROVE Before(w[i], w[j])
    <3>1. N \in Nat
      BY FS_CardinalityType DEF IsTree
    <3>2. i \in 1..(j - 1)
      <4> HIDE DEF N
      <4> QED BY <2>1, <3>1
    <3>3. Head(f[i]) \in Yielded(f, j)
      BY <3>2 DEF Yielded
    <3>4. w[i] \in Yielded(f, j)
      BY <3>3
    <3> HIDE DEF w, N
    <3>5. QED
      BY <1>1, <1>2, <3>4
  <2>2. QED
    BY <2>1
<1>4. QED
  BY <1>2, <1>3 DEF Enumerates

LEMMA WidgetsFromTop ==
  ASSUME NEW tree, IsTree(tree)
  PROVE  Widgets(tree) = FromTop(tree) /\ Enumerates(FromTop(tree), tree)
<1> DEFINE N == Cardinality(DOMAIN tree)
           Walks(f) == f = [n \in 1..N |-> IF n = 1 THEN Children(tree, <<>>)
                                           ELSE Opened(tree, f[n - 1])]
           trail == CHOOSE f : Walks(f)
           S == Seq(DOMAIN tree)
           H == [q \in (1..(N - 1)) \X S |->
                   IF q[2] = <<>> \/ Opened(tree, q[2]) \notin S THEN <<>> ELSE Opened(tree, q[2])]
<1>1. N \in Nat
  BY FS_CardinalityType DEF IsTree
<1>2. Children(tree, <<>>) \in S
  <2>1. <<>> \in DOMAIN tree \cup {<<>>}
    OBVIOUS
  <2>2. QED
    BY <2>1, ChildrenAre
<1>3. \E f : Turns(f, tree) /\ f = [n \in 1..N |-> f[n]]
  <2>1. CASE N = 0
    <3> DEFINE f == [n \in 1..0 |-> <<>>]
    <3>1. f = [n \in 1..N |-> f[n]]
      BY <2>1
    <3>2. Turns(f, tree)
      BY <2>1 DEF Turns
    <3>3. QED
      BY <3>1, <3>2
  <2>2. CASE N # 0
    <3>1. N - 1 \in Nat
      BY <1>1, <2>2
    <3>2. H \in StepsIn(N - 1, S)
      <4>1. <<>> \in S
        OBVIOUS
      <4> HIDE DEF S, N
      <4>2. QED
        BY <4>1 DEF StepsIn
    <3>3. PICK g : Repeated(g, N - 1, S, Children(tree, <<>>), H)
      <4> HIDE DEF H, S, N
      <4> QED BY <1>2, <3>1, <3>2, Recursion
    <3> DEFINE f == [n \in 1..N |-> g[n - 1]]
    <3>4. \A n \in 1..N : n = 1 => f[n] = Children(tree, <<>>)
      <4>1. g[0] = Children(tree, <<>>)
        BY <3>3 DEF Repeated
      <4>2. 1 - 1 = 0
        OBVIOUS
      <4>3. \A n \in 1..N : n = 1 => f[n] = g[0]
        BY <4>2
      <4>4. QED
        BY <4>1, <4>3
    <3>5. ASSUME NEW n \in 2..N
          PROVE  f[n] = H[<<n - 1, f[n - 1]>>] /\ f[n - 1] \in S /\ n - 1 \in 1..(N - 1)
      <4> HIDE DEF S, N, H
      <4>1. n - 1 \in 1..(N - 1) /\ n - 1 \in 1..N /\ n \in 1..N /\ n - 2 \in 0..(N - 1)
            /\ (n - 1) - 1 = n - 2
        BY <1>1
      <4>2. g[n - 1] = H[<<n - 1, g[(n - 1) - 1]>>] /\ g[n - 2] \in S
        BY <3>3, <4>1 DEF Repeated
      <4>3. f[n] = g[n - 1] /\ f[n - 1] = g[n - 2]
        BY <4>1
      <4>4. QED
        BY <4>1, <4>2, <4>3
    <3>6. ASSUME NEW n \in 2..N, f[n - 1] # <<>> PROVE f[n] = Opened(tree, f[n - 1])
      <4>1. f[n] = IF f[n - 1] = <<>> \/ Opened(tree, f[n - 1]) \notin S THEN <<>> ELSE Opened(tree, f[n - 1])
        <5> HIDE DEF S, N, f
        <5> QED BY <3>5
      <4>2. Opened(tree, f[n - 1]) \in S
        <5> DEFINE s == f[n - 1]
        <5>1. s \in S /\ s # <<>>
          BY <3>5, <3>6
        <5> HIDE DEF s, f, N
        <5>2. Head(s) \in DOMAIN tree /\ Tail(s) \in S
          BY <5>1
        <5>3. Children(tree, Head(s)) \in S
          BY <5>2, ChildrenAre
        <5>4. Children(tree, Head(s)) \o Tail(s) \in S
          BY <5>2, <5>3, Concatenation
        <5>5. QED
          BY <5>4 DEF s, Opened
      <4> HIDE DEF S, N, f
      <4>3. QED
        BY <3>6, <4>1, <4>2
    <3>7. f = [n \in 1..N |-> f[n]]
      OBVIOUS
    <3> HIDE DEF f
    <3>8. Turns(f, tree)
      BY <3>4, <3>6 DEF Turns
    <3>9. QED
      BY <3>7, <3>8
  <2>3. QED
    BY <2>1, <2>2
<1> HIDE DEF H, S
<1>4. PICK f : Turns(f, tree) /\ f = [n \in 1..N |-> f[n]]
  BY <1>3
<1>5. Walks(f)
  <2>1. \A n \in 1..N : f[n] # <<>>
    BY <1>4, WalkGoesOn
  <2>2. ASSUME NEW n \in 1..N
        PROVE  f[n] = IF n = 1 THEN Children(tree, <<>>) ELSE Opened(tree, f[n - 1])
    <3>1. CASE n = 1
      BY <1>4, <3>1 DEF Turns
    <3>2. CASE n # 1
      <4>1. n \in 2..N /\ n - 1 \in 1..N
        <5> HIDE DEF N
        <5> QED BY <1>1, <3>2
      <4>2. QED
        BY <1>4, <2>1, <3>2, <4>1 DEF Turns
    <3>3. QED
      BY <3>1, <3>2
  <2>3. QED
    BY <1>4, <2>2
<1>6. Walks(trail)
  BY <1>5
<1>7. Turns(trail, tree) /\ DOMAIN trail = 1..N
  <2> HIDE DEF trail
  <2>1. trail = [n \in 1..N |-> IF n = 1 THEN Children(tree, <<>>) ELSE Opened(tree, trail[n - 1])]
    BY <1>6
  <2>2. DOMAIN trail = 1..N
    BY <2>1
  <2>3. \A n \in 1..N : trail[n] = IF n = 1 THEN Children(tree, <<>>) ELSE Opened(tree, trail[n - 1])
    BY <2>1
  <2>4. \A n \in 2..N : n \in 1..N /\ n # 1
    <3> HIDE DEF N
    <3> QED BY <1>1
  <2>5. QED
    BY <2>2, <2>3, <2>4 DEF Turns
<1>8. Widgets(tree) = [n \in DOMAIN trail |-> Head(trail[n])]
  BY DEF Widgets
<1> HIDE DEF trail
<1>9. Enumerates(Widgets(tree), tree)
  BY <1>7, <1>8, TurnsEnumerate
<1>10. Enumerates(FromTop(tree), tree)
  <2>1. FromTop(tree) = CHOOSE s \in [1..N -> DOMAIN tree] :
          \A i, j \in DOMAIN s : i < j => Before(s[i], s[j])
    BY DEF FromTop
  <2>2. \E s \in [1..N -> DOMAIN tree] : \A i, j \in DOMAIN s : i < j => Before(s[i], s[j])
    BY <1>9 DEF Enumerates
  <2>3. QED
    BY <2>1, <2>2 DEF Enumerates
<1>11. QED
  BY <1>9, <1>10, OneOrder

\* What Divar's adapter reads from a page is what stands there.
LEMMA DivarReads ==
  ASSUME NEW tree, IsTree(tree)
  PROVE  /\ SameFirsts(DivarAttributes(tree), DivarItems(tree))
         /\ DivarPrice(DivarAttributes(tree)) = DivarPrice(DivarItems(tree))
<1> DEFINE X == UNION {Range(tree[p]) : p \in DOMAIN tree}
           w == FromTop(tree)
           s == [n \in DOMAIN w |-> tree[w[n]]]
           items == DivarItems(tree)
<1>1. items = FlattenSeq(s)
  BY DEF DivarItems, ItemsIn
<1>2. DivarAttributes(tree) = FirstOfLabels(items)
  BY WidgetsFromTop DEF DivarAttributes, DivarItems
<1>3. s \in Seq(Seq(X))
  <2>1. \A p \in DOMAIN tree : tree[p] \in Seq(X)
    <3>1. \A R, T : R \subseteq T => Seq(R) \subseteq Seq(T)
      OBVIOUS
    <3>2. ASSUME NEW p \in DOMAIN tree PROVE tree[p] \in Seq(X)
      <4>1. tree[p] \in Seq(Range(tree[p])) /\ Range(tree[p]) \subseteq X
        BY DEF IsTree
      <4> HIDE DEF X
      <4>2. QED
        BY <3>1, <4>1
    <3>3. QED
      BY <3>2
  <2>2. Cardinality(DOMAIN tree) \in Nat
    BY FS_CardinalityType DEF IsTree
  <2>3. DOMAIN w = 1..Cardinality(DOMAIN tree) /\ \A n \in DOMAIN w : w[n] \in DOMAIN tree
    BY WidgetsFromTop DEF Enumerates
  <2> HIDE DEF X, w
  <2>4. s \in [1..Cardinality(DOMAIN tree) -> Seq(X)]
    BY <2>1, <2>3
  <2>5. QED
    BY <2>2, <2>4
<1>4. \A a, b \in X : a.label = b.label => a.field = b.field
  BY DEF IsTree
<1> HIDE DEF X, s, items
<1>5. items \in Seq(X)
  BY <1>1, <1>3, Flattening
<1>6. SameFirsts(FirstOfLabels(items), items)
  BY <1>4, <1>5, FirstOfLabelsKept
<1>7. ASSUME NEW a, NEW b, SameFirsts(a, b) PROVE DivarPrice(a) = DivarPrice(b)
  <2>1. "total" \in Labels(a) <=> "total" \in Labels(b)
    BY <1>7 DEF SameFirsts, Keys, Labels
  <2>2. \A v : LabelText(a, v) = LabelText(b, v)
    BY <1>7 DEF SameFirsts, Keys, LabelText
  <2>3. QED
    BY <2>1, <2>2 DEF DivarPrice
<1>8. QED
  BY <1>2, <1>6, <1>7 DEF items
-----------------------------------------------------------------------------
(* The rows of a stream.                                                    *)

IsText(rows, i) == rows[i].body.is = "text"

LEMMA InItsRange ==
  ASSUME NEW X, NEW s \in Seq(X)
  PROVE  s \in Seq(Range(s))
BY DEF Range

\* A text that misleads nobody runs into no row, and no token in it looks like
\* one.
LEMMA PrintedIs ==
  ASSUME NEW rows, IsStream(rows), ~ Misleading(rows), NEW i \in DOMAIN rows
  PROVE  LET p == Printed(rows, i) IN
         /\ p \in Seq(Range(p)) /\ Len(p) \in Nat /\ Len(p) >= 2
         /\ p[1].is = "id" /\ p[1].of = rows[i].id
         /\ \A j \in 2..Len(p) : p[j].is # "id"
         /\ ~ IsText(rows, i) => Len(p) = 2 /\ p[2].is = "json" /\ p[2].of = rows[i].body
         /\ IsText(rows, i) => /\ p[2].is = "tag"
                               /\ \A j \in 3..Len(p) : p[j].is = "json" => p[j].of.is # "listing"
<1> DEFINE p == Printed(rows, i)
           id == [is |-> "id", of |-> rows[i].id]
           tag == [is |-> "tag"]
           json == [is |-> "json", of |-> rows[i].body]
           prints == rows[i].body.prints
           X == {id, tag, json} \cup Range(prints)
<1>1. /\ DOMAIN rows = 1..Len(rows) /\ Len(rows) \in Nat
      /\ \A k \in DOMAIN rows : IsText(rows, k) => rows[k].body.prints \in Seq(Range(rows[k].body.prints))
  BY DEF IsStream, IsText
<1>2. ~ (i > 1 /\ EndsInHex(rows[i - 1].body))
  <2> SUFFICES ASSUME i > 1, EndsInHex(rows[i - 1].body) PROVE FALSE
    OBVIOUS
  <2> DEFINE said == rows[i - 1].body.prints
  <2>1. i - 1 \in DOMAIN rows
    BY <1>1
  <2>2. IsText(rows, i - 1) /\ said # <<>> /\ said[Len(said)].is = "hex"
    BY DEF EndsInHex, IsText, Last
  <2>3. said \in Seq(Range(said))
    BY <1>1, <2>1, <2>2
  <2>4. said[Len(said)] \in Range(said)
    <3> HIDE DEF said
    <3> QED BY <2>2, <2>3
  <2>5. QED
    BY <2>1, <2>2, <2>4 DEF Misleading, IsText
<1>3. p = <<id>> \o (IF IsText(rows, i) THEN <<tag>> \o prints ELSE <<json>>)
  BY <1>2 DEF Printed, IsText
<1>4. CASE ~ IsText(rows, i)
  <2>1. p \in Seq(X) /\ Len(p) = 2 /\ p[1] = id /\ p[2] = json
    <3>1. id \in X /\ json \in X
      OBVIOUS
    <3>2. p = <<id>> \o <<json>>
      BY <1>3, <1>4
    <3> HIDE DEF p, id, json, X
    <3>3. QED
      BY <3>1, <3>2
  <2>2. p \in Seq(Range(p))
    <3>1. p \in Seq(X)
      BY <2>1
    <3> HIDE DEF p, X
    <3>2. QED
      BY <3>1, InItsRange
  <2>3. /\ id.is = "id" /\ id.of = rows[i].id
        /\ json.is = "json" /\ json.is # "id" /\ json.of = rows[i].body
    OBVIOUS
  <2> HIDE DEF p, X, id, json
  <2>4. QED
    BY <1>4, <2>1, <2>2, <2>3 DEF p
<1>5. CASE IsText(rows, i)
  <2>1. prints \in Seq(Range(prints))
    BY <1>1, <1>5
  <2>2. prints \in Seq(X)
    <3>1. \A R, T : R \subseteq T => Seq(R) \subseteq Seq(T)
      OBVIOUS
    <3>2. Range(prints) \subseteq X
      OBVIOUS
    <3> HIDE DEF X, prints
    <3>3. QED
      BY <2>1, <3>1, <3>2
  <2>3. id \in X /\ tag \in X
    OBVIOUS
  <2>4. /\ p \in Seq(X) /\ Len(p) = Len(prints) + 2 /\ Len(prints) \in Nat
        /\ p[1] = id /\ p[2] = tag
        /\ \A j \in 1..Len(prints) : p[j + 2] = prints[j]
    <3> HIDE DEF X, id, tag, prints, p
    <3>1. p = <<id>> \o (<<tag>> \o prints)
      BY <1>3, <1>5
    <3>2. QED
      BY <2>2, <2>3, <3>1
  <2>5. \A j \in 3..Len(p) : p[j] \in Range(prints)
    <3> HIDE DEF p, prints, X
    <3>1. \A j \in 3..Len(p) : j - 2 \in 1..Len(prints) /\ (j - 2) + 2 = j
      BY <2>4
    <3>2. \A k \in 1..Len(prints) : prints[k] \in Range(prints)
      BY <2>1 DEF Range
    <3>3. QED
      BY <2>4, <3>1, <3>2
  <2>6. \A token \in Range(prints) :
          token.is \notin {"id", "hex"} /\ (token.is = "json" => token.of.is # "listing")
    BY <1>5 DEF Misleading, IsText
  <2>7. \A j \in 2..Len(p) : j = 2 \/ j \in 3..Len(p)
    <3> HIDE DEF p
    <3> QED BY <2>4
  <2>8. p \in Seq(Range(p))
    <3> HIDE DEF p, X
    <3> QED BY <2>4 DEF Range
  <2>9. p[1].is = "id" /\ p[1].of = rows[i].id /\ p[2].is = "tag"
    BY <2>4
  <2> HIDE DEF p, X, prints
  <2>10. QED
    BY <1>5, <2>4, <2>5, <2>6, <2>7, <2>8, <2>9 DEF p
<1>6. QED
  BY <1>4, <1>5

\* The tokens of a stream, and where each row ends.
Stream(t, off, rows) ==
  /\ off \in [0..Len(rows) -> Nat] /\ off[0] = 0
  /\ \A n \in 1..Len(rows) : off[n] = off[n - 1] + Len(Printed(rows, n))
  /\ Len(t) = off[Len(rows)]
  /\ \A n \in 1..Len(rows) : \A j \in 1..Len(Printed(rows, n)) :
       t[off[n - 1] + j] = Printed(rows, n)[j]
  /\ \A m, n \in 0..Len(rows) : m <= n => off[m] + 2 * (n - m) <= off[n]

LEMMA StreamIs ==
  ASSUME NEW rows, IsStream(rows), ~ Misleading(rows)
  PROVE  /\ Tokens(rows) \in Seq(Range(Tokens(rows)))
         /\ \E off : Stream(Tokens(rows), off, rows)
<1> DEFINE L == Len(rows)
           s == [i \in DOMAIN rows |-> Printed(rows, i)]
           X == UNION {Range(s[i]) : i \in DOMAIN rows}
           t == Tokens(rows)
<1>1. L \in Nat /\ DOMAIN rows = 1..L
  BY DEF IsStream
<1>2. s \in Seq(Seq(X))
  <2>1. ASSUME NEW i \in DOMAIN rows PROVE s[i] \in Seq(X)
    <3>1. s[i] \in Seq(Range(s[i]))
      BY PrintedIs
    <3>2. Range(s[i]) \subseteq X
      OBVIOUS
    <3>3. \A R, T : R \subseteq T => Seq(R) \subseteq Seq(T)
      OBVIOUS
    <3> HIDE DEF s, X
    <3>4. QED
      BY <3>1, <3>2, <3>3
  <2>2. s \in [1..L -> Seq(X)]
    <3> HIDE DEF X, L
    <3> QED BY <1>1, <2>1
  <2> HIDE DEF s, X, L
  <2>3. QED
    BY <1>1, <2>2
<1>3. Len(s) = L /\ \A n \in 1..L : s[n] = Printed(rows, n)
  BY <1>1
<1>4. t = FlattenSeq(s)
  BY DEF Tokens
<1>5. \A n \in 1..L : Len(s[n]) \in Nat /\ Len(s[n]) >= 2
  BY <1>1, <1>3, PrintedIs
<1> HIDE DEF s, X, t, L
<1>6. t \in Seq(X)
  BY <1>2, <1>4, Flattening
<1>7. PICK off : Ends(off, s) /\ Flat(t, off, s)
  BY <1>2, <1>4, Flattening
<1>8. /\ off \in [0..L -> Nat] /\ off[0] = 0
      /\ \A n \in 1..L : off[n] = off[n - 1] + Len(s[n])
  BY <1>3, <1>7 DEF Ends
<1> DEFINE T == {n \in 0..L : \A m \in 0..n : off[m] + 2 * (n - m) <= off[n]}
<1>9. 0 \in T
  BY <1>1, <1>8
<1>10. ASSUME NEW n \in 1..L, n - 1 \in T PROVE n \in T
  <2>1. off[n] >= off[n - 1] + 2 /\ n \in 0..L /\ off[n] \in Nat /\ off[n - 1] \in Nat /\ n - 1 \in 0..L
    <3>1. n \in 0..L /\ n - 1 \in 0..L
      BY <1>1
    <3>2. off[n] \in Nat /\ off[n - 1] \in Nat /\ off[n] = off[n - 1] + Len(s[n])
      BY <1>8, <3>1
    <3>3. QED
      BY <1>5, <3>1, <3>2
  <2>2. ASSUME NEW m \in 0..n PROVE off[m] + 2 * (n - m) <= off[n]
    <3>1. CASE m = n
      BY <1>1, <2>1, <3>1
    <3>2. CASE m # n
      <4>1. m \in 0..(n - 1) /\ m \in 0..L
        BY <1>1, <3>2
      <4>2. off[m] + 2 * ((n - 1) - m) <= off[n - 1] /\ off[m] \in Nat
        BY <1>8, <1>10, <4>1
      <4>3. \A a, b, c \in Nat, x, y \in Int : a + 2 * ((x - 1) - y) <= b /\ c >= b + 2 => a + 2 * (x - y) <= c
        OBVIOUS
      <4>4. n \in Int /\ m \in Int
        BY <1>1
      <4>5. QED
        BY <2>1, <4>2, <4>3, <4>4
    <3>3. QED
      BY <3>1, <3>2
  <2>3. QED
    BY <2>1, <2>2
<1>11. 0..L \subseteq T
  <2> HIDE DEF T
  <2> QED BY <1>1, <1>9, <1>10, Climb
<1>12. \A m, n \in 0..L : m <= n => off[m] + 2 * (n - m) <= off[n]
  <2>1. \A m, n \in 0..L : m <= n => m \in 0..n /\ n \in T
    <3> HIDE DEF T
    <3> QED BY <1>1, <1>11
  <2>2. QED
    BY <2>1
<1>13. /\ Len(t) = off[L]
       /\ \A n \in 1..L : \A j \in 1..Len(s[n]) : t[off[n - 1] + j] = s[n][j]
  BY <1>3, <1>7 DEF Flat
<1>14. Stream(t, off, rows)
  BY <1>3, <1>8, <1>12, <1>13 DEF Stream, L
<1>15. t \in Seq(Range(t))
  BY <1>6 DEF Range
<1>16. QED
  BY <1>14, <1>15 DEF t

\* What the first k rows leave when they are scanned.
ReadSoFar(scan, k, off, rows) ==
  /\ scan.at \in Nat /\ scan.at <= off[k]
  /\ k > 0 => scan.at > off[k - 1]
  /\ \A i \in 1..k : ~ IsText(rows, i) =>
       rows[i].id \in DOMAIN scan.rows /\ scan.rows[rows[i].id] = rows[i].body
  /\ \A id \in DOMAIN scan.rows : \E i \in 1..k :
       rows[i].id = id /\ (IsText(rows, i) => scan.rows[id].is # "listing")

LEMMA RowsIn ==
  ASSUME NEW t, NEW off, NEW rows, IsStream(rows), ~ Misleading(rows),
         Stream(t, off, rows), NEW n \in 1..Len(rows)
  PROVE  /\ off[n - 1] \in Nat /\ off[n] \in Nat
         /\ off[n] = off[n - 1] + Len(Printed(rows, n))
         /\ off[n] <= Len(t) /\ (n = Len(rows) => off[n] = Len(t))
         /\ \A j \in 1..Len(Printed(rows, n)) : t[off[n - 1] + j] = Printed(rows, n)[j]
<1> DEFINE L == Len(rows)
<1>1. L \in Nat
  BY DEF IsStream
<1>2. n - 1 \in 0..L /\ n \in 0..L /\ L \in 0..L
  BY <1>1
<1>3. /\ \A i \in 0..L : off[i] \in Nat
      /\ off[n] = off[n - 1] + Len(Printed(rows, n))
      /\ Len(t) = off[L]
      /\ \A j \in 1..Len(Printed(rows, n)) : t[off[n - 1] + j] = Printed(rows, n)[j]
      /\ \A i, j \in 0..L : i <= j => off[i] + 2 * (j - i) <= off[j]
  BY DEF Stream
<1> HIDE DEF L
<1>4. off[n] <= off[L]
  <2>1. n <= L /\ L - n \in Nat
    BY <1>1, <1>2
  <2>2. off[n] + 2 * (L - n) <= off[L] /\ off[n] \in Nat /\ off[L] \in Nat
    BY <1>2, <1>3, <2>1
  <2>3. \A a, b, c \in Nat : a + 2 * c <= b => a <= b
    OBVIOUS
  <2>4. QED
    BY <2>1, <2>2, <2>3
<1>5. QED
  BY <1>2, <1>3, <1>4 DEF L

IdsAfter(t, at) == {i \in DOMAIN t : i > at /\ t[i].is = "id"}

\* Where the next id is.
LEMMA NextId ==
  ASSUME NEW t, NEW off, NEW rows, IsStream(rows), ~ Misleading(rows),
         Stream(t, off, rows), t \in Seq(Range(t)), NEW k \in 0..Len(rows),
         NEW at \in Nat, at <= off[k], k > 0 => at > off[k - 1]
  PROVE  /\ k = Len(rows) => IdsAfter(t, at) = {}
         /\ k < Len(rows) => IdsAfter(t, at) # {} /\ Min(IdsAfter(t, at)) = off[k] + 1
<1> DEFINE L == Len(rows)
           ids == {i \in DOMAIN t : i > at /\ t[i].is = "id"}
<1>1. /\ L \in Nat /\ DOMAIN rows = 1..L /\ Len(t) \in Nat /\ DOMAIN t = 1..Len(t)
      /\ \A n \in 0..L : off[n] \in Nat /\ off[n] <= Len(t)
      /\ Len(t) = off[L]
  <2>1. L \in Nat /\ DOMAIN rows = 1..L /\ Len(t) \in Nat /\ DOMAIN t = 1..Len(t)
    BY DEF IsStream
  <2>2. \A n \in 0..L : off[n] \in Nat
    BY DEF Stream
  <2>3. \A m, n \in 0..L : m <= n => off[m] + 2 * (n - m) <= off[n]
    BY DEF Stream
  <2>4. Len(t) = off[L]
    BY DEF Stream
  <2> HIDE DEF L
  <2>5. ASSUME NEW n \in 0..L PROVE off[n] <= off[L]
    <3>1. L \in 0..L /\ n <= L /\ L - n \in Nat
      BY <2>1
    <3>2. off[n] + 2 * (L - n) <= off[L] /\ off[n] \in Nat /\ off[L] \in Nat
      BY <2>2, <2>3, <3>1
    <3>3. \A a, b, c \in Nat : a + 2 * c <= b => a <= b
      OBVIOUS
    <3>4. QED
      BY <3>1, <3>2, <3>3
  <2>6. QED
    BY <2>1, <2>2, <2>4, <2>5
<1>2. \A n \in 1..L : \A j \in 1..Len(Printed(rows, n)) : t[off[n - 1] + j] = Printed(rows, n)[j]
  BY DEF Stream
<1>3. \A n \in 1..L : off[n] = off[n - 1] + Len(Printed(rows, n))
  BY DEF Stream
<1>4. \A n \in 1..L : /\ Len(Printed(rows, n)) \in Nat /\ Len(Printed(rows, n)) >= 2
                      /\ Printed(rows, n)[1].is = "id"
                      /\ \A j \in 2..Len(Printed(rows, n)) : Printed(rows, n)[j].is # "id"
  BY <1>1, PrintedIs
<1> HIDE DEF L
<1>5. ASSUME NEW i \in DOMAIN t, i > at, i <= off[k] PROVE t[i].is # "id"
  <2>1. k > 0
    <3>1. off[0] = 0
      BY DEF Stream
    <3>2. i > 0
      BY <1>1
    <3>3. QED
      BY <1>1, <1>5, <3>1, <3>2 DEF L
  <2>2. k \in 1..L /\ k - 1 \in 0..L /\ k \in 0..L
    BY <1>1, <2>1 DEF L
  <2> DEFINE j == i - off[k - 1]
             len == Len(Printed(rows, k))
  <2>3. /\ off[k - 1] \in Nat /\ off[k] = off[k - 1] + len /\ len \in Nat /\ i \in Nat
        /\ at > off[k - 1]
    BY <1>1, <1>3, <1>4, <2>1, <2>2
  <2>4. j \in 2..len /\ i = off[k - 1] + j
    <3> HIDE DEF len
    <3> QED BY <1>5, <2>3
  <2> HIDE DEF j, len
  <2>5. j \in 1..Len(Printed(rows, k)) /\ j \in 2..Len(Printed(rows, k))
    BY <2>3, <2>4 DEF len
  <2>6. t[i] = Printed(rows, k)[j]
    BY <1>2, <2>2, <2>4, <2>5
  <2>7. QED
    BY <1>4, <2>2, <2>5, <2>6
<1>6. ASSUME k = L PROVE ids = {}
  BY <1>1, <1>5, <1>6
<1>7. ASSUME k < L PROVE ids # {} /\ Min(ids) = off[k] + 1
  <2>1. k + 1 \in 1..L /\ (k + 1) - 1 = k /\ k + 1 \in 0..L /\ k \in 0..L
    BY <1>1, <1>7 DEF L
  <2>2. off[k + 1] = off[k] + Len(Printed(rows, k + 1)) /\ 1 \in 1..Len(Printed(rows, k + 1))
    BY <1>3, <1>4, <2>1
  <2>3. t[off[k] + 1] = Printed(rows, k + 1)[1]
    BY <1>2, <2>1, <2>2
  <2>4. off[k] + 1 \in DOMAIN t /\ off[k] + 1 > at
    <3>1. off[k] \in Nat /\ off[k + 1] \in Nat /\ off[k + 1] <= Len(t)
      BY <1>1, <2>1
    <3>2. Len(Printed(rows, k + 1)) \in Nat /\ Len(Printed(rows, k + 1)) >= 2
      BY <1>4, <2>1
    <3>3. off[k] + 2 <= off[k + 1] /\ at < off[k] + 1
      BY <1>1, <2>2, <3>1, <3>2, SMTT(30)
    <3>4. QED
      BY <3>1, <3>3
  <2>5. off[k] + 1 \in ids
    BY <1>4, <2>1, <2>3, <2>4
  <2>6. \A i \in ids : off[k] + 1 <= i
    BY <1>1, <1>5, <2>1
  <2>7. ids \in SUBSET Nat /\ \A i \in ids : i \in Nat
    BY <1>1
  <2> HIDE DEF ids
  <2>8. Min(ids) \in ids /\ Min(ids) <= off[k] + 1
    BY <2>5, <2>7, MinOfNumbers
  <2>9. off[k] \in Nat /\ Min(ids) \in Nat /\ off[k] + 1 <= Min(ids)
    BY <1>1, <2>1, <2>6, <2>7, <2>8
  <2>10. QED
    BY <2>5, <2>8, <2>9
<1>8. ids = IdsAfter(t, at)
  BY DEF IdsAfter
<1> HIDE DEF ids
<1>9. QED
  BY <1>6, <1>7, <1>8 DEF L

LEMMA ScanStep ==
  ASSUME NEW t, NEW off, NEW rows, IsStream(rows), ~ Misleading(rows),
         Stream(t, off, rows), t \in Seq(Range(t)), NEW scan, NEW k \in 0..Len(rows),
         ReadSoFar(scan, k, off, rows)
  PROVE  /\ k = Len(rows) => Scanned(t, scan) = scan
         /\ k < Len(rows) => ReadSoFar(Scanned(t, scan), k + 1, off, rows)
<1> DEFINE L == Len(rows)
           ids == IdsAfter(t, scan.at)
           at == Min(ids)
           start == IF at < Len(t) /\ t[at + 1].is = "tag" THEN at + 2 ELSE at + 1
           next == Scanned(t, scan)
<1>1. next = IF ids = {} THEN scan
             ELSE IF start <= Len(t) /\ t[start].is = "json"
               THEN [at |-> start, rows |-> With(scan.rows, t[at].of, t[start].of)]
               ELSE [at |-> at, rows |-> scan.rows]
  BY DEF Scanned, IdsAfter
<1>2. /\ scan.at \in Nat /\ scan.at <= off[k] /\ (k > 0 => scan.at > off[k - 1])
      /\ \A i \in 1..k : ~ IsText(rows, i) =>
           rows[i].id \in DOMAIN scan.rows /\ scan.rows[rows[i].id] = rows[i].body
      /\ \A id \in DOMAIN scan.rows : \E i \in 1..k :
           rows[i].id = id /\ (IsText(rows, i) => scan.rows[id].is # "listing")
  BY DEF ReadSoFar
<1>3. /\ k = L => ids = {}
      /\ k < L => ids # {} /\ at = off[k] + 1
  <2> DEFINE where == scan.at
  <2>1. where \in Nat /\ where <= off[k] /\ (k > 0 => where > off[k - 1])
    BY <1>2
  <2> HIDE DEF where
  <2>2. /\ k = Len(rows) => IdsAfter(t, where) = {}
        /\ k < Len(rows) => IdsAfter(t, where) # {} /\ Min(IdsAfter(t, where)) = off[k] + 1
    BY <2>1, NextId
  <2>3. QED
    BY <2>2 DEF where
<1> DEFINE Fits(i) ==
             /\ off[i - 1] \in Nat /\ off[i] \in Nat
             /\ off[i] = off[i - 1] + Len(Printed(rows, i))
             /\ off[i] <= Len(t) /\ (i = L => off[i] = Len(t))
             /\ \A j \in 1..Len(Printed(rows, i)) : t[off[i - 1] + j] = Printed(rows, i)[j]
<1>4. \A i \in 1..L : Fits(i)
  BY RowsIn
<1>5. ASSUME k < L PROVE ReadSoFar(next, k + 1, off, rows)
  <2> DEFINE n == k + 1
             p == Printed(rows, n)
             len == Len(p)
  <2>1. /\ L \in Nat /\ DOMAIN rows = 1..L /\ n \in 1..L /\ n - 1 = k /\ k \in 0..L /\ n \in 0..L
        /\ Len(t) \in Nat /\ k \in Nat
    BY <1>5 DEF IsStream
  <2>2. /\ p \in Seq(Range(p)) /\ len \in Nat /\ len >= 2
        /\ p[1].is = "id" /\ p[1].of = rows[n].id
        /\ \A j \in 2..len : p[j].is # "id"
        /\ ~ IsText(rows, n) => len = 2 /\ p[2].is = "json" /\ p[2].of = rows[n].body
        /\ IsText(rows, n) => /\ p[2].is = "tag"
                              /\ \A j \in 3..len : p[j].is = "json" => p[j].of.is # "listing"
    BY <2>1, PrintedIs
  <2>3. /\ off[k] \in Nat /\ off[n] \in Nat /\ off[n] = off[k] + len
        /\ \A j \in 1..len : t[off[k] + j] = p[j]
        /\ off[n] <= Len(t) /\ (n = L => off[n] = Len(t))
    <3>1. Fits(n)
      <4> HIDE DEF n, L, Fits
      <4> QED BY <1>4, <2>1
    <3>2. n - 1 = k
      BY <2>1
    <3> HIDE DEF n
    <3>3. QED
      BY <3>1, <3>2
  <2>4. off[n] <= Len(t)
    BY <2>3
  <2>5. ids # {} /\ at = off[k] + 1
    BY <1>3, <1>5
  <2>6. n # L => off[n] + 1 <= Len(t) /\ t[off[n] + 1].is = "id"
    <3> SUFFICES ASSUME n # L
                 PROVE  off[n] + 1 <= Len(t) /\ t[off[n] + 1].is = "id"
      OBVIOUS
    <3> DEFINE m == n + 1
               q == Printed(rows, m)
    <3>1. m \in 1..L /\ m - 1 = n /\ m \in DOMAIN rows
      <4>1. n \in Nat /\ n <= L /\ n >= 1
        <5> HIDE DEF n, L
        <5> QED BY <2>1
      <4> HIDE DEF n, L
      <4>2. m \in 1..L /\ m - 1 = n
        BY <2>1, <4>1
      <4> HIDE DEF m
      <4>3. QED
        BY <2>1, <4>2
    <3>2. Len(q) \in Nat /\ Len(q) >= 2 /\ q[1].is = "id"
      <4> HIDE DEF m
      <4> QED BY <3>1, PrintedIs
    <3>3. Fits(m)
      <4> HIDE DEF m, L, Fits
      <4> QED BY <1>4, <3>1
    <3>4. /\ off[m] = off[n] + Len(q) /\ off[m] <= Len(t)
          /\ \A j \in 1..Len(q) : t[off[n] + j] = q[j]
      <4> HIDE DEF m, n
      <4> QED BY <3>1, <3>3
    <3> HIDE DEF n, m, q
    <3>5. 1 \in 1..Len(q)
      BY <3>2
    <3>6. t[off[n] + 1] = q[1]
      BY <3>4, <3>5
    <3>7. \A a, b, c, d \in Nat : b = a + c /\ c >= 2 /\ b <= d => a + 1 <= d
      OBVIOUS
    <3>8. off[m] \in Nat
      BY <2>3, <3>2, <3>4
    <3>9. QED
      BY <2>1, <2>3, <3>2, <3>4, <3>6, <3>7, <3>8
  <2>7. n = L => off[n] = Len(t)
    BY <2>3
  <2> HIDE DEF p, len, L, ids, at
  <2>8. t[at].of = rows[n].id /\ at \in Nat /\ at > off[k] /\ at <= off[n] /\ at + 1 <= off[n]
        /\ at < Len(t) /\ t[at + 1] = p[2]
    <3>1. 1 \in 1..len /\ 2 \in 1..len
      BY <2>2
    <3>2. t[off[k] + 1] = p[1] /\ t[off[k] + 2] = p[2]
      BY <2>3, <3>1
    <3> HIDE DEF n
    <3>3. at + 1 = off[k] + 2
      BY <2>3, <2>5
    <3>4. at \in Nat /\ at > off[k] /\ at <= off[n] /\ at + 1 <= off[n] /\ at < Len(t)
      <4>1. \A a, b, c, d \in Nat : b = a + c /\ c >= 2 /\ b <= d =>
              /\ a + 1 \in Nat /\ a + 1 > a /\ a + 1 <= b /\ (a + 1) + 1 <= b /\ a + 1 < d
        OBVIOUS
      <4> QED
        BY <2>1, <2>2, <2>3, <2>4, <2>5, <4>1
    <3>5. QED
      BY <2>2, <2>5, <3>2, <3>3, <3>4
  <2>9. \A i \in 1..k : rows[i].id # rows[n].id
    <3>1. \A i, j \in DOMAIN rows : rows[i].id = rows[j].id => i = j
      BY DEF IsStream
    <3>2. \A i \in 1..k : i \in DOMAIN rows /\ i # n
      BY <2>1
    <3>3. n \in DOMAIN rows
      BY <2>1
    <3> HIDE DEF n
    <3>4. QED
      BY <3>1, <3>2, <3>3
  <2>10. \A i \in 1..n : i \in 1..k \/ i = n
    BY <2>1
  <2>11. \A i \in 1..k : i \in 1..n
    BY <2>1
  <2>12. n \in 1..n /\ n - 1 = k /\ n \in Nat
    BY <2>1
  <2>13. ASSUME NEW v, (~ IsText(rows, n) => v = rows[n].body), (IsText(rows, n) => v.is # "listing"),
                NEW to \in Nat, to > off[k], to <= off[n],
                next = [at |-> to, rows |-> With(scan.rows, rows[n].id, v)]
         PROVE  ReadSoFar(next, n, off, rows)
    <3> DEFINE R == With(scan.rows, rows[n].id, v)
    <3>1. /\ DOMAIN R = DOMAIN scan.rows \cup {rows[n].id} /\ R[rows[n].id] = v
          /\ \A id \in DOMAIN scan.rows : id # rows[n].id => R[id] = scan.rows[id]
      BY DEF With
    <3> HIDE DEF R, n
    <3>2. next.at = to /\ next.rows = R
      BY <2>13 DEF R
    <3>3. ASSUME NEW i \in 1..n, ~ IsText(rows, i)
          PROVE  rows[i].id \in DOMAIN R /\ R[rows[i].id] = rows[i].body
      <4>1. CASE i = n
        BY <2>13, <3>1, <3>3, <4>1
      <4>2. CASE i \in 1..k
        BY <1>2, <2>9, <3>1, <3>3, <4>2
      <4>3. QED
        BY <2>10, <4>1, <4>2
    <3>4. ASSUME NEW id \in DOMAIN R
          PROVE  \E i \in 1..n : rows[i].id = id /\ (IsText(rows, i) => R[id].is # "listing")
      <4>1. CASE id = rows[n].id
        BY <2>12, <2>13, <3>1, <4>1
      <4>2. CASE id # rows[n].id
        <5>1. id \in DOMAIN scan.rows /\ R[id] = scan.rows[id]
          BY <3>1, <4>2
        <5>2. PICK i \in 1..k : rows[i].id = id /\ (IsText(rows, i) => scan.rows[id].is # "listing")
          BY <1>2, <5>1
        <5>3. QED
          BY <2>11, <5>1, <5>2
      <4>3. QED
        BY <4>1, <4>2
    <3>5. QED
      BY <2>12, <2>13, <3>2, <3>3, <3>4 DEF ReadSoFar
  <2>14. CASE ~ IsText(rows, n)
    <3>1. start = at + 1 /\ start <= Len(t) /\ t[start].is = "json" /\ t[start].of = rows[n].body
      <4> HIDE DEF n
      <4> QED BY <2>1, <2>2, <2>8, <2>14
    <3>2. start \in Nat /\ start > off[k] /\ start <= off[n]
      <4> HIDE DEF n, start
      <4> QED BY <2>3, <2>8, <3>1
    <3> HIDE DEF start, n, next
    <3>3. next = [at |-> start, rows |-> With(scan.rows, rows[n].id, rows[n].body)]
      BY <1>1, <2>5, <2>8, <3>1
    <3>4. QED
      BY <2>13, <2>14, <3>2, <3>3 DEF n
  <2>15. CASE IsText(rows, n)
    <3>1. start = at + 2
      <4> HIDE DEF n
      <4> QED BY <2>2, <2>8, <2>15
    <3>2. CASE len >= 3
      <4>1. t[start] = p[3] /\ start \in Nat /\ start > off[k] /\ start <= off[n] /\ start <= Len(t)
        <5> HIDE DEF n, start
        <5>1. 3 \in 1..len /\ off[k] + 3 = start
          BY <2>2, <2>3, <2>5, <3>1, <3>2
        <5>2. \A a, b, c, d \in Nat : b = a + c /\ c >= 3 /\ b <= d =>
                /\ a + 3 \in Nat /\ a + 3 > a /\ a + 3 <= b /\ a + 3 <= d
          OBVIOUS
        <5>3. t[off[k] + 3] = p[3]
          BY <2>3, <5>1
        <5>4. /\ off[k] + 3 \in Nat /\ off[k] + 3 > off[k] /\ off[k] + 3 <= off[n]
              /\ off[k] + 3 <= Len(t)
          BY <2>1, <2>2, <2>3, <2>4, <3>2, <5>2
        <5>5. QED
          BY <5>1, <5>3, <5>4
      <4>2. CASE t[start].is = "json"
        <5>1. t[start].of.is # "listing"
          <6> HIDE DEF n, start
          <6>1. 3 \in 3..len
            BY <2>2, <3>2
          <6>2. QED
            BY <2>2, <2>15, <4>1, <4>2, <6>1
        <5> HIDE DEF start, n, next
        <5>2. next = [at |-> start, rows |-> With(scan.rows, rows[n].id, t[start].of)]
          BY <1>1, <2>5, <2>8, <4>1, <4>2
        <5>3. QED
          BY <2>13, <2>15, <4>1, <5>1, <5>2 DEF n
      <4>3. CASE t[start].is # "json"
        <5> HIDE DEF start, next, n
        <5>1. next = [at |-> at, rows |-> scan.rows]
          BY <1>1, <2>5, <4>3
        <5>2. next.at = at /\ next.rows = scan.rows
          BY <5>1
        <5>3. ReadSoFar(next, n, off, rows)
          BY <1>2, <2>8, <2>10, <2>11, <2>12, <2>15, <5>2 DEF ReadSoFar
        <5>4. QED
          BY <5>3 DEF n
      <4>4. QED
        BY <4>2, <4>3
    <3>3. CASE len < 3
      <4>1. len = 2 /\ off[n] = at + 1
        <5> HIDE DEF n
        <5> QED BY <2>2, <2>3, <2>5, <3>3
      <4>2. ~ (start <= Len(t) /\ t[start].is = "json")
        <5>1. CASE n = L
          <6> HIDE DEF n, start
          <6> QED BY <2>1, <2>7, <2>8, <3>1, <4>1, <5>1
        <5>2. CASE n # L
          <6> HIDE DEF n, start
          <6>1. start = off[n] + 1
            BY <2>8, <3>1, <4>1
          <6>2. QED
            BY <2>6, <5>2, <6>1
        <5>3. QED
          BY <5>1, <5>2
      <4> HIDE DEF start, next, n
      <4>3. next = [at |-> at, rows |-> scan.rows]
        BY <1>1, <2>5, <4>2
      <4>4. next.at = at /\ next.rows = scan.rows
        BY <4>3
      <4>5. ReadSoFar(next, n, off, rows)
        BY <1>2, <2>8, <2>10, <2>11, <2>12, <2>15, <4>4 DEF ReadSoFar
      <4>6. QED
        BY <4>5 DEF n
    <3>4. QED
      BY <2>2, <3>2, <3>3
  <2>16. QED
    BY <2>14, <2>15
<1>6. k = L => next = scan
  BY <1>1, <1>3
<1>7. QED
  BY <1>5, <1>6

\* Dictionaries of the ids and values in B.
Dicts(B) == UNION {[D -> B] : D \in SUBSET B}

LEMMA WithIsDict ==
  ASSUME NEW B, NEW f \in Dicts(B), NEW x \in B, NEW v \in B
  PROVE  With(f, x, v) \in Dicts(B)
<1>1. PICK D \in SUBSET B : f \in [D -> B]
  BY DEF Dicts
<1>2. With(f, x, v) \in [D \cup {x} -> B]
  BY <1>1 DEF With
<1>3. QED
  BY <1>2 DEF Dicts

\* What a token is about.
About(t) == {t[i].of : i \in DOMAIN t}

Scans(t) == [at : Nat, rows : Dicts(About(t))]

LEMMA ScanStays ==
  ASSUME NEW t, t \in Seq(Range(t)), NEW scan \in Scans(t)
  PROVE  Scanned(t, scan) \in Scans(t)
<1> DEFINE ids == {i \in DOMAIN t : i > scan.at /\ t[i].is = "id"}
           at == Min(ids)
           start == IF at < Len(t) /\ t[at + 1].is = "tag" THEN at + 2 ELSE at + 1
           next == Scanned(t, scan)
           value == start <= Len(t) /\ t[start].is = "json"
           more == With(scan.rows, t[at].of, t[start].of)
<1>1. next = IF ids = {} THEN scan
             ELSE IF value THEN [at |-> start, rows |-> more]
               ELSE [at |-> at, rows |-> scan.rows]
  BY DEF Scanned
<1>2. Len(t) \in Nat /\ DOMAIN t = 1..Len(t)
  OBVIOUS
<1>3. scan.at \in Nat /\ scan.rows \in Dicts(About(t))
  BY DEF Scans
<1>4. CASE ids = {}
  BY <1>1, <1>4
<1>5. CASE ids # {}
  <2>1. ids \in SUBSET Nat
    BY <1>2
  <2>2. at \in ids
    <3> HIDE DEF ids
    <3> QED BY <1>5, <2>1, MinOfNumbers
  <2>3. at \in DOMAIN t /\ at \in Nat /\ at >= 1
    BY <1>2, <2>2
  <2>4. start \in Nat /\ start >= 1
    <3> HIDE DEF at
    <3> QED BY <2>3
  <2> HIDE DEF ids, at, start, more, next
  <2>5. CASE value
    <3>1. start \in DOMAIN t
      BY <1>2, <2>4, <2>5
    <3>2. t[at].of \in About(t) /\ t[start].of \in About(t)
      BY <2>3, <3>1 DEF About
    <3>3. more \in Dicts(About(t))
      BY <1>3, <3>2, WithIsDict DEF more
    <3>4. next = [at |-> start, rows |-> more]
      BY <1>1, <1>5, <2>5
    <3>5. QED
      BY <2>4, <3>3, <3>4 DEF Scans, next
  <2>6. CASE ~ value
    <3> HIDE DEF value
    <3>1. next = [at |-> at, rows |-> scan.rows]
      BY <1>1, <1>5, <2>6
    <3>2. QED
      BY <1>3, <2>3, <3>1 DEF Scans, next
  <2>7. QED
    BY <2>5, <2>6
<1>6. QED
  BY <1>4, <1>5

\* What the whole stream leaves.
IsRead(R, rows) ==
  /\ \A i \in DOMAIN rows : ~ IsText(rows, i) =>
       rows[i].id \in DOMAIN R /\ R[rows[i].id] = rows[i].body
  /\ \A id \in DOMAIN R : \E i \in DOMAIN rows :
       rows[i].id = id /\ (IsText(rows, i) => R[id].is # "listing")

\* The loop in FlightRows, as a function that exists.
Scanning(scan, t) ==
  scan = [n \in 0..Len(t) |-> IF n = 0 THEN [at |-> 0, rows |-> <<>>]
                              ELSE Scanned(t, scan[n - 1])]

LEMMA ScanExists ==
  ASSUME NEW t, t \in Seq(Range(t))
  PROVE  \E scan : Scanning(scan, t)
<1> DEFINE N == Len(t)
           S == Scans(t)
           none == [at |-> 0, rows |-> <<>>]
           H == [q \in (1..N) \X S |-> Scanned(t, q[2])]
<1>1. N \in Nat
  OBVIOUS
<1>2. none \in S
  <2>1. <<>> \in [{} -> About(t)]
    OBVIOUS
  <2>2. <<>> \in Dicts(About(t))
    BY <2>1 DEF Dicts
  <2>3. QED
    BY <2>2 DEF Scans
<1>3. \A y \in S : Scanned(t, y) \in S
  BY ScanStays
<1> HIDE DEF S, N
<1>4. H \in StepsIn(N, S) /\ \A n \in 1..N, y \in S : H[<<n, y>>] = Scanned(t, y)
  BY <1>3 DEF StepsIn
<1> HIDE DEF H, none
<1>5. PICK f : Repeated(f, N, S, none, H)
  BY <1>1, <1>2, <1>4, Recursion
<1>6. f \in [0..N -> S] /\ f[0] = none /\ \A n \in 1..N : f[n] = H[<<n, f[n - 1]>>]
  BY <1>5 DEF Repeated
<1>7. \A n \in 0..N : f[n] = IF n = 0 THEN none ELSE Scanned(t, f[n - 1])
  <2>1. ASSUME NEW n \in 0..N, n # 0 PROVE f[n] = Scanned(t, f[n - 1])
    <3>1. n \in 1..N /\ n - 1 \in 0..N
      BY <1>1, <2>1
    <3>2. f[n - 1] \in S
      BY <1>6, <3>1
    <3>3. QED
      BY <1>4, <1>6, <3>1, <3>2
  <2>2. QED
    BY <1>6, <2>1
<1>8. f = [n \in 0..N |-> f[n]]
  BY <1>6
<1>9. Scanning(f, t)
  BY <1>7, <1>8 DEF Scanning, N, none
<1>10. QED
  BY <1>9

LEMMA StreamIsRead ==
  ASSUME NEW rows, IsStream(rows), ~ Misleading(rows)
  PROVE  IsRead(FlightRows(Tokens(rows)), rows)
<1> DEFINE t == Tokens(rows)
           L == Len(rows)
           N == Len(t)
           scan == CHOOSE f : Scanning(f, t)
           K(n) == IF n <= L THEN n ELSE L
<1>1. PICK off : Stream(t, off, rows)
  BY StreamIs
<1>2. t \in Seq(Range(t)) /\ N \in Nat /\ L \in Nat /\ DOMAIN rows = 1..L
  BY StreamIs DEF IsStream
<1>3. Scanning(scan, t)
  BY <1>2, ScanExists
<1>4. FlightRows(t) = scan[N].rows
  BY DEF FlightRows, Scanning
<1>5. off[0] = 0 /\ off[L] = N /\ \A m, n \in 0..L : m <= n => off[m] + 2 * (n - m) <= off[n]
  BY <1>1 DEF Stream
<1>6. L <= N
  <2>1. off[0] + 2 * (L - 0) <= off[L]
    BY <1>2, <1>5
  <2> HIDE DEF L, N
  <2>2. QED
    BY <1>2, <1>5, <2>1
<1> HIDE DEF t, scan
<1>7. scan[0] = [at |-> 0, rows |-> <<>>] /\ \A n \in 1..N : scan[n] = Scanned(t, scan[n - 1])
  <2>1. scan = [n \in 0..N |-> IF n = 0 THEN [at |-> 0, rows |-> <<>>]
                               ELSE Scanned(t, scan[n - 1])]
    BY <1>3 DEF Scanning
  <2>2. 0 \in 0..N /\ \A n \in 1..N : n \in 0..N /\ n # 0
    BY <1>2
  <2> HIDE DEF N
  <2>3. QED
    BY <2>1, <2>2
<1> HIDE DEF L, N
<1> DEFINE T == {n \in 0..N : ReadSoFar(scan[n], K(n), off, rows)}
<1>8. 0 \in T
  <2>1. K(0) = 0 /\ 0 \in 0..N
    BY <1>2
  <2>2. scan[0].at = 0 /\ scan[0].rows = <<>> /\ DOMAIN <<>> = {}
    BY <1>7
  <2>3. ReadSoFar(scan[0], 0, off, rows)
    BY <1>5, <2>2 DEF ReadSoFar
  <2>4. QED
    BY <2>1, <2>3
<1>9. ASSUME NEW n \in 1..N, n - 1 \in T PROVE n \in T
  <2> DEFINE k == K(n - 1)
             y == scan[n - 1]
  <2>1. k \in 0..L /\ k \in 0..Len(rows) /\ n \in 0..N
    BY <1>2 DEF L
  <2>2. ReadSoFar(y, k, off, rows)
    BY <1>9
  <2>3. scan[n] = Scanned(t, y)
    BY <1>7
  <2> HIDE DEF y, k
  <2>4. /\ k = Len(rows) => Scanned(t, y) = y
        /\ k < Len(rows) => ReadSoFar(Scanned(t, y), k + 1, off, rows)
    BY <1>1, <1>2, <2>1, <2>2, ScanStep DEF t
  <2>5. CASE n <= L
    <3>1. k = n - 1 /\ k < L /\ k + 1 = n /\ K(n) = n
      BY <1>2, <2>5 DEF k
    <3>2. QED
      BY <2>1, <2>3, <2>4, <3>1 DEF L
  <2>6. CASE ~ n <= L
    <3>1. k = L /\ K(n) = L
      BY <1>2, <2>6 DEF k
    <3>2. QED
      BY <2>1, <2>2, <2>3, <2>4, <3>1 DEF L
  <2>7. QED
    BY <2>5, <2>6
<1>10. N \in T
  <2> HIDE DEF T
  <2>1. 0..N \subseteq T
    BY <1>2, <1>8, <1>9, Climb
  <2>2. QED
    BY <1>2, <2>1
<1>11. ReadSoFar(scan[N], L, off, rows)
  <2>1. K(N) = L
    BY <1>2, <1>6
  <2> HIDE DEF K
  <2>2. QED
    BY <1>10, <2>1
<1>12. IsRead(scan[N].rows, rows)
  BY <1>2, <1>11 DEF ReadSoFar, IsRead
<1>13. QED
  BY <1>4, <1>12 DEF t
-----------------------------------------------------------------------------
(* The values of a stream.                                                  *)

\* A link that leads to a value is followed to what was sent.
LEMMA LinkIsFollowed ==
  ASSUME NEW rows, IsStream(rows), NEW R, IsRead(R, rows),
         NEW value, value.is = "link", Direct(rows, value), NEW depth
  PROVE  Followed(R, [value |-> value, depth |-> depth])
           = [value |-> RowOf(rows, value), depth |-> depth + 1]
<1> DEFINE sent == {i \in DOMAIN rows : rows[i].id = value.to /\ rows[i].body.is # "text"}
           x == [value |-> value, depth |-> depth]
<1>1. \A i, j \in DOMAIN rows : rows[i].id = rows[j].id => i = j
  BY DEF IsStream
<1>2. \A i \in DOMAIN rows : rows[i].id = value.to => ~ IsText(rows, i)
  BY DEF Direct, IsText
<1>3. RowOf(rows, value) = IF sent = {} THEN [is |-> "none"] ELSE rows[CHOOSE i \in sent : TRUE].body
  BY DEF RowOf
<1>4. Followed(R, x) = [value |-> IF value.to \in DOMAIN R THEN R[value.to] ELSE [is |-> "none"],
                        depth |-> depth + 1]
  <2>1. x.value = value /\ x.depth = depth
    OBVIOUS
  <2> HIDE DEF x
  <2>2. QED
    BY <2>1 DEF Followed
<1>5. CASE value.to \in DOMAIN R
  <2>1. PICK i \in DOMAIN rows : rows[i].id = value.to
    BY <1>5 DEF IsRead
  <2>2. R[value.to] = rows[i].body /\ i \in sent
    BY <1>2, <2>1 DEF IsRead, IsText
  <2>3. (CHOOSE j \in sent : TRUE) = i
    BY <1>1, <2>1, <2>2
  <2>4. QED
    BY <1>3, <1>4, <1>5, <2>2, <2>3
<1>6. CASE value.to \notin DOMAIN R
  <2>1. sent = {}
    BY <1>6 DEF IsRead, IsText
  <2>2. QED
    BY <1>3, <1>4, <1>6, <2>1
<1>7. QED
  BY <1>5, <1>6

\* The loop in Resolved, as a function that exists.
Following(at, R, value, depth) ==
  at = [n \in depth..MaxRefDepth |->
          IF n = depth THEN [value |-> value, depth |-> depth] ELSE Followed(R, at[n - 1])]

LEMMA ValueIs ==
  ASSUME NEW rows, IsStream(rows), NEW R, IsRead(R, rows),
         NEW value, Direct(rows, value), NEW depth \in 0..2
  PROVE  LET r == Resolved(R, value, depth) IN
         r.value = RowOf(rows, value) /\ r.depth \in {depth, depth + 1}
<1> DEFINE x == [value |-> value, depth |-> depth]
           y == Followed(R, x)
           f == [n \in depth..MaxRefDepth |-> IF n = depth THEN x ELSE y]
           at == CHOOSE g : Following(g, R, value, depth)
           end == [value |-> RowOf(rows, value), depth |-> y.depth]
<1>1. y.value = RowOf(rows, value) /\ Followed(R, y) = y /\ y.depth \in {depth, depth + 1}
  <2>1. CASE value.is = "link"
    <3>1. y = [value |-> RowOf(rows, value), depth |-> depth + 1]
      BY <2>1, LinkIsFollowed
    <3>2. RowOf(rows, value).is # "link"
      BY <2>1 DEF Direct
    <3> HIDE DEF y
    <3>3. y.value.is # "link" /\ y.depth = depth + 1 /\ y.value = RowOf(rows, value)
      BY <3>1, <3>2
    <3>4. QED
      BY <3>3 DEF Followed
  <2>2. CASE value.is # "link"
    <3>1. x.value = value /\ x.depth = depth
      OBVIOUS
    <3> HIDE DEF x
    <3>2. y = x
      BY <2>2, <3>1 DEF Followed
    <3>3. RowOf(rows, value) = value
      BY <2>2 DEF RowOf
    <3>4. Followed(R, y) = y
      BY <3>2
    <3> HIDE DEF y
    <3>5. QED
      BY <3>1, <3>2, <3>3, <3>4
  <2>3. QED
    BY <2>1, <2>2
<1> HIDE DEF y
<1>2. \A n \in depth..MaxRefDepth : n # depth => n - 1 \in depth..MaxRefDepth
  BY DEF MaxRefDepth
<1>3. Following(f, R, value, depth)
  <2>1. ASSUME NEW n \in depth..MaxRefDepth
        PROVE  f[n] = IF n = depth THEN x ELSE Followed(R, f[n - 1])
    <3>1. CASE n = depth
      BY <3>1
    <3>2. CASE n # depth
      <4>1. n - 1 \in depth..MaxRefDepth /\ f[n] = y
        BY <1>2, <3>2
      <4>2. f[n - 1] = x \/ f[n - 1] = y
        BY <4>1
      <4>3. Followed(R, x) = y
        BY DEF y
      <4> HIDE DEF f, x
      <4>4. QED
        BY <1>1, <3>2, <4>1, <4>2, <4>3
    <3>3. QED
      BY <3>1, <3>2
  <2> HIDE DEF x
  <2>2. QED
    BY <2>1 DEF Following, x
<1>4. Following(at, R, value, depth)
  BY <1>3
<1>5. Resolved(R, value, depth) = at[MaxRefDepth]
  BY DEF Resolved, Following
<1> HIDE DEF at, f
<1>6. \A n \in depth..MaxRefDepth : at[n] = IF n = depth THEN x ELSE Followed(R, at[n - 1])
  BY <1>4 DEF Following
<1> DEFINE N == MaxRefDepth - depth
           T == {n \in 0..N : at[depth + n] = IF n = 0 THEN x ELSE y}
<1>7. /\ N \in Nat /\ N >= 1 /\ depth + N = MaxRefDepth /\ N # 0
      /\ \A n \in 0..N : depth + n \in depth..MaxRefDepth /\ (n # 0 => depth + n # depth)
      /\ \A n \in 1..N : (depth + n) - 1 = depth + (n - 1) /\ n \in 0..N /\ n # 0
  BY DEF MaxRefDepth
<1>8. depth + 0 = depth /\ 0 \in 0..N
  BY <1>7
<1> HIDE DEF N, x
<1>9. 0 \in T
  BY <1>6, <1>7, <1>8
<1>10. ASSUME NEW n \in 1..N, n - 1 \in T PROVE n \in T
  <2>1. at[depth + (n - 1)] = x \/ at[depth + (n - 1)] = y
    BY <1>10
  <2>2. at[depth + n] = Followed(R, at[depth + (n - 1)])
    BY <1>6, <1>7
  <2>3. Followed(R, x) = y
    BY DEF y
  <2>4. at[depth + n] = y
    BY <1>1, <2>1, <2>2, <2>3
  <2>5. QED
    BY <1>7, <2>4
<1>11. at[MaxRefDepth] = y
  <2>1. 0..N \subseteq T
    <3> HIDE DEF T
    <3> QED BY <1>7, <1>9, <1>10, Climb
  <2>2. N \in 0..N
    BY <1>7
  <2>3. QED
    BY <1>7, <2>1, <2>2
<1>12. QED
  BY <1>1, <1>5, <1>11

\* The values of a list that a value is or leads to.
LEMMA EntriesAre ==
  ASSUME NEW rows, IsStream(rows), NEW R, IsRead(R, rows),
         NEW value, Direct(rows, value),
         RowOf(rows, value).is = "list", RowOf(rows, value).of \in Seq(Range(RowOf(rows, value).of)),
         \A i \in DOMAIN RowOf(rows, value).of : Direct(rows, RowOf(rows, value).of[i])
  PROVE  LET of == RowOf(rows, value).of IN
         /\ Len(of) \in Nat /\ DOMAIN of = 1..Len(of)
         /\ Entries(R, value) = [i \in 1..Len(of) |-> RowOf(rows, of[i])]
<1> DEFINE list == RowOf(rows, value)
           L == Len(list.of)
           r == Resolved(R, value, 0)
           entries == Entries(R, value)
<1>1. r.value = list /\ r.depth \in {0, 1}
  <2>1. 0 \in 0..2 /\ 0 + 1 = 1
    OBVIOUS
  <2>2. QED
    BY <2>1, ValueIs
<1>2. L \in Nat /\ DOMAIN list.of = 1..L
  <2>1. list.of \in Seq(Range(list.of))
    OBVIOUS
  <2> HIDE DEF list
  <2>2. QED
    BY <2>1
<1>3. list.is = "list" /\ \A i \in DOMAIN list.of : Direct(rows, list.of[i])
  OBVIOUS
<1> HIDE DEF r, list, L
<1>4. entries = [i \in 1..L |-> Resolved(R, list.of[i], r.depth + 1).value]
  <2>1. entries = IF r.value.is # "list" THEN <<>>
                  ELSE [i \in DOMAIN r.value.of |->
                          Resolved(R, r.value.of[i], r.depth + 1).value]
    BY DEF Entries, r
  <2> HIDE DEF entries
  <2>2. QED
    BY <1>1, <1>2, <1>3, <2>1
<1>5. ASSUME NEW i \in 1..L
      PROVE  Resolved(R, list.of[i], r.depth + 1).value = RowOf(rows, list.of[i])
  <2>1. r.depth + 1 \in 0..2
    BY <1>1
  <2>2. Direct(rows, list.of[i])
    BY <1>2, <1>3
  <2>3. QED
    BY <2>1, <2>2, ValueIs
<1>6. entries = [i \in 1..L |-> RowOf(rows, list.of[i])]
  <2> HIDE DEF entries
  <2> QED BY <1>4, <1>5
<1>7. QED
  BY <1>2, <1>6 DEF L, list

\* What the adapter takes for the price is the first one that stands in the row or
\* in the list that the listing links to.
LEMMA PriceIsRead ==
  ASSUME NEW rows, IsStream(rows), NEW R, IsRead(R, rows)
  PROVE  SheypoorPrice(R, SheypoorListing(rows).price) = SheypoorCost(rows)
<1> DEFINE price == SheypoorListing(rows).price
           value == RowOf(rows, price)
           prices == {i \in DOMAIN value.of : RowOf(rows, value.of[i]).is = "price"}
           entries == Entries(R, price)
           first == FirstFilled(entries)
           taken == IF value.is = "list" THEN first ELSE value
<1>1. /\ Direct(rows, price)
      /\ value.is = "list" =>
           /\ value.of \in Seq(Range(value.of))
           /\ \A i \in DOMAIN value.of :
                Direct(rows, value.of[i]) /\ RowOf(rows, value.of[i]).is \in {"price", "none"}
  BY DEF IsStream
<1>2. value.is # "link"
  BY <1>1 DEF Direct, RowOf
<1>3. Resolved(R, price, 0).value = value
  <2>1. 0 \in 0..2
    OBVIOUS
  <2> HIDE DEF price
  <2>2. QED
    BY <1>1, <2>1, ValueIs
<1>4. SheypoorPrice(R, price) = IF taken.is \in {"price", "link"} THEN taken.text ELSE NoText
  <2> HIDE DEF price, value, first
  <2> QED BY <1>3 DEF SheypoorPrice, first
<1>5. SheypoorCost(rows) =
        IF value.is = "price" THEN value.text
        ELSE IF value.is = "list" /\ prices # {} THEN RowOf(rows, value.of[Min(prices)]).text
        ELSE NoText
  BY DEF SheypoorCost
<1> HIDE DEF price, value
<1>6. ASSUME value.is = "list" PROVE SheypoorPrice(R, price) = SheypoorCost(rows)
  <2> DEFINE filled == {i \in DOMAIN entries : ~ Empty(entries[i])}
  <2>1. /\ Len(value.of) \in Nat /\ DOMAIN value.of = 1..Len(value.of)
        /\ entries = [i \in 1..Len(value.of) |-> RowOf(rows, value.of[i])]
    BY <1>1, <1>6, EntriesAre DEF value
  <2>2. first = IF filled = {} THEN [is |-> "none"] ELSE entries[Min(filled)]
    <3> HIDE DEF entries
    <3> QED BY DEF FirstFilled
  <2> HIDE DEF entries, first
  <2>3. \A i \in 1..Len(value.of) : entries[i] = RowOf(rows, value.of[i])
                                    /\ entries[i].is \in {"price", "none"}
    BY <1>1, <1>6, <2>1
  <2>4. DOMAIN entries = 1..Len(value.of)
    BY <2>1
  <2>5. filled = prices /\ prices \in SUBSET Nat
    <3>1. \A i \in 1..Len(value.of) :
            ~ Empty(entries[i]) <=> RowOf(rows, value.of[i]).is = "price"
      BY <2>3 DEF Empty
    <3>2. 1..Len(value.of) \subseteq Nat
      BY <2>1
    <3>3. QED
      BY <2>1, <2>4, <3>1, <3>2
  <2> HIDE DEF filled, prices
  <2>6. CASE prices = {}
    BY <1>4, <1>5, <1>6, <2>2, <2>5, <2>6
  <2>7. CASE prices # {}
    <3>1. Min(prices) \in prices
      BY <2>5, <2>7, MinOfNumbers
    <3>2. Min(prices) \in 1..Len(value.of) /\ RowOf(rows, value.of[Min(prices)]).is = "price"
      BY <2>1, <3>1 DEF prices
    <3>3. first = RowOf(rows, value.of[Min(prices)])
      BY <2>2, <2>3, <2>5, <2>7, <3>2
    <3>4. QED
      BY <1>4, <1>5, <1>6, <2>7, <3>2, <3>3
  <2>8. QED
    BY <2>6, <2>7
<1>7. ASSUME value.is # "list" PROVE SheypoorPrice(R, price) = SheypoorCost(rows)
  BY <1>2, <1>4, <1>5, <1>7
<1>8. QED
  BY <1>6, <1>7 DEF price

\* Attributes that are entries with labels of their own are kept as they are.
LEMMA EntriesAreKept ==
  ASSUME NEW entries, NEW L \in Nat, DOMAIN entries = 1..L, Len(entries) = L,
         \A i \in 1..L : entries[i].is = "entry",
         \A i, j \in 1..L : entries[i].of.label = entries[j].of.label => i = j
  PROVE  SheypoorAttributes(entries) = [i \in 1..L |-> entries[i].of]
<1> DEFINE Builds(f) == f = [n \in 0..L |-> IF n = 0 THEN <<>> ELSE SetItem(f[n - 1], entries[n])]
           kept == CHOOSE f : Builds(f)
           g == [n \in 0..L |-> [i \in 1..n |-> entries[i].of]]
<1>1. SheypoorAttributes(entries) = kept[L]
  BY DEF SheypoorAttributes
<1>2. g[0] = <<>>
  OBVIOUS
<1>3. ASSUME NEW n \in 1..L PROVE g[n] = SetItem(g[n - 1], entries[n])
  <2> DEFINE s == [i \in 1..(n - 1) |-> entries[i].of]
             X == {entries[i].of : i \in 1..L}
  <2>1. n - 1 \in 0..L /\ n \in 0..L /\ n - 1 \in Nat /\ g[n - 1] = s /\ (n - 1) + 1 = n
    <3>1. n - 1 \in 0..L /\ n \in 0..L /\ n - 1 \in Nat /\ (n - 1) + 1 = n
      <4> HIDE DEF g, s, X
      <4> QED OBVIOUS
    <3>2. g[n - 1] = s
      BY <3>1
    <3>3. QED
      BY <3>1, <3>2
  <2>2. entries[n].of.label \notin Labels(s)
    <3>1. \A i \in 1..(n - 1) : i \in 1..L /\ i # n /\ s[i] = entries[i].of
      OBVIOUS
    <3>2. DOMAIN s = 1..(n - 1)
      OBVIOUS
    <3> HIDE DEF s
    <3>3. QED
      BY <3>1, <3>2 DEF Labels
  <2>3. SetItem(s, entries[n]) = Append(s, entries[n].of)
    <3> HIDE DEF s
    <3> QED BY <2>2 DEF SetItem
  <2>4. Append(s, entries[n].of) = [i \in 1..n |-> entries[i].of]
    <3>1. s \in Seq(X) /\ Len(s) = n - 1 /\ \A i \in 1..(n - 1) : s[i] = entries[i].of
      <4>1. \A i \in 1..(n - 1) : i \in 1..L
        OBVIOUS
      <4>2. s \in [1..(n - 1) -> X]
        BY <4>1
      <4>3. \A m \in Nat : \A r : r \in [1..m -> X] => r \in Seq(X) /\ Len(r) = m
        OBVIOUS
      <4> HIDE DEF X
      <4>4. s \in Seq(X) /\ Len(s) = n - 1
        <5> HIDE DEF s
        <5> QED BY <2>1, <4>2, <4>3
      <4>5. QED
        BY <4>4
    <3>2. \A r \in Seq(X), a \in X : /\ Append(r, a) \in Seq(X)
                                     /\ Len(Append(r, a)) = Len(r) + 1
                                     /\ \A i \in 1..Len(r) : Append(r, a)[i] = r[i]
                                     /\ Append(r, a)[Len(r) + 1] = a
      OBVIOUS
    <3>3. \A q \in Seq(X) : q = [i \in 1..Len(q) |-> q[i]]
      OBVIOUS
    <3>4. entries[n].of \in X
      OBVIOUS
    <3>5. \A i \in 1..n : i = n \/ i \in 1..(n - 1)
      OBVIOUS
    <3> HIDE DEF s, X
    <3>6. /\ Append(s, entries[n].of) = [i \in 1..n |-> Append(s, entries[n].of)[i]]
          /\ \A i \in 1..n : Append(s, entries[n].of)[i] = entries[i].of
      BY <2>1, <3>1, <3>2, <3>5, <3>3, <3>4
    <3>7. QED
      BY <3>6
  <2> HIDE DEF s
  <2>5. QED
    BY <2>1, <2>3, <2>4
<1>4. Builds(g)
  <2>1. \A n \in 0..L : n # 0 => n \in 1..L
    OBVIOUS
  <2>2. \A n \in 0..L : g[n] = IF n = 0 THEN <<>> ELSE SetItem(g[n - 1], entries[n])
    <3> HIDE DEF g
    <3> QED BY <1>2, <1>3, <2>1
  <2>3. g = [n \in 0..L |-> g[n]]
    OBVIOUS
  <2> HIDE DEF g
  <2>4. QED
    BY <2>2, <2>3
<1>5. Builds(kept)
  BY <1>4
<1> DEFINE T == {n \in 0..L : kept[n] = g[n]}
<1>6. \A n \in 0..L : kept[n] = IF n = 0 THEN <<>> ELSE SetItem(kept[n - 1], entries[n])
  <2> HIDE DEF kept
  <2> QED BY <1>5
<1> HIDE DEF kept, g
<1>7. 0 \in T
  BY <1>2, <1>6
<1>8. ASSUME NEW n \in 1..L, n - 1 \in T PROVE n \in T
  <2>1. n \in 0..L /\ n # 0 /\ kept[n - 1] = g[n - 1]
    BY <1>8
  <2>2. QED
    BY <1>3, <1>6, <2>1
<1>9. L \in T
  <2>1. 0..L \subseteq T
    <3> HIDE DEF T
    <3> QED BY <1>7, <1>8, Climb
  <2>2. L \in 0..L
    OBVIOUS
  <2>3. QED
    BY <2>1, <2>2
<1>10. g[L] = [i \in 1..L |-> entries[i].of]
  BY DEF g
<1>11. QED
  BY <1>1, <1>9, <1>10

\* The row of the listing, and what is found of it.
LEMMA ListingIsFound ==
  ASSUME NEW rows, IsStream(rows), NEW R, IsRead(R, rows)
  PROVE  LET found == {id \in DOMAIN R : R[id].is = "listing"} IN
         found # {} /\ \A id \in found : R[id] = SheypoorListing(rows)
<1> DEFINE found == {id \in DOMAIN R : R[id].is = "listing"}
<1>1. PICK i \in DOMAIN rows : \A j \in DOMAIN rows : (rows[j].body.is = "listing") = (j = i)
  BY DEF IsStream
<1>2. SheypoorListing(rows) = rows[i].body
  <2>1. (CHOOSE j \in DOMAIN rows : rows[j].body.is = "listing") = i
    BY <1>1
  <2>2. QED
    BY <2>1 DEF SheypoorListing
<1>3. rows[i].id \in found
  <2>1. rows[i].body.is = "listing"
    BY <1>1
  <2>2. ~ IsText(rows, i)
    BY <2>1 DEF IsText
  <2>3. QED
    BY <2>1, <2>2 DEF IsRead
<1>4. ASSUME NEW id \in found PROVE R[id] = rows[i].body
  <2>1. PICK j \in DOMAIN rows : rows[j].id = id /\ (IsText(rows, j) => R[id].is # "listing")
    BY DEF IsRead
  <2>2. ~ IsText(rows, j)
    BY <2>1
  <2>3. R[id] = rows[j].body
    BY <2>1, <2>2 DEF IsRead
  <2>4. rows[j].body.is = "listing"
    BY <2>3
  <2>5. j = i
    BY <1>1, <2>4
  <2>6. QED
    BY <2>3, <2>5
<1>5. QED
  BY <1>2, <1>3, <1>4

\* What Sheypoor's adapter reads from a page is what stands there, if it reads
\* one, and a page that misleads nobody has a listing.
LEMMA SheypoorReads ==
  ASSUME NEW response, IsStream(response.rows), ~ Misleading(response.rows)
  PROVE  LET rows == response.rows
             d == SheypoorDetail(response) IN
         /\ d.read # "ParseError"
         /\ d.read = "detail" =>
              /\ d.attributes = SheypoorItems(rows)
              /\ d.raw = SheypoorCost(rows)
<1> DEFINE rows == response.rows
           d == SheypoorDetail(response)
           R == FlightRows(Tokens(rows))
           found == {id \in DOMAIN R : R[id].is = "listing"}
           listing == R[CHOOSE id \in found : TRUE]
           crumbs == Entries(R, listing.breadcrumbs)
           value == SheypoorListing(rows).attributes
           list == RowOf(rows, value)
           entries == Entries(R, value)
           items == SheypoorItems(rows)
<1>1. IsRead(R, rows)
  BY StreamIsRead
<1>2. found # {} /\ listing = SheypoorListing(rows)
  <2> HIDE DEF R
  <2>1. found # {} /\ \A id \in found : R[id] = SheypoorListing(rows)
    BY <1>1, ListingIsFound
  <2>2. (CHOOSE id \in found : TRUE) \in found
    BY <2>1
  <2> HIDE DEF found
  <2>3. QED
    BY <2>1, <2>2
<1>3. d = IF found = {} THEN [read |-> "ParseError"]
          ELSE IF \E v \in {listing.breadcrumbs, listing.attributes} :
                    Resolved(R, v, 0).value.is = "number"
            THEN [read |-> "TypeError"]
          ELSE [read |-> "detail",
                attributes |-> SheypoorAttributes(Entries(R, listing.attributes)),
                raw |-> SheypoorPrice(R, listing.price),
                path |-> CrumbCategories(crumbs), refs |-> CrumbPlaces(crumbs)]
  BY DEF SheypoorDetail
<1>4. /\ Direct(rows, value)
      /\ list.is = "list" /\ list.of \in Seq(Range(list.of))
      /\ \A i \in DOMAIN list.of : Direct(rows, list.of[i]) /\ RowOf(rows, list.of[i]).is = "entry"
      /\ \A i, j \in DOMAIN items : items[i].label = items[j].label => i = j
  BY DEF IsStream
<1>5. items = [i \in DOMAIN list.of |-> RowOf(rows, list.of[i]).of]
  BY DEF SheypoorItems
<1> HIDE DEF R, rows, found, listing, crumbs, items
<1>6. SheypoorPrice(R, SheypoorListing(rows).price) = SheypoorCost(rows)
  BY <1>1, PriceIsRead DEF rows
<1>7. SheypoorAttributes(entries) = items
  <2> DEFINE L == Len(list.of)
  <2>2. L \in Nat /\ DOMAIN list.of = 1..L /\ entries = [i \in 1..L |-> RowOf(rows, list.of[i])]
    <3> HIDE DEF value
    <3> QED BY <1>1, <1>4, EntriesAre DEF rows
  <2> HIDE DEF list, L
  <2>6. DOMAIN entries = 1..L /\ Len(entries) = L /\ \A i \in 1..L : entries[i] = RowOf(rows, list.of[i])
    <3> HIDE DEF entries
    <3> QED BY <2>2
  <2> HIDE DEF entries, value
  <2>7. \A i \in 1..L : entries[i].is = "entry" /\ items[i] = entries[i].of
    BY <1>4, <1>5, <2>2, <2>6, SMTT(30)
  <2>8. \A i, j \in 1..L : entries[i].of.label = entries[j].of.label => i = j
    <3>1. DOMAIN items = 1..L
      BY <1>5, <2>2
    <3>2. QED
      BY <1>4, <2>7, <3>1
  <2>9. SheypoorAttributes(entries) = [i \in 1..L |-> entries[i].of]
    BY <2>2, <2>6, <2>7, <2>8, EntriesAreKept
  <2>10. items = [i \in 1..L |-> items[i]]
    BY <1>5, <2>2
  <2>11. QED
    BY <2>7, <2>9, <2>10
<1> HIDE DEF d, entries
<1>8. d.read # "ParseError"
  BY <1>2, <1>3
<1>9. ASSUME d.read = "detail"
      PROVE  d.attributes = items /\ d.raw = SheypoorCost(rows)
  <2>1. /\ d.attributes = SheypoorAttributes(Entries(R, listing.attributes))
        /\ d.raw = SheypoorPrice(R, listing.price)
    BY <1>3, <1>9
  <2>2. QED
    BY <1>2, <1>6, <1>7, <2>1 DEF entries
<1>10. QED
  BY <1>8, <1>9 DEF d, rows, items
-----------------------------------------------------------------------------
(* Amounts.                                                                 *)

\* The terms of a text, and the numbers and units in them.
LEMMA TermsAre ==
  ASSUME NEW t \in Texts
  PROVE  /\ Len(t.terms) \in Nat /\ DOMAIN t.terms = 1..Len(t.terms)
         /\ t.terms # <<>> => 1 \in DOMAIN t.terms
         /\ \A i \in DOMAIN t.terms :
              /\ t.terms[i].tenths \in Nat /\ t.terms[i].unit \in DOMAIN UnitFactor
              /\ UnitFactor[t.terms[i].unit] \in Nat \ {0}
         /\ t.joined \in {"sum", "range"}
         /\ t.joined = "sum" => \A i, j \in DOMAIN t.terms : t.terms[i].unit = t.terms[j].unit => i = j
<1>1. /\ t.terms \in Seq([tenths : Nat, unit : DOMAIN UnitFactor]) /\ t.joined \in {"sum", "range"}
      /\ t.joined = "sum" => \A i, j \in DOMAIN t.terms : t.terms[i].unit = t.terms[j].unit => i = j
  BY DEF Texts
<1>2. \A i \in DOMAIN t.terms : t.terms[i] \in [tenths : Nat, unit : DOMAIN UnitFactor]
  BY <1>1, Members
<1>3. \A u \in DOMAIN UnitFactor : UnitFactor[u] \in Nat \ {0}
  BY PricingAssumption DEF PricingAssumption
<1>4. Len(t.terms) \in Nat /\ DOMAIN t.terms = 1..Len(t.terms)
      /\ (t.terms # <<>> => 1 \in DOMAIN t.terms)
  BY <1>1
<1>5. QED
  BY <1>1, <1>2, <1>3, <1>4

LEMMA LastTerm ==
  ASSUME NEW t \in Texts, t.terms # <<>>
  PROVE  Len(t.terms) \in DOMAIN t.terms
<1>1. Len(t.terms) \in Nat /\ DOMAIN t.terms = 1..Len(t.terms) /\ 1 \in DOMAIN t.terms
  BY TermsAre
<1>2. QED
  BY <1>1

\* A text of one term is the sum of it.
Summed(g, t) ==
  g = [s \in SUBSET DOMAIN t.terms |->
         IF s = {} THEN 0
         ELSE LET x == CHOOSE x \in s : TRUE IN TermValue(t, x) + g[s \ {x}]]

LEMMA SumOfOne ==
  ASSUME NEW t, DOMAIN t.terms = {1}, TermValue(t, 1) \in Nat
  PROVE  MapThenSumSet(LAMBDA i : TermValue(t, i), DOMAIN t.terms) = TermValue(t, 1)
<1> DEFINE v == TermValue(t, 1)
           g == CHOOSE f : Summed(f, t)
           h == [s \in SUBSET {1} |-> IF s = {} THEN 0 ELSE v]
<1>1. MapThenSumSet(LAMBDA i : TermValue(t, i), DOMAIN t.terms) = g[DOMAIN t.terms]
  BY DEF MapThenSumSet, MapThenFoldSet, Summed
<1>2. \A s \in SUBSET {1} : s = {} \/ s = {1}
  OBVIOUS
<1>3. (CHOOSE x \in {1} : TRUE) = 1 /\ {1} \ {1} = {} /\ {} \in SUBSET {1} /\ {1} \in SUBSET {1} /\ {1} # {}
  OBVIOUS
<1>4. h[{}] = 0 /\ h[{1}] = v
  BY <1>3
<1>5. Summed(h, t)
  <2>1. ASSUME NEW s \in SUBSET {1}
        PROVE  h[s] = IF s = {} THEN 0
                      ELSE LET x == CHOOSE x \in s : TRUE IN TermValue(t, x) + h[s \ {x}]
    <3>1. CASE s = {}
      BY <3>1
    <3>2. CASE s = {1}
      <4>1. v + h[{}] = v
        BY <1>4
      <4> HIDE DEF h
      <4>2. LET x == CHOOSE x \in {1} : TRUE IN TermValue(t, x) + h[{1} \ {x}] = v
        BY <1>3, <4>1
      <4>3. QED
        BY <1>3, <1>4, <3>2, <4>2
    <3>3. QED
      BY <1>2, <3>1, <3>2
  <2>2. h = [s \in SUBSET {1} |-> h[s]]
    OBVIOUS
  <2> HIDE DEF h
  <2>3. h = [s \in SUBSET {1} |->
               IF s = {} THEN 0
               ELSE LET x == CHOOSE x \in s : TRUE IN TermValue(t, x) + h[s \ {x}]]
    BY <2>1, <2>2
  <2>4. QED
    BY <2>3 DEF Summed
<1>6. Summed(g, t)
  BY <1>5
<1> HIDE DEF g
<1>7. g[{}] = 0
  BY <1>3, <1>6 DEF Summed
<1>8. g[{1}] = LET x == CHOOSE x \in {1} : TRUE IN TermValue(t, x) + g[{1} \ {x}]
  BY <1>3, <1>6 DEF Summed
<1>9. g[{1}] = v + g[{}]
  BY <1>3, <1>8
<1>10. QED
  BY <1>1, <1>7, <1>9

\* The lowest of numbers that have one factor.
LEMMA LowestOfProducts ==
  ASSUME NEW S \in SUBSET Nat, S # {}, NEW factor \in Nat
  PROVE  Min({n * factor : n \in S}) = Min(S) * factor
<1> DEFINE P == {n * factor : n \in S}
           m == Min(S)
<1>1. m \in S /\ \A n \in S : m <= n
  BY MinOfNumbers
<1>2. \A a, b, c \in Nat : a * c \in Nat /\ (a <= b => a * c <= b * c)
  OBVIOUS
<1> HIDE DEF m
<1>3. m * factor \in P /\ P \in SUBSET Nat /\ \A p \in P : m * factor <= p
  BY <1>1, <1>2
<1> HIDE DEF P
<1>4. Min(P) \in P /\ Min(P) <= m * factor
  BY <1>3, MinOfNumbers
<1>5. Min(P) \in Nat /\ m * factor \in Nat /\ m * factor <= Min(P)
  BY <1>3, <1>4
<1>6. QED
  BY <1>4, <1>5 DEF P, m

\* A text whose terms have one unit has the amount that it states.
LEMMA AmountOfOneUnit ==
  ASSUME NEW t \in Texts, t.terms # <<>>, t.marks \cap {"negotiable", "night"} = {},
         NEW u \in DOMAIN UnitFactor, Units(t) = {u} \ {"none"},
         \A i \in DOMAIN t.terms : UnitOf(t, i) = u
  PROVE  ParsePrice(t).amount = Stated(t)
<1> DEFINE factor == UnitFactor[u]
           values == {TermValue(t, i) : i \in DOMAIN t.terms}
           sum == MapThenSumSet(LAMBDA i : TermValue(t, i), DOMAIN t.terms)
<1>1. 1 \in DOMAIN t.terms /\ factor \in Nat \ {0} /\ u \in DOMAIN UnitFactor
  BY TermsAre, PricingAssumption DEF PricingAssumption
<1>2. /\ Numbers(t) \in SUBSET Nat /\ Numbers(t) # {}
      /\ values = {n * factor : n \in Numbers(t)}
      /\ \A i \in DOMAIN t.terms : TermValue(t, i) = t.terms[i].tenths * factor
  <2>1. Numbers(t) \in SUBSET Nat /\ Numbers(t) # {}
    <3>1. \A i \in DOMAIN t.terms : t.terms[i].tenths \in Nat
      BY TermsAre
    <3>2. t.terms[1].tenths \in Numbers(t)
      BY <1>1 DEF Numbers
    <3>3. Numbers(t) \in SUBSET Nat
      BY <3>1 DEF Numbers
    <3>4. QED
      BY <3>2, <3>3
  <2>2. \A i \in DOMAIN t.terms : TermValue(t, i) = t.terms[i].tenths * factor
    BY DEF TermValue
  <2>3. values = {t.terms[i].tenths * factor : i \in DOMAIN t.terms}
    BY <2>2
  <2>4. {n * factor : n \in Numbers(t)} = {t.terms[i].tenths * factor : i \in DOMAIN t.terms}
    BY DEF Numbers
  <2>5. QED
    BY <2>1, <2>2, <2>3, <2>4
<1>3. Amount(t) = Toman(t, Min(Numbers(t)) * factor)
  <2>1. CASE u = "none"
    <3>1. Units(t) = {} /\ factor = 1
      BY <2>1, PricingAssumption DEF PricingAssumption
    <3>2. ~ Cardinality(Units(t)) > 1
      <4>1. Cardinality({}) = 0
        BY FS_EmptySet
      <4>2. Cardinality(Units(t)) = 0
        BY <3>1, <4>1, ZenonT(30)
      <4>3. ~ 0 > 1
        OBVIOUS
      <4>4. QED
        BY <4>2, <4>3, Zenon
    <3>3. QED
      BY <3>1, <3>2 DEF Amount
  <2>2. CASE u # "none"
    <3>1. Units(t) = {u}
      BY <2>2
    <3>2. Cardinality(Units(t)) = 1
      BY <3>1, FS_Singleton
    <3>3. (CHOOSE x \in Units(t) : TRUE) = u /\ Units(t) # {}
      BY <3>1
    <3>4. ~ Cardinality(Units(t)) > 1
      BY <3>2
    <3>5. QED
      BY <3>3, <3>4 DEF Amount
  <2>3. QED
    BY <2>1, <2>2
<1>4. Stated(t) = Toman(t, IF t.joined = "range" THEN Min(values) ELSE sum)
  BY DEF Stated
<1> HIDE DEF factor, values, sum
<1>5. CASE t.joined = "range"
  <2>1. Min(values) = Min(Numbers(t)) * factor
    BY <1>1, <1>2, LowestOfProducts
  <2>2. QED
    BY <1>3, <1>4, <1>5, <2>1 DEF ParsePrice
<1>6. CASE t.joined # "range"
  <2>1. DOMAIN t.terms = {1}
    <3>1. t.joined = "sum"
      BY <1>6, TermsAre
    <3>2. \A i \in DOMAIN t.terms : t.terms[i].unit = u
      BY <3>1 DEF UnitOf, SharesUnit
    <3>3. \A i \in DOMAIN t.terms : i = 1
      BY <1>1, <3>1, <3>2, TermsAre
    <3>4. QED
      BY <1>1, <3>3
  <2>2. Numbers(t) = {t.terms[1].tenths}
    BY <2>1 DEF Numbers
  <2>3. Min(Numbers(t)) = t.terms[1].tenths
    <3>1. Min(Numbers(t)) \in Numbers(t)
      BY <1>2, MinOfNumbers
    <3>2. QED
      BY <2>2, <3>1
  <2>4. TermValue(t, 1) = t.terms[1].tenths * factor /\ TermValue(t, 1) \in Nat
    <3>1. \A a, b \in Nat : a * b \in Nat
      OBVIOUS
    <3>2. t.terms[1].tenths \in Nat
      BY <1>1, TermsAre
    <3>3. TermValue(t, 1) = t.terms[1].tenths * factor
      BY <1>1, <1>2
    <3>4. QED
      BY <1>1, <3>1, <3>2, <3>3
  <2>5. sum = TermValue(t, 1)
    BY <2>1, <2>4, SumOfOne DEF sum
  <2>6. QED
    BY <1>3, <1>4, <1>6, <2>3, <2>4, <2>5 DEF ParsePrice
<1>7. QED
  BY <1>5, <1>6

\* An amount that is read is the one that the text states, unless only some of
\* its terms have the unit, and the amount of a single term is read.
LEMMA AmountIsStated ==
  ASSUME NEW t \in Texts
  PROVE  /\ ParsePrice(t).amount # Missing => ParsePrice(t).amount = Stated(t) \/ HalfUnited(t)
         /\ Len(t.terms) = 1 => ParsePrice(t).amount = Stated(t)
<1>1. CASE t.terms = <<>> \/ t.marks \cap {"negotiable", "night"} # {}
  BY <1>1 DEF ParsePrice, Amount, Stated
<1>2. CASE t.terms # <<>> /\ t.marks \cap {"negotiable", "night"} = {}
  <2>1. ASSUME Len(t.terms) = 1 PROVE ParsePrice(t).amount = Stated(t)
    <3>1. \A i \in DOMAIN t.terms : i = 1
      BY <2>1, TermsAre
    <3>2. \A i \in DOMAIN t.terms : UnitOf(t, i) = t.terms[1].unit
      BY <2>1, <3>1 DEF UnitOf
    <3>3. Units(t) = {t.terms[1].unit} \ {"none"} /\ t.terms[1].unit \in DOMAIN UnitFactor
      BY <1>2, <3>1, TermsAre DEF Units
    <3>4. QED
      BY <1>2, <3>2, <3>3, AmountOfOneUnit
  <2>2. ASSUME ParsePrice(t).amount # Missing, ~ HalfUnited(t)
        PROVE  ParsePrice(t).amount = Stated(t)
    <3>1. ~ Cardinality(Units(t)) > 1
      BY <1>2, <2>2 DEF ParsePrice, Amount
    <3>2. IsFiniteSet(Units(t))
      <4>1. Units(t) = {t.terms[i].unit : i \in 1..Len(t.terms)} \ {"none"} /\ Len(t.terms) \in Nat
        BY TermsAre DEF Units
      <4>2. IsFiniteSet(1..Len(t.terms))
        BY <4>1, FS_Interval
      <4>3. IsFiniteSet({t.terms[i].unit : i \in 1..Len(t.terms)})
        <5> DEFINE f == [i \in 1..Len(t.terms) |-> t.terms[i].unit]
                   I == {t.terms[i].unit : i \in 1..Len(t.terms)}
        <5>1. f \in Surjection(1..Len(t.terms), I)
          BY DEF Surjection
        <5> HIDE DEF f, I
        <5>2. IsFiniteSet(I)
          BY <4>2, <5>1, FS_Surjection
        <5>3. QED
          BY <5>2 DEF I
      <4>4. QED
        BY <4>1, <4>3, FS_Subset
    <3>3. Cardinality(Units(t)) \in Nat
      BY <3>2, FS_CardinalityType
    <3>4. CASE Cardinality(Units(t)) = 0
      <4>1. Units(t) = {}
        BY <3>2, <3>4, FS_EmptySet
      <4>2. \A i \in DOMAIN t.terms : t.terms[i].unit = "none"
        BY <4>1 DEF Units
      <4>3. \A i \in DOMAIN t.terms : UnitOf(t, i) = "none"
        BY <1>2, <4>2, LastTerm DEF UnitOf
      <4>4. "none" \in DOMAIN UnitFactor /\ Units(t) = {"none"} \ {"none"}
        BY <4>1, PricingAssumption DEF PricingAssumption
      <4>5. QED
        BY <1>2, <4>3, <4>4, AmountOfOneUnit
    <3>5. CASE Cardinality(Units(t)) = 1
      <4>1. PICK u : Units(t) = {u}
        BY <3>2, <3>5, FS_Singleton
      <4>2. \A i \in DOMAIN t.terms : UnitOf(t, i) = u
        <5>1. CASE SharesUnit(t)
          <6>1. PICK i \in DOMAIN t.terms : t.terms[i].unit = u /\ u # "none"
            BY <4>1 DEF Units
          <6>2. t.terms[Len(t.terms)].unit = u
            BY <5>1, <6>1, TermsAre DEF SharesUnit
          <6>3. QED
            BY <5>1, <6>2 DEF UnitOf
        <5>2. CASE ~ SharesUnit(t)
          <6>1. \A i \in DOMAIN t.terms : t.terms[i].unit # "none"
            BY <2>2, <3>5, <5>2 DEF HalfUnited
          <6>2. QED
            BY <4>1, <5>2, <6>1 DEF Units, UnitOf
        <5>3. QED
          BY <5>1, <5>2
      <4>3. u \in DOMAIN UnitFactor /\ Units(t) = {u} \ {"none"}
        <5>1. PICK i \in DOMAIN t.terms : t.terms[i].unit = u /\ u # "none"
          BY <4>1 DEF Units
        <5>2. u \in DOMAIN UnitFactor
          BY <5>1, TermsAre
        <5>3. QED
          BY <4>1, <5>1, <5>2
      <4>4. QED
        BY <1>2, <4>2, <4>3, AmountOfOneUnit
    <3>6. QED
      BY <3>1, <3>3, <3>4, <3>5
  <2>3. QED
    BY <2>1, <2>2
<1>3. QED
  BY <1>1, <1>2

\* What is stored of the texts in a listing's attributes and of its price.
LEMMA MoneyIsStated ==
  ASSUME NEW a, NEW raw \in Texts, NEW transaction, \A f \in MoneyFields : FirstValue(a, f) \in Texts,
         NEW f \in MoneyFields
  PROVE  LET v == Money(a, raw, transaction).amounts[f]
             listed == IF UsesRaw(a) THEN {raw} ELSE {} IN
         /\ v # Missing => \E u \in {FirstValue(a, f)} \cup listed : v = Stated(u) \/ HalfUnited(u)
         /\ \A t \in {FirstValue(a, f)} \cup (IF f = RawField(raw, transaction) THEN listed ELSE {}) :
              Len(t.terms) = 1 /\ Stated(t) # Missing => v = Stated(t)
<1> DEFINE v == Money(a, raw, transaction).amounts[f]
           own == FirstValue(a, f)
<1>1. v = IF UsesRaw(a) /\ f = RawField(raw, transaction)
            THEN ParsePrice(raw).amount ELSE ParsePrice(own).amount
  BY DEF Money, MoneyFields
<1>2. \A t \in {own, raw} :
        /\ ParsePrice(t).amount # Missing => ParsePrice(t).amount = Stated(t) \/ HalfUnited(t)
        /\ Len(t.terms) = 1 => ParsePrice(t).amount = Stated(t)
  BY AmountIsStated
<1>3. UsesRaw(a) => ParsePrice(own).amount = Missing
  BY DEF UsesRaw
<1> HIDE DEF v, own
<1>4. ASSUME v # Missing
      PROVE  \E u \in {own} \cup (IF UsesRaw(a) THEN {raw} ELSE {}) : v = Stated(u) \/ HalfUnited(u)
  BY <1>1, <1>2, <1>4
<1>5. ASSUME NEW t \in {own} \cup (IF f = RawField(raw, transaction)
                                     THEN (IF UsesRaw(a) THEN {raw} ELSE {}) ELSE {}),
             Len(t.terms) = 1, Stated(t) # Missing
      PROVE  v = Stated(t)
  <2>1. ParsePrice(t).amount = Stated(t)
    BY <1>2, <1>5
  <2>2. CASE UsesRaw(a)
    <3>1. t # own
      BY <1>3, <1>5, <2>1, <2>2
    <3>2. QED
      BY <1>1, <1>5, <2>1, <2>2, <3>1
  <2>3. CASE ~ UsesRaw(a)
    BY <1>1, <1>5, <2>1, <2>3
  <2>4. QED
    BY <2>2, <2>3
<1>6. QED
  BY <1>4, <1>5 DEF v, own

-----------------------------------------------------------------------------
(* What the crawl has read.                                                 *)

\* A page that misleads nobody is read as it is published.
LEMMA PagesAreRead ==
  ASSUME NEW l \in Listings, l \notin Misread
  PROVE  /\ Details[l].read # "ParseError"
         /\ Details[l].read = "detail" =>
              /\ \A f : FirstValue(Details[l].attributes, f) = FirstValue(Published[l].attributes, f)
              /\ Details[l].raw = Published[l].raw
<1> DEFINE d == Details[l]
           said == Published[l]
<1>1. CASE Pages[l].source = "divar"
  <2> DEFINE tree == Pages[l].tree
  <2>1. IsTree(tree)
    BY <1>1, PagesAssumption DEF PagesAssumption
  <2>2. d = DivarDetail(Pages[l])
    BY <1>1 DEF Details
  <2>3. /\ d.read = "detail" /\ d.attributes = DivarAttributes(tree)
        /\ d.raw = DivarPrice(DivarAttributes(tree))
    <3> HIDE DEF d
    <3> QED BY <2>2 DEF DivarDetail
  <2>4. said.attributes = DivarItems(tree) /\ said.raw = DivarPrice(DivarItems(tree))
    BY <1>1 DEF Published
  <2> HIDE DEF d, said, tree
  <2>5. /\ SameFirsts(DivarAttributes(tree), DivarItems(tree))
        /\ DivarPrice(DivarAttributes(tree)) = DivarPrice(DivarItems(tree))
    BY <2>1, DivarReads
  <2>6. \A f : FirstValue(DivarAttributes(tree), f) = FirstValue(DivarItems(tree), f)
    BY <2>5 DEF SameFirsts, Keys, FirstValue
  <2>7. QED
    BY <2>3, <2>4, <2>5, <2>6 DEF d, said
<1>2. CASE Pages[l].source # "divar"
  <2> DEFINE rows == Pages[l].rows
             price == SheypoorCost(rows)
  <2>1. IsStream(Pages[l].rows) /\ ~ Misleading(Pages[l].rows)
    BY <1>2, PagesAssumption DEF PagesAssumption, Misread
  <2>2. d = SheypoorDetail(Pages[l])
    BY <1>2 DEF Details
  <2>3. /\ d.read # "ParseError"
        /\ d.read = "detail" => d.attributes = SheypoorItems(rows) /\ d.raw = price
    <3> HIDE DEF d
    <3> QED BY <2>1, <2>2, SheypoorReads
  <2>4. said.attributes = SheypoorItems(rows) /\ said.raw = price
    BY <1>2 DEF Published
  <2> HIDE DEF d, said, rows, price
  <2>5. QED
    BY <2>3, <2>4 DEF d, said
<1>3. QED
  BY <1>1, <1>2

\* What it holds of a page is what the adapter read, and it calls only those
\* unreadable that the adapter refuses.
Understood ==
  /\ done \subseteq Listings \cap DOMAIN understood
  /\ \A l \in done : /\ Details[l].read = "detail"
                     /\ understood[l].attributes = Details[l].attributes
                     /\ understood[l].raw = Details[l].raw

Unreadable(id) == id = "list-page" \/ (id \in Listings /\ Details[id].read = "ParseError")

Refused ==
  \A i \in DOMAIN errors.entries :
    errors.entries[i][2] = "ParseError" => Unreadable(errors.entries[i][1])

LEMMA ReadingSteps ==
  ASSUME Shape, Stage, Logged, [Next]_vars
  PROVE  \/ UNCHANGED <<done, understood, errors>>
         \/ done' = {} /\ errors' = NoErrors
         \/ \E l \in AtWork : Persist(l, Details[l])
         \/ /\ UNCHANGED <<done, understood>>
            /\ \E id \in Listings \cup {"list-page"}, type \in ErrorTypes :
                 errors' = Recorded(id, type) /\ (type = "ParseError" => Unreadable(id))
<1> DEFINE Goal == \/ UNCHANGED <<done, understood, errors>>
                   \/ done' = {} /\ errors' = NoErrors
                   \/ \E l \in AtWork : Persist(l, Details[l])
                   \/ /\ UNCHANGED <<done, understood>>
                      /\ \E id \in Listings \cup {"list-page"}, type \in ErrorTypes :
                           errors' = Recorded(id, type) /\ (type = "ParseError" => Unreadable(id))
<1> SUFFICES Goal
  OBVIOUS
<1>1. CASE Submit \/ Refuse \/ Execute \/ ScopeFailed \/ TurnPage \/ Raises \/ Finish \/ Detect
  BY <1>1 DEF Submit, Refuse, Execute, ScopeFailed, TurnPage, Raises, Finish, Detect, stored, walk
<1>2. CASE Load \/ SkipStub \/ UNCHANGED vars
  BY <1>2 DEF Load, LoadPlaces, LoadAliases, LoadSources, SkipStub, vars, stored, walk
<1>3. CASE RequestPage
  <2>1. UNCHANGED <<done, understood>>
    BY <1>3, Requests
  <2>2. errors' = errors \/ \E type \in ErrorTypes : errors' = Recorded("list-page", type)
    BY <1>3, Requests DEF FetchPage, RepeatedPage, Stops, walk
  <2>3. QED
    BY <2>1, <2>2 DEF Unreadable
<1>4. CASE NextJob
  BY <1>4 DEF NextJob
<1>5. ASSUME NEW l \in AtWork, NEW d \in {Details[m] : m \in AtWork},
             Persist(l, d) \/ StubUnreadable(l, d) \/ StubRaises(d) \/ StubGone(l) \/ StubFails(l)
      PROVE  Goal
  <2>1. l \in Listings /\ d = Details[l]
    <3>1. \A m \in AtWork : m = todo[1] /\ m \in Listings
      BY TurnsTo DEF AtWork
    <3>2. QED
      BY <1>5, <3>1
  <2>2. CASE Persist(l, d)
    BY <2>1, <2>2
  <2>3. CASE StubUnreadable(l, d)
    <3>1. d.read = "ParseError" /\ errors' = Recorded(l, "ParseError") /\ UNCHANGED <<done, understood>>
      BY <2>3 DEF StubUnreadable, Fails, stored
    <3>2. "ParseError" \in ErrorTypes
      BY DEF ErrorTypes
    <3>3. QED
      BY <2>1, <3>1, <3>2 DEF Unreadable
  <2>4. CASE StubGone(l) \/ StubFails(l)
    <3>1. /\ UNCHANGED <<done, understood>>
          /\ errors' = Recorded(l, "PermanentHTTPError") \/ errors' = Recorded(l, "TransportError")
      BY <2>4 DEF StubGone, StubFails, Fails, stored
    <3>2. {"PermanentHTTPError", "TransportError"} \subseteq ErrorTypes \ {"ParseError"}
      BY DEF ErrorTypes
    <3>3. QED
      BY <2>1, <3>1, <3>2
  <2>5. CASE StubRaises(d)
    BY <2>5 DEF StubRaises, stored, walk
  <2>6. QED
    BY <1>5, <2>2, <2>3, <2>4, <2>5
<1>6. ASSUME NEW l, Publish(l) \/ Withdraw(l) PROVE Goal
  BY <1>6 DEF Publish, Withdraw, Changes, stored, walk
<1>7. ASSUME \/ \E file \in Here.files : SeedLocations(file)
             \/ \E file \in Here.slugs : SeedCategories(file)
             \/ \E p \in Here.toggles : Toggle(p)
             \/ \E e \in Here.remaps, p \in Places \cup {None} : Remap(e, p)
             \/ \E q \in Here.judged : Judge(q[1], q[2])
      PROVE  Goal
  BY <1>7, EditSteps
<1>8. ASSUME NEW l \in AtWork, StubGone(l) \/ StubFails(l) PROVE Goal
  <2>1. Details[l] \in {Details[m] : m \in AtWork}
    OBVIOUS
  <2> HIDE DEF Goal
  <2>2. QED
    BY <1>5, <1>8, <2>1
<1> DEFINE Edit == \/ \E file \in Here.files : SeedLocations(file)
                   \/ \E file \in Here.slugs : SeedCategories(file)
                   \/ \E p \in Here.toggles : Toggle(p)
                   \/ \E e \in Here.remaps, p \in Places \cup {None} : Remap(e, p)
                   \/ \E q \in Here.judged : Judge(q[1], q[2])
           Reading == \E l \in AtWork, d \in {Details[m] : m \in AtWork} :
                        Persist(l, d) \/ StubUnreadable(l, d) \/ StubRaises(d)
           Failing == \E l \in AtWork : StubGone(l) \/ StubFails(l)
           Moving == \E l \in Here.moving : Publish(l) \/ Withdraw(l)
<1>9. \/ Submit \/ Refuse \/ Execute \/ ScopeFailed \/ TurnPage \/ Raises \/ Finish \/ Detect
      \/ Load \/ SkipStub \/ UNCHANGED vars \/ RequestPage \/ NextJob
      \/ Reading \/ Failing \/ Moving \/ Edit
  BY NextCases
<1> HIDE DEF Goal
<1>10. /\ Reading => Goal
       /\ Failing => Goal
       /\ Moving => Goal
  BY <1>5, <1>6, <1>8
<1>11. Edit => Goal
  BY <1>7
<1> HIDE DEF Edit, Reading, Failing, Moving
<1>12. QED
  BY <1>1, <1>2, <1>3, <1>4, <1>9, <1>10, <1>11

LEMMA ReadingKept ==
  ASSUME Shape, Stage, Logged, Understood, Refused, [Next]_vars
  PROVE  Understood' /\ Refused'
<1>1. CASE UNCHANGED <<done, understood, errors>>
  BY <1>1 DEF Understood, Refused
<1>2. CASE done' = {} /\ errors' = NoErrors
  BY <1>2 DEF Understood, Refused, NoErrors
<1>3. ASSUME NEW l \in AtWork, Persist(l, Details[l]) PROVE Understood' /\ Refused'
  <2> DEFINE said == [attributes |-> Details[l].attributes, raw |-> Details[l].raw]
  <2>1. l \in Listings /\ done' = done \cup {l} /\ errors' = errors
    BY <1>3, Persists
  <2>2. Details[l].read = "detail" /\ understood' = With(understood, l, said)
    BY <1>3 DEF Persist
  <2>3. /\ DOMAIN understood' = DOMAIN understood \cup {l} /\ understood'[l] = said
        /\ \A k \in DOMAIN understood \ {l} : understood'[k] = understood[k]
    <3> HIDE DEF said
    <3> QED BY <2>2 DEF With
  <2>4. Understood'
    BY <2>1, <2>2, <2>3 DEF Understood
  <2>5. QED
    BY <2>1, <2>4 DEF Refused
<1>4. ASSUME UNCHANGED <<done, understood>>,
             NEW id \in Listings \cup {"list-page"}, NEW type \in ErrorTypes,
             errors' = Recorded(id, type), type = "ParseError" => Unreadable(id)
      PROVE  Understood' /\ Refused'
  <2> DEFINE pair == <<id, type>>
             Pairs == (Listings \cup {"list-page"}) \X ErrorTypes
  <2>1. Understood'
    BY <1>4 DEF Understood
  <2>2. \/ errors'.entries = errors.entries
        \/ errors'.entries = Append(errors.entries, pair)
    BY <1>4 DEF Recorded
  <2>3. \A i \in DOMAIN errors'.entries :
          \/ i \in DOMAIN errors.entries /\ errors'.entries[i] = errors.entries[i]
          \/ errors'.entries[i] = pair
    <3>1. errors.entries \in Seq(Pairs)
      BY DEF Shape, Errors
    <3>2. pair \in Pairs
      OBVIOUS
    <3>3. \A S : \A s \in Seq(S), e \in S : \A i \in DOMAIN Append(s, e) :
            (i \in DOMAIN s /\ Append(s, e)[i] = s[i]) \/ Append(s, e)[i] = e
      OBVIOUS
    <3> DEFINE s == errors.entries
               t == errors'.entries
    <3> HIDE DEF pair, Pairs
    <3>4. s \in Seq(Pairs) /\ (t = s \/ t = Append(s, pair))
      BY <2>2, <3>1
    <3> HIDE DEF s, t
    <3>5. \A i \in DOMAIN t : (i \in DOMAIN s /\ t[i] = s[i]) \/ t[i] = pair
      BY <3>2, <3>3, <3>4
    <3>6. QED
      BY <3>5 DEF s, t
  <2>4. pair[1] = id /\ pair[2] = type
    OBVIOUS
  <2> HIDE DEF pair, Pairs
  <2>5. Refused'
    <3> SUFFICES ASSUME NEW i \in DOMAIN errors'.entries, errors'.entries[i][2] = "ParseError"
                 PROVE  Unreadable(errors'.entries[i][1])
      BY DEF Refused, Unreadable
    <3>1. CASE errors'.entries[i] = pair
      BY <1>4, <2>4, <3>1
    <3>2. CASE i \in DOMAIN errors.entries /\ errors'.entries[i] = errors.entries[i]
      BY <3>2 DEF Refused
    <3>3. QED
      BY <2>3, <3>1, <3>2
  <2>6. QED
    BY <2>1, <2>5
<1>5. QED
  BY <1>1, <1>2, <1>3, <1>4, ReadingSteps

LEMMA InitReading == Init => Understood /\ Refused
BY DEF Init, Understood, Refused, NoErrors

\* However pages are nested, linked and interleaved with texts: a page that is
\* read has in every field what stands there first, and its price; only a page
\* with a text that looks like rows is called unreadable (parse_detail of
\* adapters/divar.py and adapters/sheypoor.py, run_job of crawling/runner.py).
THEOREM PagesAreReadRight == Spec => []PageIsRead
<1> DEFINE Inv == Shape /\ Stage /\ Logged /\ Understood /\ Refused
<1>1. Init => Inv
  BY InitInvariant, InitReading
<1>2. Inv /\ [Next]_vars => Inv'
  BY ShapeStep, StageStep, LoggedStep, ReadingKept
<1>3. ASSUME Inv PROVE PageIsRead
  <2>1. ASSUME NEW l \in done \ Misread
        PROVE  /\ \A f : FirstValue(understood[l].attributes, f) = FirstValue(Published[l].attributes, f)
               /\ understood[l].raw = Published[l].raw
    <3>1. l \in Listings /\ Details[l].read = "detail"
          /\ understood[l].attributes = Details[l].attributes /\ understood[l].raw = Details[l].raw
      BY <1>3 DEF Understood
    <3>2. QED
      BY <3>1, PagesAreRead
  <2>2. ASSUME NEW i \in DOMAIN errors.entries, errors.entries[i][2] = "ParseError"
        PROVE  errors.entries[i][1] \in Misread \cup {"list-page"}
    <3>1. Unreadable(errors.entries[i][1])
      BY <1>3, <2>2 DEF Refused
    <3>2. QED
      BY <3>1, PagesAreRead DEF Unreadable
  <2>3. QED
    BY <2>1, <2>2 DEF PageIsRead
<1>4. Inv => PageIsRead
  BY <1>3
<1>5. QED
  BY <1>1, <1>2, <1>4, PTL DEF Spec

\* Whatever was crawled, in any order and over any rows: a stored amount is one
\* that the listing states, in Toman, and a plain price is not lost
\* (normalization/money.py, _money of pipeline.py, _apply_fields of
\* crawling/persistence.py).
THEOREM AmountsAreStated == Spec => []NoWrongAmount
<1> DEFINE Inv == Shape /\ Stage /\ Logged /\ Indexed /\ Written
<1>1. Init => Inv
  BY InitInvariant, InitPlaces, InitRows
<1>2. Inv /\ [Next]_vars => Inv'
  BY ShapeStep, StageStep, LoggedStep, IndexedStep, WrittenStep
<1>3. ASSUME Written, NEW l \in Stored \ Misread, NEW f \in MoneyFields
      PROVE  LET d == Published[l]
                 raw == IF UsesRaw(d.attributes) THEN {d.raw} ELSE {}
                 v == row[l].amounts[f] IN
             /\ v # Missing => \E u \in {FirstValue(d.attributes, f)} \cup raw :
                                 v = Stated(u) \/ HalfUnited(u)
             /\ \A t \in {FirstValue(d.attributes, f)}
                         \cup (IF f = RawField(d.raw, row[l].transaction) THEN raw ELSE {}) :
                  Len(t.terms) = 1 /\ Stated(t) # Missing => v = Stated(t)
  <2> DEFINE d == Details[l]
             said == Published[l]
             transaction == TransactionOf(d.path, Pages[l].says)
             a == said.attributes
  <2>1. /\ l \in Listings /\ d.read = "detail"
        /\ row[l].amounts = Normalized(l, d).amounts /\ row[l].transaction = Normalized(l, d).transaction
    BY <1>3 DEF Written, Stored, Contents
  <2>2. (\A g : FirstValue(d.attributes, g) = FirstValue(a, g)) /\ d.raw = said.raw
    BY <2>1, PagesAreRead
  <2>3. d.raw \in Texts /\ \A g \in MoneyFields : FirstValue(d.attributes, g) \in Texts
    BY <2>1, PagesAssumption DEF PagesAssumption
  <2>4. /\ row[l].amounts = Money(d.attributes, d.raw, transaction).amounts
        /\ row[l].transaction = transaction
    BY <2>1 DEF Normalized
  <2> HIDE DEF d, said, transaction, a
  <2>5. UsesRaw(d.attributes) <=> UsesRaw(a)
    BY <2>2 DEF UsesRaw
  <2>6. Money(d.attributes, d.raw, transaction).amounts = Money(a, said.raw, transaction).amounts
    <3>1. \A g : ParsePrice(FirstValue(d.attributes, g)).amount = ParsePrice(FirstValue(a, g)).amount
      BY <2>2
    <3>2. QED
      BY <2>2, <2>5, <3>1 DEF Money
  <2>7. said.raw \in Texts /\ \A g \in MoneyFields : FirstValue(a, g) \in Texts
    BY <2>2, <2>3
  <2>8. LET v == Money(a, said.raw, transaction).amounts[f]
            listed == IF UsesRaw(a) THEN {said.raw} ELSE {} IN
        /\ v # Missing => \E u \in {FirstValue(a, f)} \cup listed : v = Stated(u) \/ HalfUnited(u)
        /\ \A t \in {FirstValue(a, f)} \cup (IF f = RawField(said.raw, transaction) THEN listed ELSE {}) :
             Len(t.terms) = 1 /\ Stated(t) # Missing => v = Stated(t)
    BY <2>7, MoneyIsStated
  <2>9. QED
    BY <2>4, <2>6, <2>8 DEF said, a
<1>4. Inv => NoWrongAmount
  BY <1>3 DEF NoWrongAmount
<1>5. QED
  BY <1>1, <1>2, <1>4, PTL DEF Spec
=============================================================================
