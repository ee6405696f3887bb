------------------------- MODULE DedupReview_proofs -------------------------
(***************************************************************************)
(* What the review of duplicate candidates promises for any listings and   *)
(* any number of detectors, reviews and open admin forms.                  *)
(***************************************************************************)
EXTENDS DedupReview, TLAPS

\* The candidate that a link of l to m belongs to.
PairOf(l, m) == IF l \in Left THEN <<l, m>> ELSE <<m, l>>

\* Links run between the two sources, also those that an open form holds, and a
\* listing was last discarded by a pair of its own.
Sides ==
  /\ \A l \in Listings : duplicateOf[l] # None => PairOf(l, duplicateOf[l]) \in Pairs
  /\ \A l \in Listings : listingForm[l] \notin {None, Closed}
                           => PairOf(l, listingForm[l]) \in Pairs
  /\ \A l \in Listings : lastPair[l] # None => l \in {lastPair[l][1], lastPair[l][2]}

IInv == TypeOK /\ Sides /\ LinkIsLastConfirmation /\ OnlyConfirmedLink

USE DedupAssumption DEF DedupAssumption, Confirmed, Verdicts, Absent, Closed

-----------------------------------------------------------------------------
\* A pair is what its two listings are, one of each source.
LEMMA PairFacts ==
  /\ \A p \in Pairs : p[1] \in Left /\ p[2] \in Right /\ p[1] # p[2]
  /\ \A p \in Pairs : p[1] \in Listings /\ p[2] \in Listings
                      /\ p[1] # None /\ p[2] # None /\ p # None
  /\ \A p, q \in Pairs : p[1] = q[1] /\ p[2] = q[2] => p = q
  BY DEF Pairs, Listings

\* The pair of a discarded listing and the one kept, either way.
LEMMA PairOfSides ==
  /\ \A p \in Pairs : PairOf(p[1], p[2]) = p /\ PairOf(p[2], p[1]) = p
  /\ \A l \in Listings : \A m : PairOf(l, m) \in Pairs =>
       \/ l = PairOf(l, m)[1] /\ m = PairOf(l, m)[2]
       \/ l = PairOf(l, m)[2] /\ m = PairOf(l, m)[1]
  BY DEF Pairs, Listings, PairOf

\* Before any detection.
LEMMA InitInvariant == Init => IInv
<1> SUFFICES ASSUME Init PROVE IInv
  OBVIOUS
<1>1. TypeOK
  <2>1. 0 \in 0..MaxReviews /\ 0 \in 0..MaxForms
    OBVIOUS
  <2>2. /\ verdict \in [Pairs -> Verdicts \cup {Absent}]
        /\ candidateForm \in [Pairs -> Verdicts \cup {Closed}]
    BY DEF Init
  <2>3. QED
    BY <2>1, <2>2 DEF Init, TypeOK
<1>2. Sides /\ LinkIsLastConfirmation /\ OnlyConfirmedLink
  BY DEF Init, Sides, LinkIsLastConfirmation, OnlyConfirmedLink
<1>3. QED
  BY <1>1, <1>2 DEF IInv

\* The cases of the next-state relation.
LEMMA NextCases ==
  ASSUME [Next]_vars
  PROVE  \/ \E d \in Detectors, found \in SUBSET Pairs : Snapshot(d, found)
         \/ \E d \in Detectors, p \in Pairs : Lookup(d, p)
         \/ \E d \in Detectors : Insert(d)
         \/ \E p \in Pairs, keep \in Confirmed : Confirm(p, keep)
         \/ \E p \in Pairs : Reject(p) \/ OpenCandidate(p) \/ SaveCandidate(p)
         \/ \E l \in Listings : OpenListing(l) \/ SaveListing(l)
         \/ UNCHANGED vars
  BY DEF Next

\* A confirmation links the two listings of its pair.
LEMMA Confirms ==
  ASSUME NEW p \in Pairs, NEW keep \in Confirmed
  PROVE  /\ Loser(p, keep) \in Listings /\ Winner(p, keep) \in Listings
         /\ Loser(p, keep) # Winner(p, keep)
         /\ Winner(p, keep) # None
         /\ PairOf(Loser(p, keep), Winner(p, keep)) = p
         /\ \A l : l \in {p[1], p[2]} => l \in {Loser(p, keep), Winner(p, keep)}
         /\ Loser(p, keep) \in {p[1], p[2]}
  BY PairFacts, PairOfSides DEF Loser, Winner

\* The two verdicts of a confirmation discard different listings.
LEMMA OtherSide ==
  ASSUME NEW p \in Pairs, NEW k \in Confirmed, NEW j \in Confirmed
  PROVE  Loser(p, k) = Loser(p, j) <=> k = j
  BY PairFacts DEF Loser

-----------------------------------------------------------------------------
(* Each part of the invariant is preserved by every action.                 *)

\* Types.
LEMMA TypeStep ==
  ASSUME TypeOK, [Next]_vars
  PROVE  TypeOK'
<1>1. ASSUME NEW d \in Detectors, NEW found \in SUBSET Pairs, Snapshot(d, found)
      PROVE  TypeOK'
  BY <1>1 DEF TypeOK, Snapshot
<1>2. ASSUME NEW d \in Detectors, NEW p \in Pairs, Lookup(d, p) PROVE TypeOK'
  BY <1>2 DEF TypeOK, Lookup
<1>3. ASSUME NEW d \in Detectors, Insert(d) PROVE TypeOK'
  BY <1>3 DEF TypeOK, Insert
<1>4. ASSUME NEW p \in Pairs, NEW keep \in Confirmed, Confirm(p, keep) PROVE TypeOK'
  BY <1>4, Confirms DEF TypeOK, Confirm
<1>5. ASSUME NEW p \in Pairs, Reject(p) PROVE TypeOK'
  <2>1. duplicateOf' \in [Listings -> Listings \cup {None}]
    <3>1. [duplicateOf EXCEPT ![Loser(p, verdict[p])] = None]
            \in [Listings -> Listings \cup {None}]
      BY DEF TypeOK
    <3>2. QED
      BY <1>5, <3>1 DEF TypeOK, Reject
  <2>2. reviews' \in [Pairs -> 0..MaxReviews]
    BY <1>5 DEF TypeOK, Reject
  <2>3. verdict' \in [Pairs -> Verdicts \cup {Absent}]
    BY <1>5 DEF TypeOK, Reject
  <2>4. QED
    BY <1>5, <2>1, <2>2, <2>3 DEF TypeOK, Reject
<1>6. ASSUME NEW p \in Pairs, OpenCandidate(p) PROVE TypeOK'
  BY <1>6 DEF TypeOK, OpenCandidate
<1>7. ASSUME NEW p \in Pairs, SaveCandidate(p) PROVE TypeOK'
  BY <1>7 DEF TypeOK, SaveCandidate
<1>8. ASSUME NEW l \in Listings, OpenListing(l) PROVE TypeOK'
  BY <1>8 DEF TypeOK, OpenListing
<1>9. ASSUME NEW l \in Listings, SaveListing(l) PROVE TypeOK'
  BY <1>9 DEF TypeOK, SaveListing
<1>10. ASSUME UNCHANGED vars PROVE TypeOK'
  BY <1>10 DEF TypeOK, vars
<1>11. QED
  BY <1>1, <1>2, <1>3, <1>4, <1>5, <1>6, <1>7, <1>8, <1>9, <1>10, NextCases

\* Only a confirmation makes a link, and forms write back what was one.
LEMMA SidesStep ==
  ASSUME TypeOK, Sides, [Next]_vars
  PROVE  Sides'
<1>1. ASSUME NEW p \in Pairs, NEW keep \in Confirmed, Confirm(p, keep) PROVE Sides'
  BY <1>1, Confirms DEF TypeOK, Sides, Confirm
<1>2. ASSUME NEW p \in Pairs, Reject(p) PROVE Sides'
  BY <1>2 DEF TypeOK, Sides, Reject
<1>3. ASSUME NEW l \in Listings, OpenListing(l) PROVE Sides'
  BY <1>3 DEF TypeOK, Sides, OpenListing
<1>4. ASSUME NEW l \in Listings, SaveListing(l) PROVE Sides'
  BY <1>4 DEF TypeOK, Sides, SaveListing
<1>5. CASE UNCHANGED <<duplicateOf, listingForm, lastPair>>
  BY <1>5 DEF Sides
<1>6. QED
  BY <1>1, <1>2, <1>3, <1>4, <1>5, NextCases
     DEF Snapshot, Lookup, Insert, OpenCandidate, SaveCandidate, vars

\* A confirmation with the other side flips its pair; a rejection takes back
\* the link of its own pair and no other's.
LEMMA LastConfirmationStep ==
  ASSUME TypeOK, Sides, LinkIsLastConfirmation, [Next]_vars
  PROVE  LinkIsLastConfirmation'
<1> DEFINE Linked(l) ==
      LET keep == verdict[lastPair[l]] IN
      duplicateOf[l] = IF keep \in Confirmed /\ Loser(lastPair[l], keep) = l
                         THEN Winner(lastPair[l], keep) ELSE None
<1>1. ASSUME NEW p \in Pairs, NEW keep \in Confirmed, Confirm(p, keep)
      PROVE  LinkIsLastConfirmation'
  <2>1. SUFFICES ASSUME ~ outdated, NEW l \in Listings, lastPair'[l] # None,
                        lastPair'[l] \notin flipped'
                 PROVE  Linked(l)'
    BY <1>1 DEF LinkIsLastConfirmation, Confirm
  <2>2. /\ verdict'[p] = keep
        /\ \A q \in Pairs \ {p} : verdict'[q] = verdict[q]
        /\ lastPair'[Loser(p, keep)] = p
        /\ duplicateOf'[Loser(p, keep)] = Winner(p, keep)
        /\ \A m \in Listings \ {Loser(p, keep)} :
             lastPair'[m] = lastPair[m] /\ duplicateOf'[m] = duplicateOf[m]
        /\ flipped \subseteq flipped'
        /\ verdict[p] \in Confirmed \ {keep} => p \in flipped'
    BY <1>1, Confirms DEF TypeOK, Confirm
  <2>3. CASE l = Loser(p, keep)
    BY <2>2, <2>3
  <2>4. CASE l # Loser(p, keep)
    <3>1. /\ lastPair'[l] = lastPair[l] /\ duplicateOf'[l] = duplicateOf[l]
          /\ lastPair[l] \in Pairs /\ lastPair[l] \notin flipped /\ Linked(l)
      BY <2>1, <2>2, <2>4 DEF TypeOK, LinkIsLastConfirmation
    <3>2. CASE lastPair[l] # p
      BY <2>2, <3>1, <3>2
    <3>3. CASE lastPair[l] = p
      <4>1. l = Winner(p, keep)
        BY <2>1, <2>4, <3>1, <3>3, Confirms DEF Sides
      <4>2. ~ (verdict[p] \in Confirmed /\ Loser(p, verdict[p]) = l)
        BY <2>1, <2>2, <3>1, <3>3, <4>1, Confirms
      <4>3. QED
        BY <2>2, <2>4, <3>1, <3>3, <4>2
    <3>4. QED
      BY <3>2, <3>3
  <2>5. QED
    BY <2>3, <2>4
<1>2. ASSUME NEW p \in Pairs, Reject(p) PROVE LinkIsLastConfirmation'
  <2>1. SUFFICES ASSUME ~ outdated, NEW l \in Listings, lastPair[l] # None,
                        lastPair[l] \notin flipped
                 PROVE  Linked(l)'
    BY <1>2 DEF LinkIsLastConfirmation, Reject
  <2>2. /\ Linked(l) /\ lastPair'[l] = lastPair[l] /\ lastPair[l] \in Pairs
        /\ verdict'[p] = "rejected"
        /\ \A q \in Pairs \ {p} : verdict'[q] = verdict[q]
    BY <1>2, <2>1 DEF TypeOK, LinkIsLastConfirmation, Reject
  <2>3. CASE lastPair[l] = p
    <3>1. duplicateOf'[l] = None
      BY <1>2, <2>2, <2>3, Confirms DEF TypeOK, Reject
    <3>2. QED
      BY <2>2, <2>3, <3>1
  <2>4. CASE lastPair[l] # p
    <3>1. duplicateOf'[l] = duplicateOf[l]
      <4>1. SUFFICES ASSUME verdict[p] \in Confirmed, l = Loser(p, verdict[p]),
                            duplicateOf[l] = Winner(p, verdict[p])
                     PROVE  FALSE
        BY <1>2 DEF TypeOK, Reject
      <4>2. PairOf(l, duplicateOf[l]) = p /\ duplicateOf[l] # None
        BY <4>1, Confirms
      <4>3. PairOf(l, duplicateOf[l]) = lastPair[l]
        BY <2>2, <4>2, Confirms
      <4>4. QED
        BY <2>4, <4>2, <4>3
    <3>2. QED
      BY <2>2, <2>4, <3>1
  <2>5. QED
    BY <2>3, <2>4
<1>3. ASSUME NEW d \in Detectors, Insert(d) PROVE LinkIsLastConfirmation'
  <2>1. \A q \in Pairs : verdict'[q] = verdict[q] \/ {verdict[q], verdict'[q]} \cap Confirmed = {}
    BY <1>3 DEF TypeOK, Insert
  <2>2. \A l \in Listings : lastPair[l] # None => lastPair[l] \in Pairs
    BY DEF TypeOK
  <2>3. QED
    BY <1>3, <2>1, <2>2 DEF LinkIsLastConfirmation, Insert
<1>4. ASSUME NEW p \in Pairs, SaveCandidate(p) PROVE LinkIsLastConfirmation'
  <2>1. ~ outdated' => verdict' = verdict /\ ~ outdated
    BY <1>4 DEF TypeOK, SaveCandidate
  <2>2. QED
    BY <1>4, <2>1 DEF LinkIsLastConfirmation, SaveCandidate
<1>5. ASSUME NEW m \in Listings, SaveListing(m) PROVE LinkIsLastConfirmation'
  <2>1. ~ outdated' => duplicateOf' = duplicateOf /\ ~ outdated
    BY <1>5 DEF TypeOK, SaveListing
  <2>2. QED
    BY <1>5, <2>1 DEF LinkIsLastConfirmation, SaveListing
<1>6. CASE UNCHANGED <<verdict, duplicateOf, lastPair, flipped, outdated>>
  BY <1>6 DEF LinkIsLastConfirmation
<1>7. QED
  BY <1>1, <1>2, <1>3, <1>4, <1>5, <1>6, NextCases
     DEF Snapshot, Lookup, OpenCandidate, OpenListing, vars

\* The same for every link there is.
LEMMA OnlyConfirmedStep ==
  ASSUME TypeOK, Sides, OnlyConfirmedLink, [Next]_vars
  PROVE  OnlyConfirmedLink'
<1> DEFINE Justified(l) ==
      LET p == PairOf(l, duplicateOf[l]) IN
      p \in flipped \/ (verdict[p] \in Confirmed /\ Loser(p, verdict[p]) = l)
<1>1. OnlyConfirmedLink
        <=> (~ outdated => \A l \in Listings : duplicateOf[l] # None => Justified(l))
  BY DEF OnlyConfirmedLink, PairOf
<1>2. (OnlyConfirmedLink)'
        <=> (~ outdated' => \A l \in Listings : duplicateOf'[l] # None => Justified(l)')
  BY DEF OnlyConfirmedLink, PairOf
<1>3. ASSUME NEW p \in Pairs, NEW keep \in Confirmed, Confirm(p, keep)
      PROVE  OnlyConfirmedLink'
  <2>1. SUFFICES ASSUME ~ outdated, NEW l \in Listings, duplicateOf'[l] # None
                 PROVE  Justified(l)'
    BY <1>2, <1>3 DEF Confirm
  <2>2. /\ verdict'[p] = keep
        /\ \A q \in Pairs \ {p} : verdict'[q] = verdict[q]
        /\ duplicateOf'[Loser(p, keep)] = Winner(p, keep)
        /\ \A m \in Listings \ {Loser(p, keep)} : duplicateOf'[m] = duplicateOf[m]
        /\ flipped \subseteq flipped'
        /\ verdict[p] \in Confirmed \ {keep} => p \in flipped'
    BY <1>3, Confirms DEF TypeOK, Confirm
  <2>3. CASE l = Loser(p, keep)
    <3>1. PairOf(l, duplicateOf'[l]) = p
      BY <2>2, <2>3, Confirms
    <3>2. QED
      BY <2>2, <2>3, <3>1 DEF PairOf
  <2>4. CASE l # Loser(p, keep)
    <3>1. duplicateOf'[l] = duplicateOf[l] /\ Justified(l)
          /\ PairOf(l, duplicateOf[l]) \in Pairs
      BY <1>1, <2>1, <2>2, <2>4 DEF Sides
    <3>2. CASE PairOf(l, duplicateOf[l]) # p
      BY <2>2, <3>1, <3>2 DEF PairOf
    <3>3. CASE PairOf(l, duplicateOf[l]) = p
      <4>1. p \in flipped'
        BY <2>2, <2>4, <3>1, <3>3
      <4>2. QED
        BY <3>1, <3>3, <4>1 DEF PairOf
    <3>4. QED
      BY <3>2, <3>3
  <2>5. QED
    BY <2>3, <2>4
<1>4. ASSUME NEW p \in Pairs, Reject(p) PROVE OnlyConfirmedLink'
  <2>1. SUFFICES ASSUME ~ outdated, NEW l \in Listings, duplicateOf'[l] # None
                 PROVE  Justified(l)'
    BY <1>2, <1>4 DEF Reject
  <2>2. /\ duplicateOf'[l] = duplicateOf[l] /\ flipped' = flipped
        /\ ~ (verdict[p] \in Confirmed /\ l = Loser(p, verdict[p])
                /\ duplicateOf[l] = Winner(p, verdict[p]))
        /\ \A q \in Pairs \ {p} : verdict'[q] = verdict[q]
    BY <1>4, <2>1 DEF TypeOK, Reject
  <2>3. Justified(l) /\ PairOf(l, duplicateOf[l]) \in Pairs
    BY <1>1, <2>1, <2>2 DEF Sides
  <2>4. CASE PairOf(l, duplicateOf[l]) # p
    BY <2>2, <2>3, <2>4 DEF PairOf
  <2>5. CASE PairOf(l, duplicateOf[l]) = p
    <3>1. \/ l = p[1] /\ duplicateOf[l] = p[2]
          \/ l = p[2] /\ duplicateOf[l] = p[1]
      BY <2>3, <2>5, PairOfSides
    <3>2. p \in flipped
      BY <2>2, <2>3, <2>5, <3>1, PairFacts DEF Loser, Winner
    <3>3. QED
      BY <2>2, <2>5, <3>2 DEF PairOf
  <2>6. QED
    BY <2>4, <2>5
<1>5. ASSUME NEW d \in Detectors, Insert(d) PROVE OnlyConfirmedLink'
  <2>1. \A q \in Pairs : verdict'[q] = verdict[q] \/ verdict[q] \notin Confirmed
    BY <1>5 DEF TypeOK, Insert
  <2>2. \A l \in Listings : duplicateOf[l] # None => PairOf(l, duplicateOf[l]) \in Pairs
    BY DEF Sides
  <2>3. QED
    BY <1>1, <1>2, <1>5, <2>1, <2>2 DEF Insert, PairOf
<1>6. ASSUME NEW p \in Pairs, SaveCandidate(p) PROVE OnlyConfirmedLink'
  <2>1. ~ outdated' => verdict' = verdict /\ ~ outdated
    BY <1>6 DEF TypeOK, SaveCandidate
  <2>2. QED
    BY <1>6, <2>1 DEF OnlyConfirmedLink, SaveCandidate
<1>7. ASSUME NEW m \in Listings, SaveListing(m) PROVE OnlyConfirmedLink'
  <2>1. ~ outdated' => duplicateOf' = duplicateOf /\ ~ outdated
    BY <1>7 DEF TypeOK, SaveListing
  <2>2. QED
    BY <1>7, <2>1 DEF OnlyConfirmedLink, SaveListing
<1>8. CASE UNCHANGED <<verdict, duplicateOf, flipped, outdated>>
  BY <1>8 DEF OnlyConfirmedLink
<1>9. QED
  BY <1>3, <1>4, <1>5, <1>6, <1>7, <1>8, NextCases
     DEF Snapshot, Lookup, OpenCandidate, OpenListing, vars

-----------------------------------------------------------------------------
\* The invariant of the specification.
LEMMA Invariant == Spec => []IInv
<1>1. IInv /\ [Next]_vars => IInv'
  BY TypeStep, SidesStep, LastConfirmationStep, OnlyConfirmedStep DEF IInv
<1>2. QED
  BY <1>1, InitInvariant, PTL DEF Spec

\* The types of the tables and of what detectors and forms hold (core/dedup).
THEOREM TypeCorrect == Spec => []TypeOK
<1>1. IInv => TypeOK
  BY DEF IInv
<1>2. QED
  BY <1>1, Invariant, PTL

\* confirm_candidate and reject_candidate keep the link of a discarded listing
\* what its last confirmation made of it, whatever is reviewed in between.
THEOREM LinksFollowConfirmations == Spec => []LinkIsLastConfirmation
<1>1. IInv => LinkIsLastConfirmation
  BY DEF IInv
<1>2. QED
  BY <1>1, Invariant, PTL

\* Every link belongs to a pair that is confirmed for it, or was flipped.
THEOREM LinksAreConfirmed == Spec => []OnlyConfirmedLink
<1>1. IInv => OnlyConfirmedLink
  BY DEF IInv
<1>2. QED
  BY <1>1, Invariant, PTL

\* _record never changes the verdict of a reviewed pair: who changes it is a
\* reviewer, or a form that wrote an old copy back.
THEOREM DetectionKeepsVerdicts == Spec => VerdictSurvivesDetection
<1> DEFINE Kept == \A p \in Pairs :
      verdict[p] \in Confirmed \cup {"rejected"} /\ verdict'[p] # verdict[p]
        => reviews'[p] # reviews[p] \/ outdated'
<1>1. IInv /\ [Next]_vars => Kept
  <2> SUFFICES ASSUME TypeOK, [Next]_vars PROVE Kept
    BY DEF IInv
  <2>1. ASSUME NEW d \in Detectors, Insert(d) PROVE Kept
    BY <2>1 DEF TypeOK, Insert
  <2>2. ASSUME NEW p \in Pairs, NEW keep \in Confirmed, Confirm(p, keep) PROVE Kept
    BY <2>2 DEF TypeOK, Confirm
  <2>3. ASSUME NEW p \in Pairs, Reject(p) PROVE Kept
    BY <2>3 DEF TypeOK, Reject
  <2>4. ASSUME NEW p \in Pairs, SaveCandidate(p) PROVE Kept
    BY <2>4 DEF TypeOK, SaveCandidate
  <2>5. CASE verdict' = verdict
    BY <2>5
  <2>6. QED
    BY <2>1, <2>2, <2>3, <2>4, <2>5, NextCases
       DEF Snapshot, Lookup, OpenCandidate, OpenListing, SaveListing, vars
<1>2. QED
  BY <1>1, Invariant, PTL DEF Spec, VerdictSurvivesDetection
=============================================================================
