---------------------------- MODULE DedupReview ----------------------------
(***************************************************************************)
(* Duplicate candidates (core/dedup): detectors record pairs of listings   *)
(* that look alike, reviewers confirm or reject them, and a confirmation   *)
(* links the discarded listing to the one kept.  A reviewer's transaction  *)
(* locks what it reads before it reads it and is one action here; a        *)
(* detector works on a snapshot, one pair at a time; the admin forms write *)
(* whole rows back as they were loaded.                                    *)
(***************************************************************************)
EXTENDS Naturals, FiniteSets

CONSTANTS
  Left, Right,   \* the listings of the two sources: pairs are cross-source
  Detectors,     \* processes running detect_candidates
  None,          \* no listing, no pair
  MaxReviews,    \* bound: reviews of one candidate
  MaxForms       \* bound: admin forms opened

ASSUME DedupAssumption ==
  /\ Left \cap Right = {}
  /\ None \notin Left \cup Right \cup (Left \X Right)
  /\ MaxReviews \in Nat /\ MaxForms \in Nat

VARIABLES
  verdict,       \* status and canonical of each candidate row
  duplicateOf,   \* Listing.duplicate_of
  todo,          \* the matching pairs each detector still has to record
  inserting,     \* the pair a detector found no row for
  listingForm,   \* duplicate_of as loaded by an open listing form
  candidateForm, \* the candidate as loaded by an open candidate form
  lastPair,      \* the candidate whose confirmation last discarded the listing
  reviews,       \* how often each candidate was reviewed
  flipped,       \* confirmed twice in a row, keeping different sides
  forms,         \* how many forms were opened
  outdated       \* a form wrote a row back that had changed meanwhile

vars == <<verdict, duplicateOf, todo, inserting, listingForm, candidateForm,
          lastPair, reviews, flipped, forms, outdated>>

Listings == Left \cup Right
Pairs    == Left \X Right
Verdicts == {"pending", "keep_left", "keep_right", "rejected"}
Absent   == "absent"     \* no candidate row
Closed   == "closed"     \* no form open

Confirmed == {"keep_left", "keep_right"}

Winner(p, keep) == IF keep = "keep_left" THEN p[1] ELSE p[2]
Loser(p, keep)  == IF keep = "keep_left" THEN p[2] ELSE p[1]

Init ==
  /\ verdict = [p \in Pairs |-> Absent]
  /\ duplicateOf = [l \in Listings |-> None]
  /\ todo = [d \in Detectors |-> {}]
  /\ inserting = [d \in Detectors |-> None]
  /\ listingForm = [l \in Listings |-> Closed]
  /\ candidateForm = [p \in Pairs |-> Closed]
  /\ lastPair = [l \in Listings |-> None]
  /\ reviews = [p \in Pairs |-> 0]
  /\ flipped = {}
  /\ forms = 0
  /\ outdated = FALSE

-----------------------------------------------------------------------------
(* Detection.                                                               *)

\* One query loads the listings that link to nobody; whether two of them match
\* is decided by their data (module Matching), which is left open here.
Snapshot(d, found) ==
  /\ todo[d] = {} /\ inserting[d] = None
  /\ found # {}
  /\ \A p \in found : duplicateOf[p[1]] = None /\ duplicateOf[p[2]] = None
  /\ todo' = [todo EXCEPT ![d] = found]
  /\ UNCHANGED <<verdict, duplicateOf, inserting, listingForm, candidateForm,
                 lastPair, reviews, flipped, forms, outdated>>

\* _record looks the pair up.  A row that is there gets its score and signals
\* refreshed, and keeps its verdict.
Lookup(d, p) ==
  /\ p \in todo[d] /\ inserting[d] = None
  /\ todo' = [todo EXCEPT ![d] = @ \ {p}]
  /\ inserting' = [inserting EXCEPT ![d] = IF verdict[p] = Absent THEN p ELSE None]
  /\ UNCHANGED <<verdict, duplicateOf, listingForm, candidateForm, lastPair, reviews, flipped, forms, outdated>>

\* Mutant: update_or_create with the defaults of a new row.
InsertOverwrites(d) ==
  /\ inserting[d] # None
  /\ verdict' = [verdict EXCEPT ![inserting[d]] = "pending"]
  /\ inserting' = [inserting EXCEPT ![d] = None]
  /\ UNCHANGED <<duplicateOf, todo, listingForm, candidateForm, lastPair, reviews, flipped, forms, outdated>>

\* The INSERT.  If another detector was faster the unique constraint rejects it
\* and _refresh updates score and signals instead.
Insert(d) ==
  LET p == inserting[d] IN
  /\ p # None
  /\ verdict' = [verdict EXCEPT ![p] = IF @ = Absent THEN "pending" ELSE @]
  /\ inserting' = [inserting EXCEPT ![d] = None]
  /\ UNCHANGED <<duplicateOf, todo, listingForm, candidateForm, lastPair, reviews, flipped, forms, outdated>>

-----------------------------------------------------------------------------
(* Review.                                                                  *)

\* confirm_candidate: the loser points at the winner whatever it pointed at
\* before; the link of an earlier confirmation of this pair is left alone.
Confirm(p, keep) ==
  LET loser == Loser(p, keep)
      winner == Winner(p, keep)
  IN
  /\ verdict[p] # Absent /\ reviews[p] < MaxReviews
  /\ duplicateOf' = [duplicateOf EXCEPT ![loser] = winner]
  /\ verdict' = [verdict EXCEPT ![p] = keep]
  /\ lastPair' = [lastPair EXCEPT ![loser] = p]
  /\ reviews' = [reviews EXCEPT ![p] = @ + 1]
  /\ flipped' = IF verdict[p] \in Confirmed \ {keep} THEN flipped \cup {p} ELSE flipped
  /\ UNCHANGED <<todo, inserting, listingForm, candidateForm, forms, outdated>>

\* Mutant: the verdict is recorded and the link is left in place.
RejectKeepsLink(p) ==
  /\ verdict[p] # Absent /\ reviews[p] < MaxReviews
  /\ verdict' = [verdict EXCEPT ![p] = "rejected"]
  /\ reviews' = [reviews EXCEPT ![p] = @ + 1]
  /\ UNCHANGED <<duplicateOf, todo, inserting, listingForm, candidateForm,
                 lastPair, flipped, forms, outdated>>

\* Mutant: the loser's link is cleared wherever it points.
RejectClearsAnyLink(p) ==
  /\ verdict[p] # Absent /\ reviews[p] < MaxReviews
  /\ duplicateOf' = IF verdict[p] \in Confirmed
                      THEN [duplicateOf EXCEPT ![Loser(p, verdict[p])] = None]
                      ELSE duplicateOf
  /\ verdict' = [verdict EXCEPT ![p] = "rejected"]
  /\ reviews' = [reviews EXCEPT ![p] = @ + 1]
  /\ UNCHANGED <<todo, inserting, listingForm, candidateForm, lastPair, flipped, forms, outdated>>

\* reject_candidate: the link of the confirmation it takes back is dropped, if
\* it still points at the winner.
Reject(p) ==
  LET loser == Loser(p, verdict[p])
      winner == Winner(p, verdict[p])
  IN
  /\ verdict[p] # Absent /\ reviews[p] < MaxReviews
  /\ duplicateOf' =
       IF verdict[p] \in Confirmed /\ duplicateOf[loser] = winner
         THEN [duplicateOf EXCEPT ![loser] = None] ELSE duplicateOf
  /\ verdict' = [verdict EXCEPT ![p] = "rejected"]
  /\ reviews' = [reviews EXCEPT ![p] = @ + 1]
  /\ UNCHANGED <<todo, inserting, listingForm, candidateForm, lastPair, flipped, forms, outdated>>

-----------------------------------------------------------------------------
(* Admin change forms: every column is saved, the read-only ones as loaded.  *)

OpenListing(l) ==
  /\ listingForm[l] = Closed /\ forms < MaxForms
  /\ listingForm' = [listingForm EXCEPT ![l] = duplicateOf[l]]
  /\ forms' = forms + 1
  /\ UNCHANGED <<verdict, duplicateOf, todo, inserting, candidateForm,
                 lastPair, reviews, flipped, outdated>>

\* Mutant: the form is saved without having been loaded.
SaveListingUnloaded(l) ==
  /\ duplicateOf' = [duplicateOf EXCEPT ![l] = listingForm[l]]
  /\ listingForm' = [listingForm EXCEPT ![l] = Closed]
  /\ outdated' = (outdated \/ duplicateOf[l] # listingForm[l])
  /\ UNCHANGED <<verdict, todo, inserting, candidateForm, lastPair,
                 reviews, flipped, forms>>

SaveListing(l) ==
  /\ listingForm[l] # Closed
  /\ duplicateOf' = [duplicateOf EXCEPT ![l] = listingForm[l]]
  /\ listingForm' = [listingForm EXCEPT ![l] = Closed]
  /\ outdated' = (outdated \/ duplicateOf[l] # listingForm[l])
  /\ UNCHANGED <<verdict, todo, inserting, candidateForm, lastPair,
                 reviews, flipped, forms>>

OpenCandidate(p) ==
  /\ verdict[p] # Absent
  /\ candidateForm[p] = Closed /\ forms < MaxForms
  /\ candidateForm' = [candidateForm EXCEPT ![p] = verdict[p]]
  /\ forms' = forms + 1
  /\ UNCHANGED <<verdict, duplicateOf, todo, inserting, listingForm,
                 lastPair, reviews, flipped, outdated>>

SaveCandidate(p) ==
  /\ candidateForm[p] # Closed
  /\ verdict' = [verdict EXCEPT ![p] = candidateForm[p]]
  /\ candidateForm' = [candidateForm EXCEPT ![p] = Closed]
  /\ outdated' = (outdated \/ verdict[p] # candidateForm[p])
  /\ UNCHANGED <<duplicateOf, todo, inserting, listingForm, lastPair,
                 reviews, flipped, forms>>

-----------------------------------------------------------------------------
Next ==
  \/ \E d \in Detectors :
       \/ \E found \in SUBSET Pairs : Snapshot(d, found)
       \/ \E p \in Pairs : Lookup(d, p)
       \/ Insert(d)
  \/ \E p \in Pairs :
       \/ \E keep \in Confirmed : Confirm(p, keep)
       \/ Reject(p) \/ OpenCandidate(p) \/ SaveCandidate(p)
  \/ \E l \in Listings : OpenListing(l) \/ SaveListing(l)

Spec == Init /\ [][Next]_vars

-----------------------------------------------------------------------------
(* Properties.                                                              *)

TypeOK ==
  /\ verdict \in [Pairs -> Verdicts \cup {Absent}]
  /\ duplicateOf \in [Listings -> Listings \cup {None}]
  /\ todo \in [Detectors -> SUBSET Pairs]
  /\ inserting \in [Detectors -> Pairs \cup {None}]
  /\ listingForm \in [Listings -> Listings \cup {None, Closed}]
  /\ candidateForm \in [Pairs -> Verdicts \cup {Closed}]
  /\ lastPair \in [Listings -> Pairs \cup {None}]
  /\ reviews \in [Pairs -> 0..MaxReviews]
  /\ flipped \subseteq Pairs
  /\ forms \in 0..MaxForms
  /\ outdated \in BOOLEAN

\* A link is the last confirmation that discarded the listing, and lasts exactly
\* as long as that confirmation: taking back an older one never touches it.  The
\* exceptions are a pair confirmed again with the other side, and an admin form
\* that wrote an old copy back.
LinkIsLastConfirmation ==
  ~ outdated => \A l \in Listings :
    lastPair[l] # None /\ lastPair[l] \notin flipped =>
      LET keep == verdict[lastPair[l]] IN
      duplicateOf[l] = IF keep \in Confirmed /\ Loser(lastPair[l], keep) = l
                         THEN Winner(lastPair[l], keep) ELSE None

\* A listing that was never discarded links to nobody, and a rejected pair is
\* not linked in either direction, with the same exceptions: "only confirmed
\* rows link one listing to another" (enums.py).
OnlyConfirmedLink ==
  ~ outdated => \A l \in Listings : duplicateOf[l] # None =>
    LET p == IF l \in Left THEN <<l, duplicateOf[l]>> ELSE <<duplicateOf[l], l>>
    IN  p \in flipped \/ (verdict[p] \in Confirmed /\ Loser(p, verdict[p]) = l)

\* A reviewer's verdict is data and not a cache: no detector makes a reviewed
\* pair pending again, whatever it read before the review.
VerdictSurvivesDetection ==
  [][\A p \in Pairs :
       verdict[p] \in Confirmed \cup {"rejected"} /\ verdict'[p] # verdict[p]
         => reviews'[p] # reviews[p] \/ outdated']_vars

\* services.py, line 144: rejecting records that the pair is not one listing and
\* drops "any link it created".  Confirmed for one side and then for the other
\* it created two; the rejection drops one.
RejectedIsNotLinked ==
  \A p \in Pairs : verdict[p] = "rejected" /\ ~ outdated =>
    duplicateOf[p[1]] # p[2] /\ duplicateOf[p[2]] # p[1]
=============================================================================
