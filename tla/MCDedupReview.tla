--------------------------- MODULE MCDedupReview ---------------------------
(* Instances of DedupReview for TLC.                                        *)
EXTENDS DedupReview, TLC

\* Listings of one source are interchangeable, and so are detectors.
Symmetry == Permutations(Left) \cup Permutations(Right) \cup Permutations(Detectors)
=============================================================================
