------------------------- MODULE MCListingLifecycle -------------------------
(* Instances of ListingLifecycle for TLC.                                   *)
EXTENDS ListingLifecycle, TLC

\* Crawls, sweepers and listings are interchangeable.
Symmetry == Permutations(Crawls) \cup Permutations(Sweepers) \cup Permutations(Listings)
=============================================================================
