---------------------------- MODULE MCCrawlJobs ----------------------------
(* Instances of CrawlJobs for TLC.                                          *)
EXTENDS CrawlJobs, TLC

\* Workers are interchangeable, and so are the inline runners; jobs too.
Symmetry == Permutations(Workers) \cup Permutations(Inlines) \cup Permutations(Jobs)
=============================================================================
