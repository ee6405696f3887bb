----------------------------- MODULE Categories -----------------------------
(***************************************************************************)
(* The transaction and the property type of a listing, read from its       *)
(* category slugs and its title (core/normalization/categories.py), and    *)
(* whether they are the ones a crawl asked for.                            *)
(*                                                                         *)
(* A slug is the set of what its tokens say: property types, "sale",       *)
(* "rent".  A title says "sale" and "rent" by its own markers.             *)
(***************************************************************************)
EXTENDS Naturals, Sequences, SequencesExt

\* PROPERTY_TOKENS, by priority
PropertyPriority ==
  <<"apartment", "villa", "house", "garden", "land", "rural_house", "commercial">>

PropertyTypes == Range(PropertyPriority) \cup {"other"}
Transactions  == {"sale", "rent", "unspecified"}

\* property_type_from_category: the first token of the list that any slug has.
PropertyOf(path) ==
  LET named == SelectSeq(PropertyPriority, LAMBDA p : \E i \in DOMAIN path : p \in path[i])
  IN IF named = <<>> THEN "other" ELSE named[1]

\* A title that mentions both is ambiguous and says nothing.
TransactionOfTitle(marks) ==
  IF marks \cap {"sale", "rent"} = {"sale"} THEN "sale"
  ELSE IF marks \cap {"sale", "rent"} = {"rent"} THEN "rent" ELSE "unspecified"

\* classify: the most specific slug that says one decides, then the title.
TransactionOf(path, title) ==
  LET saying == SelectSeq(path, LAMBDA slug : slug \cap {"sale", "rent"} # {})
  IN IF saying = <<>> THEN TransactionOfTitle(title)
     ELSE IF "sale" \in Last(saying) THEN "sale" ELSE "rent"

\* _outside_requested_type
OutsideRequested(job, listing) ==
  \/ job.property # "other" /\ listing.property # job.property
  \/ job.transaction # "unspecified" /\ listing.transaction # job.transaction
=============================================================================
