------------------------------- MODULE Places -------------------------------
(***************************************************************************)
(* The three levels of places (core/locations/models.py), the source       *)
(* identifiers and aliases that point into them, the identifier a crawl    *)
(* scope stands for (core/crawling/scope.py) and the place a listing is    *)
(* filed under (core/normalization/locations.py).                          *)
(*                                                                         *)
(* A reference table is a record: the places that have a row, those of     *)
(* them that are active, `mapping' (SourceLocation), `alias'               *)
(* (LocationAlias) and `slug' (SourceCategory).  Names stand for folded    *)
(* texts.                                                                  *)
(***************************************************************************)
EXTENDS Integers, Sequences, SequencesExt

CONSTANTS
  Provinces, Cities, Regions,
  ProvinceOf,   \* City.province
  CityOf,       \* Region.city
  ByName,       \* every place, in the order of Meta.ordering within its level
  NameOf,       \* name_fa of a place, folded
  CodeOf,       \* code of a place, unique below its parent
  ExternalIds,  \* <<source, number>>: the identifiers of the sources
  Names,        \* names and aliases
  None          \* NULL

Places == Provinces \cup Cities \cup Regions

ASSUME PlacesAssumption ==
  /\ Provinces \cap Cities = {} /\ Provinces \cap Regions = {}
  /\ Cities \cap Regions = {}
  /\ None \notin Places
  /\ ProvinceOf \in [Cities -> Provinces]
  /\ CityOf \in [Regions -> Cities]
  /\ NameOf \in [Places -> Names]
  /\ ByName \in Seq(Places)
  /\ \A e \in ExternalIds : e[2] \in Nat

\* LEVEL_RANK
Rank(p) == IF p \in Regions THEN 2 ELSE IF p \in Cities THEN 1 ELSE 0

\* _place_chain: the place and what it lies in, most specific first.
Chain(p) ==
  IF p \in Regions THEN <<p, CityOf[p], ProvinceOf[CityOf[p]]>>
  ELSE IF p \in Cities THEN <<p, ProvinceOf[p]>>
  ELSE <<p>>

Within(p, q) == \E i \in DOMAIN Chain(p) : Chain(p)[i] = q

-----------------------------------------------------------------------------
(* From a saved scope to the source's own identifier.                      *)

\* The identifiers a source has for a place.
IdsOf(mapping, source, p) == {e \in ExternalIds : e[1] = source /\ mapping[e] = p}

\* resolve_source_place: the most specific level of the chain that has one;
\* .first() goes by the ordering (source, external_id).
SourcePlace(mapping, source, p) ==
  LET levels == {i \in DOMAIN Chain(p) : IdsOf(mapping, source, Chain(p)[i]) # {}}
      ids == IdsOf(mapping, source, Chain(p)[Min(levels)])
  IN IF levels = {} THEN None
     ELSE CHOOSE e \in ids : \A f \in ids : e[2] <= f[2]

\* _resolve_location of create_crawl_job: the rows that bear the code of the
\* most specific flag, below the parents whose flags are given.
Bearing(rows, flags) ==
  {p \in rows :
     /\ \A i \in DOMAIN Chain(p) :
          LET flag == flags[Rank(Chain(p)[i])] IN flag = None \/ flag = CodeOf[Chain(p)[i]]
     /\ flags[Rank(p)] # None
     /\ \A level \in DOMAIN flags : level > Rank(p) => flags[level] = None}

-----------------------------------------------------------------------------
(* LocationIndex: the copy of the reference data one crawl works with.     *)

EmptyIndex ==
  [known  |-> {},
   text   |-> [n \in Names |-> None],
   source |-> [e \in ExternalIds |-> None]]

\* The first of the most specific places of a sequence that has some.
MostSpecific(s) ==
  LET found == {i \in DOMAIN s : s[i] # None}
      best  == {i \in found : \A j \in found : Rank(s[j]) <= Rank(s[i])}
  IN IF found = {} THEN None ELSE s[Min(best)]

\* Mutant: targets that are inactive, or were added meanwhile, are indexed too.
KnownAny(known, p) == p

\* _known: a target the index has no row of is dropped.
Known(known, p) == IF p \in known THEN p ELSE None

\* _by_text, filled by _add: names first, then aliases; a place gives way only
\* to one of a more specific level.
TextTarget(known, alias, n) ==
  MostSpecific([i \in DOMAIN ByName |->
                  IF NameOf[ByName[i]] = n THEN Known(known, ByName[i]) ELSE None]
               \o <<Known(known, alias[n])>>)

\* _match_text: the parts of the printed location and then the whole of it.
MatchText(index, texts) ==
  MostSpecific([i \in DOMAIN texts |-> index.text[texts[i]]])

\* Mutant: an identifier of the other source is taken for this one's.
MatchSourceByNumber(index, refs) ==
  LET same(i) == {f \in ExternalIds : f[2] = refs[i][2] /\ index.source[f] # None}
      found == {i \in DOMAIN refs : same(i) # {}}
  IN IF found = {} THEN None
     ELSE index.source[CHOOSE f \in same(Min(found)) :
                         same(Min(found)) # {refs[Min(found)]} => f # refs[Min(found)]]

\* The first of the listing's own place references that is mapped.
MatchSource(index, refs) ==
  LET found == {i \in DOMAIN refs : index.source[refs[i]] # None}
  IN IF found = {} THEN None ELSE index.source[refs[Min(found)]]

\* resolve: the identifier, unless the text names a more specific level.
Resolve(index, refs, texts) ==
  LET exact == MatchSource(index, refs)
      text  == MatchText(index, texts)
  IN IF text # None /\ (exact = None \/ Rank(text) > Rank(exact)) THEN text ELSE exact

Nowhere == [province |-> None, city |-> None, region |-> None]

\* Mutant: the province of a region is left empty.
LocatedShort(known, p) ==
  LET city == IF p \in Regions THEN CityOf[p] ELSE IF p \in Cities THEN p ELSE None
  IN [region   |-> IF p \in Regions THEN p ELSE None,
      city     |-> city,
      province |-> IF p \in Provinces THEN p ELSE None]

\* _build: the city of a region comes with the region's row, the province only
\* from a city that is in the index.
Located(known, p) ==
  LET city == IF p \in Regions THEN CityOf[p] ELSE IF p \in Cities THEN p ELSE None
  IN [region   |-> IF p \in Regions THEN p ELSE None,
      city     |-> city,
      province |-> IF p \in Provinces THEN p
                   ELSE IF city \in known THEN ProvinceOf[city] ELSE None]
=============================================================================
