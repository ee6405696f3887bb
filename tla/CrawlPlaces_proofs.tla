------------------------- MODULE CrawlPlaces_proofs -------------------------
(***************************************************************************)
(* The places of a crawl: what its index returns, where its rows are filed *)
(* and that they lie there, for any places, names, identifiers and changes *)
(* of the reference tables; and the types of the whole state.              *)
(***************************************************************************)
EXTENDS CrawlRun_proofs

\* The copy of the reference data has a row of everything it returns.
Indexed ==
  /\ index = [known |-> index.known, text |-> index.text, source |-> index.source]
  /\ index.known \subseteq Places
  /\ index.text \in [Names -> index.known \cup {None}]
  /\ index.source \in [ExternalIds -> index.known \cup {None}]

PlaceFields == {"province", "city", "region"}

\* The levels of a place, but for the province, which a crawl may not know.
CityIn(p) == IF p \in Regions THEN CityOf[p] ELSE IF p \in Cities THEN p ELSE None

FiledIn(r, p) ==
  /\ r.region = IF p \in Regions THEN p ELSE None
  /\ r.city = CityIn(p)
  /\ p \in Provinces => r.province = p
  /\ p \notin Provinces => r.province \in {None, ProvinceOf[CityIn(p)]}

FiledNowhere(r) == r.province = None /\ r.city = None /\ r.region = None

\* A row and the places it was filed in.
Filed ==
  /\ filed \in [Listings -> SUBSET Places]
  /\ \A l \in Listings :
       /\ IsFiniteSet(filed[l])
       /\ Exists(l) => PlaceFields \cup {"status", "duplicateOf"} \subseteq DOMAIN row[l]
       /\ ~ Exists(l) => filed[l] = {}
       /\ Exists(l) /\ filed[l] = {} => FiledNowhere(row[l])
       /\ \A p \in Places : filed[l] = {p} => FiledIn(row[l], p)

\* What this crawl found: the place is on file, and with its province if the
\* crawl knows the city.
Found ==
  \A l \in done :
    LET place == Resolve(index, Details[l].refs, Pages[l].texts) IN
    /\ Exists(l)
    /\ place # None => place \in filed[l]
    /\ \A p \in Places : place = p /\ filed[l] = {p} /\ CityIn(p) \in index.known
         => row[l].province # None

-----------------------------------------------------------------------------
(* The operators.                                                          *)

LEMMA RankType == \A p : Rank(p) \in 0..2
BY DEF Rank

\* Where the members of a sequence are that are some place.
LEMMA MostSpecificOf ==
  ASSUME NEW S, NEW s \in Seq(S \cup {None})
  PROVE  MostSpecific(s) \in S \cup {None}
<1> DEFINE found == {i \in DOMAIN s : s[i] # None}
           best  == {i \in found : \A j \in found : Rank(s[j]) <= Rank(s[i])}
<1>1. MostSpecific(s) = IF found = {} THEN None ELSE s[Min(best)]
  BY DEF MostSpecific
<1>2. best \in SUBSET Nat /\ \A i \in best : s[i] \in S \cup {None}
  OBVIOUS
<1>3. ASSUME found # {} PROVE best # {}
  <2> HIDE DEF found
  <2>1. CASE \E i \in found : Rank(s[i]) = 2
    BY <2>1, RankType
  <2>2. CASE ~ (\E i \in found : Rank(s[i]) = 2) /\ \E i \in found : Rank(s[i]) = 1
    <3>1. \A j \in found : Rank(s[j]) <= 1
      BY <2>2, RankType
    <3>2. QED
      BY <2>2, <3>1
  <2>3. CASE \A i \in found : Rank(s[i]) \notin {1, 2}
    <3>1. \A j \in found : Rank(s[j]) = 0
      BY <2>3, RankType
    <3>2. QED
      BY <1>3, <3>1
  <2>4. QED
    BY <2>1, <2>2, <2>3
<1>4. found # {} => Min(best) \in best
  BY <1>2, <1>3, MinOfNumbers
<1>5. QED
  <2> HIDE DEF found, best
  <2> QED
    BY <1>1, <1>2, <1>4

\* A name leads to a place the index has, or nowhere.
LEMMA TextTargetIsKnown ==
  ASSUME NEW known, NEW alias, NEW n
  PROVE  TextTarget(known, alias, n) \in known \cup {None}
<1> DEFINE names == [i \in DOMAIN ByName |->
                       IF NameOf[ByName[i]] = n THEN Known(known, ByName[i]) ELSE None]
           other == <<Known(known, alias[n])>>
<1>1. \A p : Known(known, p) \in known \cup {None}
  BY DEF Known
<1>2. Len(ByName) \in Nat /\ DOMAIN ByName = 1..Len(ByName)
  BY PlacesAssumption DEF PlacesAssumption
<1>3. names \in Seq(known \cup {None})
  <2>1. names \in [1..Len(ByName) -> known \cup {None}]
    BY <1>1, <1>2
  <2>2. QED
    BY <1>2, <2>1
<1>4. other \in Seq(known \cup {None})
  BY <1>1
<1>5. names \o other \in Seq(known \cup {None})
  <2> HIDE DEF names, other
  <2> QED
    BY <1>3, <1>4
<1>6. QED
  BY <1>5, MostSpecificOf DEF TextTarget

\* What a listing is resolved to is a place the index has, or nowhere.
LEMMA ResolvesToKnown ==
  ASSUME Indexed, NEW refs \in Seq(ExternalIds), NEW texts \in Seq(Names)
  PROVE  Resolve(index, refs, texts) \in index.known \cup {None}
<1>1. MatchSource(index, refs) \in index.known \cup {None}
  <2> DEFINE found == {i \in DOMAIN refs : index.source[refs[i]] # None}
  <2>1. found \in SUBSET Nat /\ \A i \in found : index.source[refs[i]] \in index.known \cup {None}
    BY DEF Indexed
  <2>2. found # {} => Min(found) \in found
    BY <2>1, MinOfNumbers
  <2>3. QED
    BY <2>1, <2>2 DEF MatchSource
<1>2. MatchText(index, texts) \in index.known \cup {None}
  <2> DEFINE targets == [i \in DOMAIN texts |-> index.text[texts[i]]]
  <2>1. targets \in Seq(index.known \cup {None})
    <3>1. Len(texts) \in Nat /\ DOMAIN texts = 1..Len(texts)
      OBVIOUS
    <3>2. targets \in [1..Len(texts) -> index.known \cup {None}]
      BY <3>1 DEF Indexed
    <3>3. QED
      BY <3>1, <3>2
  <2>2. QED
    BY <2>1, MostSpecificOf DEF MatchText
<1>3. QED
  BY <1>1, <1>2 DEF Resolve

\* The three levels that are written for a place.
LEMMA LevelsOf ==
  ASSUME NEW known \in SUBSET Places, NEW p \in Places
  PROVE  /\ FiledIn(Located(known, p), p)
         /\ CityIn(p) \in known => Located(known, p).province # None
         /\ p \in Regions \cup Cities => CityIn(p) \in Cities
         /\ p \in Provinces => CityIn(p) = None
         /\ None \notin Places
<1> USE PlacesAssumption DEF PlacesAssumption, Places
<1>1. /\ p \in Regions => CityOf[p] \in Cities /\ p \notin Cities /\ p \notin Provinces
      /\ p \in Cities => p \notin Regions /\ p \notin Provinces
      /\ p \in Provinces => p \notin Regions /\ p \notin Cities
      /\ \A c \in Cities : ProvinceOf[c] \in Provinces /\ ProvinceOf[c] # None
  OBVIOUS
<1>2. QED
  BY <1>1 DEF FiledIn, CityIn, Located
-----------------------------------------------------------------------------
(* The steps, by what they do to the index and to the rows.                *)

\* A page that has been read leads to this.
LEMMA StepsOfPlaces ==
  ASSUME Shape, Stage, [Next]_vars
  PROVE  \/ UNCHANGED <<index, row, filed, done>>
         \/ Load
         \/ NextJob
         \/ \E l \in AtWork : Persist(l, Details[l])
         \/ \E q \in Here.judged : Judge(q[1], q[2])
<1>1. CASE Submit \/ Refuse \/ Execute \/ ScopeFailed \/ TurnPage \/ Raises \/ Finish \/ Detect
  BY <1>1 DEF Submit, Refuse, Execute, ScopeFailed, TurnPage, Raises, Finish, Detect, copy, stored
<1>2. CASE RequestPage \/ SkipStub \/ UNCHANGED vars
  BY <1>2 DEF RequestPage, SkipStub, vars, copy, stored
<1>3. ASSUME NEW l \in AtWork, NEW d \in {Details[m] : m \in AtWork},
             Persist(l, d) \/ StubUnreadable(l, d) \/ StubRaises(d)
      PROVE  UNCHANGED <<index, row, filed, done>> \/ Persist(l, Details[l])
  <2>1. d = Details[l]
    BY TurnsTo
  <2>2. QED
    BY <1>3, <2>1 DEF StubUnreadable, StubRaises, Fails, Processes, copy, stored
<1>4. ASSUME NEW l \in AtWork, StubGone(l) \/ StubFails(l)
      PROVE  UNCHANGED <<index, row, filed, done>>
  BY <1>4 DEF StubGone, StubFails, Fails, Processes, copy, stored
<1>5. ASSUME NEW l, Publish(l) \/ Withdraw(l)
      PROVE  UNCHANGED <<index, row, filed, done>>
  BY <1>5 DEF Publish, Withdraw, Changes, copy, stored
<1>6. ASSUME \/ \E file \in Here.files : SeedLocations(file)
             \/ \E file \in Here.slugs : SeedCategories(file)
             \/ \E p \in Here.toggles : Toggle(p)
             \/ \E e \in Here.remaps, p \in Places \cup {None} : Remap(e, p)
      PROVE  UNCHANGED <<index, row, filed, done>>
  BY <1>6 DEF SeedLocations, SeedCategories, Toggle, Remap, Edits, copy
<1>7. QED
  BY <1>1, <1>2, <1>3, <1>4, <1>5, <1>6, NextCases

\* What a query of the load does.
LEMMA Loads ==
  ASSUME Load
  PROVE  /\ pc = "loading" /\ UNCHANGED <<row, filed, done>>
         /\ \/ \E level \in SUBSET Places :
                 index' = [index EXCEPT !.known = @ \cup (ref.active \cap level)]
            \/ index' = [index EXCEPT !.text =
                          [n \in Names |-> TextTarget(index.known, ref.alias, n)]]
            \/ index' = [index EXCEPT !.source =
                          [e \in ExternalIds |-> Known(index.known, ref.mapping[e])]]
<1>1. /\ pc = "loading" /\ UNCHANGED <<row, filed, done>>
  BY DEF Load, LoadPlaces, LoadAliases, LoadSources, stored
<1>2. Provinces \in SUBSET Places /\ Cities \in SUBSET Places /\ Regions \in SUBSET Places
  BY DEF Places
<1>3. QED
  BY <1>1, <1>2 DEF Load, LoadPlaces, LoadAliases, LoadSources

\* What a listing leaves that was read: its row, where it was filed.
LEMMA Files ==
  ASSUME Shape, Indexed, NEW l \in AtWork, Persist(l, Details[l])
  PROVE  LET place == Resolve(index, Details[l].refs, Pages[l].texts) IN
         /\ l \in Listings /\ done' = done \cup {l} /\ index' = index
         /\ place \in index.known \cup {None}
         /\ row' = [row EXCEPT ![l] = Refreshed(l, place, Normalized(l, Details[l]))]
         /\ filed' = [filed EXCEPT ![l] = @ \cup ({place} \ {None})]
<1> DEFINE place == Resolve(index, Details[l].refs, Pages[l].texts)
<1>1. l \in Listings /\ done' = done \cup {l} /\ index' = index
  BY Persists
<1>2. place \in index.known \cup {None}
  <2>1. Details[l].refs \in Seq(ExternalIds) /\ Pages[l].texts \in Seq(Names)
    BY <1>1, PagesAssumption DEF PagesAssumption, Persist
  <2>2. QED
    BY <2>1, ResolvesToKnown
<1>3. /\ row' = [row EXCEPT ![l] = Refreshed(l, place, Normalized(l, Details[l]))]
      /\ filed' = [filed EXCEPT ![l] = @ \cup ({place} \ {None})]
  BY DEF Persist
<1>4. QED
  BY <1>1, <1>2, <1>3

\* An operator's verdict on a row leaves its places alone.
LEMMA Judges ==
  ASSUME Shape, Filed, NEW l, NEW m, Judge(l, m)
  PROVE  /\ UNCHANGED <<index, filed, done>>
         /\ \A k \in Listings :
              /\ Exists(k)' <=> Exists(k)
              /\ Exists(k) =>
                   /\ PlaceFields \cup {"status", "duplicateOf"} \subseteq DOMAIN row'[k]
                   /\ \A f \in PlaceFields : row'[k][f] = row[k][f]
<1>1. UNCHANGED <<index, filed, done>>
  BY DEF Judge, Edits, copy
<1>2. {l, m} \ {None} \subseteq Stored
      /\ row' = [row EXCEPT ![l] = IF m = None THEN [@ EXCEPT !.status = "hidden"]
                                   ELSE [@ EXCEPT !.duplicateOf = row[m].id]]
  BY DEF Judge
<1>3. CASE l = None
  <2>1. row' = row
    BY <1>2, <1>3, RunAssumption DEF Shape
  <2>2. QED
    BY <1>1, <2>1 DEF Filed, Exists
<1>4. CASE l # None
  <2>1. l \in Listings /\ Exists(l)
    BY <1>2, <1>4 DEF Stored
  <2>2. PlaceFields \cup {"status", "duplicateOf"} \subseteq DOMAIN row[l]
    BY <2>1 DEF Filed
  <2>3. \A k \in Listings \ {l} : row'[k] = row[k]
    BY <1>2 DEF Shape
  <2>4. row'[l] = IF m = None THEN [row[l] EXCEPT !.status = "hidden"]
                  ELSE [row[l] EXCEPT !.duplicateOf = row[m].id]
    BY <1>2, <2>1 DEF Shape
  <2>5. DOMAIN row'[l] = DOMAIN row[l] /\ \A f \in PlaceFields : row'[l][f] = row[l][f]
    BY <2>2, <2>4 DEF PlaceFields
  <2>6. "city" \in DOMAIN row'[l] /\ "city" \notin DOMAIN NoRow
    BY <2>2, <2>5 DEF PlaceFields, NoRow
  <2>7. row'[l] # NoRow
    BY <2>6
  <2>8. \A k \in Listings \ {l} : Exists(k)
          => PlaceFields \cup {"status", "duplicateOf"} \subseteq DOMAIN row[k]
    BY DEF Filed
  <2>9. QED
    <3>1. Exists(l)'
      BY <2>7 DEF Exists
    <3>2. \A k \in Listings \ {l} : Exists(k)' <=> Exists(k)
      BY <2>3 DEF Exists
    <3>3. QED
      BY <1>1, <2>1, <2>2, <2>3, <2>5, <2>8, <3>1, <3>2
<1>5. QED
  BY <1>3, <1>4

-----------------------------------------------------------------------------
(* The invariants are kept.                                                *)

LEMMA InitPlaces == Init => Indexed /\ Filed /\ Found
<1> SUFFICES ASSUME Init PROVE Indexed /\ Filed /\ Found
  OBVIOUS
<1>1. Indexed
  BY DEF Init, Indexed, EmptyIndex
<1>2. Filed
  <2>1. filed = [l \in Listings |-> {}] /\ row = [l \in Listings |-> NoRow]
    BY DEF Init
  <2>2. \A l \in Listings : ~ Exists(l) /\ filed[l] = {}
    BY <2>1 DEF Exists
  <2>3. filed \in [Listings -> SUBSET Places]
    BY <2>1
  <2>4. QED
    BY <2>2, <2>3, FS_EmptySet DEF Filed
<1>3. Found
  BY DEF Init, Found
<1>4. QED
  BY <1>1, <1>2, <1>3

LEMMA IndexedStep == ASSUME Shape, Stage, Indexed, [Next]_vars PROVE Indexed'
<1>1. CASE UNCHANGED index
  BY <1>1 DEF Indexed
<1>2. CASE Load
  <2>1. \A p : Known(index.known, p) \in index.known \cup {None}
    BY DEF Known
  <2>2. ASSUME NEW level \in SUBSET Places,
               index' = [index EXCEPT !.known = @ \cup (ref.active \cap level)]
        PROVE  Indexed'
    <3>1. /\ index' = [known |-> index.known \cup (ref.active \cap level),
                       text |-> index.text, source |-> index.source]
      BY <2>2 DEF Indexed
    <3>2. index'.known = index.known \cup (ref.active \cap level)
          /\ index'.text = index.text /\ index'.source = index.source
      BY <3>1
    <3>3. QED
      BY <3>1, <3>2 DEF Indexed
  <2>3. ASSUME index' = [index EXCEPT !.text =
                          [n \in Names |-> TextTarget(index.known, ref.alias, n)]]
        PROVE  Indexed'
    <3> DEFINE text == [n \in Names |-> TextTarget(index.known, ref.alias, n)]
    <3>1. text \in [Names -> index.known \cup {None}]
      BY TextTargetIsKnown
    <3>2. index' = [known |-> index.known, text |-> text, source |-> index.source]
      BY <2>3 DEF Indexed
    <3>3. QED
      <4> HIDE DEF text
      <4> QED
        BY <3>1, <3>2 DEF Indexed
  <2>4. ASSUME index' = [index EXCEPT !.source =
                          [e \in ExternalIds |-> Known(index.known, ref.mapping[e])]]
        PROVE  Indexed'
    <3> DEFINE source == [e \in ExternalIds |-> Known(index.known, ref.mapping[e])]
    <3>1. source \in [ExternalIds -> index.known \cup {None}]
      BY <2>1
    <3>2. index' = [known |-> index.known, text |-> index.text, source |-> source]
      BY <2>4 DEF Indexed
    <3>3. QED
      <4> HIDE DEF source
      <4> QED
        BY <3>1, <3>2 DEF Indexed
  <2>5. QED
    BY <1>2, <2>2, <2>3, <2>4, Loads
<1>3. CASE NextJob
  BY <1>3 DEF NextJob, Indexed, EmptyIndex
<1>4. ASSUME NEW l \in AtWork, Persist(l, Details[l]) PROVE Indexed'
  BY <1>1, <1>4, Persists
<1>5. ASSUME NEW q, Judge(q[1], q[2]) PROVE Indexed'
  BY <1>1, <1>5 DEF Judge, Edits, copy
<1>6. QED
  BY <1>1, <1>2, <1>3, <1>4, <1>5, StepsOfPlaces

\* The row of a listing that was read.
LEMMA RefreshedRow ==
  ASSUME Shape, Indexed, Filed, NEW l \in Listings, NEW new,
         NEW place \in index.known \cup {None}
  PROVE  LET r == Refreshed(l, place, new)
             old == IF Exists(l) THEN row[l] ELSE NewRow(l)
             at == IF place = None THEN Nowhere ELSE Located(index.known, place)
         IN /\ r # NoRow
            /\ PlaceFields \cup {"status", "duplicateOf"} \subseteq DOMAIN r
            /\ \A f \in PlaceFields : r[f] = Coalesced(old[f], at[f])
            /\ ~ Exists(l) => FiledNowhere(old)
<1> DEFINE r == Refreshed(l, place, new)
           old == IF Exists(l) THEN row[l] ELSE NewRow(l)
           at == IF place = None THEN Nowhere ELSE Located(index.known, place)
<1>1. /\ PlaceFields \cup {"status", "duplicateOf"} \subseteq DOMAIN r
      /\ r.province = Coalesced(old.province, at.province)
      /\ r.city = Coalesced(old.city, at.city)
      /\ r.region = Coalesced(old.region, at.region)
  BY DEF Refreshed, PlaceFields
<1>2. ~ Exists(l) => FiledNowhere(old)
  BY DEF NewRow, FiledNowhere
<1>3. r # NoRow
  <2>1. "city" \in DOMAIN r /\ "city" \notin DOMAIN NoRow
    BY <1>1 DEF PlaceFields, NoRow
  <2>2. QED
    BY <2>1
<1>4. QED
  BY <1>1, <1>2, <1>3 DEF PlaceFields

\* Empty levels keep what they were, so a row that is filed in one place only
\* has the levels of this place.
LEMMA RefreshedIsFiled ==
  ASSUME Shape, Indexed, Filed, NEW l \in Listings, NEW new, NEW p \in Places,
         NEW place \in index.known \cup {None},
         filed[l] \cup ({place} \ {None}) = {p}
  PROVE  /\ FiledIn(Refreshed(l, place, new), p)
         /\ place = p /\ CityIn(p) \in index.known => Refreshed(l, place, new).province # None
<1> DEFINE r == Refreshed(l, place, new)
           old == IF Exists(l) THEN row[l] ELSE NewRow(l)
           at == IF place = None THEN Nowhere ELSE Located(index.known, place)
<1>1. /\ r.province = Coalesced(old.province, at.province)
      /\ r.city = Coalesced(old.city, at.city)
      /\ r.region = Coalesced(old.region, at.region)
      /\ ~ Exists(l) => FiledNowhere(old)
  BY RefreshedRow DEF PlaceFields
<1>2. index.known \in SUBSET Places /\ None \notin Places /\ place \in {None, p}
  <2>1. index.known \in SUBSET Places
    BY DEF Indexed
  <2>2. QED
    BY <2>1, LevelsOf
<1>3. filed[l] = {} \/ filed[l] = {p}
  OBVIOUS
<1>4. filed[l] = {} => FiledNowhere(old) /\ place = p
  BY <1>1, <1>2 DEF Filed
<1>5. filed[l] = {p} => FiledIn(old, p)
  BY DEF Filed
<1>6. place = p => FiledIn(at, p) /\ (CityIn(p) \in index.known => at.province # None)
  BY <1>2, LevelsOf
<1>7. place = None => at.province = None /\ at.city = None /\ at.region = None
  BY DEF Nowhere
<1>8. QED
  <2> HIDE DEF r, old, at
  <2>1. CASE place = None
    <3>1. r.province = old.province /\ r.city = old.city /\ r.region = old.region
      BY <1>1, <1>7, <2>1 DEF Coalesced
    <3>2. FiledIn(old, p)
      BY <1>2, <1>3, <1>4, <1>5, <2>1
    <3>3. place # p
      BY <1>2, <2>1
    <3>4. FiledIn(r, p)
      BY <3>1, <3>2 DEF FiledIn
    <3>5. QED
      BY <3>3, <3>4 DEF r
  <2>2. CASE place = p
    <3>1. FiledIn(at, p) /\ (FiledNowhere(old) \/ FiledIn(old, p))
      BY <1>3, <1>4, <1>5, <1>6, <2>2
    <3>2. FiledIn(r, p)
      BY <1>1, <3>1 DEF FiledIn, FiledNowhere, Coalesced
    <3>3. CityIn(p) \in index.known => r.province # None
      BY <1>1, <1>6, <2>2 DEF Coalesced
    <3>4. QED
      BY <3>2, <3>3 DEF r
  <2>3. QED
    BY <1>2, <2>1, <2>2

LEMMA FiledStep == ASSUME Shape, Stage, Indexed, Filed, [Next]_vars PROVE Filed'
<1>1. CASE UNCHANGED <<row, filed>>
  BY <1>1 DEF Filed, Exists
<1>2. CASE Load
  BY <1>1, <1>2, Loads
<1>3. CASE NextJob
  BY <1>1, <1>3 DEF NextJob
<1>4. ASSUME NEW l \in AtWork, Persist(l, Details[l]) PROVE Filed'
  <2> DEFINE place == Resolve(index, Details[l].refs, Pages[l].texts)
             new == Normalized(l, Details[l])
             r == Refreshed(l, place, new)
             set == filed[l] \cup ({place} \ {None})
  <2>1. /\ l \in Listings /\ place \in index.known \cup {None}
        /\ row' = [row EXCEPT ![l] = r] /\ filed' = [filed EXCEPT ![l] = set]
    BY <1>4, Files
  <2>2. /\ row'[l] = r /\ filed'[l] = set
        /\ \A k \in Listings \ {l} : row'[k] = row[k] /\ filed'[k] = filed[k]
    BY <2>1 DEF Shape, Filed
  <2>3. set \in SUBSET Places /\ IsFiniteSet(set)
    <3>1. filed[l] \in SUBSET Places /\ IsFiniteSet(filed[l])
      BY <2>1 DEF Filed
    <3>2. \A x : IsFiniteSet(filed[l] \cup {x})
      BY <3>1, FS_AddElement
    <3>3. set = filed[l] \/ set = filed[l] \cup {place}
      OBVIOUS
    <3>4. set \in SUBSET Places
      BY <2>1, <3>1 DEF Indexed
    <3>5. QED
      <4> HIDE DEF set
      <4> QED
        BY <3>1, <3>2, <3>3, <3>4
  <2>4. filed' \in [Listings -> SUBSET Places]
    <3> HIDE DEF set
    <3> QED
      BY <2>1, <2>3 DEF Filed
  <2>5. r # NoRow /\ PlaceFields \cup {"status", "duplicateOf"} \subseteq DOMAIN r
    <3> HIDE DEF place, new
    <3> QED
      BY <2>1, RefreshedRow
  <2>6. set = {} => FiledNowhere(r)
    <3>1. /\ \A f \in PlaceFields : r[f] = Coalesced((IF Exists(l) THEN row[l] ELSE NewRow(l))[f],
                            (IF place = None THEN Nowhere ELSE Located(index.known, place))[f])
          /\ ~ Exists(l) => FiledNowhere(NewRow(l))
      <4> HIDE DEF place, new
      <4>1. QED
        BY <2>1, RefreshedRow
    <3>2. set = {} => filed[l] = {} /\ place = None
      OBVIOUS
    <3>3. filed[l] = {} => FiledNowhere(IF Exists(l) THEN row[l] ELSE NewRow(l))
      BY <2>1, <3>1 DEF Filed
    <3>4. QED
      <4> HIDE DEF place, new, r, set
      <4>1. QED
        BY <3>1, <3>2, <3>3 DEF PlaceFields, FiledNowhere, Nowhere, Coalesced
  <2>7. \A p \in Places : set = {p} => FiledIn(r, p)
    <3> HIDE DEF place, new
    <3> QED
      BY <2>1, RefreshedIsFiled
  <2>8. ASSUME NEW k \in Listings
        PROVE  /\ IsFiniteSet(filed'[k])
               /\ Exists(k)' => PlaceFields \cup {"status", "duplicateOf"} \subseteq DOMAIN row'[k]
               /\ ~ Exists(k)' => filed'[k] = {}
               /\ Exists(k)' /\ filed'[k] = {} => FiledNowhere(row'[k])
               /\ \A p \in Places : filed'[k] = {p} => FiledIn(row'[k], p)
    <3> HIDE DEF r, set, place, new
    <3>1. CASE k = l
      BY <2>2, <2>3, <2>5, <2>6, <2>7, <3>1 DEF Exists
    <3>2. CASE k # l
      <4>1. row'[k] = row[k] /\ filed'[k] = filed[k] /\ (Exists(k)' <=> Exists(k))
        BY <2>2, <3>2 DEF Exists
      <4>2. QED
        BY <4>1 DEF Filed
    <3>3. QED
      BY <3>1, <3>2
  <2>9. QED
    BY <2>4, <2>8 DEF Filed
<1>5. ASSUME NEW q, Judge(q[1], q[2]) PROVE Filed'
  <2>1. /\ filed' = filed
        /\ \A k \in Listings :
             /\ Exists(k)' <=> Exists(k)
             /\ Exists(k) => PlaceFields \cup {"status", "duplicateOf"} \subseteq DOMAIN row'[k]
             /\ Exists(k) => /\ row'[k].province = row[k].province
                             /\ row'[k].city = row[k].city
                             /\ row'[k].region = row[k].region
    BY <1>5, Judges DEF PlaceFields
  <2>2. ASSUME NEW k \in Listings
        PROVE  /\ FiledNowhere(row[k]) /\ Exists(k) => FiledNowhere(row'[k])
               /\ \A p \in Places : FiledIn(row[k], p) /\ Exists(k) => FiledIn(row'[k], p)
    BY <2>1 DEF FiledNowhere, FiledIn
  <2>3. \A k \in Listings : \A p \in Places : filed[k] = {p} => Exists(k)
    BY DEF Filed
  <2>4. QED
    BY <2>1, <2>2, <2>3 DEF Filed
<1>6. QED
  BY <1>1, <1>2, <1>3, <1>4, <1>5, StepsOfPlaces

LEMMA FoundStep ==
  ASSUME Shape, Stage, Indexed, Filed, Found, [Next]_vars
  PROVE  Found'
<1>1. CASE UNCHANGED <<index, row, filed, done>>
  BY <1>1 DEF Found, Exists
<1>2. CASE Load
  <2>1. done = {} /\ done' = done
    BY <1>2, Loads DEF Shape, Stage, Aside
  <2>2. QED
    BY <2>1 DEF Found
<1>3. CASE NextJob
  <2>1. done' = {}
    BY <1>3 DEF NextJob
  <2>2. QED
    BY <2>1 DEF Found
<1>4. ASSUME NEW l \in AtWork, Persist(l, Details[l]) PROVE Found'
  <2> DEFINE place(k) == Resolve(index, Details[k].refs, Pages[k].texts)
             r == Refreshed(l, place(l), Normalized(l, Details[l]))
             set == filed[l] \cup ({place(l)} \ {None})
  <2>1. /\ l \in Listings /\ place(l) \in index.known \cup {None} /\ index' = index
        /\ row' = [row EXCEPT ![l] = r] /\ filed' = [filed EXCEPT ![l] = set]
        /\ done' = done \cup {l}
    BY <1>4, Files
  <2>2. /\ row'[l] = r /\ filed'[l] = set
        /\ \A k \in Listings \ {l} : row'[k] = row[k] /\ filed'[k] = filed[k]
    BY <2>1 DEF Shape, Filed
  <2>3. /\ r # NoRow
        /\ place(l) # None => place(l) \in set
        /\ \A p \in Places : place(l) = p /\ set = {p} /\ CityIn(p) \in index.known
                            => r.province # None
    <3>1. r # NoRow
      <4> HIDE DEF place
      <4> QED
        BY <2>1, RefreshedRow
    <3>2. \A p \in Places : place(l) = p /\ set = {p} /\ CityIn(p) \in index.known
                            => r.province # None
      <4> HIDE DEF place
      <4> QED
        BY <2>1, RefreshedIsFiled
    <3>3. QED
      BY <3>1, <3>2
  <2>4. ASSUME NEW k \in done'
        PROVE  /\ Exists(k)'
               /\ place(k) # None => place(k) \in filed'[k]
               /\ \A p \in Places : place(k) = p /\ filed'[k] = {p} /\ CityIn(p) \in index.known
                                  => row'[k].province # None
    <3>1. CASE k = l
      <4> HIDE DEF place, r, set
      <4> QED
        BY <2>2, <2>3, <3>1 DEF Exists
    <3>2. CASE k # l
      <4>1. k \in done /\ k \in Listings
        BY <2>1, <3>2 DEF Shape
      <4>2. /\ Exists(k)
            /\ place(k) # None => place(k) \in filed[k]
            /\ \A p \in Places : place(k) = p /\ filed[k] = {p} /\ CityIn(p) \in index.known
                               => row[k].province # None
        BY <4>1 DEF Found
      <4>3. QED
        <5> HIDE DEF place, r, set
        <5> QED
          BY <2>2, <3>2, <4>1, <4>2 DEF Exists
    <3>3. QED
      BY <3>1, <3>2
  <2>5. QED
    BY <2>1, <2>4 DEF Found
<1>5. ASSUME NEW q, Judge(q[1], q[2]) PROVE Found'
  <2>1. /\ UNCHANGED <<index, filed, done>>
        /\ \A k \in Listings :
             /\ Exists(k)' <=> Exists(k)
             /\ Exists(k) => row'[k].province = row[k].province
    BY <1>5, Judges DEF PlaceFields
  <2>2. QED
    BY <2>1 DEF Found, Shape
<1>6. QED
  BY <1>1, <1>2, <1>3, <1>4, <1>5, StepsOfPlaces

LEMMA PlacesInvariant == Spec => [](Shape /\ Stage /\ Indexed /\ Filed /\ Found)
<1> DEFINE Inv == Shape /\ Stage /\ Logged /\ Indexed /\ Filed /\ Found
<1>1. Init => Inv
  BY InitInvariant, InitPlaces
<1>2. Inv /\ [Next]_vars => Inv'
  BY ShapeStep, StageStep, LoggedStep, IndexedStep, FiledStep, FoundStep
<1>3. QED
  BY <1>1, <1>2, PTL DEF Spec

\* Whatever is added, switched off or moved between the queries of its load, an
\* index returns only places it has the row of (normalization/locations.py,
\* LocationIndex.load and _known).
THEOREM IndexesAreClosed == Spec => []IndexIsClosed
<1>1. Indexed => IndexIsClosed
  BY DEF Indexed, IndexIsClosed
<1>2. QED
  BY <1>1, PlacesInvariant, PTL

\* The levels of a row that was filed in one place only lie in each other, and the
\* province is there if the crawl that found the place knew its city
\* (normalization/locations.py, _build; persistence.py, _apply_fields).
THEOREM StoredPlacesAreChains == Spec => []StoredPlaceIsAChain
<1>1. ASSUME Shape, Indexed, Filed, Found PROVE StoredPlaceIsAChain
  <2> SUFFICES ASSUME NEW l \in Listings, Exists(l), Cardinality(filed[l]) <= 1
      PROVE  /\ row[l].region # None => row[l].city = CityOf[row[l].region]
             /\ row[l].city # None /\ row[l].province # None
                  => row[l].province = ProvinceOf[row[l].city]
             /\ l \in done /\ row[l].city \in index.known
                  /\ Resolve(index, Details[l].refs, Pages[l].texts) # None
                  => row[l].province # None
             /\ (filed[l] = {}) = (row[l].city = None /\ row[l].province = None)
    BY DEF StoredPlaceIsAChain
  <2>1. filed[l] = {} \/ \E p \in Places : filed[l] = {p}
    <3>1. filed[l] \in SUBSET Places /\ IsFiniteSet(filed[l])
      BY <1>1 DEF Filed
    <3>2. Cardinality(filed[l]) \in Nat
      BY <3>1, FS_CardinalityType
    <3>3. Cardinality(filed[l]) = 0 \/ Cardinality(filed[l]) = 1
      BY <3>2
    <3>4. QED
      BY <3>1, <3>3, FS_EmptySet, FS_Singleton
  <2>2. CASE filed[l] = {}
    <3>1. FiledNowhere(row[l])
      BY <1>1, <2>2 DEF Filed
    <3>2. l \in done => Resolve(index, Details[l].refs, Pages[l].texts) = None
      BY <1>1, <2>2 DEF Found
    <3>3. QED
      BY <2>2, <3>1, <3>2 DEF FiledNowhere
  <2>3. ASSUME NEW p \in Places, filed[l] = {p}
        PROVE  /\ row[l].region # None => row[l].city = CityOf[row[l].region]
               /\ row[l].city # None /\ row[l].province # None
                    => row[l].province = ProvinceOf[row[l].city]
               /\ l \in done /\ row[l].city \in index.known
                    /\ Resolve(index, Details[l].refs, Pages[l].texts) # None
                    => row[l].province # None
               /\ ~ (row[l].city = None /\ row[l].province = None)
    <3>1. FiledIn(row[l], p)
      BY <1>1, <2>3 DEF Filed
    <3>2. /\ p \in Regions \cup Cities => CityIn(p) \in Cities
          /\ p \in Provinces => CityIn(p) = None
          /\ None \notin Places /\ index.known \in SUBSET Places
      BY <1>1, LevelsOf DEF Indexed
    <3>3. /\ row[l].region # None => row[l].city = CityOf[row[l].region]
          /\ row[l].city # None /\ row[l].province # None
                    => row[l].province = ProvinceOf[row[l].city]
      BY <3>1, <3>2 DEF FiledIn, CityIn, Places
    <3>4. l \in done /\ Resolve(index, Details[l].refs, Pages[l].texts) # None
            => Resolve(index, Details[l].refs, Pages[l].texts) = p
      BY <1>1, <2>3 DEF Found
    <3>5. l \in done /\ row[l].city \in index.known
                    /\ Resolve(index, Details[l].refs, Pages[l].texts) # None
                    => row[l].province # None
      <4>1. row[l].city = CityIn(p)
        BY <3>1 DEF FiledIn
      <4>2. QED
        BY <1>1, <2>3, <3>4, <4>1 DEF Found
    <3>6. ~ (row[l].city = None /\ row[l].province = None)
      BY <3>1, <3>2 DEF FiledIn, Places
    <3>7. QED
      BY <3>3, <3>5, <3>6
  <2>4. QED
    BY <2>1, <2>2, <2>3
<1>2. QED
  BY <1>1, PlacesInvariant, PTL

-----------------------------------------------------------------------------
(* Types.                                                                  *)

\* References of the tables are to rows.
Referring ==
  /\ ref = [rows |-> ref.rows, active |-> ref.active, mapping |-> ref.mapping,
            alias |-> ref.alias, slug |-> ref.slug]
  /\ ref.rows \subseteq Places /\ ref.active \subseteq ref.rows
  /\ ref.mapping \in [ExternalIds -> ref.rows \cup {None}]
  /\ ref.alias \in [Names -> ref.rows \cup {None}]

LEMMA MaxOfNumbers ==
  ASSUME NEW n \in Nat, NEW S \in SUBSET (1..n), S # {}
  PROVE  Max(S) \in S
<1> DEFINE T == {n - i : i \in S}
<1>1. T \in SUBSET Nat /\ T # {}
  <2>1. \A i \in 1..n : n - i \in Nat
    OBVIOUS
  <2>2. \A i \in S : n - i \in Nat
    BY <2>1
  <2>3. QED
    BY <2>2, Zenon
<1>2. PICK t \in T : \A u \in T : t <= u
  BY <1>1, LeastNumber
<1>3. PICK i \in S : t = n - i
  OBVIOUS
<1>4. \A j \in S : i >= j
  <2>1. \A j \in S : t <= n - j
    BY <1>2
  <2>2. QED
    BY <1>3, <2>1
<1>5. QED
  BY <1>4 DEF Max

\* A scope stands for an identifier that exists.
LEMMA SourcePlaceIsAnId ==
  ASSUME NEW mapping, NEW source, NEW p
  PROVE  SourcePlace(mapping, source, p) \in ExternalIds \cup {None}
<1> DEFINE levels == {i \in DOMAIN Chain(p) : IdsOf(mapping, source, Chain(p)[i]) # {}}
           ids == IdsOf(mapping, source, Chain(p)[Min(levels)])
<1>1. SourcePlace(mapping, source, p) =
        IF levels = {} THEN None ELSE CHOOSE e \in ids : \A f \in ids : e[2] <= f[2]
  BY DEF SourcePlace
<1>2. ASSUME levels # {} PROVE \E e \in ids : \A f \in ids : e[2] <= f[2]
  <2>1. levels \in SUBSET Nat
    BY DEF Chain
  <2>2. Min(levels) \in levels
    <3> HIDE DEF levels
    <3> QED
      BY <1>2, <2>1, MinOfNumbers
  <2>3. ids # {} /\ ids \subseteq ExternalIds
    BY <2>2 DEF IdsOf
  <2>4. {e[2] : e \in ids} \in SUBSET Nat /\ {e[2] : e \in ids} # {}
    <3> HIDE DEF ids
    <3> QED
      BY <2>3, PlacesAssumption DEF PlacesAssumption
  <2>5. PICK n \in {e[2] : e \in ids} : \A m \in {e[2] : e \in ids} : n <= m
    <3> HIDE DEF ids
    <3> QED
      BY <2>4, LeastNumber
  <2>6. QED
    <3> HIDE DEF ids
    <3> QED
      BY <2>5
<1>3. ids \subseteq ExternalIds
  BY DEF IdsOf
<1>4. QED
  <2> HIDE DEF ids, levels
  <2> QED
    BY <1>1, <1>2, <1>3

\* A command or a request names places that have a row.
LEMMA AskedIsThere ==
  ASSUME Referring, NEW j
  PROVE  Asked(j) \subseteq ref.rows
BY DEF Referring, Asked, Bearing

\* Edits add rows and leave references to rows.
LEMMA ReferringStep ==
  ASSUME Shape, Referring, [Next]_vars
  PROVE  Referring' /\ ref.rows \subseteq ref'.rows
<1>1. CASE ref' = ref
  BY <1>1 DEF Referring
<1>2. ASSUME NEW file \in Here.files, SeedLocations(file)
      PROVE  Referring' /\ ref.rows \subseteq ref'.rows
  <2> DEFINE rows == ref.rows \cup file.places
             active == ref.active \cup (file.places \ ref.rows)
             named(n) == {i \in DOMAIN file.aliases : file.aliases[i].name = n}
             mapping == [e \in ExternalIds |->
               IF e \in DOMAIN file.mapping THEN file.mapping[e] ELSE ref.mapping[e]]
             alias == [n \in Names |->
               IF named(n) = {} THEN ref.alias[n] ELSE file.aliases[Max(named(n))].place]
  <2>1. /\ file.places \subseteq Places
        /\ file.mapping \in [DOMAIN file.mapping -> file.places]
        /\ file.aliases \in Seq([name : Names, place : file.places])
    BY WorldsAssumption DEF WorldsAssumption, Shape, Here
  <2>2. ref' = [ref EXCEPT !.rows = rows, !.active = active, !.mapping = mapping, !.alias = alias]
    BY <1>2 DEF SeedLocations
  <2>3. rows \subseteq Places /\ active \subseteq rows
    BY <2>1 DEF Referring
  <2>4. mapping \in [ExternalIds -> rows \cup {None}]
    BY <2>1 DEF Referring
  <2>5. alias \in [Names -> rows \cup {None}]
    <3>1. ASSUME NEW n \in Names, named(n) # {}
          PROVE  file.aliases[Max(named(n))].place \in file.places
      <4>1. Len(file.aliases) \in Nat /\ named(n) \in SUBSET (1..Len(file.aliases))
        BY <2>1
      <4>2. Max(named(n)) \in named(n)
        <5> HIDE DEF named
        <5> QED
          BY <3>1, <4>1, MaxOfNumbers
      <4>3. \A i \in DOMAIN file.aliases : file.aliases[i].place \in file.places
        <5>1. \A i \in 1..Len(file.aliases) :
                file.aliases[i] \in [name : Names, place : file.places]
          <6>1. \A A : \A t \in Seq(A) : \A i \in 1..Len(t) : t[i] \in A
            OBVIOUS
          <6>2. QED
            BY <2>1, <6>1, Zenon
        <5>2. \A a \in [name : Names, place : file.places] : a.place \in file.places
          OBVIOUS
        <5>3. DOMAIN file.aliases = 1..Len(file.aliases)
          BY <2>1
        <5>4. QED
          BY <5>1, <5>2, <5>3
      <4>4. QED
        BY <4>2, <4>3
    <3>2. QED
      <4> HIDE DEF named
      <4> QED
        BY <3>1 DEF Referring
  <2>6. ref' = [rows |-> rows, active |-> active, mapping |-> mapping, alias |-> alias,
                slug |-> ref.slug]
    <3> HIDE DEF rows, active, mapping, alias
    <3> QED
      BY <2>2 DEF Referring
  <2>7. ref.rows \subseteq rows
    OBVIOUS
  <2>8. QED
    <3> HIDE DEF rows, active, mapping, alias
    <3> QED
      BY <2>3, <2>4, <2>5, <2>6, <2>7 DEF Referring
<1>3. ASSUME NEW file, SeedCategories(file)
      PROVE  Referring' /\ ref.rows \subseteq ref'.rows
  <2>1. ref' = [ref EXCEPT !.slug = file @@ @]
    BY <1>3 DEF SeedCategories
  <2>2. \E slug : ref' = [rows |-> ref.rows, active |-> ref.active, mapping |-> ref.mapping,
                         alias |-> ref.alias, slug |-> slug]
    BY <2>1 DEF Referring
  <2>3. QED
    BY <2>2 DEF Referring
<1>4. ASSUME NEW p, Toggle(p)
      PROVE  Referring' /\ ref.rows \subseteq ref'.rows
  <2>1. p \in ref.rows
        /\ ref' = [ref EXCEPT !.active = IF p \in @ THEN @ \ {p} ELSE @ \cup {p}]
    BY <1>4 DEF Toggle
  <2>2. \E active \in SUBSET ref.rows :
          ref' = [rows |-> ref.rows, active |-> active, mapping |-> ref.mapping,
                  alias |-> ref.alias, slug |-> ref.slug]
    BY <2>1 DEF Referring
  <2>3. QED
    BY <2>2 DEF Referring
<1>5. ASSUME NEW e, NEW p, Remap(e, p)
      PROVE  Referring' /\ ref.rows \subseteq ref'.rows
  <2> DEFINE mapping == [ref.mapping EXCEPT ![e] = p]
  <2>1. p \in ref.rows \cup {None} /\ ref' = [ref EXCEPT !.mapping = mapping]
    BY <1>5 DEF Remap
  <2>2. mapping \in [ExternalIds -> ref.rows \cup {None}]
    BY <2>1 DEF Referring
  <2>3. ref' = [rows |-> ref.rows, active |-> ref.active, mapping |-> mapping,
                alias |-> ref.alias, slug |-> ref.slug]
    <3> HIDE DEF mapping
    <3> QED
      BY <2>1 DEF Referring
  <2>4. QED
    <3> HIDE DEF mapping
    <3> QED
      BY <2>2, <2>3 DEF Referring
<1>6. CASE \/ Between \/ RequestPage \/ SkipStub \/ NextJob
           \/ \E l \in AtWork : \E d : Persist(l, d)
           \/ \E l \in AtWork : \E d : StubUnreadable(l, d) \/ StubGone(l) \/ StubFails(l)
           \/ \E l \in Here.moving : Publish(l) \/ Withdraw(l)
           \/ \E q \in Here.judged : Judge(q[1], q[2])
  <2>1. Between \/ RequestPage => ref' = ref
    BY BetweenSteps, Requests
  <2>2. SkipStub \/ NextJob => ref' = ref
    BY DEF SkipStub, NextJob, env
  <2>3. \A l, d : Persist(l, d) \/ StubUnreadable(l, d) \/ StubGone(l) \/ StubFails(l) => ref' = ref
    BY DEF Persist, StubUnreadable, StubGone, StubFails, env
  <2>4. \A l, m : Publish(l) \/ Withdraw(l) \/ Judge(l, m) => ref' = ref
    BY DEF Publish, Withdraw, Changes, Judge
  <2>5. QED
    BY <1>1, <1>6, <2>1, <2>2, <2>3, <2>4
<1>7. QED
  BY <1>2, <1>3, <1>4, <1>5, <1>6, Cases

\* The bounds that are left.
LeftType == left \in [edits : 0..Here.edits, changes : 0..Here.changes, faults : 0..Here.faults]

\* How far a crawl is, and what it has by then.
ProgressType ==
  /\ job \in DOMAIN Here.jobs /\ pc \in Steps
  /\ status \in {"none", "succeeded", "partial", "failed"}
  /\ (status = "none") = (pc # "ended")
  /\ pc \in {"queued", "loading", "request", "stubs", "finish"}
       => snapshot.target \in ref.rows /\ snapshot.place \in ExternalIds
  /\ pc \in {"loading", "request", "stubs", "finish"} => scope.place \in ExternalIds
  /\ pc \in {"request", "stubs", "finish"} => loads = 5

OnThePage == Coming \subseteq page.items

Types == LeftType /\ ProgressType /\ OnThePage /\ Referring

LEMMA InitTypes == Init => Types
<1> SUFFICES ASSUME Init PROVE Types
  OBVIOUS
<1> DEFINE W == Worlds[world]
<1>1. /\ world \in DOMAIN Worlds /\ Here = W /\ ref = W.ref
      /\ left = [edits |-> W.edits, changes |-> W.changes, faults |-> W.faults]
      /\ job = 1 /\ pc = "submit" /\ status = "none" /\ todo = <<>>
  BY DEF Init, Here
<1>2. /\ W.edits \in Nat /\ W.faults \in Nat /\ W.changes \in Nat
      /\ W.ref \in [rows : SUBSET Places, active : SUBSET W.ref.rows,
                    mapping : [ExternalIds -> W.ref.rows \cup {None}],
                    alias : [Names -> W.ref.rows \cup {None}], slug : {W.ref.slug}]
  BY <1>1, RunAssumption, WorldsAssumption DEF RunAssumption, WorldsAssumption
<1>3. W.jobs \in Seq(Range(W.jobs)) /\ Len(W.jobs) \in Nat \ {0}
  BY <1>1, RunAssumption, WorldsAssumption DEF RunAssumption, WorldsAssumption
<1>4. LeftType
  <2> HIDE DEF W
  <2> QED
    BY <1>1, <1>2 DEF LeftType
<1>5. Referring
  <2> HIDE DEF W
  <2> QED
    BY <1>1, <1>2 DEF Referring
<1>6. ProgressType
  <2>1. 1 \in DOMAIN W.jobs
    <3> HIDE DEF W
    <3>1. DOMAIN W.jobs = 1..Len(W.jobs)
      BY <1>3
    <3>2. QED
      BY <1>3, <3>1
  <2>2. QED
    <3> HIDE DEF W
    <3> QED
      BY <1>1, <2>1 DEF ProgressType, Steps
<1>7. OnThePage
  BY <1>1 DEF OnThePage, Coming
<1>8. QED
  BY <1>4, <1>5, <1>6, <1>7 DEF Types

\* A step takes one from what is left of a bound.
Spends(f) == left[f] > 0 /\ left' = [left EXCEPT ![f] = @ - 1]

LEMMA LeftSpent ==
  ASSUME Shape, LeftType, world' = world,
         left' = left \/ Spends("edits") \/ Spends("changes") \/ Spends("faults")
  PROVE  LeftType'
<1>1. /\ Here.edits \in Nat /\ Here.faults \in Nat /\ Here.changes \in Nat
  BY RunAssumption, WorldsAssumption DEF RunAssumption, WorldsAssumption, Shape, Here
<1>2. Here' = Here
  BY DEF Here
<1>3. QED
  BY <1>1, <1>2 DEF LeftType, Spends

LEMMA LeftStep == ASSUME Shape, Logged, LeftType, [Next]_vars PROVE LeftType'
<1>1. CASE Between \/ RequestPage \/ SkipStub \/ NextJob
  <2>1. Between => world' = world /\ (left' = left \/ Spends("faults"))
    BY BetweenSteps DEF Spends
  <2>2. RequestPage => world' = world /\ (left' = left \/ Spends("faults"))
    BY Requests DEF Spends
  <2>3. SkipStub \/ NextJob => world' = world /\ left' = left
    BY DEF SkipStub, NextJob, env
  <2>4. QED
    BY <1>1, <2>1, <2>2, <2>3, LeftSpent
<1>2. ASSUME NEW l \in AtWork, NEW d,
             Persist(l, d) \/ StubUnreadable(l, d) \/ StubGone(l) \/ StubFails(l)
      PROVE  LeftType'
  <2>1. world' = world /\ (left' = left \/ Spends("faults"))
    BY <1>2, Persists, Failures DEF Spends
  <2>2. QED
    BY <2>1, LeftSpent
<1>3. ASSUME NEW l, Publish(l) \/ Withdraw(l) PROVE LeftType'
  <2>1. world' = world /\ Spends("changes")
    BY <1>3, SourceSteps DEF Spends
  <2>2. QED
    BY <2>1, LeftSpent
<1>4. ASSUME \/ \E file \in Here.files : SeedLocations(file)
             \/ \E file \in Here.slugs : SeedCategories(file)
             \/ \E p \in Here.toggles : Toggle(p)
             \/ \E e \in Here.remaps, p \in Places \cup {None} : Remap(e, p)
             \/ \E q \in Here.judged : Judge(q[1], q[2])
      PROVE  LeftType'
  <2>1. world' = world /\ Spends("edits")
    BY <1>4 DEF SeedLocations, SeedCategories, Toggle, Remap, Judge, Edits, Spends
  <2>2. QED
    BY <2>1, LeftSpent
<1>5. QED
  BY <1>1, <1>2, <1>3, <1>4, Cases

LEMMA OnThePageStep == ASSUME Shape, Logged, OnThePage, [Next]_vars PROVE OnThePage'
<1>1. CASE UNCHANGED <<page, todo>>
  BY <1>1 DEF OnThePage, Coming
<1>2. ASSUME todo # <<>>, todo' = Tail(todo), page' = page PROVE OnThePage'
  BY <1>2, ComingShrinks DEF OnThePage
<1>3. CASE Between
  BY <1>1, <1>3, BetweenSteps
<1>4. CASE RequestPage
  <2> DEFINE items == FirstPage(Rest(Listed))
             more == Here.repeats \/ Rest(Listed) # items
  <2>1. CASE FetchPage(items, more)
    <3>1. items \in SUBSET Listings /\ more \in BOOLEAN
      BY PageIsListed
    <3>2. page'.items = items /\ {todo'[i] : i \in DOMAIN todo'} = items
      <4> HIDE DEF items, more
      <4> QED
        BY <2>1, <3>1, Fetches
    <3>3. QED
      BY <3>2 DEF OnThePage, Coming
  <2>2. CASE RepeatedPage(items) \/ \E type \in ErrorTypes : Stops(type)
    BY <1>1, <2>2 DEF RepeatedPage, Stops, walk
  <2>3. QED
    BY <1>4, <2>1, <2>2, Requests
<1>5. CASE SkipStub
  BY <1>2, <1>5, Skips
<1>6. CASE NextJob
  <2>1. todo' = <<>>
    BY <1>6 DEF NextJob
  <2>2. QED
    BY <2>1 DEF OnThePage, Coming
<1>7. ASSUME NEW l \in AtWork, NEW d,
             Persist(l, d) \/ StubUnreadable(l, d) \/ StubGone(l) \/ StubFails(l)
      PROVE  OnThePage'
  BY <1>2, <1>7, Persists, Failures
<1>8. ASSUME NEW l, Publish(l) \/ Withdraw(l) PROVE OnThePage'
  BY <1>1, <1>8, SourceSteps
<1>9. ASSUME \/ \E file \in Here.files : SeedLocations(file)
             \/ \E file \in Here.slugs : SeedCategories(file)
             \/ \E p \in Here.toggles : Toggle(p)
             \/ \E e \in Here.remaps, p \in Places \cup {None} : Remap(e, p)
             \/ \E q \in Here.judged : Judge(q[1], q[2])
      PROVE  OnThePage'
  BY <1>1, <1>9, EditSteps
<1>10. QED
  BY <1>3, <1>4, <1>5, <1>6, <1>7, <1>8, <1>9, Cases

LEMMA ProgressStep ==
  ASSUME Shape, Stage, Logged, Referring, ProgressType, [Next]_vars
  PROVE  ProgressType'
<1> USE DEF Steps
<1>1. ref.rows \subseteq ref'.rows
  BY ReferringStep
<1>2. ASSUME UNCHANGED <<job, pc, status, snapshot, scope, loads, world>> PROVE ProgressType'
  BY <1>1, <1>2 DEF ProgressType, Here
<1>3. ASSUME NEW p \in Places, Resolvable(Job, p)
      PROVE  SourcePlace(ref.mapping, Job.source, p) \in ExternalIds
  BY <1>3, SourcePlaceIsAnId DEF Resolvable
<1>4. CASE Submit
  <2>1. PICK p \in Asked(Job) :
          /\ pc = "submit" /\ pc' = "queued" /\ Resolvable(Job, p)
          /\ snapshot' = [target |-> p, place |-> ScopeOf(Job, p, Job.category).place,
                          category |-> ScopeOf(Job, p, Job.category).category]
          /\ UNCHANGED <<job, status, scope, loads, world, ref>>
    BY <1>4 DEF Submit, copy, env
  <2>2. p \in ref.rows /\ p \in Places
    BY <2>1, AskedIsThere DEF Referring
  <2>3. ScopeOf(Job, p, Job.category).place \in ExternalIds
    BY <1>3, <2>1, <2>2 DEF ScopeOf
  <2>4. snapshot'.target = p /\ snapshot'.place = ScopeOf(Job, p, Job.category).place
    BY <2>1
  <2>5. QED
    BY <2>1, <2>2, <2>3, <2>4 DEF ProgressType, Here
<1>5. CASE Execute
  <2>1. /\ pc = "queued" /\ pc' = "loading" /\ Resolvable(Job, snapshot.target)
        /\ scope'.place = SourcePlace(ref.mapping, Job.source, snapshot.target)
        /\ UNCHANGED <<job, snapshot, status, loads, world, ref>>
    BY <1>5 DEF Execute, ScopeOf, plan, copy, env
  <2>2. snapshot.target \in Places
    BY <2>1 DEF ProgressType, Referring
  <2>3. scope'.place \in ExternalIds
    BY <1>3, <2>1, <2>2
  <2>4. QED
    BY <2>1, <2>3 DEF ProgressType, Here
<1>6. CASE Refuse \/ ScopeFailed \/ Raises \/ Detect \/ \E d : StubRaises(d)
  BY <1>6 DEF Refuse, ScopeFailed, Raises, Detect, StubRaises, ProgressType, Here, plan, copy, env
<1>7. CASE Load
  BY <1>7 DEF Load, LoadPlaces, LoadAliases, LoadSources, ProgressType, Here, plan, env
<1>8. CASE TurnPage
  BY <1>8 DEF TurnPage, ProgressType, Here, plan, copy, env
<1>9. CASE Finish
  <2>1. FinalStatus \in {"succeeded", "partial", "failed"}
    BY DEF FinalStatus
  <2>2. QED
    BY <1>9, <2>1 DEF Finish, ProgressType, Here, plan, copy, env
<1>10. CASE UNCHANGED vars
  BY <1>2, <1>10 DEF vars, plan, copy, env
<1>11. CASE RequestPage
  <2>1. pc = "request" /\ UNCHANGED <<job, status, snapshot, scope, loads, world, ref>>
    BY <1>11, Requests
  <2>2. pc' \in {"stubs", "finish"}
    BY <1>11, Requests DEF FetchPage, RepeatedPage, Stops
  <2>3. QED
    BY <2>1, <2>2 DEF ProgressType, Here
<1>12. CASE SkipStub
  BY <1>2, <1>12, Skips
<1>13. CASE NextJob
  <2>1. job' \in DOMAIN Here.jobs
    <3>1. Here.jobs \in Seq(Range(Here.jobs))
      BY WorldsAssumption DEF WorldsAssumption, Shape, Here
    <3>2. DOMAIN Here.jobs = 1..Len(Here.jobs) /\ Len(Here.jobs) \in Nat
      BY <3>1
    <3>3. QED
      BY <1>13, <3>2 DEF NextJob, ProgressType
  <2>2. /\ pc' \in {"submit", "detect"} /\ status' = "none" /\ world' = world
    BY <1>13 DEF NextJob, env
  <2>3. QED
    BY <2>1, <2>2 DEF ProgressType, Here
<1>14. ASSUME NEW l \in AtWork, NEW d,
              Persist(l, d) \/ StubUnreadable(l, d) \/ StubGone(l) \/ StubFails(l)
       PROVE  ProgressType'
  BY <1>2, <1>14, Persists, Failures
<1>15. ASSUME NEW l, Publish(l) \/ Withdraw(l) PROVE ProgressType'
  BY <1>2, <1>15, SourceSteps
<1>16. ASSUME \/ \E file \in Here.files : SeedLocations(file)
              \/ \E file \in Here.slugs : SeedCategories(file)
              \/ \E p \in Here.toggles : Toggle(p)
              \/ \E e \in Here.remaps, p \in Places \cup {None} : Remap(e, p)
              \/ \E q \in Here.judged : Judge(q[1], q[2])
       PROVE  ProgressType'
  BY <1>2, <1>16, EditSteps
<1>17. QED
  BY <1>4, <1>5, <1>6, <1>7, <1>8, <1>9, <1>10, <1>11, <1>12, <1>13, <1>14, <1>15, <1>16, Cases
     DEF Between

\* The types of the state, of the reference tables that others edit, too: a job
\* refers to a place that has a row and to an identifier of its source
\* (crawling/models.py, scope.py).
THEOREM TypeCorrect == Spec => []TypeOK
<1> DEFINE Inv == Shape /\ Stage /\ Logged /\ Types
<1>1. Init => Inv
  BY InitInvariant, InitTypes
<1>2. Inv /\ [Next]_vars => Inv'
  BY ShapeStep, StageStep, LoggedStep, LeftStep, OnThePageStep, ProgressStep, ReferringStep
     DEF Types
<1>3. Inv => TypeOK
  <2>1. Coming = Range(todo)
    BY DEF Coming, Range
  <2>2. Referring => \A e \in ExternalIds : ref.mapping[e] \in ref.rows \cup {None}
    BY DEF Referring
  <2>3. Referring => \A n \in Names : ref.alias[n] \in ref.rows \cup {None}
    BY DEF Referring
  <2>4. QED
    BY <2>1, <2>2, <2>3 DEF Types, LeftType, ProgressType, OnThePage, Referring, Shape, Logged, TypeOK
<1>4. QED
  BY <1>1, <1>2, <1>3, PTL DEF Spec
-----------------------------------------------------------------------------
(* Where listings are filed lies what they say.                             *)

\* What a listing's page is looked up by stands for places it lies in: in the
\* tables, in the copy of this crawl; and it was filed nowhere else.
Truth ==
  ~ Here.untrue => \A l \in Listings :
    /\ Details[l].read = "detail" => \A e \in Range(Details[l].refs) :
         LiesIn(l, ref.mapping[e]) /\ LiesIn(l, index.source[e])
    /\ ~ Pages[l].ambiguous => \A n \in Range(Pages[l].texts) :
         LiesIn(l, ref.alias[n]) /\ LiesIn(l, index.text[n])
    /\ ~ Pages[l].ambiguous => \A p \in filed[l] : LiesIn(l, p)

\* A name leads to a place that bears it or has it as an alias.
LEMMA TextTargetIsNamed ==
  ASSUME NEW known, NEW alias, NEW n
  PROVE  TextTarget(known, alias, n) \in {p \in Places : NameOf[p] = n} \cup {alias[n]} \cup {None}
<1> DEFINE S == {p \in Places : NameOf[p] = n} \cup {alias[n]}
           names == [i \in DOMAIN ByName |->
                       IF NameOf[ByName[i]] = n THEN Known(known, ByName[i]) ELSE None]
           other == <<Known(known, alias[n])>>
<1>1. \A p : Known(known, p) \in {p, None}
  BY DEF Known
<1>2. /\ Len(ByName) \in Nat /\ DOMAIN ByName = 1..Len(ByName)
      /\ \A i \in DOMAIN ByName : ByName[i] \in Places
  BY PlacesAssumption DEF PlacesAssumption
<1>3. names \in Seq(S \cup {None})
  <2>1. \A i \in DOMAIN ByName : NameOf[ByName[i]] = n => Known(known, ByName[i]) \in S \cup {None}
    BY <1>1, <1>2
  <2>2. names \in [1..Len(ByName) -> S \cup {None}]
    <3> HIDE DEF S
    <3> QED
      BY <1>2, <2>1
  <2>3. QED
    BY <1>2, <2>2
<1>4. other \in Seq(S \cup {None})
  <2>1. Known(known, alias[n]) \in S \cup {None}
    BY <1>1
  <2>2. QED
    BY <2>1
<1>5. names \o other \in Seq(S \cup {None})
  <2> HIDE DEF names, other, S
  <2> QED
    BY <1>3, <1>4
<1>6. TextTarget(known, alias, n) = MostSpecific(names \o other)
  BY DEF TextTarget
<1>7. QED
  <2> HIDE DEF names, other, S
  <2>1. TextTarget(known, alias, n) \in S \cup {None}
    BY <1>5, <1>6, MostSpecificOf
  <2>2. QED
    BY <2>1 DEF S

\* A listing is resolved to what one of its references or texts stands for.
LEMMA ResolvesToOneOf ==
  ASSUME NEW refs \in Seq(ExternalIds), NEW texts \in Seq(Names)
  PROVE  Resolve(index, refs, texts)
           \in {index.source[e] : e \in Range(refs)} \cup {index.text[n] : n \in Range(texts)}
                 \cup {None}
<1>1. MatchSource(index, refs) \in {index.source[e] : e \in Range(refs)} \cup {None}
  <2> DEFINE found == {i \in DOMAIN refs : index.source[refs[i]] # None}
  <2>1. found \in SUBSET Nat /\ \A i \in found : refs[i] \in Range(refs)
    BY DEF Range
  <2>2. found # {} => Min(found) \in found
    BY <2>1, MinOfNumbers
  <2>3. QED
    BY <2>1, <2>2 DEF MatchSource
<1>2. MatchText(index, texts) \in {index.text[n] : n \in Range(texts)} \cup {None}
  <2> DEFINE S == {index.text[n] : n \in Range(texts)}
             targets == [i \in DOMAIN texts |-> index.text[texts[i]]]
  <2>1. targets \in Seq(S \cup {None})
    <3>1. Len(texts) \in Nat /\ DOMAIN texts = 1..Len(texts)
      OBVIOUS
    <3>2. \A i \in DOMAIN texts : index.text[texts[i]] \in S
      BY DEF Range
    <3>3. targets \in [1..Len(texts) -> S \cup {None}]
      <4> HIDE DEF S
      <4> QED
        BY <3>1, <3>2
    <3>4. QED
      BY <3>1, <3>3
  <2>2. MatchText(index, texts) = MostSpecific(targets)
    BY DEF MatchText
  <2>3. QED
    <3>1. MatchText(index, texts) \in S \cup {None}
      <4> HIDE DEF S, targets
      <4> QED
        BY <2>1, <2>2, MostSpecificOf
    <3>2. QED
      BY <3>1
<1>3. Resolve(index, refs, texts) \in {MatchSource(index, refs), MatchText(index, texts)}
  BY DEF Resolve
<1>4. QED
  BY <1>1, <1>2, <1>3

\* What an edit leaves of the tables: the entries it does not touch, and those
\* that its file or its operator names.
LEMMA TableSteps ==
  ASSUME Shape, Referring, [Next]_vars
  PROVE  /\ world' = world
         /\ \A e \in ExternalIds :
              \/ ref'.mapping[e] = ref.mapping[e] \/ e \in Here.remaps
              \/ \E file \in Here.files :
                   e \in DOMAIN file.mapping /\ ref'.mapping[e] = file.mapping[e]
         /\ \A n \in Names :
              \/ ref'.alias[n] = ref.alias[n]
              \/ \E file \in Here.files : \E i \in DOMAIN file.aliases :
                   file.aliases[i].name = n /\ ref'.alias[n] = file.aliases[i].place
<1> DEFINE Mapped == \A e \in ExternalIds :
              \/ ref'.mapping[e] = ref.mapping[e] \/ e \in Here.remaps
              \/ \E file \in Here.files :
                   e \in DOMAIN file.mapping /\ ref'.mapping[e] = file.mapping[e]
           Aliased == \A n \in Names :
              \/ ref'.alias[n] = ref.alias[n]
              \/ \E file \in Here.files : \E i \in DOMAIN file.aliases :
                   file.aliases[i].name = n /\ ref'.alias[n] = file.aliases[i].place
<1>1. world' = world
  BY NextCases DEF Submit, Refuse, Execute, ScopeFailed, Load, LoadPlaces, LoadAliases,
       LoadSources, RequestPage, FetchPage, RepeatedPage, EmptyPage, PageFails, TurnPage, SkipStub,
       Raises, Persist, StubUnreadable, StubRaises, StubGone, StubFails, Finish, NextJob, Detect,
       Publish, Withdraw, Changes, SeedLocations, SeedCategories, Toggle, Remap, Judge, Edits,
       env, vars
<1>2. ASSUME ref'.mapping = ref.mapping, ref'.alias = ref.alias PROVE Mapped /\ Aliased
  BY <1>2
<1>3. ASSUME NEW file \in Here.files, SeedLocations(file)
      PROVE  Mapped /\ Aliased
  <2> DEFINE named(n) == {i \in DOMAIN file.aliases : file.aliases[i].name = n}
  <2>1. file.aliases \in Seq([name : Names, place : file.places])
    BY WorldsAssumption DEF WorldsAssumption, Shape, Here
  <2>2. /\ ref'.mapping = [e \in ExternalIds |->
             IF e \in DOMAIN file.mapping THEN file.mapping[e] ELSE ref.mapping[e]]
        /\ ref'.alias = [n \in Names |->
             IF named(n) = {} THEN ref.alias[n] ELSE file.aliases[Max(named(n))].place]
    BY <1>3 DEF SeedLocations, Referring
  <2>3. Mapped
    BY <2>2
  <2>4. ASSUME NEW n \in Names, named(n) # {}
        PROVE  Max(named(n)) \in named(n)
    <3>1. Len(file.aliases) \in Nat /\ named(n) \in SUBSET (1..Len(file.aliases))
      BY <2>1
    <3>2. QED
      <4> HIDE DEF named
      <4> QED
        BY <2>4, <3>1, MaxOfNumbers
  <2>5. Aliased
    <3>1. ASSUME NEW n \in Names
          PROVE  \/ ref'.alias[n] = ref.alias[n]
                 \/ \E i \in DOMAIN file.aliases :
                      file.aliases[i].name = n /\ ref'.alias[n] = file.aliases[i].place
      <4>1. CASE named(n) = {}
        BY <2>2, <4>1
      <4>2. CASE named(n) # {}
        <5>1. Max(named(n)) \in DOMAIN file.aliases
              /\ file.aliases[Max(named(n))].name = n
          BY <2>4, <4>2
        <5>2. ref'.alias[n] = file.aliases[Max(named(n))].place
          BY <2>2, <4>2
        <5>3. QED
          BY <5>1, <5>2
      <4>3. QED
        BY <4>1, <4>2
    <3>2. QED
      BY <3>1
  <2>6. QED
    BY <2>3, <2>5
<1>4. ASSUME NEW e \in Here.remaps, NEW p, Remap(e, p) PROVE Mapped /\ Aliased
  <2>1. ref' = [ref EXCEPT !.mapping[e] = p]
    BY <1>4 DEF Remap
  <2>2. ref'.alias = ref.alias
    BY <2>1 DEF Referring
  <2>3. \A f \in ExternalIds \ {e} : ref'.mapping[f] = ref.mapping[f]
    BY <2>1 DEF Referring
  <2>4. QED
    BY <2>2, <2>3
<1>5. ASSUME NEW file, SeedCategories(file) PROVE Mapped /\ Aliased
  <2>1. ref' = [ref EXCEPT !.slug = file @@ @]
    BY <1>5 DEF SeedCategories
  <2>2. ref'.mapping = ref.mapping /\ ref'.alias = ref.alias
    BY <2>1 DEF Referring
  <2>3. QED
    BY <1>2, <2>2
<1>6. ASSUME NEW p, Toggle(p) PROVE Mapped /\ Aliased
  <2>1. ref' = [ref EXCEPT !.active = IF p \in @ THEN @ \ {p} ELSE @ \cup {p}]
    BY <1>6 DEF Toggle
  <2>2. ref'.mapping = ref.mapping /\ ref'.alias = ref.alias
    BY <2>1 DEF Referring
  <2>3. QED
    BY <1>2, <2>2
<1>7. ASSUME \/ Between \/ RequestPage \/ SkipStub \/ NextJob
             \/ \E l \in AtWork : \E d : Persist(l, d)
             \/ \E l \in AtWork : \E d : StubUnreadable(l, d) \/ StubGone(l) \/ StubFails(l)
             \/ \E l \in Here.moving : Publish(l) \/ Withdraw(l)
             \/ \E q \in Here.judged : Judge(q[1], q[2])
      PROVE  Mapped /\ Aliased
  <2>1. Between \/ RequestPage => ref' = ref
    BY BetweenSteps, Requests
  <2>2. SkipStub \/ NextJob => ref' = ref
    BY DEF SkipStub, NextJob, env
  <2>3. \A l, d : Persist(l, d) \/ StubUnreadable(l, d) \/ StubGone(l) \/ StubFails(l) => ref' = ref
    BY DEF Persist, StubUnreadable, StubGone, StubFails, env
  <2>4. \A l, m : Publish(l) \/ Withdraw(l) \/ Judge(l, m) => ref' = ref
    BY DEF Publish, Withdraw, Changes, Judge
  <2>5. ref' = ref
    BY <1>7, <2>1, <2>2, <2>3, <2>4
  <2>6. QED
    BY <1>2, <2>5
<1>8. Mapped /\ Aliased
  <2> HIDE DEF Mapped, Aliased
  <2> QED
    BY <1>3, <1>4, <1>5, <1>6, <1>7, Cases
<1>9. QED
  BY <1>1, <1>8

\* Nothing is filed in a place it does not lie in ...
LEMMA FilesTruly ==
  ASSUME Shape, Truth, ~ Here.untrue,
         NEW l \in Listings, Details[l].read = "detail", ~ Pages[l].ambiguous
  PROVE  LiesIn(l, Resolve(index, Details[l].refs, Pages[l].texts))
<1>1. Details[l].refs \in Seq(ExternalIds) /\ Pages[l].texts \in Seq(Names)
  BY PagesAssumption DEF PagesAssumption
<1>2. /\ \A e \in Range(Details[l].refs) : LiesIn(l, index.source[e])
      /\ \A n \in Range(Pages[l].texts) : LiesIn(l, index.text[n])
  BY DEF Truth
<1>3. LiesIn(l, None)
  BY DEF LiesIn
<1>4. QED
  BY <1>1, <1>2, <1>3, ResolvesToOneOf

\* ... and the copy has what the tables have.
LEMMA LoadsTruly ==
  ASSUME Shape, Indexed, Referring, Truth, Load \/ NextJob \/ index' = index,
         ~ Here.untrue, NEW l \in Listings
  PROVE  /\ \A e \in ExternalIds : LiesIn(l, ref.mapping[e]) /\ LiesIn(l, index.source[e])
              => LiesIn(l, index'.source[e])
         /\ \A n \in Names :
              LiesIn(l, ref.alias[n]) /\ LiesIn(l, index.text[n])
                /\ (\A p \in Places : NameOf[p] = n => LiesIn(l, p))
              => LiesIn(l, index'.text[n])
<1> DEFINE Sourced == \A e \in ExternalIds : LiesIn(l, ref.mapping[e]) /\ LiesIn(l, index.source[e])
              => LiesIn(l, index'.source[e])
           Named == \A n \in Names :
              LiesIn(l, ref.alias[n]) /\ LiesIn(l, index.text[n])
                /\ (\A p \in Places : NameOf[p] = n => LiesIn(l, p))
              => LiesIn(l, index'.text[n])
<1>1. LiesIn(l, None)
  BY DEF LiesIn
<1>2. ASSUME index'.source = index.source, index'.text = index.text PROVE Sourced /\ Named
  BY <1>2
<1>3. ASSUME NEW level, index' = [index EXCEPT !.known = @ \cup (ref.active \cap level)]
      PROVE  Sourced /\ Named
  <2>1. index'.source = index.source /\ index'.text = index.text
    BY <1>3 DEF Indexed
  <2>2. QED
    BY <1>2, <2>1
<1>4. ASSUME index' = [index EXCEPT !.text =
                        [n \in Names |-> TextTarget(index.known, ref.alias, n)]]
      PROVE  Sourced /\ Named
  <2>1. index'.source = index.source
        /\ \A n \in Names : index'.text[n] = TextTarget(index.known, ref.alias, n)
    BY <1>4 DEF Indexed
  <2>2. QED
    BY <1>1, <2>1, TextTargetIsNamed
<1>5. ASSUME index' = [index EXCEPT !.source =
                        [e \in ExternalIds |-> Known(index.known, ref.mapping[e])]]
      PROVE  Sourced /\ Named
  <2>1. index'.text = index.text
        /\ \A e \in ExternalIds : index'.source[e] = Known(index.known, ref.mapping[e])
    BY <1>5 DEF Indexed
  <2>2. \A e \in ExternalIds : index'.source[e] \in {ref.mapping[e], None}
    BY <2>1 DEF Known
  <2>3. QED
    BY <1>1, <2>1, <2>2
<1>6. ASSUME NextJob PROVE Sourced /\ Named
  <2>1. /\ \A e \in ExternalIds : index'.source[e] = None
        /\ \A n \in Names : index'.text[n] = None
    BY <1>6 DEF NextJob, EmptyIndex
  <2>2. QED
    BY <1>1, <2>1
<1>7. Sourced /\ Named
  <2> HIDE DEF Sourced, Named
  <2> QED
    BY <1>2, <1>3, <1>4, <1>5, <1>6, Loads
<1>8. QED
  BY <1>7

LEMMA TruthStep ==
  ASSUME Shape, Stage, Indexed, Referring, Filed, Truth, [Next]_vars
  PROVE  Truth'
<1> SUFFICES ASSUME (~ Here.untrue)', NEW l \in Listings
    PROVE  /\ Details[l].read = "detail" => \A e \in Range(Details[l].refs) :
                LiesIn(l, ref'.mapping[e]) /\ LiesIn(l, index'.source[e])
           /\ ~ Pages[l].ambiguous => \A n \in Range(Pages[l].texts) :
                LiesIn(l, ref'.alias[n]) /\ LiesIn(l, index'.text[n])
           /\ ~ Pages[l].ambiguous => \A p \in filed'[l] : LiesIn(l, p)
  BY DEF Truth
<1>1. ~ Here.untrue /\ world' = world /\ world \in DOMAIN Worlds
  BY TableSteps DEF Here, Shape
<1>2. /\ Pages[l].texts \in Seq(Names)
      /\ Details[l].read = "detail" => Details[l].refs \in Seq(ExternalIds)
  BY PagesAssumption DEF PagesAssumption
<1>3. /\ \A n \in Range(Pages[l].texts) : n \in Names
      /\ Details[l].read = "detail" => \A e \in Range(Details[l].refs) : e \in ExternalIds
  BY <1>2 DEF Range
<1>4. /\ Details[l].read = "detail" => \A e \in Range(Details[l].refs) :
           /\ e \notin Here.remaps
           /\ \A file \in Here.files : e \in DOMAIN file.mapping => LiesIn(l, file.mapping[e])
      /\ ~ Pages[l].ambiguous => \A n \in Range(Pages[l].texts) :
           /\ \A p \in Places : NameOf[p] = n => LiesIn(l, p)
           /\ \A file \in Here.files : \A i \in DOMAIN file.aliases :
                file.aliases[i].name = n => LiesIn(l, file.aliases[i].place)
  BY <1>1, TruthAssumption DEF TruthAssumption, Here
<1>5. Load \/ NextJob \/ index' = index
  <2>1. \A k, d : Persist(k, d) => index' = index
    BY DEF Persist, Processes, copy
  <2>2. \A k, m : Judge(k, m) => index' = index
    BY DEF Judge, Edits, copy
  <2>3. QED
    BY <2>1, <2>2, StepsOfPlaces
<1>6. ASSUME Details[l].read = "detail", NEW e \in Range(Details[l].refs)
      PROVE  LiesIn(l, ref'.mapping[e]) /\ LiesIn(l, index'.source[e])
  <2>1. LiesIn(l, ref.mapping[e]) /\ LiesIn(l, index.source[e]) /\ e \in ExternalIds
    BY <1>1, <1>3, <1>6 DEF Truth
  <2>2. LiesIn(l, index'.source[e])
    BY <1>1, <1>5, <2>1, LoadsTruly
  <2>3. LiesIn(l, ref'.mapping[e])
    BY <1>4, <1>6, <2>1, TableSteps
  <2>4. QED
    BY <2>2, <2>3
<1>7. ASSUME ~ Pages[l].ambiguous, NEW n \in Range(Pages[l].texts)
      PROVE  LiesIn(l, ref'.alias[n]) /\ LiesIn(l, index'.text[n])
  <2>1. LiesIn(l, ref.alias[n]) /\ LiesIn(l, index.text[n]) /\ n \in Names
    BY <1>1, <1>3, <1>7 DEF Truth
  <2>2. LiesIn(l, index'.text[n])
    BY <1>1, <1>4, <1>5, <1>7, <2>1, LoadsTruly
  <2>3. LiesIn(l, ref'.alias[n])
    BY <1>4, <1>7, <2>1, TableSteps
  <2>4. QED
    BY <2>2, <2>3
<1>8. ASSUME ~ Pages[l].ambiguous, NEW p \in filed'[l] PROVE LiesIn(l, p)
  <2>1. \A q \in filed[l] : LiesIn(l, q)
    BY <1>1, <1>8 DEF Truth
  <2>2. CASE filed' = filed
    BY <1>8, <2>1, <2>2
  <2>3. ASSUME NEW k \in AtWork, Persist(k, Details[k]) PROVE LiesIn(l, p)
    <3> DEFINE place == Resolve(index, Details[k].refs, Pages[k].texts)
    <3>1. k \in Listings /\ filed' = [filed EXCEPT ![k] = @ \cup ({place} \ {None})]
      BY <2>3, Files
    <3>2. Details[k].read = "detail"
      BY <2>3 DEF Persist
    <3>3. k = l => LiesIn(l, place)
      BY <1>1, <1>8, <3>2, FilesTruly
    <3>4. p \in filed[l] \/ (k = l /\ p = place)
      <4> HIDE DEF place
      <4> QED
        BY <1>8, <3>1 DEF Filed
    <3>5. QED
      BY <2>1, <3>3, <3>4
  <2>4. Load \/ NextJob => filed' = filed
    BY Loads DEF NextJob
  <2>5. \A k, m : Judge(k, m) => filed' = filed
    BY DEF Judge, Edits
  <2>6. QED
    BY <2>2, <2>3, <2>4, <2>5, StepsOfPlaces
<1>9. QED
  BY <1>6, <1>7, <1>8

LEMMA InitTruth == Init => Truth
<1> SUFFICES ASSUME Init, ~ Here.untrue, NEW l \in Listings
    PROVE  /\ Details[l].read = "detail" => \A e \in Range(Details[l].refs) :
                LiesIn(l, ref.mapping[e]) /\ LiesIn(l, index.source[e])
           /\ ~ Pages[l].ambiguous => \A n \in Range(Pages[l].texts) :
                LiesIn(l, ref.alias[n]) /\ LiesIn(l, index.text[n])
           /\ ~ Pages[l].ambiguous => \A p \in filed[l] : LiesIn(l, p)
  BY DEF Truth
<1>1. /\ world \in DOMAIN Worlds /\ ref = Here.ref /\ index = EmptyIndex
      /\ filed = [k \in Listings |-> {}]
  BY DEF Init
<1>2. /\ Details[l].read = "detail" => \A e \in Range(Details[l].refs) :
           LiesIn(l, ref.mapping[e])
      /\ ~ Pages[l].ambiguous => \A n \in Range(Pages[l].texts) : LiesIn(l, ref.alias[n])
  BY <1>1, TruthAssumption DEF TruthAssumption, Here
<1>3. /\ \A n \in Range(Pages[l].texts) : n \in Names
      /\ Details[l].read = "detail" => \A e \in Range(Details[l].refs) : e \in ExternalIds
  BY PagesAssumption DEF PagesAssumption, Range
<1>4. (\A e \in ExternalIds : index.source[e] = None) /\ \A n \in Names : index.text[n] = None
  BY <1>1 DEF EmptyIndex
<1>5. LiesIn(l, None)
  BY DEF LiesIn
<1>6. QED
  BY <1>1, <1>2, <1>3, <1>4, <1>5

\* Whatever the identifiers and the texts of a listing are, and however the tables
\* change between and during the crawls, it is filed in places it lies in, as
\* long as the tables and the seed files tell the truth about them
\* (normalization/locations.py, resolve; LocationIndex.load).
THEOREM FiledWhereItLies == Spec => []PlaceIsTrue
<1> DEFINE Inv == Shape /\ Stage /\ Logged /\ Indexed /\ Referring /\ Filed /\ Truth
<1>1. Init => Inv
  BY InitInvariant, InitPlaces, InitTypes, InitTruth DEF Types
<1>2. Inv /\ [Next]_vars => Inv'
  BY ShapeStep, StageStep, LoggedStep, IndexedStep, FiledStep, ReferringStep, TruthStep
<1>3. ASSUME Filed, Truth PROVE PlaceIsTrue
  <2> SUFFICES ASSUME NEW l \in Listings, NEW p \in filed[l], ~ Here.untrue, ~ Pages[l].ambiguous
      PROVE  Within(Pages[l].lies, p)
    BY DEF PlaceIsTrue
  <2>1. LiesIn(l, p) /\ p \in Places
    BY <1>3 DEF Truth, Filed
  <2>2. QED
    BY <2>1, PlacesAssumption DEF PlacesAssumption, LiesIn
<1>4. Inv => PlaceIsTrue
  BY <1>3
<1>5. QED
  BY <1>1, <1>2, <1>4, PTL DEF Spec
=============================================================================
