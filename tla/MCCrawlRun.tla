----------------------------- MODULE MCCrawlRun -----------------------------
(* Places, listings and situations of CrawlRun for TLC.                     *)
EXTENDS CrawlRun

MCProvinces  == {"mazandaran", "gilan"}
MCCities     == {"sari", "babol", "rasht"}
MCRegions    == {"azadi of sari", "azadi of babol", "farhang"}
MCProvinceOf == "sari" :> "mazandaran" @@ "babol" :> "mazandaran" @@ "rasht" :> "gilan"
MCCityOf     == "azadi of sari" :> "sari" @@ "azadi of babol" :> "babol" @@ "farhang" :> "sari"
MCByName     == <<"gilan", "mazandaran", "babol", "rasht", "sari", "azadi of babol",
                  "azadi of sari", "farhang">>

\* Two regions share a name; farhang and rasht share a code.
MCNameOf ==
  [p \in Range(MCByName) |-> IF p \in {"azadi of sari", "azadi of babol"} THEN "azadi" ELSE p]
MCCodeOf == [p \in Range(MCByName) |-> IF p = "azadi of babol" THEN "azadi of sari" ELSE p]
MCNames  == Range(MCByName) \cup {"azadi", "old town", "elsewhere"}

D(n) == <<"divar", n>>
S(n) == <<"sheypoor", n>>
MCExternalIds == {D(n) : n \in 1..5} \cup {S(n) : n \in 1..3}

MCUnitFactor == "none" :> 1 @@ "thousand" :> 10 @@ "million" :> 100 @@ "billion" :> 1000

Term(tenths, unit) == [tenths |-> tenths, unit |-> unit]
Text(terms, joined, marks) == [terms |-> terms, joined |-> joined, marks |-> marks]
Plain(tenths, unit) == Text(<<Term(tenths, unit)>>, "sum", {})

\* The labels of the attributes and the fields they stand for.
FieldOf ==
  "area" :> "area" @@ "total" :> "sale" @@ "sale price" :> "sale" @@ "price" :> "sale"
    @@ "deposit" :> "deposit" @@ "full deposit" :> "deposit" @@ "rent" :> "rent"
Item(label, text) == [label |-> label, field |-> FieldOf[label], text |-> text]

-----------------------------------------------------------------------------
(* Pages of Divar: flats in Sari.                                          *)

OneWidget(items) == <<1>> :> items

DivarFlat ==
  [source |-> "divar", at |-> {D(1), D(2)}, slugs |-> {"sell"},
   crumbs |-> <<{"apartment", "sale"}, {}>>, schema |-> <<>>, says |-> {},
   words |-> {"sea", "view", "flat"}, published |-> 3,
   city |-> <<D(5), D(2)>>, texts |-> <<"sari">>, lies |-> "sari", ambiguous |-> FALSE,
   tree |-> OneWidget(<<Item("area", Plain(1000, "none")),
                        Item("total", Plain(20, "billion"))>>)]

DivarBook ==
  "d1" :> DivarFlat @@
  "d2" :> [DivarFlat EXCEPT
     !.crumbs = <<{"house"}, {"apartment", "rent"}, {"house"}>>,
     !.words = {"house"}, !.slugs = {"rent"},
     !.texts = <<"mazandaran", "farhang">>, !.lies = "farhang",
     !.tree =
       <<1>> :> <<>> @@
       <<1, 1>> :> <<Item("deposit", Text(<<Term(1000, "none"), Term(1200, "million")>>,
                                          "range", {}))>> @@
       <<1, 2>> :> <<>> @@
       <<1, 2, 1>> :> <<Item("rent", Text(<<Term(56, "million")>>, "sum", {"rial"}))>> @@
       <<2>> :> <<Item("full deposit", Plain(10, "million")), Item("rent", Plain(9, "million"))>>] @@
  "d3" :> [DivarFlat EXCEPT
     !.city = <<>>, !.texts = <<"elsewhere", "old town">>, !.lies = "farhang",
     !.tree = OneWidget(<<Item("area", Plain(900, "none")),
       Item("total", Text(<<Term(20, "billion"), Term(5000, "million")>>, "sum", {}))>>)] @@
  "d4" :> [DivarFlat EXCEPT
     !.texts = <<"azadi">>, !.lies = "azadi of sari", !.ambiguous = TRUE, !.published = None,
     !.tree = OneWidget(<<Item("sale price", Text(<<Term(20, "billion"), Term(5000, "none")>>,
                                                  "sum", {}))>>)] @@
  "d5" :> [DivarFlat EXCEPT
     !.city = <<>>, !.texts = <<"elsewhere">>, !.crumbs = <<>>, !.schema = <<{}>>,
     !.says = {"sale", "rent"},
     !.tree = OneWidget(<<Item("price", Text(<<>>, "sum", {"negotiable"}))>>)] @@
  "d6" :> [DivarFlat EXCEPT
     !.tree = OneWidget(<<Item("area", Plain(990, "none")),
       Item("sale price", Text(<<Term(9000, "thousand"), Term(10, "million")>>, "range", {})),
       Item("price", Plain(10, "million"))>>)]

-----------------------------------------------------------------------------
(* Pages of Sheypoor: the same flats.                                      *)

Link(id, tenths) == [is |-> "link", to |-> id, text |-> Plain(tenths, "none")]
List(entries) == [is |-> "list", of |-> entries]
Entry(e) == [is |-> "entry", of |-> e]
Row(id, body) == [id |-> id, body |-> body]
Price(text) == [is |-> "price", text |-> text]
Words(prints) == [is |-> "text", prints |-> prints]
Number == [is |-> "json", of |-> [is |-> "number"]]
Crumb(type, segments) == Entry([type |-> type, segments |-> segments])
ListingRow(attributes, price, crumbs) ==
  Row("11", [is |-> "listing", attributes |-> attributes, price |-> price,
             breadcrumbs |-> crumbs])

\* Breadcrumbs: province, city, category below the city.
Crumbs(city, slug) ==
  List(<<Crumb("place", <<[place |-> S(1)]>>), Crumb("place", <<[place |-> city], [slug |-> slug]>>),
         Crumb("category", <<[place |-> city], [slug |-> slug]>>), Crumb("home", <<>>)>>)

\* As recorded: the price is in a list.  The description, a text, stands before rows
\* the listing links to.
Streamed(text, price, area, crumbs) ==
  <<ListingRow(Link("13", 130), Link("12", 120), crumbs), Row("17", Price(price)),
    Row("12", List(<<Link("17", 170)>>)), Row("15", Words(text)), Row("13", List(<<Link("14", 140)>>)),
    Row("14", Entry(Item("area", Plain(area, "none"))))>>

Quiet == <<Number, [is |-> "words"]>>

SheypoorFlat ==
  [source |-> "sheypoor", at |-> {S(1), S(2)}, slugs |-> {}, says |-> {},
   words |-> {"sea", "view", "flat"}, published |-> 3,
   texts |-> <<"sari">>, lies |-> "sari", ambiguous |-> FALSE,
   rows |-> Streamed(Quiet, Plain(20, "billion"), 1000, Crumbs(S(2), {"apartment", "sale"}))]

\* The price stands in the listing itself; there are no attributes.
Bare(price) ==
  <<ListingRow(List(<<>>), Price(price), Crumbs(S(2), {"apartment", "sale"}))>>

SheypoorBook ==
  "s1" :> [SheypoorFlat EXCEPT
     !.words = {"flat", "other"}, !.published = 20,
     !.rows = Streamed(Quiet, Text(<<Term(205, "billion")>>, "sum", {"rial"}), 1052,
                    Crumbs(S(2), {"apartment", "sale"}))] @@
  "s2" :> [SheypoorFlat EXCEPT
     !.words = {"quiet"}, !.published = 30, !.says = {"rent"},
     !.rows = Streamed(<<[is |-> "words"]>>, Text(<<Term(60, "million")>>, "sum", {"night"}), 900,
                    Crumbs(S(2), {"land"}))] @@
  "s3" :> [SheypoorFlat EXCEPT
     !.words = {"quiet"}, !.published = 30, !.rows = Bare(Plain(20, "billion"))] @@
  "s4" :> [SheypoorFlat EXCEPT !.published = 6,
     !.rows = <<ListingRow(List(<<>>), Price(Plain(0, "none")),
                           Crumbs(S(3), {"apartment", "sale"}))>>] @@
  "s5" :> [SheypoorFlat EXCEPT
     \* A link that leads nowhere and two prices.
     !.rows = <<ListingRow(List(<<>>), Link("12", 120), Crumbs(S(2), {"apartment", "sale"})),
                Row("12", List(<<Link("18", 180), Link("17", 170), Price(Plain(9, "billion"))>>)),
                Row("17", Price(Text(<<Term(600, "million")>>, "sum", {"rent"})))>>] @@
  "s6" :> SheypoorFlat @@
  \* "12:30" in the description, and rows that run into each other.
  "x1" :> [SheypoorFlat EXCEPT
     !.rows = Streamed(<<[is |-> "id", of |-> "12"], Number>>, Plain(20, "billion"), 1000,
                    Crumbs(S(2), {"apartment", "sale"}))] @@
  "x2" :> [SheypoorFlat EXCEPT
     !.rows = Streamed(<<[is |-> "words"], [is |-> "hex"]>>, Plain(20, "billion"), 1000,
                    Crumbs(S(2), {"apartment", "sale"}))] @@
  "x3" :> [SheypoorFlat EXCEPT
     !.rows = @ \o <<Row("16", Words(<<[is |-> "id", of |-> "13"], Number>>))>>] @@
  "x4" :> [SheypoorFlat EXCEPT
     !.rows = @ \o <<Row("16", Words(<<[is |-> "id", of |-> "11"], Number>>))>>]

MCPages == DivarBook @@ SheypoorBook
MCListings == DOMAIN MCPages

-----------------------------------------------------------------------------
NoFlags == [level \in 0..2 |-> None]

\* A request over the API for everything in Sari.
Request(source) ==
  [source |-> source, via |-> "api", place |-> "sari", flags |-> NoFlags,
   transaction |-> "unspecified", property |-> "other", category |-> None, limit |-> 0]

Command(source, flags) ==
  [Request(source) EXCEPT !.via = "cli", !.flags = flags @@ NoFlags]

\* Farhang is not there yet; the regions have no identifiers of their own.
Tables ==
  LET rows == Places \ {"farhang"} IN
  [rows |-> rows, active |-> rows,
   mapping |-> [e \in ExternalIds |->
      CASE e[2] = 1 -> "mazandaran" [] e[2] = 2 -> "sari" [] e = D(3) -> "babol" [] e = S(3) -> "sari"
        [] OTHER -> None],
   alias |-> [n \in Names |-> None],
   slug |-> <<"divar", "sale", "apartment">> :> "sell"]

Usual ==
  [jobs |-> <<Request("divar")>>, ref |-> Tables, enabled |-> {"divar", "sheypoor"},
   offered |-> <<"d1", "d2", "d3", "d4", "d5">>, moving |-> {}, repeats |-> FALSE,
   files |-> {}, slugs |-> {}, toggles |-> {}, remaps |-> {}, judged |-> {},
   untrue |-> FALSE, edits |-> 0, changes |-> 0, faults |-> 0]

UsualSheypoor ==
  [Usual EXCEPT !.jobs = <<Request("sheypoor")>>,
                !.offered = <<"s1", "s2", "s3", "s4", "s5">>]

\* Listings come, go and are bumped while pages are fetched; requests fail.
PageWorlds ==
  <<[Usual EXCEPT !.moving = {"d2", "d4", "d6"}, !.changes = 2, !.faults = 1],
    [Usual EXCEPT !.moving = {"d1", "d6"}, !.changes = 3, !.jobs[1].limit = 2],
    [UsualSheypoor EXCEPT !.moving = {"s1", "s4", "s6"}, !.changes = 3, !.faults = 1],
    [UsualSheypoor EXCEPT !.moving = {"s4", "s6"}, !.changes = 1, !.jobs[1].limit = 1],
    [Usual EXCEPT !.offered = <<>>], [UsualSheypoor EXCEPT !.offered = <<>>],
    [Usual EXCEPT !.faults = 4], [UsualSheypoor EXCEPT !.repeats = TRUE],
    [Usual EXCEPT !.repeats = TRUE, !.jobs[1].limit = 3, !.faults = 1],
    [Usual EXCEPT !.repeats = TRUE, !.offered = <<"d1", "d2", "d3">>, !.moving = {"d6"},
                  !.changes = 1]>>

\* Operators and seed commands change the reference tables around a crawl.
File ==
  [places |-> {"mazandaran", "sari", "farhang"},
   mapping |-> D(2) :> "sari" @@ D(4) :> "farhang",
   aliases |-> <<[name |-> "old town", place |-> "sari"],
                 [name |-> "old town", place |-> "farhang"]>>]

Edited(place) ==
  [Usual EXCEPT !.jobs[1].place = place, !.offered = <<"d1", "d2", "d3">>,
                !.files = {File}, !.toggles = {"sari", "mazandaran"}, !.edits = 2]

Recategorized(chosen) ==
  [Usual EXCEPT !.jobs = <<Request("divar"), Request("divar")>>, !.offered = <<"d1", "d3">>,
                !.jobs[1].transaction = "sale", !.jobs[1].property = "apartment",
                !.jobs[1].category = chosen,
                !.slugs = {<<"divar", "sale", "apartment">> :> "rent"},
                !.remaps = {D(2), D(3)}, !.untrue = TRUE, !.edits = 2]

\* The only identifier of the place is deleted or moved.
Unmapped ==
  [Usual EXCEPT !.jobs[1].place = "mazandaran", !.offered = <<"d1", "d2", "d3">>,
                !.remaps = {D(1)}, !.untrue = TRUE, !.edits = 1]

EditWorlds ==
  <<Edited("azadi of sari"), Edited("sari"), Edited("mazandaran"),
    Recategorized(None), Recategorized("sell"), Unmapped>>

\* Both sources hold one flat, in two crawls and a second visit.
Matched(offered) ==
  [Usual EXCEPT !.jobs = <<Request("divar"), Request("sheypoor"), Request("divar")>>,
                !.offered = offered, !.faults = 1, !.edits = 1,
                !.judged = {<<"d1", None>>, <<"s1", None>>, <<"d1", "s1">>}]

MatchWorlds ==
  <<Matched(<<"d1", "s1", "d3", "s2">>), Matched(<<"d6", "s6", "d1", "s3">>),
    Matched(<<"d1", "d6", "s4", "s5">>), Matched(<<"d5", "d2", "s6", "s1">>)>>

\* Commands whose codes name one place, two or none, and a disabled source.
Commanded(flags) == [Usual EXCEPT !.jobs = <<Command("divar", flags)>>, !.offered = <<"d1">>]

CommandWorlds ==
  <<Commanded(2 :> "azadi of sari"), Commanded(2 :> "azadi of sari" @@ 1 :> "sari"),
    Commanded(1 :> "sari" @@ 0 :> "gilan"), Commanded(0 :> "mazandaran"),
    Commanded(1 :> "rasht"), [UsualSheypoor EXCEPT !.enabled = {"divar"}]>>

\* Descriptions that print what looks like a row.
TextWorlds ==
  <<[UsualSheypoor EXCEPT !.offered = <<"x1", "x2", "s6", "x4">>, !.moving = {"x2"}, !.changes = 1],
    [UsualSheypoor EXCEPT !.offered = <<"s6", "x3">>]>>

MCWorlds == TextWorlds \o PageWorlds \o EditWorlds \o MatchWorlds \o CommandWorlds
=============================================================================
