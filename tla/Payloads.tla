------------------------------ MODULE Payloads ------------------------------
(***************************************************************************)
(* What the adapters read from a detail page                               *)
(* (core/sources/adapters/divar.py and sheypoor.py).                       *)
(*                                                                         *)
(* An item is an attribute: its label, the field that the label stands     *)
(* for, and its text (see Pricing).                                        *)
(*                                                                         *)
(* A Divar page has a tree of widgets, a function from positions (<<2, 1>> *)
(* is the first widget inside the second) to the items of the widget.      *)
(*                                                                         *)
(* A Sheypoor page is a stream of rows [id, body].  A body is a text, or a *)
(* JSON value: the listing, items, breadcrumbs, a price, a number, or a    *)
(* link "$id" to another row.                                              *)
(***************************************************************************)
EXTENDS Pricing, SequencesExt, TLC

Distinct(s) ==
  FoldLeft(LAMBDA kept, e : IF Contains(kept, e) THEN kept ELSE Append(kept, e), <<>>, s)

Labels(items) == {items[i].label : i \in DOMAIN items}

LabelText(items, label) == FirstText(items, "label", label)

\* f[x] = v of a dictionary
With(f, x, v) == [y \in DOMAIN f \cup {x} |-> IF y = x THEN v ELSE f[y]]

-----------------------------------------------------------------------------
(* Divar.                                                                  *)

Children(tree, at) ==
  [i \in 1..Cardinality({p \in DOMAIN tree : Front(p) = at}) |-> Append(at, i)]

\* Mutant: what a widget contains comes after its siblings.
OpenedLast(tree, stack) == Tail(stack) \o Children(tree, Head(stack))

\* One turn of the loop of iter_widgets: what a widget contains comes next.
Opened(tree, stack) == Children(tree, Head(stack)) \o Tail(stack)

\* iter_widgets: the widget that each turn yields.
Widgets(tree) ==
  LET stack[n \in 1..Cardinality(DOMAIN tree)] ==
        IF n = 1 THEN Children(tree, <<>>) ELSE Opened(tree, stack[n - 1])
  IN [n \in DOMAIN stack |-> Head(stack[n])]

\* What stands in widgets.
ItemsIn(tree, widgets) == FlattenSeq([n \in DOMAIN widgets |-> tree[widgets[n]]])

\* attributes.setdefault: the first text of a label stays.
SetDefault(kept, a) == IF a.label \in Labels(kept) THEN kept ELSE Append(kept, a)

FirstOfLabels(items) ==
  LET kept[n \in 0..Len(items)] ==
        IF n = 0 THEN <<>> ELSE SetDefault(kept[n - 1], items[n])
  IN kept[Len(items)]

DivarAttributes(tree) == FirstOfLabels(ItemsIn(tree, Widgets(tree)))

\* raw_price: attributes.get('total') or attributes.get('price')
DivarPrice(items) ==
  LabelText(items, IF "total" \in Labels(items) THEN "total" ELSE "price")

\* category_path_from: the breadcrumbs, which run from specific to general, or
\* else the category of the schema.
DivarPath(response) ==
  IF response.crumbs = <<>> THEN response.schema ELSE Reverse(Distinct(response.crumbs))

DivarDetail(response) ==
  LET items == DivarAttributes(response.tree)
  IN [read |-> "detail", attributes |-> items, raw |-> DivarPrice(items),
      path |-> DivarPath(response), refs |-> Distinct(response.city)]

-----------------------------------------------------------------------------
(* Sheypoor: the stream.                                                   *)

\* Nothing need separate a text from the row behind it: when the text ends in a
\* hexadecimal digit, the id behind it looks longer than it is.
EndsInHex(body) ==
  body.is = "text" /\ body.prints # <<>> /\ Last(body.prints).is = "hex"

\* What stands in the stream: rows one behind the other.
Printed(rows, i) ==
  <<[is |-> "id", of |-> IF i > 1 /\ EndsInHex(rows[i - 1].body) THEN "longer" ELSE rows[i].id]>>
  \o (IF rows[i].body.is = "text" THEN <<[is |-> "tag"]>> \o rows[i].body.prints
      ELSE <<[is |-> "json", of |-> rows[i].body]>>)

Tokens(rows) == FlattenSeq([i \in DOMAIN rows |-> Printed(rows, i)])

\* flight_rows_ordered, one turn: from the next id, over a tag, to a value that
\* decodes, and on behind it; a later row of an id replaces the earlier one.
Scanned(tokens, scan) ==
  LET ids == {i \in DOMAIN tokens : i > scan.at /\ tokens[i].is = "id"}
      at == Min(ids)
      start == IF at < Len(tokens) /\ tokens[at + 1].is = "tag" THEN at + 2 ELSE at + 1
  IN IF ids = {} THEN scan
     ELSE IF start <= Len(tokens) /\ tokens[start].is = "json"
       THEN [at |-> start, rows |-> With(scan.rows, tokens[at].of, tokens[start].of)]
       ELSE [at |-> at, rows |-> scan.rows]

\* parse_flight_rows
FlightRows(tokens) ==
  LET scan[n \in 0..Len(tokens)] ==
        IF n = 0 THEN [at |-> 0, rows |-> <<>>] ELSE Scanned(tokens, scan[n - 1])
  IN scan[Len(tokens)].rows

-----------------------------------------------------------------------------
(* Sheypoor: the values.                                                   *)

MaxRefDepth == 8   \* MAX_REF_DEPTH

\* resolve_refs: a link is followed as long as the depth allows.
Followed(rows, at) ==
  IF at.value.is # "link" THEN at
  ELSE [value |-> IF at.value.to \in DOMAIN rows THEN rows[at.value.to] ELSE [is |-> "none"],
        depth |-> at.depth + 1]

Resolved(rows, value, depth) ==
  LET at[n \in depth..MaxRefDepth] ==
        IF n = depth THEN [value |-> value, depth |-> depth] ELSE Followed(rows, at[n - 1])
  IN at[MaxRefDepth]

\* The values of a list, resolved; anything else has none.
Entries(rows, value) ==
  LET list == Resolved(rows, value, 0)
  IN IF list.value.is # "list" THEN <<>>
     ELSE [i \in DOMAIN list.value.of |->
             Resolved(rows, list.value.of[i], list.depth + 1).value]

\* attributes[key] = value: the last text of a label, at the place of the first.
SetItem(kept, e) ==
  IF e.is # "entry" THEN kept
  ELSE IF e.of.label \in Labels(kept)
    THEN [i \in DOMAIN kept |-> IF kept[i].label = e.of.label THEN e.of ELSE kept[i]]
  ELSE Append(kept, e.of)

SheypoorAttributes(entries) ==
  LET kept[n \in 0..Len(entries)] ==
        IF n = 0 THEN <<>> ELSE SetItem(kept[n - 1], entries[n])
  IN kept[Len(entries)]

\* breadcrumb_refs: the last segments of the categories, and those of the
\* places that are no category, most specific first.
CrumbCategories(entries) ==
  LET crumbs == SelectSeq(entries, LAMBDA e : e.is = "entry" /\ e.of.type = "category")
  IN Distinct([i \in DOMAIN crumbs |-> Last(crumbs[i].of.segments).slug])

CrumbPlaces(entries) ==
  LET category(s) == "slug" \in DOMAIN s /\ Contains(CrumbCategories(entries), s.slug)
      own(e) == SelectSeq(e.of.segments, LAMBDA s : ~ category(s))
      crumbs == SelectSeq(entries, LAMBDA e :
                  e.is = "entry" /\ e.of.type = "place" /\ own(e) # <<>>)
  IN Distinct(Reverse([i \in DOMAIN crumbs |-> Last(own(crumbs[i])).place]))

\* A value that Python takes for false.
Empty(value) == value.is = "none" \/ (value.is = "list" /\ value.of = <<>>)

\* next((item for item in value if item), None)
FirstFilled(values) ==
  LET filled == {i \in DOMAIN values : ~ Empty(values[i])}
  IN IF filled = {} THEN [is |-> "none"] ELSE values[Min(filled)]

\* format_price of the resolved price, which recorded pages have in a list; a link
\* that is left is a string like any other.
SheypoorPrice(rows, price) ==
  LET found == Resolved(rows, price, 0).value
      value == IF found.is = "list" THEN FirstFilled(Entries(rows, price)) ELSE found
  IN IF value.is \in {"price", "link"} THEN value.text ELSE NoText

\* parse_detail: no listing is a ParseError; to loop over a number raises what
\* is no SourceError.
SheypoorDetail(response) ==
  LET rows == FlightRows(Tokens(response.rows))
      found == {id \in DOMAIN rows : rows[id].is = "listing"}
      listing == rows[CHOOSE id \in found : TRUE]
      crumbs == Entries(rows, listing.breadcrumbs)
  IN IF found = {} THEN [read |-> "ParseError"]
     ELSE IF \E v \in {listing.breadcrumbs, listing.attributes} :
               Resolved(rows, v, 0).value.is = "number"
       THEN [read |-> "TypeError"]
     ELSE [read |-> "detail",
           attributes |-> SheypoorAttributes(Entries(rows, listing.attributes)),
           raw |-> SheypoorPrice(rows, listing.price),
           path |-> CrumbCategories(crumbs), refs |-> CrumbPlaces(crumbs)]

-----------------------------------------------------------------------------
(* What a page says.                                                       *)

\* A widget that contains another comes before it; others are in the order of
\* the first numbers that differ.
Beside(p, q) ==
  \E i \in DOMAIN p \cap DOMAIN q : p[i] < q[i] /\ \A j \in 1..i - 1 : p[j] = q[j]

Before(p, q) == IsStrictPrefix(p, q) \/ Beside(p, q)

\* The widgets of a Divar page from top to bottom, and its attributes.
FromTop(tree) ==
  CHOOSE s \in [1..Cardinality(DOMAIN tree) -> DOMAIN tree] :
    \A i, j \in DOMAIN s : i < j => Before(s[i], s[j])

DivarItems(tree) == ItemsIn(tree, FromTop(tree))

\* A page of Divar: the widgets in a widget are numbered from 1, and a label
\* stands for one field.
IsTree(tree) ==
  /\ IsFiniteSet(DOMAIN tree) /\ DOMAIN tree \subseteq Seq(Nat) \ {<<>>}
  /\ \A p \in DOMAIN tree : \A n \in 1..Len(p) : SubSeq(p, 1, n) \in DOMAIN tree
  /\ \A at \in DOMAIN tree \cup {<<>>} :
       Range(Children(tree, at)) = {p \in DOMAIN tree : Front(p) = at}
  /\ \A p \in DOMAIN tree : tree[p] \in Seq(Range(tree[p]))
  /\ \A p, q \in DOMAIN tree : \A a \in Range(tree[p]), b \in Range(tree[q]) :
       a.label = b.label => a.field = b.field

\* Its rows are what was sent, whatever the texts between them print.
RowOf(rows, value) ==
  LET sent == {i \in DOMAIN rows : rows[i].id = value.to /\ rows[i].body.is # "text"}
  IN IF value.is # "link" THEN value
     ELSE IF sent = {} THEN [is |-> "none"] ELSE rows[CHOOSE i \in sent : TRUE].body

SheypoorListing(rows) == rows[CHOOSE i \in DOMAIN rows : rows[i].body.is = "listing"].body

SheypoorItems(rows) ==
  LET list == RowOf(rows, SheypoorListing(rows).attributes).of
  IN [i \in DOMAIN list |-> RowOf(rows, list[i]).of]

\* The price of the listing, or the first one of the list that it has.
SheypoorCost(rows) ==
  LET value == RowOf(rows, SheypoorListing(rows).price)
      prices == {i \in DOMAIN value.of : RowOf(rows, value.of[i]).is = "price"}
  IN IF value.is = "price" THEN value.text
     ELSE IF value.is = "list" /\ prices # {} THEN RowOf(rows, value.of[Min(prices)]).text
     ELSE NoText

\* A page of Sheypoor: one row has an id and one is the listing, links lead to
\* values, a list of prices has nothing but prices and links that lead nowhere, and
\* the attributes are a list of entries with a label of their own.
Direct(rows, value) ==
  value.is = "link" =>
    /\ RowOf(rows, value).is # "link"
    /\ \A i \in DOMAIN rows : rows[i].id = value.to => rows[i].body.is # "text"

IsStream(rows) ==
  LET listing == SheypoorListing(rows)
      list == RowOf(rows, listing.attributes)
      items == SheypoorItems(rows)
      price == RowOf(rows, listing.price)
  IN /\ rows \in Seq(Range(rows))
     /\ \A i \in DOMAIN rows :
          rows[i].body.is = "text" => rows[i].body.prints \in Seq(Range(rows[i].body.prints))
     /\ \A i, j \in DOMAIN rows : rows[i].id = rows[j].id => i = j
     /\ \E i \in DOMAIN rows : \A j \in DOMAIN rows : (rows[j].body.is = "listing") = (j = i)
     /\ Direct(rows, listing.price) /\ Direct(rows, listing.attributes)
     /\ price.is = "list" =>
          /\ price.of \in Seq(Range(price.of))
          /\ \A i \in DOMAIN price.of :
               Direct(rows, price.of[i]) /\ RowOf(rows, price.of[i]).is \in {"price", "none"}
     /\ list.is = "list" /\ list.of \in Seq(Range(list.of))
     /\ \A i \in DOMAIN list.of :
          Direct(rows, list.of[i]) /\ RowOf(rows, list.of[i]).is = "entry"
     /\ \A i, j \in DOMAIN items : items[i].label = items[j].label => i = j

\* A text prints what looks like a row, or the listing, or runs into the next
\* row.
Misleading(rows) ==
  \E i \in DOMAIN rows :
    rows[i].body.is = "text"
    /\ \E token \in Range(rows[i].body.prints) :
         token.is \in {"id", "hex"} \/ (token.is = "json" /\ token.of.is = "listing")
=============================================================================
