------------------------------- MODULE Pricing -------------------------------
(***************************************************************************)
(* How a published price becomes amounts in Toman                          *)
(* (core/normalization/money.py, attributes.py and _money of pipeline.py). *)
(*                                                                         *)
(* A text is the terms it is made of, each a number in tenths with the     *)
(* unit word behind it, how the terms are joined, and the markers it       *)
(* contains.  The parser sees the numbers and the unit words, not which    *)
(* belongs to which.  0 stands for NULL: the code stores no amount of 0.   *)
(***************************************************************************)
EXTENDS Integers, Sequences, FiniteSets, FiniteSetsExt

CONSTANT UnitFactor   \* UNIT_FACTORS, with "none" for 1

ASSUME PricingAssumption ==
  /\ "none" \in DOMAIN UnitFactor /\ UnitFactor["none"] = 1
  /\ UnitFactor \in [DOMAIN UnitFactor -> Nat \ {0}]

Missing == 0
MoneyFields == {"sale", "deposit", "rent"}

\* Digits are read without a sign, and a unit word is one of the table's; a sum
\* like "2 billion and 500 million" has one term of a unit.
Texts ==
  {t \in [terms  : Seq([tenths : Nat, unit : DOMAIN UnitFactor]),
          joined : {"sum", "range"},
          marks  : SUBSET {"rial", "negotiable", "night", "deposit", "rent", "sale"}] :
     t.joined = "sum" =>
       \A i, j \in DOMAIN t.terms : t.terms[i].unit = t.terms[j].unit => i = j}

Numbers(t) == {t.terms[i].tenths : i \in DOMAIN t.terms}
Units(t)   == {t.terms[i].unit : i \in DOMAIN t.terms} \ {"none"}

\* ROUND_HALF_UP of n / d
HalfUp(n, d) == (2 * n + d) \div (2 * d)

\* A Rial price is a tenth in Toman; n is in tenths.
Toman(t, n) == IF "rial" \in t.marks THEN HalfUp(n, 100) ELSE HalfUp(n, 10)

\* Mutant: with several unit words the largest is taken.
AmountLargestUnit(t) ==
  IF t.terms = <<>> THEN Missing
  ELSE Toman(t, Min(Numbers(t)) * Max({UnitFactor[u] : u \in Units(t) \cup {"none"}}))

\* _amount: the lowest number times the one unit; two unit words are a compound
\* that is not read.
Amount(t) ==
  IF t.terms = <<>> \/ Cardinality(Units(t)) > 1 THEN Missing
  ELSE Toman(t, Min(Numbers(t))
                * (IF Units(t) = {} THEN 1 ELSE UnitFactor[CHOOSE u \in Units(t) : TRUE]))

\* parse_price: a negotiable or nightly price has no amount.
ParsePrice(t) ==
  [negotiable |-> "negotiable" \in t.marks,
   amount     |-> IF t.marks \cap {"negotiable", "night"} # {} THEN Missing ELSE Amount(t)]

NoText == [terms |-> <<>>, joined |-> "sum", marks |-> {}]

\* The text of the first item with a value, of those of the key.
FirstText(items, key, value) ==
  LET found == {i \in DOMAIN items : items[i][key] = value}
  IN IF found = {} THEN NoText ELSE items[Min(found)].text

\* fold_attributes and first_value: the first label of a field wins.
FirstValue(attributes, field) == FirstText(attributes, "field", field)

\* field_hint: a text may carry several markers; deposit is looked for first.
FieldHint(t) ==
  IF "deposit" \in t.marks THEN "deposit"
  ELSE IF "rent" \in t.marks THEN "rent"
  ELSE IF "sale" \in t.marks THEN "sale" ELSE "none"

\* The field of a price outside the attributes; DEFAULT_FIELD has none for
\* listings whose transaction is unspecified.
RawField(t, transaction) ==
  IF FieldHint(t) # "none" THEN FieldHint(t)
  ELSE IF transaction \in {"sale", "rent"} THEN transaction ELSE "none"

\* _money: the list price counts only when no attribute has an amount.
UsesRaw(attributes) ==
  \A f \in MoneyFields : ParsePrice(FirstValue(attributes, f)).amount = Missing

Money(attributes, raw, transaction) ==
  LET price(f) == ParsePrice(FirstValue(attributes, f))
      amount(f) == IF UsesRaw(attributes) /\ f = RawField(raw, transaction)
                     THEN ParsePrice(raw).amount ELSE price(f).amount
  IN [amounts    |-> [sale |-> amount("sale"), deposit |-> amount("deposit"),
                      rent |-> amount("rent")],
      negotiable |-> \/ \E f \in MoneyFields : price(f).negotiable
                     \/ UsesRaw(attributes) /\ ParsePrice(raw).negotiable]

\* parse_area: the lowest number.
Area(attributes) ==
  LET t == FirstValue(attributes, "area")
  IN IF t.terms = <<>> THEN Missing ELSE Min(Numbers(t))

-----------------------------------------------------------------------------
(* What a text says, read with its structure.                              *)

\* "100 to 120 million": the unit behind the last number belongs to those before
\* it, which are not higher.
SharesUnit(t) ==
  /\ t.joined = "range"
  /\ \A i \in 1..Len(t.terms) - 1 :
       t.terms[i].unit = "none" /\ t.terms[i].tenths <= t.terms[Len(t.terms)].tenths

UnitOf(t, i) == IF SharesUnit(t) THEN t.terms[Len(t.terms)].unit ELSE t.terms[i].unit

TermValue(t, i) == t.terms[i].tenths * UnitFactor[UnitOf(t, i)]

Stated(t) ==
  LET values == {TermValue(t, i) : i \in DOMAIN t.terms}
  IN IF t.terms = <<>> \/ t.marks \cap {"negotiable", "night"} # {} THEN Missing
     ELSE Toman(t, IF t.joined = "range" THEN Min(values)
                   ELSE MapThenSumSet(LAMBDA i : TermValue(t, i), DOMAIN t.terms))

\* Other texts of several terms of which only some carry the unit word: "2 billion
\* and 500", "500 to 1 billion".
HalfUnited(t) ==
  /\ Cardinality(Units(t)) = 1 /\ "none" \in {t.terms[i].unit : i \in DOMAIN t.terms}
  /\ ~ SharesUnit(t)
=============================================================================
