----------------------------- MODULE FactMatcher ---------------------------
(***************************************************************************)
(* The fact-matching classifier of src/sling/nlp/wikicat/fact_matcher.py: *)
(* the property index built by FactMatcher.__init__, _finer_date,         *)
(* subsumes, _existing_facts and for_item.                                 *)
(*                                                                         *)
(* The knowledge base is frozen input (spec.md section 3), so it is a set *)
(* of CONSTANTS and every operation here is an operator without state.    *)
(*                                                                         *)
(* Two collaborators live outside src/ and are modelled from spec.md:     *)
(* the fact extractor's facts_for (section 6) and in_closure (4.2).        *)
(***************************************************************************)
EXTENDS Integers, Sequences, FiniteSets

CONSTANTS
  Items,          \* source items whose facts are matched
  Entities,       \* item-valued targets (sling frames)
  Literals,       \* existing targets that are not frames (strings, ints)
  Dates,          \* date values, records [year, month, day, precision]
  Props,          \* the properties listed under /w/entity "role"
  PropTarget,     \* [Props -> {"time", "item", "other"}]: prop.target
  SubpropertyOf,  \* [Props -> SUBSET Props]: values of the P1647 slots
  ConstraintTypes,\* constraint frames reachable through P2302
  Constraints,    \* [Props -> SUBSET ConstraintTypes]: prop(P2302)
  ConstraintIs,   \* [ConstraintTypes -> ConstraintTypes \cup {NoValue}]
  SingleValue,    \* Q19474404, the single-value constraint
  P276, P69,      \* 'location' and 'educated at'
  P131, P361, P279, P749, \* located-in, part-of, subclass-of, parent-org
  Edges,          \* [Relations -> SUBSET (Entities \X Entities)]
  Resolve,        \* kb.resolve: redirect/alias resolution on frames
  Facts,          \* the KB's facts: a set of [item, path, value]
  Paths,          \* property paths passed to for_item
  NoValue, NoQuery, NoMatch

Relations == {P131, P361, P279, P749}
Frames == Entities \cup Props

\* Precision levels of sling.Date, coarsest to finest (sling.MILLENNIUM..DAY).
MILLENNIUM == 1
CENTURY == 2
DECADE == 3
YEAR == 4
MONTH == 5
DAY == 6

\* FactMatchType.
MatchTypes == {"NEW", "EXACT", "SUBSUMES_EXISTING", "SUBSUMED_BY_EXISTING",
               "CONFLICT", "ADDITIONAL"}

ASSUME /\ Resolve \in [Frames -> Frames]
       /\ Edges \in [Relations -> SUBSET (Entities \X Entities)]
       /\ \A f \in Facts : f.item \in Items /\ Len(f.path) >= 1

-----------------------------------------------------------------------------
(***************************************************************************)
(* Property index, FactMatcher.__init__.  The loop over the role list     *)
(* only adds properties to sets, so each set is the comprehension of the  *)
(* loop's condition.                                                       *)
(***************************************************************************)
date_properties == {p \in Props : PropTarget[p] = "time"}

location_properties ==
  {p \in Props : PropTarget[p] = "item" /\ \E v \in SubpropertyOf[p] : Resolve[v] = P276}

unique_properties ==
  {p \in Props : \E c \in Constraints[p] : c = SingleValue \/ ConstraintIs[c] = SingleValue}

\* closure_properties: every location property closes over located-in,
\* and the later assignment makes 'educated at' close over part-of.
closure_properties ==
  [p \in location_properties \cup {P69} |-> IF p = P69 THEN P361 ELSE P131]

_date_valued(prop) == prop \in date_properties

-----------------------------------------------------------------------------
(***************************************************************************)
(* Fact extractor (spec.md section 6).  facts_for(item, [pid], False)      *)
(* returns every fact of the item whose path starts with pid;              *)
(* _existing_facts keeps the targets of those whose path is the path.      *)
(***************************************************************************)
facts_for(item, pid) == {f \in Facts : f.item = item /\ f.path[1] = pid}

_existing_facts(item, prop) ==
  {f.value : f \in {g \in facts_for(item, prop[1]) : g.path = prop}}

(***************************************************************************)
(* in_closure(relation, coarse, fine) (spec.md 4.2): breadth-first search  *)
(* with a visited set, from 'fine' along 'relation' slots, for 'coarse'.   *)
(***************************************************************************)
in_closure(relation, coarse, fine) ==
  LET RECURSIVE Search(_, _)
      Search(frontier, visited) ==
        IF coarse \in frontier THEN TRUE
        ELSE LET next == {e[2] : e \in {x \in Edges[relation] : x[1] \in frontier}} \ visited
             IN  IF next = {} THEN FALSE ELSE Search(next, visited \cup next)
  IN  Search({fine}, {fine})

\* subsumes: resolve both ends, then the property's own closure relation,
\* else subclass-of or parent-organization.
subsumes(prop, coarse, fine) ==
  LET c == Resolve[coarse]
      f == Resolve[fine]
  IN  \/ c = f
      \/ /\ prop \in DOMAIN closure_properties
         /\ in_closure(closure_properties[prop], c, f)
      \/ /\ prop \notin DOMAIN closure_properties
         /\ in_closure(P279, c, f) \/ in_closure(P749, c, f)

-----------------------------------------------------------------------------
(***************************************************************************)
(* _finer_date(first, second): 'first' has a finer precision and its year *)
(* (and month) fall in the granule 'second' denotes.                       *)
(***************************************************************************)
YearWindow == [p \in {MILLENNIUM, CENTURY, DECADE} |->
                 CASE p = MILLENNIUM -> 1000 [] p = CENTURY -> 100 [] p = DECADE -> 10]

\* Mutant: the upper year bound taken inclusively.
_finer_date_inclusive(first, second) ==
  /\ first.precision > second.precision
  /\ \/ /\ second.precision \in DOMAIN YearWindow
        /\ first.year >= second.year
        /\ first.year <= second.year + YearWindow[second.precision]
     \/ second.precision = YEAR /\ first.year = second.year
     \/ second.precision = MONTH /\ first.year = second.year /\ first.month = second.month

_finer_date(first, second) ==
  /\ first.precision > second.precision
  /\ \/ /\ second.precision \in DOMAIN YearWindow
        /\ first.year >= second.year
        /\ first.year < second.year + YearWindow[second.precision]
     \/ second.precision = YEAR /\ first.year = second.year
     \/ second.precision = MONTH /\ first.year = second.year /\ first.month = second.month

\* Date.value(): one scalar for year, month, day and precision.  Dates are
\* kept normalised (fields finer than the precision are 0), so the scalar
\* is the record itself.
DateValue(d) == <<d.year, d.month, d.day, d.precision>>

IsFrame(v) == v \in Entities \cup Dates

-----------------------------------------------------------------------------
(***************************************************************************)
(* for_item: the match type of the proposed fact (item, prop, value), the *)
(* first rule that applies in the code's order.                            *)
(***************************************************************************)
\* Mutant: the final 'return FactMatchType.ADDITIONAL' is missing.
for_item_missing_return(item, prop, value) ==
  LET exact_facts == _existing_facts(item, prop)
      last == prop[Len(prop)]
      dated == _date_valued(last)
      frames == {e \in exact_facts : IsFrame(e)}
  IN  IF exact_facts = {} THEN "NEW"
      ELSE IF value \in exact_facts THEN "EXACT"
      ELSE IF dated /\ \E e \in exact_facts : DateValue(e) = DateValue(value) THEN "EXACT"
      ELSE IF IF dated THEN \E e \in exact_facts : _finer_date(e, value)
              ELSE \E e \in frames : subsumes(last, value, e)
           THEN "SUBSUMES_EXISTING"
      ELSE IF IF dated THEN \E e \in exact_facts : _finer_date(value, e)
              ELSE \E e \in frames : subsumes(last, e, value)
           THEN "SUBSUMED_BY_EXISTING"
      ELSE IF Len(prop) = 1 /\ prop[1] \in unique_properties THEN "CONFLICT"
      ELSE NoMatch

for_item(item, prop, value) ==
  LET exact_facts == _existing_facts(item, prop)
      last == prop[Len(prop)]
      dated == _date_valued(last)
      frames == {e \in exact_facts : IsFrame(e)}
  IN  IF exact_facts = {} THEN "NEW"
      ELSE IF value \in exact_facts THEN "EXACT"
      ELSE IF dated /\ \E e \in exact_facts : DateValue(e) = DateValue(value) THEN "EXACT"
      ELSE IF IF dated THEN \E e \in exact_facts : _finer_date(e, value)
              ELSE \E e \in frames : subsumes(last, value, e)
           THEN "SUBSUMES_EXISTING"
      ELSE IF IF dated THEN \E e \in exact_facts : _finer_date(value, e)
              ELSE \E e \in frames : subsumes(last, e, value)
           THEN "SUBSUMED_BY_EXISTING"
      ELSE IF Len(prop) = 1 /\ prop[1] \in unique_properties THEN "CONFLICT"
      ELSE "ADDITIONAL"

\* The proposed value must be a frame (the assert of for_item); date
\* properties are proposed dates, the others entities.
Proposals(prop) == IF _date_valued(prop[Len(prop)]) THEN Dates ELSE Entities

=============================================================================
