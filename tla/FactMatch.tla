----------------------------- MODULE FactMatch -----------------------------
(***************************************************************************)
(* Calls of FactMatcher.for_item (fact_matcher.py lines 203-260).  The     *)
(* state is the last call and the match type it returned; ForItem is one  *)
(* call with any arguments its callers (for_items, the debugging shell)   *)
(* can pass.  The call is checked against the abstract MatchSpec.          *)
(***************************************************************************)
EXTENDS FactMatcher

VARIABLES query, match

vars == <<query, match>>

Init ==
  /\ query = NoQuery
  /\ match = NoMatch

ForItem(item, prop, value) ==
  /\ query' = [item |-> item, prop |-> prop, value |-> value]
  /\ match' = for_item(item, prop, value)

Next == \E item \in Items, prop \in Paths : \E value \in Proposals(prop) :
          ForItem(item, prop, value)

Spec == Init /\ [][Next]_vars

-----------------------------------------------------------------------------
TypeOK ==
  \/ query = NoQuery /\ match = NoMatch
  \/ /\ query \in [item : Items, prop : Paths, value : Entities \cup Dates]
     /\ match \in MatchTypes

(***************************************************************************)
(* Refinement: each answer of for_item is the one spec.md's precedence    *)
(* rules give when subsumption is closure reachability and a finer date   *)
(* is an interval inside the coarser one.                                  *)
(***************************************************************************)
Abstract == INSTANCE MatchSpec WITH
  DateProps <- date_properties,
  UniqueProps <- unique_properties,
  ClosureOf <- closure_properties,
  DefaultClosure <- {P279, P749},
  verdict <- IF query = NoQuery THEN NoQuery
             ELSE [item |-> query.item, prop |-> query.prop,
                   value |-> query.value, match |-> match]

\* Property: the classifier of for_item, with its visited-set closure search,
\* its year windows and its rule order, implements MatchSpec.
ImplementsMatchSpec == Abstract!Spec

-----------------------------------------------------------------------------
(***************************************************************************)
(* Statements of spec.md section 8 that the code does not satisfy; each is *)
(* checked by a run that expects TLC to find it violated.                  *)
(***************************************************************************)
QueriedFacts == _existing_facts(query.item, query.prop)
QueriedProp == query.prop[Len(query.prop)]

\* spec.md 8: "existing (P569 = 1990) [YEAR], proposed (P569, March 1990)
\* [MONTH] ... correct expected result is SUBSUMES_EXISTING (proposed is
\* finer)".  Property: a proposed date strictly finer than, and inside, an
\* existing date (with no exact match) is classified SUBSUMES_EXISTING.
ProposedFinerDateSubsumes ==
  ( /\ query # NoQuery
    /\ _date_valued(QueriedProp)
    /\ query.value \notin QueriedFacts
    /\ \E e \in QueriedFacts : Abstract!Inside(query.value, e) )
  => match = "SUBSUMES_EXISTING"

\* spec.md 8: "SUBSUMES_EXISTING and SUBSUMED_BY_EXISTING are mutually
\* exclusive for a single existing value".  Property: for no existing frame
\* of the queried fact that is a different entity from the proposed value
\* (after kb.resolve; equal values are EXACT, and subsumes is reflexive by
\* line 185) does subsumes hold in both directions.
SubsumptionExclusive ==
  query # NoQuery /\ ~_date_valued(QueriedProp) =>
    \A e \in QueriedFacts \cap Entities :
      Resolve[e] # Resolve[query.value] =>
      ~(subsumes(QueriedProp, query.value, e) /\ subsumes(QueriedProp, e, query.value))

=============================================================================
