----------------------------- MODULE MatchSpec -----------------------------
(***************************************************************************)
(* What a call of the fact matcher promises (spec.md 4.3-4.5), stated     *)
(* over abstract relations: subsumption is reachability in the reflexive  *)
(* transitive closure of the closure relation, a finer date is one whose  *)
(* calendar interval lies inside the coarser one's, and the match type is  *)
(* the first rule of the precedence list that holds.                       *)
(***************************************************************************)
EXTENDS Integers, Sequences

CONSTANTS
  Items, Entities, Dates, Paths,
  Facts,          \* set of [item, path, value]
  Relations,
  Edges,          \* [Relations -> SUBSET (Entities \X Entities)], fine |-> coarse
  Resolve,        \* alias resolution on entities
  DateProps,      \* date-valued properties
  UniqueProps,    \* properties with a single-value constraint
  ClosureOf,      \* property -> its own closure relation
  DefaultClosure, \* relations tried for the other item-valued properties
  NoQuery

VARIABLE verdict

\* Reach(r, fine, coarse): coarse lies in every set of entities that holds
\* fine and is closed under r edges (the least such set is the closure).
Reach(r, fine, coarse) ==
  \A S \in SUBSET Entities :
    (fine \in S /\ \A e \in Edges[r] : e[1] \in S => e[2] \in S) => coarse \in S

ClosureRelations(p) == IF p \in DOMAIN ClosureOf THEN {ClosureOf[p]} ELSE DefaultClosure

\* 'coarse' subsumes 'fine' for property p.
Covers(p, coarse, fine) ==
  \E r \in ClosureRelations(p) : Reach(r, Resolve[fine], Resolve[coarse])

\* A date as a closed interval of day ordinals.
GranuleYears(d) == CASE d.precision = 1 -> 1000 [] d.precision = 2 -> 100
                     [] d.precision = 3 -> 10 [] OTHER -> 1
Ordinal(y, m, dd) == (y * 12 + m - 1) * 31 + dd - 1
FirstDay(d) == Ordinal(d.year, IF d.precision >= 5 THEN d.month ELSE 1,
                       IF d.precision = 6 THEN d.day ELSE 1)
LastDay(d) == Ordinal(d.year + GranuleYears(d) - 1,
                      IF d.precision >= 5 THEN d.month ELSE 12,
                      IF d.precision = 6 THEN d.day ELSE 31)

\* 'fine' is strictly more precise than 'coarse' and lies inside it.
Inside(fine, coarse) ==
  /\ fine.precision > coarse.precision
  /\ FirstDay(coarse) <= FirstDay(fine)
  /\ LastDay(fine) <= LastDay(coarse)

\* The match type: the first rule, in precedence order, whose condition holds.
Verdict(item, path, value) ==
  LET existing == {f.value : f \in {g \in Facts : g.item = item /\ g.path = path}}
      p == path[Len(path)]
      Subsumes(a, b) ==   \* a subsumes b
        IF p \in DateProps THEN b \in Dates /\ Inside(b, a)
        ELSE {a, b} \subseteq Entities /\ Covers(p, a, b)
      Rules == <<
        [type |-> "NEW", holds |-> existing = {}],
        [type |-> "EXACT", holds |-> value \in existing],
        [type |-> "SUBSUMES_EXISTING", holds |-> \E e \in existing : Subsumes(value, e)],
        [type |-> "SUBSUMED_BY_EXISTING", holds |-> \E e \in existing : Subsumes(e, value)],
        [type |-> "CONFLICT", holds |-> Len(path) = 1 /\ p \in UniqueProps],
        [type |-> "ADDITIONAL", holds |-> TRUE] >>
      first == CHOOSE i \in DOMAIN Rules :
                 Rules[i].holds /\ \A j \in 1..(i - 1) : ~Rules[j].holds
  IN  Rules[first].type

Init == verdict = NoQuery

\* A proposed value is a date for a date-valued property, an entity otherwise.
Proposable(path) == IF path[Len(path)] \in DateProps THEN Dates ELSE Entities

Answer ==
  \E item \in Items, path \in Paths : \E value \in Proposable(path) :
    verdict' = [item |-> item, prop |-> path, value |-> value,
                match |-> Verdict(item, path, value)]

Spec == Init /\ [][Answer]_verdict

=============================================================================
