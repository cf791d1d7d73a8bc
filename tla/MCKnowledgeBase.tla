--------------------------- MODULE MCKnowledgeBase --------------------------
(***************************************************************************)
(* A small knowledge base for the fact matcher: a located-in chain with a  *)
(* redirect, a part-of edge for 'educated at', a subclass cycle,           *)
(* properties of each kind the property index tells apart, and existing    *)
(* facts that put every rule of for_item in reach, for dates and entities, *)
(* on paths of one and of two properties.                                  *)
(***************************************************************************)
EXTENDS FactMatcher

CONSTANTS i1, i2, i3,
          Paris, Lyon, France, Europe, Gaul, Name,
          P26, P27, P569, P1448, P159, CIs

MC_Items == {i1, i2, i3}
MC_Entities == {Paris, Lyon, France, Europe, Gaul}
MC_Literals == {Name}
MC_Props == {P276, P69, P26, P27, P569, P1448, P159}

\* Aligned calendar values: a granule's year is a multiple of its size.
Years == {1000, 1900, 1990, 1995, 2000}
Size(p) == CASE p = MILLENNIUM -> 1000 [] p = CENTURY -> 100 [] p = DECADE -> 10 [] OTHER -> 1
MC_Dates ==
  {x \in {[year |-> y, month |-> IF p >= MONTH THEN m ELSE 0,
           day |-> IF p = DAY THEN d ELSE 0, precision |-> p] :
            y \in Years, m \in {1, 3}, d \in {1, 15}, p \in MILLENNIUM..DAY} :
     x.year % Size(x.precision) = 0}
Date(y, m, d, p) == [year |-> y, month |-> m, day |-> d, precision |-> p]

MC_PropTarget == [p \in MC_Props |-> CASE p = P569 -> "time"
                                       [] p = P1448 -> "other"
                                       [] OTHER -> "item"]
\* P159 (headquarters) is a sub-property of location, P276 itself is not.
MC_SubpropertyOf == [p \in MC_Props |-> IF p = P159 THEN {P276} ELSE {}]
MC_ConstraintTypes == {SingleValue, CIs}
\* P26 carries the constraint directly, P27 through an 'is' qualifier.
MC_Constraints == [p \in MC_Props |-> CASE p = P26 -> {SingleValue}
                                        [] p \in {P27, P569} -> {CIs}
                                        [] OTHER -> {}]
MC_ConstraintIs == [c \in MC_ConstraintTypes |-> IF c = CIs THEN SingleValue ELSE NoValue]

MC_Edges == [r \in {P131, P361, P279, P749} |->
              CASE r = P131 -> {<<Paris, France>>, <<Lyon, France>>, <<France, Europe>>}
                [] r = P361 -> {<<Lyon, France>>}
                [] r = P279 -> {<<Paris, Lyon>>, <<Lyon, Paris>>}
                [] OTHER -> {}]
\* Gaul is a redirect to France.
MC_Resolve == [f \in MC_Entities \cup MC_Props |-> IF f = Gaul THEN France ELSE f]

Fact(i, path, v) == [item |-> i, path |-> path, value |-> v]
MC_Facts ==
  { Fact(i1, <<P159>>, Paris), Fact(i1, <<P26>>, Lyon), Fact(i1, <<P27>>, France),
    Fact(i1, <<P569>>, Date(1990, 0, 0, YEAR)), Fact(i1, <<P1448>>, Name),
    Fact(i1, <<P69, P27>>, France), Fact(i1, <<P69>>, Lyon),
    Fact(i1, <<P69, P569>>, Date(1900, 0, 0, CENTURY)),
    Fact(i2, <<P159>>, Gaul), Fact(i2, <<P27>>, Gaul), Fact(i2, <<P276>>, Paris),
    Fact(i2, <<P569>>, Date(1990, 0, 0, DECADE)), Fact(i2, <<P569>>, Date(1900, 0, 0, CENTURY)),
    Fact(i2, <<P69>>, France), Fact(i2, <<P26>>, Paris),
    Fact(i3, <<P569>>, Date(1000, 0, 0, MILLENNIUM)), Fact(i3, <<P569>>, Date(1995, 3, 0, MONTH)),
    Fact(i3, <<P26>>, Europe) }

MC_Paths == {<<P276>>, <<P159>>, <<P69>>, <<P26>>, <<P27>>, <<P569>>, <<P1448>>, <<P69, P27>>,
             <<P69, P569>>}

=============================================================================
