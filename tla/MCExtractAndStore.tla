------------------------- MODULE MCExtractAndStore -------------------------
(* Five KB items, one per combination of the extractor's filters: a1 not   *)
(* human; a2 a human with no dates; a3 with a birth date only; a4 with a    *)
(* death date only; a5 with both.  Input: every stream of two documents    *)
(* over these items and the five outcomes of matching the text, a matched  *)
(* date written "15 March 1900" (dmy) or "March 15, 1900" (mdy).            *)
EXTENDS ExtractAndStore

CONSTANTS a1, a2, a3, a4, a5

Written(d, fmts) == {[d EXCEPT !.fmt = x] : x \in fmts}

dBirth == [year |-> 1900, month |-> 3, day |-> 15, fmt |-> "dmy"]
dDeath == [year |-> 1950, month |-> 7, day |-> 1, fmt |-> "dmy"]

MC_Docs ==
  [id : {a1, a2, a3, a4, a5}, text : {"empty", "no match", "excluded"},
   birth : {dBirth}, death : {dDeath}]
  \cup [id : {a2, a3, a4, a5}, text : {"born"},
        birth : Written(dBirth, {"dmy", "mdy"}), death : {dDeath}]
  \cup [id : {a2, a3, a4, a5}, text : {"span"},
        birth : Written(dBirth, {"dmy", "mdy"}), death : Written(dDeath, {"dmy", "mdy"})]

MC_DocStreams == {<<d1, d2>> : d1, d2 \in MC_Docs}
====
