------------------------- MODULE MCFactMatcherTask -------------------------
(***************************************************************************)
(* FactMatcherTask over the knowledge base of MCKnowledgeBase.  Streams of *)
(* two records whose parses repeat a span, share a qid under two paths and *)
(* share keys across records with different members; the exemplar cap is  *)
(* 1 so that two members of one capped type overflow it.                   *)
(***************************************************************************)
EXTENDS FactMatcherTask, MCKnowledgeBase

CONSTANTS k1, k2

Span(path, v) == [pids |-> path, qid |-> v]
sA == Span(<<P27>>, France)
sB == Span(<<P159>>, France)
sC == Span(<<P26>>, Paris)

ParseChoices == {<<sA, sB>>, <<sC, sA>>, <<sB>>}
MemberChoices == {<<i1, i2>>, <<i2, i3, i1>>}
RecordsFor(k) == {[key |-> k, members |-> m, parses |-> ps] :
                    m \in MemberChoices, ps \in ParseChoices \X ParseChoices}

MC_Streams == {<<r1, r2>> : r1 \in RecordsFor(k1), r2 \in RecordsFor(k2)}

=============================================================================
