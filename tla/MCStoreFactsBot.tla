-------------------------- MODULE MCStoreFactsBot --------------------------
(***************************************************************************)
(* Three items and two record files for StoreFactsBot.                     *)
(*   q1 once had a P27 claim, removed two revisions ago, one of which       *)
(*      cannot be parsed: outside a window of 2 revisions.                  *)
(*   q3 is a redirect page.                                                 *)
(* File A: a record of q1 with two P27 facts and a DAY-precision P569, a    *)
(* redirect, a record whose key (q2) does not name its item (q1), a record  *)
(* of q2 with a fact of unknown claim type, and one more record of q2 past  *)
(* the batch limit.  File B starts with the redirect.  File C ends before  *)
(* the batch limit, its redirect following an inconsistent record.         *)
(***************************************************************************)
EXTENDS StoreFactsBot

CONSTANTS q1, q2, q3, P27, P569, P1448, Fr, De, Name, c1

dDay == [year |-> 1990, month |-> 3, day |-> 15, precision |-> 6]
dYear == [year |-> 1950, month |-> 1, day |-> 1, precision |-> 4]

R1 == [key |-> q1, item |-> q1, category |-> c1,
       facts |-> <<[prop |-> P27, val |-> Fr], [prop |-> P27, val |-> De],
                   [prop |-> P569, val |-> dDay]>>]
R2 == [key |-> q3, item |-> q3, category |-> c1, facts |-> <<[prop |-> P569, val |-> dYear]>>]
R3 == [key |-> q2, item |-> q1, category |-> c1, facts |-> <<[prop |-> P27, val |-> Fr]>>]
R4 == [key |-> q2, item |-> q2, category |-> c1,
       facts |-> <<[prop |-> P1448, val |-> Name], [prop |-> P569, val |-> dYear]>>]
R5 == [key |-> q2, item |-> q2, category |-> c1, facts |-> <<[prop |-> P27, val |-> De]>>]

MC_RecordFiles == {<<R1, R2, R3, R4, R5>>, <<R2, R4>>, <<R3, R2, R4>>}

MC_InitHistory ==
  [i \in {q1, q2, q3} |->
     IF i = q1
     THEN << {[prop |-> P27, target |-> Fr, sources |-> c1, origin |-> <<0, 0, 0>>]},
             Unparsable, {} >>
     ELSE << {} >>]
====
