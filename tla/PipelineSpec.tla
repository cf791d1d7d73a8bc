---------------------------- MODULE PipelineSpec ----------------------------
(***************************************************************************)
(* What the batch pipeline promises (spec.md 4.6 and 5): the records of    *)
(* the input stream are written one per step, in the order read, each      *)
(* annotated as Annotated gives it from that record alone; the progress   *)
(* counter counts the records written; and the stream is processed to    *)
(* exhaustion.                                                             *)
(***************************************************************************)
EXTENDS Naturals, Sequences

CONSTANT Annotated(_)   \* the output record of one input record

VARIABLES input, written, counter

pvars == <<input, written, counter>>

Init == written = <<>> /\ counter = 0

\* The next record of the stream is written and counted.
WriteNext ==
  /\ Len(written) < Len(input)
  /\ counter' = counter + 1
  /\ written' = Append(written, Annotated(input[Len(written) + 1]))
  /\ UNCHANGED input

Spec == Init /\ [][WriteNext]_pvars /\ WF_pvars(WriteNext)

=============================================================================
