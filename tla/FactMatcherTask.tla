--------------------------- MODULE FactMatcherTask ---------------------------
(***************************************************************************)
(* The batch pipeline of fact_matcher.py: FactMatcher.Output (add,         *)
(* as_frame), for_items, for_parses with its per-record cache, and         *)
(* FactMatcherTask.run with its frame cache, output stream and progress    *)
(* counter.  Every loop iteration of the code is one step, in the code's   *)
(* order; the classifier is for_item of FactMatcher.                       *)
(*                                                                         *)
(* The input stream is chosen in Init from the records in Streams: each    *)
(* record has a key, the category's members and its parses, a parse       *)
(* being a sequence of spans [pids, qid].                                  *)
(***************************************************************************)
EXTENDS FactMatcher, TLC

CONSTANTS
  Streams,           \* possible input streams: sequences of records
  MAX_SOURCE_ITEMS   \* FactMatcher.MAX_SOURCE_ITEMS (10 in the code)

ASSUME MAX_SOURCE_ITEMS \in Nat \ {0}

TYPES_WITH_EXEMPLARS_ONLY == {"EXACT", "CONFLICT", "SUBSUMES_EXISTING"}

\* Mutant: the cache key leaves out the property path.
SpanKey_qid_only(span) == span.qid

SpanKey(span) == <<span.pids, span.qid>>

-----------------------------------------------------------------------------
(* FactMatcher.Output: counts and source items per match type. *)
EmptyOutput == [counts |-> [t \in MatchTypes |-> 0],
                source_items |-> [t \in MatchTypes |-> <<>>]]

\* Output.add: always count; keep the source item unless the type keeps
\* exemplars only and already has MAX_SOURCE_ITEMS of them.
add(output, match_type, source_item) ==
  [output EXCEPT
     !.counts[match_type] = @ + 1,
     !.source_items[match_type] =
        IF \/ match_type \notin TYPES_WITH_EXEMPLARS_ONLY
           \/ Len(@) < MAX_SOURCE_ITEMS
        THEN Append(@, source_item) ELSE @]

\* Output.as_frame: one bucket per match type present in counts.
as_frame(output) ==
  {[match_type |-> t, count |-> output.counts[t], source_items |-> output.source_items[t]] :
     t \in {u \in MatchTypes : output.counts[u] > 0}}

-----------------------------------------------------------------------------
VARIABLES
  input,        \* the record stream read by run
  rec,          \* index of the record being processed
  phase,        \* "read", "spans", "items", "annotate" or "done"
  pi, si, ii,   \* parse, span and member cursors
  acc,          \* the Output under construction in for_items
  cache,        \* for_parses: (pids, qid) -> Output, per record
  parse_stats,  \* for_parses: stats of the spans of the current parse
  matches,      \* for_parses: its result, one sequence per parse
  frame_cache,  \* run: (pids, qid) -> frame, per record
  annotations,  \* run: span["fact_matches"] of the current record
  written,      \* records written to the output stream
  counter,      \* fact-matcher/categories-processed
  aggregated    \* ghost: for_items calls per key in the current record

vars == <<input, rec, phase, pi, si, ii, acc, cache, parse_stats, matches,
          frame_cache, annotations, written, counter, aggregated>>

Record == input[rec]
Parses == Record.parses
Members == Record.members
CurrentSpan == Parses[pi][si]
NoFrame == {}

Init ==
  /\ input \in Streams
  /\ rec = 1
  /\ phase = "read"
  /\ pi = 1 /\ si = 1 /\ ii = 1
  /\ acc = EmptyOutput
  /\ cache = <<>> /\ parse_stats = <<>> /\ matches = <<>>
  /\ frame_cache = <<>> /\ annotations = <<>>
  /\ written = <<>> /\ counter = 0
  /\ aggregated = <<>>

\* Mutant: the cache outlives the record (an attribute, not a local).
ReadRecord_keeping_cache ==
  /\ phase = "read"
  /\ rec <= Len(input)
  /\ phase' = "spans"
  /\ pi' = 1 /\ si' = 1
  /\ parse_stats' = <<>> /\ matches' = <<>>
  /\ aggregated' = <<>>
  /\ UNCHANGED <<input, rec, ii, acc, cache, frame_cache, annotations, written, counter>>

\* run: read the next record; for_parses starts with an empty cache.
ReadRecord ==
  /\ phase = "read"
  /\ rec <= Len(input)
  /\ phase' = "spans"
  /\ pi' = 1 /\ si' = 1
  /\ cache' = <<>> /\ parse_stats' = <<>> /\ matches' = <<>>
  /\ aggregated' = <<>>
  /\ UNCHANGED <<input, rec, ii, acc, frame_cache, annotations, written, counter>>

\* run: the stream is exhausted; reader and writer are closed.
Close ==
  /\ phase = "read"
  /\ rec > Len(input)
  /\ phase' = "done"
  /\ UNCHANGED <<input, rec, pi, si, ii, acc, cache, parse_stats, matches,
                 frame_cache, annotations, written, counter, aggregated>>

\* for_parses: a span whose key is cached reuses the cached stats.
SpanCached ==
  /\ phase = "spans"
  /\ pi <= Len(Parses) /\ si <= Len(Parses[pi])
  /\ SpanKey(CurrentSpan) \in DOMAIN cache
  /\ parse_stats' = Append(parse_stats, cache[SpanKey(CurrentSpan)])
  /\ si' = si + 1
  /\ UNCHANGED <<input, rec, phase, pi, ii, acc, cache, matches, frame_cache,
                 annotations, written, counter, aggregated>>

\* for_parses: a new key calls for_items over the members.
SpanMiss ==
  /\ phase = "spans"
  /\ pi <= Len(Parses) /\ si <= Len(Parses[pi])
  /\ SpanKey(CurrentSpan) \notin DOMAIN cache
  /\ phase' = "items"
  /\ ii' = 1
  /\ acc' = EmptyOutput
  /\ aggregated' = LET k == SpanKey(CurrentSpan) IN
                     IF k \in DOMAIN aggregated THEN [aggregated EXCEPT ![k] = @ + 1]
                     ELSE aggregated @@ (k :> 1)
  /\ UNCHANGED <<input, rec, pi, si, cache, parse_stats, matches, frame_cache,
                 annotations, written, counter>>

\* for_items: classify one member and add it to the output.
AddItem ==
  /\ phase = "items"
  /\ ii <= Len(Members)
  /\ acc' = add(acc, for_item(Members[ii], CurrentSpan.pids, CurrentSpan.qid), Members[ii])
  /\ ii' = ii + 1
  /\ UNCHANGED <<input, rec, phase, pi, si, cache, parse_stats, matches,
                 frame_cache, annotations, written, counter, aggregated>>

\* Mutant: the result of for_items is used but never cached.
EndItems_not_caching ==
  /\ phase = "items"
  /\ ii > Len(Members)
  /\ parse_stats' = Append(parse_stats, acc)
  /\ si' = si + 1
  /\ phase' = "spans"
  /\ UNCHANGED <<input, rec, pi, ii, acc, cache, matches, frame_cache, annotations,
                 written, counter, aggregated>>

\* for_parses: for_items returned; cache its output and use it.
EndItems ==
  /\ phase = "items"
  /\ ii > Len(Members)
  /\ cache' = cache @@ (SpanKey(CurrentSpan) :> acc)
  /\ parse_stats' = Append(parse_stats, acc)
  /\ si' = si + 1
  /\ phase' = "spans"
  /\ UNCHANGED <<input, rec, pi, ii, acc, matches, frame_cache, annotations,
                 written, counter, aggregated>>

\* for_parses: the parse is done; its stats join the output.
EndParse ==
  /\ phase = "spans"
  /\ pi <= Len(Parses) /\ si > Len(Parses[pi])
  /\ matches' = Append(matches, parse_stats)
  /\ parse_stats' = <<>>
  /\ pi' = pi + 1 /\ si' = 1
  /\ UNCHANGED <<input, rec, phase, ii, acc, cache, frame_cache, annotations,
                 written, counter, aggregated>>

\* Mutant: the frame cache is created once, outside the record loop.
EndParses_keeping_frames ==
  /\ phase = "spans"
  /\ pi > Len(Parses)
  /\ phase' = "annotate"
  /\ pi' = 1 /\ si' = 1
  /\ annotations' = [p \in DOMAIN Parses |-> [s \in DOMAIN Parses[p] |-> NoFrame]]
  /\ UNCHANGED <<input, rec, ii, acc, cache, parse_stats, matches, written,
                 counter, aggregated, frame_cache>>

\* for_parses returned; run starts annotating with an empty frame cache.
EndParses ==
  /\ phase = "spans"
  /\ pi > Len(Parses)
  /\ phase' = "annotate"
  /\ pi' = 1 /\ si' = 1
  /\ frame_cache' = <<>>
  /\ annotations' = [p \in DOMAIN Parses |-> [s \in DOMAIN Parses[p] |-> NoFrame]]
  /\ UNCHANGED <<input, rec, ii, acc, cache, parse_stats, matches, written,
                 counter, aggregated>>

\* run: attach the frame of the span's stats, made once per key.
AnnotateSpan ==
  /\ phase = "annotate"
  /\ pi <= Len(Parses) /\ si <= Len(Parses[pi])
  /\ LET k == SpanKey(CurrentSpan)
         fc == IF k \in DOMAIN frame_cache THEN frame_cache
               ELSE frame_cache @@ (k :> as_frame(matches[pi][si]))
     IN  /\ frame_cache' = fc
         /\ annotations' = [annotations EXCEPT ![pi][si] = fc[k]]
  /\ si' = si + 1
  /\ UNCHANGED <<input, rec, phase, pi, ii, acc, cache, parse_stats, matches,
                 written, counter, aggregated>>

\* run: next pair of the zip over parses and their matches.
NextAnnotatedParse ==
  /\ phase = "annotate"
  /\ pi <= Len(Parses) /\ si > Len(Parses[pi])
  /\ pi' = pi + 1 /\ si' = 1
  /\ UNCHANGED <<input, rec, phase, ii, acc, cache, parse_stats, matches,
                 frame_cache, annotations, written, counter, aggregated>>

\* run: write the annotated record and count it.
WriteRecord ==
  /\ phase = "annotate"
  /\ pi > Len(Parses)
  /\ written' = Append(written, [key |-> Record.key, parses |-> annotations])
  /\ counter' = counter + 1
  /\ rec' = rec + 1
  /\ phase' = "read"
  /\ UNCHANGED <<input, pi, si, ii, acc, cache, parse_stats, matches,
                 frame_cache, annotations, aggregated>>

Next ==
  \/ ReadRecord \/ Close
  \/ SpanCached \/ SpanMiss \/ AddItem \/ EndItems \/ EndParse \/ EndParses
  \/ AnnotateSpan \/ NextAnnotatedParse \/ WriteRecord

Spec == Init /\ [][Next]_vars

\* run is a single sequential loop that goes on until the reader is
\* exhausted (spec.md 5: "the pipeline runs to stream exhaustion").
FairSpec == Spec /\ WF_vars(Next)

-----------------------------------------------------------------------------
Outputs == [counts : [MatchTypes -> Nat], source_items : [MatchTypes -> Seq(Items)]]

SpanKeys == Paths \X (Entities \cup Dates)

TypeOK ==
  /\ rec \in 1..(Len(input) + 1)
  /\ phase \in {"read", "spans", "items", "annotate", "done"}
  /\ {pi, si, ii} \subseteq Nat \ {0}
  /\ acc \in Outputs
  /\ DOMAIN cache \subseteq SpanKeys
  /\ \A k \in DOMAIN cache : cache[k] \in Outputs
  /\ parse_stats \in Seq(Outputs)
  /\ counter \in Nat

(***************************************************************************)
(* Reference histogram: the match types of the members for one key, the   *)
(* members of each type in order, of which a type that keeps exemplars     *)
(* only keeps the first MAX_SOURCE_ITEMS.                                   *)
(***************************************************************************)
Histogram(members, key) ==
  LET OfType(t) == SelectSeq(members, LAMBDA i : for_item(i, key[1], key[2]) = t)
      Kept(t) == IF t \in TYPES_WITH_EXEMPLARS_ONLY /\ Len(OfType(t)) > MAX_SOURCE_ITEMS
                 THEN SubSeq(OfType(t), 1, MAX_SOURCE_ITEMS) ELSE OfType(t)
  IN  [counts |-> [t \in MatchTypes |-> Len(OfType(t))],
       source_items |-> [t \in MatchTypes |-> Kept(t)]]

\* Property: every per-span result for_parses has produced so far for the
\* current record -- fresh or taken from the cache -- is the histogram the
\* span's own (pids, qid) gives over this record's members.
StatsAreFresh ==
  phase \in {"spans", "items", "annotate"} =>
    /\ \A p \in DOMAIN matches : \A s \in DOMAIN matches[p] :
         matches[p][s] = Histogram(Members, SpanKey(Parses[p][s]))
    /\ \A s \in DOMAIN parse_stats :
         parse_stats[s] = Histogram(Members, SpanKey(Parses[pi][s]))

\* The record run should write for an input record: each span of each
\* parse annotated with the frame of its key's histogram over the record's
\* own members.
Annotation(r) ==
  [key |-> r.key,
   parses |-> [p \in DOMAIN r.parses |-> [s \in DOMAIN r.parses[p] |->
                 as_frame(Histogram(r.members, SpanKey(r.parses[p][s])))]]]

\* Annotation of every record a stream may hold, as a constant table that
\* is evaluated once rather than in every state.
StreamRecords == UNION {{st[i] : i \in DOMAIN st} : st \in Streams}
AnnotationTable == [r \in StreamRecords |-> Annotation(r)]
AnnotatedRecord(r) == AnnotationTable[r]

Pipeline == INSTANCE PipelineSpec WITH Annotated <- AnnotatedRecord

\* Property: run implements PipelineSpec.  The output stream only grows, a
\* record at a time, in input order; each record carries, on every span,
\* the frame of its own histogram (whatever the statistics and frame
\* caches held); categories-processed counts the records written; and
\* every record of the stream is eventually written.
ImplementsPipelineSpec == Pipeline!Spec

\* Property: within one record, for_items runs at most once per key
\* (spans repeated across parses reuse the cached statistics).
AggregateOncePerKey == \A k \in DOMAIN aggregated : aggregated[k] <= 1


=============================================================================
