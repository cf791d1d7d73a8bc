--------------------------- MODULE ExtractAndStore ---------------------------
(***************************************************************************)
(* The two programs of src/python/wikibot run one after the other: the     *)
(* date extractor writes its records, then the bot publishes them.  The    *)
(* extractor writes birth-death-dates.rec and the bot reads                *)
(* birth-dates.rec, so the file is handed over by the operator; Handover   *)
(* is that copy, reading each record as storeRecords does.  The remote     *)
(* store starts with the KB's dates, the snapshot the extractor filters   *)
(* on.                                                                     *)
(***************************************************************************)
EXTENDS Integers, Sequences, FiniteSets

CONSTANTS
  Items, Humans, HasBirth, HasDeath, DocStreams, P569, P570, url, method,
  Categories,      \* categories a claim's "inferred from" may cite
  None,            \* Python's None: an unmatched group; str(None) as a category
  KBDate,          \* the value of a date the KB already has
  Unparsable, NoSources, NoRecord,
  HISTORY_WINDOW, BATCH_SIZE, MAX_RUNS, MAX_FAILURES, MAX_EDITS

VARIABLES
  docs, n, out, ext_records, closed,
  bot_records, history, pc, pos, f, updated, fact_record, wd_claims,
  status, run, failures, added, cause, edits,
  handed_over      \* the bot has been started on the extractor's file

ext_vars == <<docs, n, out, ext_records, closed>>
bot_vars == <<bot_records, history, pc, pos, f, updated, fact_record, wd_claims,
              status, run, failures, added, cause, edits>>
vars == <<ext_vars, bot_vars, handed_over>>

Ext == INSTANCE ExtractDates WITH records <- ext_records

\* Wikidata holds the KB's dates, as claims that came with their sources.
KBHistory ==
  [i \in Items |->
     << {[prop |-> P569, target |-> KBDate, sources |-> "KB", origin |-> <<0, 0, 0>>] :
           x \in {i} \cap HasBirth}
        \cup {[prop |-> P570, target |-> KBDate, sources |-> "KB", origin |-> <<0, 0, 0>>] :
                x \in {i} \cap HasDeath} >>]

Bot == INSTANCE StoreFactsBot WITH
  records <- bot_records, Props <- {P569, P570}, TimeProps <- {P569, P570},
  ItemProps <- {}, Redirects <- {}, RecordFiles <- {<<>>}, InitHistory <- KBHistory

\* storeRecords' view of an extractor record: item and facts as written;
\* provenance holds url and method only, so provenance[category] is None.
AsBotRecord(r) ==
  [key |-> r.key, item |-> r.fact.item, facts |-> r.fact.facts, category |-> None]

Init == Ext!Init /\ Bot!Init /\ handed_over = FALSE

Extract == ~handed_over /\ Ext!Next /\ UNCHANGED <<bot_vars, handed_over>>

\* The extractor's file, closed, becomes the bot's record file.
Handover ==
  /\ closed /\ ~handed_over
  /\ handed_over' = TRUE
  /\ bot_records' = [r \in DOMAIN out |-> AsBotRecord(out[r])]
  /\ UNCHANGED <<ext_vars, history, pc, pos, f, updated, fact_record, wd_claims,
                 status, run, failures, added, cause, edits>>

Publish == handed_over /\ Bot!Next /\ UNCHANGED <<ext_vars, handed_over>>

Next == Extract \/ Handover \/ Publish

Spec == Init /\ [][Next]_vars

-----------------------------------------------------------------------------
TypeOK == Ext!TypeOK /\ Bot!TypeOK /\ handed_over \in BOOLEAN

\* Every record the extractor writes proposes a date its KB item lacks
\* (the filters of en_wp_dates.py lines 92-93 and 113 between them).
EveryRecordProposesNewFact == Ext!EveryRecordProposesNewFact

\* The dates the extractor writes are the dates in the document's text,
\* whatever format each is written in (date_from_match's group offsets).
FactDatesAreTextDates == Ext!FactDatesAreTextDates

\* spec.md 1: the bot submits edits with provenance.  Every claim it adds
\* from an extracted record cites, as "inferred from", a category.
StoredClaimsCiteCategory ==
  \A i \in Items : \A c \in Bot!Current(history, i) :
    c.origin # <<0, 0, 0>> /\ c.sources # NoSources => c.sources \in Categories

=============================================================================
