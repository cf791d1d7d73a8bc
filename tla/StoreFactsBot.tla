--------------------------- MODULE StoreFactsBot ---------------------------
(***************************************************************************)
(* wikibot.py: StoreFactsBot.storeRecords publishing fact records to a     *)
(* remote item store, and the reruns of the script that an operator makes  *)
(* after it stops (at the batch limit, at the end of the file, or on an    *)
(* exception).                                                             *)
(*                                                                         *)
(* The remote store is each item's revision history; the newest revision  *)
(* is the item's current content, a set of claims [prop, target,          *)
(* sources].  Every remote call may raise, which ends the process; a       *)
(* write may raise after the server has committed it (the answer is       *)
(* lost).  The status file is buffered, so a run that dies keeps some      *)
(* prefix of the status records it wrote.                                  *)
(***************************************************************************)
EXTENDS Integers, Sequences, SequencesExt, FiniteSets

CONSTANTS
  Items,             \* Wikidata item ids
  Props,             \* property ids of the facts
  TimeProps,         \* properties whose claim.type is "time"
  ItemProps,         \* properties whose claim.type is "wikibase-item"
  Categories,        \* provenance categories (targets of P3452)
  RecordFiles,       \* possible record files: sequences of records
  Redirects,         \* items whose page is a redirect
  InitHistory,       \* item -> its revisions before the first run
  Unparsable,        \* a revision whose text json.loads cannot read
  NoSources,         \* the sources of a claim added without addSources
  NoRecord,          \* fact_record before its first assignment
  HISTORY_WINDOW,    \* revisions(total=150) in everHadProp
  BATCH_SIZE,        \* storeRecords(..., batch_size=2) in run
  MAX_RUNS,          \* bound: times the script is run
  MAX_FAILURES,      \* bound: remote calls that raise, over all runs
  MAX_EDITS          \* bound: claims other users add during the runs

ASSUME TimeProps \cup ItemProps \subseteq Props /\ TimeProps \cap ItemProps = {}
ASSUME {HISTORY_WINDOW, BATCH_SIZE, MAX_RUNS} \subseteq Nat \ {0}

\* sling date precisions and pywikibot.WbTime.PRECISION codes.
MILLENNIUM == 1
DAY == 6
precision_map == [p \in MILLENNIUM..DAY |-> p + 5]

\* The target of a time claim: WbTime(year=date.year, precision=...); the
\* month and day of the record's date are not passed and default to 1.
Target(prop, val) ==
  IF prop \in TimeProps
  THEN [year |-> val.year, month |-> 1, day |-> 1, precision |-> precision_map[val.precision]]
  ELSE val

\* getSources(category): [P3452 inferred-from category, P813 today].
getSources(category) == category

PropsOf(revision) == {c.prop : c \in revision}

Current(history, item) == Last(history[item])

\* Mutant: revisions fetched without content=True; every revision.text
\* fails json.loads and everHadProp never finds the property.
everHadProp_without_content(history, item, prop) == FALSE

\* everHadProp: the newest HISTORY_WINDOW revisions; one that cannot be
\* parsed is passed over.
everHadProp(history, item, prop) ==
  LET h == history[item]
      window == SubSeq(h, IF Len(h) > HISTORY_WINDOW THEN Len(h) - HISTORY_WINDOW + 1 ELSE 1, Len(h))
  IN  \E j \in DOMAIN window : window[j] # Unparsable /\ prop \in PropsOf(window[j])

-----------------------------------------------------------------------------
VARIABLES
  records,      \* the record file (fixed per behaviour)
  history,      \* remote store: item -> sequence of revisions
  pc,           \* "next", "fact", "claim", "sources", "done" or "crashed"
  pos,          \* index of the current record
  f,            \* index of the current fact of the record
  updated,      \* storeRecords' count of records that reached the facts loop
  fact_record,  \* index of the last record parsed, or NoRecord
  wd_claims,    \* properties of wd_item.get() for the current record
  status,       \* status files, one per run: sequences of status records
  run,          \* number of the current run
  failures,     \* remote calls that raised so far
  added,        \* ghost: claims the bot has added, with run and record
  cause,        \* ghost: why the last run ended ("" while it runs)
  edits         \* edits made by other users so far

vars == <<records, history, pc, pos, f, updated, fact_record, wd_claims,
          status, run, failures, added, cause, edits>>

Rec == records[pos]
Fact == Rec.facts[f]

\* Mutant: the batch test written "if updated > batch_size".
BatchOpen_off_by_one == updated <= BATCH_SIZE

\* storeRecords: the loop's batch test, made before each record.
BatchOpen == updated < BATCH_SIZE

\* A status record [item, facts, status] written under key item; rec and
\* fact say which record and fact it was written for.
StatusRecord(item, facts, st, r, j) ==
  [key |-> Rec.key, item |-> item, facts |-> facts, status |-> st, rec |-> r, fact |-> j]

Write(s) == status' = [status EXCEPT ![run] = Append(@, s)]

Init ==
  /\ records \in RecordFiles
  /\ history = InitHistory
  /\ pc = "next" /\ pos = 1 /\ f = 1 /\ updated = 0
  /\ fact_record = NoRecord /\ wd_claims = {}
  /\ status = <<<<>>>> /\ run = 1 /\ failures = 0
  /\ added = {} /\ cause = "" /\ edits = 0

\* The process dies: the status file is left unclosed, keeping a prefix of
\* what this run wrote.
Crash(why) ==
  /\ pc' = "crashed"
  /\ cause' = why
  /\ \E kept \in Prefixes(status[run]) : status' = [status EXCEPT ![run] = kept]

\* run returns: status and record files are closed.
EndOfRecords ==
  /\ pc = "next" /\ pos > Len(records)
  /\ pc' = "done" /\ cause' = "end of records"
  /\ UNCHANGED <<records, history, pos, f, updated, fact_record, wd_claims,
                 status, run, failures, added>>

HitBatchSize ==
  /\ pc = "next" /\ pos <= Len(records) /\ ~BatchOpen
  /\ pc' = "done" /\ cause' = "batch size"
  /\ UNCHANGED <<records, history, pos, f, updated, fact_record, wd_claims,
                 status, run, failures, added>>

\* A redirect page is skipped; its status record is built from fact_record,
\* which still holds the record parsed for an earlier item.
SkipRedirect ==
  /\ pc = "next" /\ pos <= Len(records) /\ BatchOpen
  /\ Rec.key \in Redirects /\ fact_record # NoRecord
  /\ Write(StatusRecord(records[fact_record].item, records[fact_record].facts,
                        "is a redirect page", pos, 0))
  /\ pos' = pos + 1
  /\ UNCHANGED <<records, history, pc, f, updated, fact_record, wd_claims, run,
                 failures, added, cause>>

\* The same branch before any record was parsed: fact_record is unbound and
\* the NameError ends the process.
RedirectNameError ==
  /\ pc = "next" /\ pos <= Len(records) /\ BatchOpen
  /\ Rec.key \in Redirects /\ fact_record = NoRecord
  /\ Crash("NameError")
  /\ UNCHANGED <<records, history, pos, f, updated, fact_record, wd_claims, run,
                 failures, added>>

\* wd_item.get() and rs.parse(record); the key does not name the record's item.
SkipInconsistent ==
  /\ pc = "next" /\ pos <= Len(records) /\ BatchOpen
  /\ Rec.key \notin Redirects /\ Rec.item # Rec.key
  /\ wd_claims' = PropsOf(Current(history, Rec.key))
  /\ fact_record' = pos
  /\ Write(StatusRecord(Rec.item, Rec.facts, "inconsistent input", pos, 0))
  /\ pos' = pos + 1
  /\ UNCHANGED <<records, history, pc, f, updated, run, failures, added, cause>>

\* wd_item.get() and rs.parse(record); the facts loop starts.
BeginFacts ==
  /\ pc = "next" /\ pos <= Len(records) /\ BatchOpen
  /\ Rec.key \notin Redirects /\ Rec.item = Rec.key
  /\ wd_claims' = PropsOf(Current(history, Rec.key))
  /\ fact_record' = pos
  /\ pc' = "fact" /\ f' = 1
  /\ UNCHANGED <<records, history, pos, updated, status, run, failures, added, cause>>

\* The facts loop is done: the record counts towards the batch.
EndFacts ==
  /\ pc = "fact" /\ f > Len(Rec.facts)
  /\ updated' = updated + 1 /\ pos' = pos + 1 /\ pc' = "next"
  /\ UNCHANGED <<records, history, f, fact_record, wd_claims, status, run,
                 failures, added, cause>>

\* Mutant: a skipped fact is passed over without its status record.
SkipFact_unlogged(why) ==
  /\ f' = f + 1
  /\ UNCHANGED <<records, history, pc, pos, updated, fact_record, wd_claims, run,
                 failures, added, cause, status>>

SkipFact(why) ==
  /\ Write(StatusRecord(Rec.item, <<Fact>>, why, pos, f))
  /\ f' = f + 1
  /\ UNCHANGED <<records, history, pc, pos, updated, fact_record, wd_claims, run,
                 failures, added, cause>>

HasProp ==
  /\ pc = "fact" /\ f <= Len(Rec.facts)
  /\ Fact.prop \in wd_claims
  /\ SkipFact("already has property")

HadProp ==
  /\ pc = "fact" /\ f <= Len(Rec.facts)
  /\ Fact.prop \notin wd_claims
  /\ everHadProp(history, Rec.key, Fact.prop)
  /\ SkipFact("already had property")

\* everHadProp found neither the property nor a revision holding it; the
\* claim is built next.  The remote store may change before addClaim.
NeverHadProp ==
  /\ pc = "fact" /\ f <= Len(Rec.facts)
  /\ Fact.prop \notin wd_claims
  /\ ~everHadProp(history, Rec.key, Fact.prop)
  /\ pc' = "claim"
  /\ UNCHANGED <<records, history, pos, f, updated, fact_record, wd_claims,
                 status, run, failures, added, cause>>

\* Neither a time nor an item claim: an error is printed, nothing written.
UnknownType ==
  /\ pc = "claim"
  /\ Fact.prop \notin TimeProps \cup ItemProps
  /\ pc' = "fact" /\ f' = f + 1
  /\ UNCHANGED <<records, history, pos, updated, fact_record, wd_claims,
                 status, run, failures, added, cause>>

\* The claim type is known: the target is set and addClaim is called.
Storable == pc = "claim" /\ Fact.prop \in TimeProps \cup ItemProps

\* The claim addClaim creates; origin <<run, record, fact>> tells claims of
\* equal content apart (<<0, 0, 0>>: a claim older than the first run).
NewClaim == [prop |-> Fact.prop, target |-> Target(Fact.prop, Fact.val),
             sources |-> NoSources, origin |-> <<run, pos, f>>]

\* wd_item.addClaim commits a revision holding the claim.
Commit(claim) ==
  /\ history' = [history EXCEPT ![Rec.key] = Append(@, Current(history, Rec.key) \cup {claim})]
  /\ added' = added \cup {[run |-> run, rec |-> pos, item |-> Rec.key, prop |-> Fact.prop,
                           val |-> Fact.val, target |-> claim.target]}

\* claim.addSources commits a revision with the claim's references.
CommitSources ==
  LET old == CHOOSE c \in Current(history, Rec.key) : c.origin = <<run, pos, f>>
  IN  history' = [history EXCEPT ![Rec.key] =
                    Append(@, (Current(history, Rec.key) \ {old})
                              \cup {[old EXCEPT !.sources = getSources(Rec.category)]})]

\* Mutant: the "stored" status record is written right after addClaim.
AddClaim_reporting_early ==
  /\ Storable
  /\ Commit(NewClaim)
  /\ Write(StatusRecord(Rec.item, <<Fact>>, "stored", pos, f))
  /\ pc' = "sources"
  /\ UNCHANGED <<records, pos, f, updated, fact_record, wd_claims, run,
                 failures, cause>>

AddClaim ==
  /\ Storable
  /\ Commit(NewClaim)
  /\ pc' = "sources"
  /\ UNCHANGED <<records, pos, f, updated, fact_record, wd_claims, status, run,
                 failures, cause>>

\* addSources, then a "stored" status record.
AddSources ==
  /\ pc = "sources"
  /\ CommitSources
  /\ Write(StatusRecord(Rec.item, <<Fact>>, "stored", pos, f))
  /\ pc' = "fact" /\ f' = f + 1
  /\ UNCHANGED <<records, pos, updated, fact_record, wd_claims, run, failures,
                 added, cause>>

\* A remote call raises (or the process is killed); the exception leaves
\* storeRecords.  A write may have been committed before the answer was lost.
RemoteCallFails ==
  /\ failures < MAX_FAILURES
  /\ failures' = failures + 1
  /\ \/ /\ \/ pc = "next" /\ pos <= Len(records) /\ BatchOpen
           \/ pc = "fact" /\ f <= Len(Rec.facts) /\ Fact.prop \notin wd_claims
           \/ Storable
        /\ Crash("remote call failed")
        /\ UNCHANGED <<history, added>>
     \/ /\ Storable
        /\ Commit(NewClaim)
        /\ Crash("addClaim answer lost")
     \/ /\ pc = "sources"
        /\ Crash("addSources failed")
        /\ UNCHANGED <<history, added>>
     \/ /\ pc = "sources"
        /\ CommitSources
        /\ Crash("addSources answer lost")
        /\ UNCHANGED added
  /\ UNCHANGED <<records, pos, f, updated, fact_record, wd_claims, run>>

\* The operator runs the script again: a new status file, the record file
\* read from its first record.
Rerun ==
  /\ pc \in {"done", "crashed"} /\ run < MAX_RUNS
  /\ run' = run + 1
  /\ status' = Append(status, <<>>)
  /\ pc' = "next" /\ pos' = 1 /\ f' = 1 /\ updated' = 0
  /\ fact_record' = NoRecord /\ wd_claims' = {} /\ cause' = ""
  /\ UNCHANGED <<records, history, failures, added>>

\* Another user adds to an item a claim the record file also proposes,
\* between any two remote calls of the bot.  The user adds only a property
\* the item does not hold, so a second claim of a property can only come
\* from the bot acting on what it read before the edit.
OtherUserEdit ==
  /\ edits < MAX_EDITS
  /\ \E r \in DOMAIN records : \E j \in DOMAIN records[r].facts :
       LET i == records[r].key
           fct == records[r].facts[j]
       IN  /\ fct.prop \notin PropsOf(Current(history, i))
           /\ history' = [history EXCEPT ![i] = Append(@, Current(history, i) \cup
                         {[prop |-> fct.prop, target |-> Target(fct.prop, fct.val),
                           sources |-> "other user", origin |-> <<0, 0, edits + 1>>]})]
  /\ edits' = edits + 1
  /\ UNCHANGED <<records, pc, pos, f, updated, fact_record, wd_claims, status, run,
                 failures, added, cause>>

storeRecords ==
  \/ EndOfRecords \/ HitBatchSize \/ SkipRedirect \/ RedirectNameError
  \/ SkipInconsistent \/ BeginFacts \/ EndFacts \/ HasProp \/ HadProp
  \/ NeverHadProp \/ UnknownType \/ AddClaim \/ AddSources

\* The bot's own steps leave the other users' edit count alone.
Script == (storeRecords \/ RemoteCallFails \/ Rerun) /\ UNCHANGED edits

Next == Script \/ OtherUserEdit

Spec == Init /\ [][Next]_vars

\* The bot as the only editor of the items it touches.
AloneSpec == Init /\ [][Script]_vars

\* The script itself never stops between two steps; failures and reruns
\* are not promised.
FairSpec == Spec /\ WF_vars(storeRecords /\ UNCHANGED edits)

-----------------------------------------------------------------------------
MONTH == 5

TypeOK ==
  /\ pc \in {"next", "fact", "claim", "sources", "done", "crashed"}
  /\ pos \in 1..(Len(records) + 1)
  /\ updated \in 0..BATCH_SIZE
  /\ fact_record \in DOMAIN records \cup {NoRecord}
  /\ wd_claims \subseteq Props
  /\ run \in 1..MAX_RUNS /\ Len(status) = run
  /\ failures \in 0..MAX_FAILURES /\ edits \in 0..MAX_EDITS
  /\ \A i \in Items : \A j \in DOMAIN history[i] :
       history[i][j] = Unparsable \/ PropsOf(history[i][j]) \subseteq Props

\* Across the facts of one record (wd_claims is read once, before them) and
\* across reruns after a crash or a finished batch, the bot never gives an
\* item a second claim of a property: the live-claims test and everHadProp
\* between them see every claim it added.
NoDuplicateClaim ==
  \A i \in Items : \A p \in Props :
    Cardinality({c \in Current(history, i) : c.prop = p}) <= 1

\* A "stored" status record, in any run's status file that survived, is
\* true of the remote item: it holds the claim with its sources.
StoredStatusIsTrue ==
  \A r \in DOMAIN status : \A s \in ToSet(status[r]) :
    s.status = "stored" =>
      \E c \in Current(history, s.key) :
        /\ c.prop = s.facts[1].prop
        /\ c.target = Target(s.facts[1].prop, s.facts[1].val)
        /\ c.sources # NoSources

\* The record k entered the facts loop (neither a redirect nor inconsistent).
EnteredFacts(k) == records[k].key \notin Redirects /\ records[k].item = records[k].key

Reported(k, j) == \E s \in ToSet(status[run]) : s.rec = k /\ s.fact = j

\* When storeRecords returns (batch limit or end of file) its closed status
\* file accounts for the run: a line for every redirect or inconsistent
\* record it passed, and one for every fact of those records whose claim
\* type is time or item, whichever branch it took.  Only a fact of another
\* claim type (line 140) can be missing from it.
StatusAccountsForRun ==
  pc = "done" =>
    \A k \in 1..(pos - 1) :
      IF EnteredFacts(k)
      THEN \A j \in DOMAIN records[k].facts :
             ~Reported(k, j) => records[k].facts[j].prop \notin TimeProps \cup ItemProps
      ELSE Reported(k, 0)

\* In each run, claims are added from at most batch_size records.
AddsWithinBatch ==
  \A r \in 1..run : Cardinality({a.rec : a \in {b \in added : b.run = r}}) <= BATCH_SIZE

\* spec.md 1: the bot "submits edits with provenance".  Every claim the bot
\* added carries its sources, except the one whose addSources is in flight.
ClaimsCarryProvenance ==
  \A i \in Items : \A c \in Current(history, i) :
    c.sources = NoSources => pc = "sources" /\ c.origin = <<run, pos, f>>

\* Each status record names, as its item and facts, the item and facts of
\* the record it was written for (the redirect branch writes fact_record's).
StatusNamesRecordItem ==
  \A r \in DOMAIN status : \A s \in ToSet(status[r]) :
    s.item = records[s.rec].item

\* The stored time claim denotes the record's date at its precision:
\* month and day are kept where the precision has them.
StoredDateMatchesRecord ==
  \A a \in added : a.prop \in TimeProps =>
    /\ a.target.year = a.val.year
    /\ a.target.precision = precision_map[a.val.precision]
    /\ a.val.precision >= MONTH => a.target.month = a.val.month
    /\ a.val.precision = DAY => a.target.day = a.val.day

\* With no remote call failing, storeRecords runs to its end: the end of
\* the record file or the batch limit.
Termination == <>(pc = "done")

=============================================================================
