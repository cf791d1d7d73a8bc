# TLA+ models of the fact matcher and the Wikidata fact bot

This directory holds TLA+ models of the Python sources under `src/`. They are
checked with TLC. Every definition is translated from the source lines that
`PROJECT.json` ("map") gives for it. The exception is two collaborators whose
code is not under `src/`: the fact extractor's `facts_for`/`in_closure` and the
`sling.Date` value. Those are modelled from `spec.md` and marked
`spec_modelled`.

## 1. Inventory

### Components

| Component | Source | State it keeps | Operations |
|---|---|---|---|
| PropertyIndex | `fact_matcher.py` 99-140 (`FactMatcher.__init__`) | sets `date_properties`, `location_properties`, `unique_properties`; map `closure_properties`. Built once, then frozen. | the constructor loop over `/w/entity` roles |
| Closure checker | `sling.FactExtractor.in_closure` (C++, not under `src/`) | none (pure graph query) | `in_closure(rel, coarse, fine)` |
| Subsumption | `fact_matcher.py` 182-193 | none | `subsumes(prop, coarse, fine)` |
| Date comparator | `fact_matcher.py` 163-178, `sling.Date.value()` | none | `_finer_date`, scalar equality |
| Match classifier | `fact_matcher.py` 148-158, 203-260 | none (reads the frozen KB) | `_existing_facts`, `for_item` |
| Aggregator | `fact_matcher.py` 63-96, 264-271 | `Output.counts`, `Output.source_items` | `Output.add`, `Output.as_frame`, `for_items` |
| Batch pipeline | `fact_matcher.py` 283-333 | per-record `cache` and `frame_cache`; output stream; progress counter | `for_parses`, `FactMatcherTask.run` |
| Debugging shell | `fact_matcher.py` 339-383 | none | a read loop over `for_parses`/`for_item` |
| Fact bot (publishing) | `wikibot.py` | remote Wikidata item claims and revision history; status record file; `updated` batch counter | `StoreFactsBot.__init__`, `getSources`, `everHadProp`, `storeRecords`, `run` |
| Date extraction | `en_wp_dates.py` | output record file; `records` counter | `ExtractWikipediaDates.run`, `date_from_match` |
| Flow inspection CLI | `viewmodel.py` | none | prints and strips blobs of a flow file |

### How the parts interact

- **Fact matching.** `FactMatcherTask.run` reads category records one at a
  time. It calls `for_parses` on each record. `for_parses` walks every span of
  every parse. For each new key `(span.pids, span.qid)` it calls `for_items`
  over the category's members and caches the result. `for_items` calls
  `for_item` once per member and adds the result to an `Output` histogram.
  `for_item` reads the frozen KB through the extractor and the property index.
  After `for_parses` returns, `run` serialises each span's histogram with
  `as_frame`, reusing one frame per key. It writes the annotated record and
  increments the `categories-processed` counter.
- **Publishing.** `en_wp_dates.py` writes fact records (item, facts,
  provenance). `wikibot.py` reads such records. For each fact it checks the
  live item's claims and up to 150 revisions of its history, then calls
  `addClaim` and `addSources` on the remote item. It writes a status record
  for every fact, stored or skipped. The two programs do not share a file
  name: the extractor writes `birth-death-dates.rec`, while the bot reads
  `birth-dates.rec` or `test-birth-dates.rec`.

### What is hard

All the code is single-threaded. Nothing runs concurrently, so the hard parts
are these:

- **The matcher.** Precedence among six overlapping rules. Year-window
  arithmetic at granule boundaries. Alias resolution and cyclic closure
  relations. A memo cache that must give exactly what recomputation would,
  across parses, spans and records. An exemplar cap with an off-by-one edge.
- **The bot.** It works against a remote, mutable store. There is a read of
  `fact_record` before it is assigned on the redirect path. `wd_claims` is
  read once per record; pywikibot updates that dict on `addClaim`, while the
  model keeps the snapshot, which can only make the bot's checks weaker. The history window is
  bounded at 150 revisions. `addClaim` and `addSources` are two remote steps,
  and either can fail. A rerun after a crash restarts from the top of the
  record file. Other users edit the same items, and nothing stops them doing
  so between the bot's checks and its `addClaim`.
- **The extractor.** Group numbers and offsets pick each date's day, month
  and year out of an 18-group match, in two written formats.

### Properties that make each part correct

- **Classifier:** the answer is the first rule of spec.md 4.5 that holds.
  Subsumption is closure reachability after alias resolution. A finer date is
  one whose calendar interval lies inside the coarser one's.
- **Aggregator and pipeline:**
  - Every histogram attached to a span equals the histogram that the span's
    own key would give over the record's members. This covers cache reuse,
    the per-record cache scope and the frame cache.
  - Each key is aggregated at most once per record.
  - Capped exemplar lists never exceed the cap. Uncapped lists are complete.
- **Bot:**
  - Every status record names the item it was written for.
  - A stored date has the record's precision and value.
  - No claim is added twice, across reruns as well.
  - No claim is stored without its sources.
  - At most `batch_size` records reach `addClaim`.
  - A run that returns has left a status line for every record it passed and
    every fact of a known claim type.

## 2. Plan

| Order | Module | Composes | Role |
|---|---|---|---|
| 1 | `FactMatcher` | - | KB constants, property index, `facts_for`/`in_closure` (spec-modelled), `subsumes`, `_finer_date`, `for_item` as operators |
| 2 | `MatchSpec` | - | abstract classifier: precedence over reference reachability and date intervals |
| 3 | `FactMatch` | `FactMatcher`, instantiates `MatchSpec` | calls of `for_item`; refinement `ImplementsMatchSpec` |
| 4a | `PipelineSpec` | - | abstract pipeline: one annotated record written and counted per step, in input order, to exhaustion |
| 4 | `FactMatcherTask` | `FactMatcher`, instantiates `PipelineSpec` | `Output.add`, `as_frame`, `for_items`, `for_parses`, `FactMatcherTask.run` as a step machine over a stream of records |
| 5 | `StoreFactsBot` | - | `storeRecords` against a remote item store with revision history, failures of remote calls, crash and rerun |
| 6 | `ExtractDates` | - | the filtering and record emission of `en_wp_dates.run` |
| 7 | `ExtractAndStore` | instantiates `ExtractDates` and `StoreFactsBot` | the extractor's output file published by the bot |
| - | `MCKnowledgeBase`, `MC*` | | model values and data for TLC |

All seven modules are built, and the bot now shares Wikidata with other
editors. Later work:

- nothing more of the classifier or pipeline. The dated two-step path is now
  in the KB. The exemplar cap stays at 1 (see Bounds).

## 3. Modules

### FactMatcher (pure operators)

There are no variables. The KB is given by constants:

- the entities, dates, properties, constraints and relation edges;
- `Resolve`, the alias map;
- `Facts`, the facts of each item.

The operators translate `fact_matcher.py`:

- `date_properties`, `location_properties`, `unique_properties` and
  `closure_properties` are the sets that `__init__` builds. Each is a
  comprehension over the conditions of the constructor loop.
- `_existing_facts` is the method of the same name. It filters facts to
  frames and date values.
- `subsumes` resolves both ends. It then tests equality, or `in_closure` over
  the property's relation, or `P279`/`P749` when the property has none.
- `_finer_date` has the year windows of the code, with `YearWindow` for the
  MILLENNIUM/CENTURY/DECADE cases.
- `for_item` is the rule chain in the code's order:
  - NEW;
  - EXACT, by membership and then by scalar date value;
  - SUBSUMES_EXISTING;
  - SUBSUMED_BY_EXISTING;
  - CONFLICT, only for a single unique property;
  - ADDITIONAL.

Two collaborators are C++ code outside `src/` and are modelled from spec.md
(`spec_modelled` in the map):

- `facts_for`;
- `in_closure`, a visited-set search from the fine entity along relation edges.

`sling.Date.value()` is the tuple of the normalised fields.

### MatchSpec (abstract) and FactMatch (refinement)

`MatchSpec` states what a call of the matcher promises:

- subsumption is membership in the least edge-closed set containing the fine
  entity, after alias resolution;
- a finer date is one whose day-ordinal interval is strictly more precise and
  lies inside the coarser one's;
- the answer is the first rule of spec.md 4.5 whose condition holds.

`FactMatch` has one action, `ForItem`: one call of `for_item` with any item,
path and proposable value, recorded in `query` and `match`. `Abstract`
instantiates `MatchSpec`, mapping `verdict` to `query` joined with `match`.
`ImplementsMatchSpec` is `Abstract!Spec` checked as a PROPERTY.

### FactMatcherTask (batch pipeline)

Each loop iteration of the code is one step:

| Action | Code |
|---|---|
| `ReadRecord` | `run` reads the next record; `for_parses` creates its cache |
| `SpanCached` | a span whose key is in the cache |
| `SpanMiss` | a new key; `for_items` starts |
| `AddItem` | one member of `for_items`: `for_item` and `Output.add` |
| `EndItems` | the result is cached and used |
| `EndParse` | the parse's stats join the result |
| `EndParses` | `for_parses` returns; `run` creates its frame cache |
| `AnnotateSpan` | `as_frame`, once per key |
| `NextAnnotatedParse` | the zip over parses and stats advances |
| `WriteRecord` | write the record and increment the counter |
| `Close` | the stream is exhausted |

`FairSpec` adds weak fairness of `Next`. `PipelineSpec` is the abstract
pipeline: `WriteNext` appends `Annotated(input[Len(written) + 1])` and
increments the counter, under weak fairness. `FactMatcherTask` instantiates it
with `Annotated <- AnnotatedRecord`: each span carries `as_frame` of the
reference histogram of its key over the record's own members. The input,
output stream and counter keep their names, so the mapping is the identity on
them. `ImplementsPipelineSpec` is `Pipeline!Spec`, checked as a PROPERTY.
`AnnotationTable` evaluates the reference annotation of every possible input
record once, as a constant.

Two variables are ghosts:

- `aggregated` counts `for_items` calls per key within a record;
- `written` is the output stream.

### StoreFactsBot

The remote store is each item's revision history, and its newest revision is
the item's current claims. A claim is a record `[prop, target, sources,
origin]`. The origin tells apart claims of equal content.

The script's state is:

- `pc` and the cursors `pos` and `f`;
- `updated`, the batch count;
- `fact_record`, the last parsed record;
- `wd_claims`, read once per record (a snapshot; pywikibot's dict also gains
  the bot's own claims, so the model is the conservative case);
- `status`, one status file per run.

`storeRecords` is one action per branch:

- `EndOfRecords` and `HitBatchSize` end the run.
- `SkipRedirect` writes its status from `fact_record`.
- `RedirectNameError` is the same branch before any record was parsed.
- `SkipInconsistent` handles a record whose key is not its item.
- `BeginFacts` starts the facts loop.
- `HasProp` and `HadProp` skip one fact each.
- `NeverHadProp` is `everHadProp` returning false. The bot then builds the
  claim at `pc = "claim"`, and the remote store may change in between.
- `UnknownType` skips a fact whose claim type is neither time nor item, and
  writes nothing.
- `AddClaim` and then `AddSources` store a fact. Only `AddSources` writes the
  "stored" status.
- `EndFacts` counts the record towards the batch.

Two environment actions complete `Next`:

- `RemoteCallFails` covers any remote call raising. It includes `addClaim` or
  `addSources` raising after the server committed. The process dies, and the
  unclosed status file keeps a prefix of what it wrote, because the writer is
  buffered.
- `Rerun` is the operator starting the script again from the top of the file.
  The code is written to be rerun this way: `batch_size` stops it after two
  records.

A third environment action, `OtherUserEdit`, is another Wikidata user adding
to an item a claim that the record file also proposes, of a property the
item does not hold (so other users alone never duplicate one). It is bounded by
`MAX_EDITS` and can happen between any two steps of the bot. `Script` is the
bot's own steps. `Spec` lets other users edit as well, while `AloneSpec` has
the bot as the only editor.

`everHadProp` reads the newest `HISTORY_WINDOW` revisions and passes over the
unparsable ones. The time target is `WbTime(year, precision)`, which drops the
month and day of the date.

### ExtractDates and ExtractAndStore

`ExtractDates` takes one document per step. The actions follow the `continue`
statements of `run` in their order:

- not human;
- both dates known;
- empty text;
- no match;
- a "baptised"/"throne" phrase;
- "born" with a known birth;
- `WriteFact`.

Bold-name search and tokenisation are abstracted to the outcome of matching
a document. The date groups of the match are modelled:

- `DateGroups` gives the six groups of one date, written either "15 March
  1900" or "March 15, 1900".
- `Match` lays them out as the pattern numbers them: groups 1-6 for "born",
  and 7-12 and 13-18 for a span.
- `date_from_match(offset, m)` reads them as the code does, and `months`
  turns a month name into its number.
- `BornMatch` is the test `m.group(1) or m.group(4)` of line 112.

Each written record carries a ghost `doc`, the index of its document.

`ExtractAndStore` runs the extractor to completion. `Handover` then gives its
file to the bot, read as `storeRecords` reads a record. After that, the bot
runs against a store that starts with the KB's dates. In the code the
hand-over is manual: the two programs use different file names.

## 4. Runs

| Run | Checks | Result and meaning |
|---|---|---|
| `classifier` | `TypeOK`, `ImplementsMatchSpec` | passes (370 states): every call of `for_item` on the MC KB answers what `MatchSpec` gives. The KB has aliases, a located-in chain, a cyclic P279, dates of every precision and a date on a two-step path. |
| `date_direction` | `ProposedFinerDateSubsumes` | violated: existing YEAR 1990, proposed a month of 1990, gives SUBSUMED_BY_EXISTING. spec.md 8 says SUBSUMES_EXISTING. The code agrees with its enum comment and with spec.md 4.5. |
| `subsumes_both_ways` | `SubsumptionExclusive` | violated: `subsumes` holds both ways between two different entities on a P279 cycle ((i1, P26, Paris) against the existing Lyon). Equal or alias-equal values are excluded, since `subsumes` is reflexive (line 185). |
| `pipeline` | `TypeOK`, `StatsAreFresh`, `ImplementsPipelineSpec`, `AggregateOncePerKey` | passes under `FairSpec` (14,796 states). The streams have two records each, with shared keys and different members. Each cached or fresh histogram equals the reference `Histogram` of that span's key over its own record. Each key is aggregated once per record. `run` implements `PipelineSpec`: each record is written exactly once, in input order, with correct frames. The counter counts the records written, and the stream is processed to its end. |
| `bot` | `TypeOK`, `NoDuplicateClaim`, `StoredStatusIsTrue`, `AddsWithinBatch`, `StatusAccountsForRun` | passes (under `AloneSpec`, 8,866 states): with up to two failing or lost-answer remote calls and two reruns, no item gets a second claim of a property, every surviving "stored" status is true of the item, and no run adds from more than `batch_size` records. When `storeRecords` returns, its closed status file has a line for every redirect or inconsistent record it passed and for every fact of a time or item claim type, whatever branch the fact took; only a fact of another claim type (`wikibot.py` line 140, q2's P1448) leaves no line. |
| `bot_provenance` | `ClaimsCarryProvenance` | violated: a failure between `addClaim` and `addSources` leaves a claim without references. Reruns skip it as "already has property". |
| `bot_redirect_status` | `StatusNamesRecordItem` | violated: a redirect's status record carries the previous record's item and facts. |
| `bot_date` | `StoredDateMatchesRecord` | violated: a DAY-precision date is stored as its year with day precision. |
| `bot_termination` | `Termination` (under `FairSpec`, no failures) | violated: a file starting with a redirect page makes every run die on a NameError. |
| `bot_other_edit` | `NoDuplicateClaim` (under `Spec`, one edit by another user) | violated: another user adds the fact after `everHadProp` (line 122) and before `addClaim` (line 145). The bot does not look again, so the item gets two claims of the property. |
| `extract_publish` | `TypeOK`, `EveryRecordProposesNewFact`, `FactDatesAreTextDates` | passes (888k states). It covers every two-document stream over five items and all five match outcomes, with each matched date in both written formats. Other users may edit once. Each extractor record proposes a date its item lacks, through the two filters of lines 92-93 and 113. Each record's dates are the ones written in its own text. The bot's account of the file in its status file is `StatusAccountsForRun` of the `bot` run. |
| `extract_publish_category` | `StoredClaimsCiteCategory` | violated: the extractor writes no provenance category, so every stored claim cites `None`. |

Every property of a passing run has a mutant in `PROJECT.json`. The mutant is
a plausible bug in the mapped code that TLC must catch:

- a cache key without the path;
- a cache kept across records;
- a frame cache kept across records;
- a result never cached;
- a missing `return` in `for_item`;
- an inclusive year window;
- a batch test written `>`;
- `revisions()` fetched without content;
- the "stored" status written before `addSources`;
- the dropped line-93 test;
- a span's date offsets swapped (`SpanFacts_swapped`);
- a lost `records += 1`;
- a skipped fact left unlogged.

## 5. Bounds

- **`MAX_SOURCE_ITEMS = 1`** stands for 10. The cap's only arithmetic is
  `len < MAX`. With one exemplar allowed and up to three members per record,
  the capped and uncapped behaviours both occur.
- **Two records per stream** are enough for the cache scope to matter. The
  streams share keys across records and repeat keys across parses.
- **`HISTORY_WINDOW = 2`** stands for 150. q1's removed claim lies outside the
  window, and a claim the bot has just added lies inside it.
- **`BATCH_SIZE = 2`** is the value `run()` passes. File A has three records
  that reach the facts loop.
- **`MAX_RUNS` and `MAX_FAILURES`.** The violation runs use 2 and 1: one
  failure at any remote call, followed by a rerun, exercises each recovery
  path. The `bot` pass run uses 3 and 2 (8,866 states), so a rerun can
  itself fail part-way through the work the first run left, and a third run
  must still find every claim the first two committed.
- **`MAX_EDITS`** is 0 for the bot's own runs and 1 in `bot_other_edit` and
  `extract_publish`. One edit placed anywhere is enough to hit the window
  between the history check and `addClaim`.
- **Extractor input.** Two documents per stream, over five items that cover
  every combination of the filters. Every matched date is written in both
  formats. This exercises every group offset and both branches of line 112.
- **Paths.** The KB has a date at the end of a two-step path,
  `<<P69, P569>>`. This case depends on `for_item` reading `prop[-1]` for
  dates, and on CONFLICT being limited to paths of one step.
- **KB size.** The KB has three items, two relations with edges and one alias.
  This is enough for every rule of `for_item` to fire on both entity and date
  paths.

## 6. Fairness

The code is single-threaded and has no waiting, so safety needs no fairness.
`FactMatcherTask.run` is a single loop that continues until the reader is
exhausted, with no waiting and no retries. spec.md 5 says the pipeline "runs
to stream exhaustion". So `FairSpec` assumes weak fairness of its whole `Next`,
and `ImplementsPipelineSpec` includes the abstract spec's fairness: every
record is eventually written. It passes. An early `Close` (`rec >= Len(input)`)
makes it fail with a stuttering counterexample.

The bot's liveness property, `Termination`, assumes weak fairness of
`storeRecords` only: the script does not stop between its own steps. Remote
failures and reruns are not promised.

## 7. Not modelled

- **The debugging shell's console loop** (`fact_matcher.py` 339-383). It is
  I/O; its calls of `for_item` are `FactMatch`'s `ForItem`, and its category
  branch calls `for_parses`, which `FactMatcherTask` models. spec.md 2.7 puts
  the shell outside the contract. What is left is how it reacts to bad
  console input: an unknown pid or qid fails an `assert`, and an empty pid
  list reaches `prop[0]` in `_existing_facts` (line 152); either exception
  ends the shell. Other reactions depend on the `sling` bindings, which are
  not in this repository: what `kb[id]` returns for an unknown item, and
  what `sling.Date` makes of an entity given for a date property. A model of
  them would be guesswork. The component stays "partly" modelled.
- **`viewmodel.py`.** It is a one-pass command-line script. It loads a flow
  file, prints pickled training details and writes the `commons` blob. Its
  one state change, `--strip`, removes every blob with a `dev` attribute and
  saves the flow. That loop iterates over `list(f.blobs.keys())`, a snapshot,
  so removing blobs does not disturb it. Nothing is concurrent, retried or
  kept across runs, so a model checker would reach nothing a single test does
  not.
- **Text processing.** The regular expression, the tokenisation and string
  formatting of both wikibot programs are left out, along with logging.
  One consequence is recorded as a hazard. The day group `\d{1,2}` accepts
  day 0 and days 32-99, and `date_from_match` does not check them. The
  model's documents write calendar dates only.
- **Edits by other users that remove claims.** Only additions are modelled.
  A removal would make any "stored" status false through no fault of the
  bot.
