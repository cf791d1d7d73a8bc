---------------------------- MODULE ExtractDates ----------------------------
(***************************************************************************)
(* en_wp_dates.py: ExtractWikipediaDates.run, one Wikipedia document per   *)
(* step.  The KB is constant: which items are humans and which already     *)
(* have a birth (P569) or death (P570) date.  The text processing (finding *)
(* the bold name, the phrase after it, the regular expression) is          *)
(* abstracted to its outcome for a document: empty text, no match, a match *)
(* in a "baptised"/"throne" phrase, a "born" match, or a birth-death span, *)
(* with the groups the pattern captures.  The ten input files are read    *)
(* one after the other: Docs is their concatenation.                       *)
(***************************************************************************)
EXTENDS Integers, Sequences

CONSTANTS
  Humans,        \* items with instanceof (P31) human (Q5)
  HasBirth,      \* items with a date_of_birth in the KB
  HasDeath,      \* items with a date_of_death in the KB
  DocStreams,    \* possible input: sequences of documents [id, text, birth, death]
  P569, P570,    \* date_of_birth, date_of_death
  url, method,   \* provenance slots written by run
  None           \* a regular-expression group that took part in no match

Texts == {"empty", "no match", "excluded", "born", "span"}

DAY == 6

MonthNames == <<"January", "February", "March", "April", "May", "June", "July",
                "August", "September", "October", "November", "December">>

\* self.months: the number of a month name.
months(name) == CHOOSE i \in DOMAIN MonthNames : MonthNames[i] = name

\* The six groups of one date of the pattern: (day) (month) (year) or
\* (month) (day), (year); the groups of the other alternative are None.
\* A date written in a document is [year, month, day, fmt].
DateGroups(d) ==
  IF d.fmt = "dmy" THEN <<d.day, MonthNames[d.month], d.year, None, None, None>>
                   ELSE <<None, None, None, MonthNames[d.month], d.day, d.year>>

\* rec.match(text).group(1..18): the "born" date in groups 1-6, the two
\* dates of a birth-death span in groups 7-12 and 13-18.
NoGroups(k) == [i \in 1..k |-> None]

Match(doc) ==
  IF doc.text = "born" THEN DateGroups(doc.birth) \o NoGroups(12)
                       ELSE NoGroups(6) \o DateGroups(doc.birth) \o DateGroups(doc.death)

\* date_from_match: sling.Date(year, month, day), of DAY precision, from
\* the groups of the date that starts after group offset.
date_from_match(offset, m) ==
  IF m[1 + offset] # None
  THEN [year |-> m[3 + offset], month |-> months(m[2 + offset]), day |-> m[1 + offset],
        precision |-> DAY]
  ELSE [year |-> m[6 + offset], month |-> months(m[4 + offset]), day |-> m[5 + offset],
        precision |-> DAY]

\* "Birth date only match": m.group(1) or m.group(4).
BornMatch(m) == m[1] # None \/ m[4] # None

BornFacts(m) == <<[prop |-> P569, val |-> date_from_match(0, m)]>>

\* Mutant: the span's offsets swapped, birth read from the second date.
SpanFacts_swapped(m) ==
  <<[prop |-> P569, val |-> date_from_match(12, m)],
    [prop |-> P570, val |-> date_from_match(6, m)]>>

SpanFacts(m) ==
  <<[prop |-> P569, val |-> date_from_match(6, m)],
    [prop |-> P570, val |-> date_from_match(12, m)]>>

\* The output record of a document: item, facts, and the slots of its
\* provenance frame (url and method).
Fact(doc) ==
  [item |-> doc.id,
   facts |-> IF BornMatch(Match(doc)) THEN BornFacts(Match(doc)) ELSE SpanFacts(Match(doc)),
   provenance |-> {url, method}]

VARIABLES
  docs,         \* the documents read
  n,            \* index of the next document
  out,          \* records written to birth-death-dates.rec: [key, fact];
                \* doc (ghost) is the index of the document it came from
  records,      \* the count printed and incremented per record
  closed        \* record_file.close() has run

vars == <<docs, n, out, records, closed>>

Doc == docs[n]

Init ==
  /\ docs \in DocStreams
  /\ n = 1 /\ out = <<>> /\ records = 0 /\ closed = FALSE

\* A document passed over by one of run's continue statements.
Skip ==
  /\ n' = n + 1
  /\ UNCHANGED <<docs, out, records, closed>>

NotHuman == n <= Len(docs) /\ Doc.id \notin Humans /\ Skip

\* Mutant: the test of line 93 is lost; an item with both dates goes on.
KnowsBoth_dropped == FALSE

KnowsBoth == Doc.id \in HasBirth /\ Doc.id \in HasDeath

Candidate == n <= Len(docs) /\ Doc.id \in Humans /\ ~KnowsBoth

HasBothDates == n <= Len(docs) /\ Doc.id \in Humans /\ KnowsBoth /\ Skip

EmptyText == Candidate /\ Doc.text = "empty" /\ Skip

NoMatch == Candidate /\ Doc.text = "no match" /\ Skip

Excluded == Candidate /\ Doc.text = "excluded" /\ Skip

\* rec.match found a date phrase outside a "baptised"/"throne" context.
Matched == Candidate /\ Doc.text \in {"born", "span"}

\* A "born" match for an item whose birth date is known.
BornKnown == Matched /\ BornMatch(Match(Doc)) /\ Doc.id \in HasBirth /\ Skip

\* Mutant: the record is written but records += 1 is lost.
WriteFact_uncounted ==
  /\ Matched
  /\ ~BornMatch(Match(Doc)) \/ Doc.id \notin HasBirth
  /\ out' = Append(out, [key |-> Doc.id, fact |-> Fact(Doc), doc |-> n])
  /\ n' = n + 1
  /\ UNCHANGED <<docs, closed, records>>

\* Write the record under the item's id and count it.
WriteFact ==
  /\ Matched
  /\ ~BornMatch(Match(Doc)) \/ Doc.id \notin HasBirth
  /\ out' = Append(out, [key |-> Doc.id, fact |-> Fact(Doc), doc |-> n])
  /\ records' = records + 1
  /\ n' = n + 1
  /\ UNCHANGED <<docs, closed>>

Close ==
  /\ n > Len(docs) /\ ~closed
  /\ closed' = TRUE
  /\ UNCHANGED <<docs, n, out, records>>

Next ==
  \/ NotHuman \/ HasBothDates \/ EmptyText \/ NoMatch \/ Excluded
  \/ BornKnown \/ WriteFact \/ Close

Spec == Init /\ [][Next]_vars

-----------------------------------------------------------------------------
TypeOK ==
  /\ n \in 1..(Len(docs) + 1)
  /\ records = Len(out)
  /\ closed \in BOOLEAN
  /\ \A r \in DOMAIN out : r < n

\* Every record the extractor writes proposes at least one date the KB item
\* does not have yet: the "born" branch checks the birth date, the span
\* branch relies on the earlier test that the item lacks one of the two.
EveryRecordProposesNewFact ==
  \A r \in DOMAIN out :
    \E fct \in {out[r].fact.facts[j] : j \in DOMAIN out[r].fact.facts} :
      \/ fct.prop = P569 /\ out[r].key \notin HasBirth
      \/ fct.prop = P570 /\ out[r].key \notin HasDeath

\* The dates a record proposes are the dates written in its document: the
\* pattern's group numbering and date_from_match's offsets give each fact
\* the day, month and year of its own date, in both written formats.
FactDatesAreTextDates ==
  \A r \in DOMAIN out : \A j \in DOMAIN out[r].fact.facts :
    LET fct == out[r].fact.facts[j]
        written == IF fct.prop = P569 THEN docs[out[r].doc].birth ELSE docs[out[r].doc].death
    IN  fct.val = [year |-> written.year, month |-> written.month, day |-> written.day,
                   precision |-> DAY]

=============================================================================
