CONSTANTS
  a1 = a1  a2 = a2  a3 = a3  a4 = a4  a5 = a5
  P569 = P569  P570 = P570  url = url  method = method
  None = None  KBDate = KBDate  wpcat = wpcat
  Unparsable = Unparsable  NoSources = NoSources  NoRecord = NoRecord
  Items = {a1, a2, a3, a4, a5}
  Humans = {a2, a3, a4, a5}
  HasBirth = {a3, a5}
  HasDeath = {a4, a5}
  Categories = {wpcat}
  DocStreams <- MC_DocStreams
  HISTORY_WINDOW = 2
  BATCH_SIZE = 2
  MAX_RUNS = 2
  MAX_FAILURES = 1
  MAX_EDITS = 1

SPECIFICATION Spec
\* The bot stops for good once MAX_RUNS runs have ended.
CHECK_DEADLOCK FALSE
INVARIANT TypeOK
INVARIANT EveryRecordProposesNewFact
INVARIANT FactDatesAreTextDates
