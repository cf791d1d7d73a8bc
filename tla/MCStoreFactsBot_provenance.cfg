CONSTANTS
  q1 = q1  q2 = q2  q3 = q3
  P27 = P27  P569 = P569  P1448 = P1448
  Fr = Fr  De = De  Name = Name  c1 = c1
  Unparsable = Unparsable  NoSources = NoSources  NoRecord = NoRecord
  Items = {q1, q2, q3}
  Props = {P27, P569, P1448}
  TimeProps = {P569}
  ItemProps = {P27}
  Categories = {c1}
  Redirects = {q3}
  RecordFiles <- MC_RecordFiles
  InitHistory <- MC_InitHistory
  HISTORY_WINDOW = 2
  BATCH_SIZE = 2
  MAX_RUNS = 2
  MAX_FAILURES = 1
  MAX_EDITS = 0

SPECIFICATION Spec
\* A run stops for good once MAX_RUNS runs have ended (done or crashed).
CHECK_DEADLOCK FALSE
INVARIANT ClaimsCarryProvenance
