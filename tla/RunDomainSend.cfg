CONSTANTS
  t1 = t1
  r1 = r1
  r2 = r2
  r3 = r3
  q1 = q1
  k1 = k1
  m1 = m1
  m2 = m2
  m3 = m3
  Threads = {t1}
  Runs = {r1, r2, k1}
  Msgs = {m1, m2}
  HiddenMsgs = {m2}
  HandoffRuns = {r1}
  FaultyRuns = {r1}
  Continuation = cont
  NoRun = noRun
  ThreadOfRun <- MCThreadOfRun
  ThreadOfMsg <- MCThreadOfMsg
  KindOfRun <- MCKindOfRun
  MaxRestarts = 0
  MaxBoots = 0
  MaxUpdates = 0
SPECIFICATION Spec
INVARIANTS
  OneWriterPerThread
  OutcomeAgreesWithRow
  WithdrawnStaysOut
  OnePlacePerMessage
PROPERTIES
  OnlyNamedLosses

CHECK_DEADLOCK FALSE
