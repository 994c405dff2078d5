CONSTANTS
  t1 = t1
  r1 = r1
  r2 = r2
  r3 = r3
  q1 = q1
  k1 = k1
  m1 = m1
  m2 = m2
  m3 = m3
  Threads = {t1}
  Runs = {r1, r2, q1}
  Msgs = {m1}
  HiddenMsgs = {}
  HandoffRuns = {}
  FaultyRuns = {r1}
  Continuation = cont
  NoRun = noRun
  ThreadOfRun <- MCThreadOfRun
  ThreadOfMsg <- MCThreadOfMsg
  KindOfRun <- MCKindOfRun
  MaxRestarts = 1
  MaxBoots = 2
  MaxUpdates = 2
SPECIFICATION Spec
INVARIANTS
  IndInv
  RunningRowIsOwned
PROPERTIES
  NoStartWhileAdmissionClosed

CHECK_DEADLOCK FALSE
