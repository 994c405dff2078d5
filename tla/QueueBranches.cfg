CONSTANTS
  r1 = r1
  r2 = r2
  r3 = r3
  m1 = m1
  m2 = m2
  m3 = m3
  h1 = h1
  h2 = h2
  Msgs = {m1, m2}
  HiddenMsgs = {}
  FileMsgs = {m2}
  Runs = {r1, r2, r3}
  HandoffRuns = {}
  Branching = TRUE
  Continuation = cont
  Queue = queue
  NoRun = noRun
SYMMETRY RunIds
SPECIFICATION Spec
INVARIANTS
  LegAnswersHead

CHECK_DEADLOCK FALSE
