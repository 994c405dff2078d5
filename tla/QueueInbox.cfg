CONSTANTS
  r1 = r1
  r2 = r2
  r3 = r3
  m1 = m1
  m2 = m2
  m3 = m3
  h1 = h1
  h2 = h2
  Msgs = {m1, m2, h1}
  HiddenMsgs = {h1}
  FileMsgs = {}
  Runs = {r1, r2}
  HandoffRuns = {r1, r2}
  Branching = FALSE
  Continuation = cont
  Queue = queue
  NoRun = noRun
SYMMETRY RunIds
SPECIFICATION Spec
INVARIANTS
  TypeOK
  UserMessagesOnPath
PROPERTIES
  DeletesWhatWasShown
  VisibleIsInbox
  HiddenIsInbox

CHECK_DEADLOCK FALSE
