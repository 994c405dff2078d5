CONSTANTS
  a1 = a1
  a2 = a2
  t1 = t1
  m1 = m1
  m2 = m2
  Agents = {a1, a2}
  Threads = {t1}
  ThreadOf <- OneThread
  Msgs = {m1, m2}
  MaxLive = 2
  MaxRunning = 1
  MaxMailbox = 1
  MaxTurns = 2
SPECIFICATION Spec
SYMMETRY Symmetry
INVARIANTS
  TypeOK
  WorkHasADrain
  NoTurnAfterClose
  RunnersAreClosed
  RestedMeansReported
  DeletedThreadIsQuiet
PROPERTIES
  EndIsFinal
CHECK_DEADLOCK FALSE
