CONSTANTS
  t1 = t1
  t2 = t2
  Threads = {t1, t2}
  Versions = {1, 2}
  BufferLimit = 1
  JournalLimit = 2
  MaxEvents = 3
  MaxLinks = 2
  MaxStarts = 2
SPECIFICATION Spec
INVARIANT DeferredIsResumable
\* The bounds on events, connections and starts end every behaviour.
CHECK_DEADLOCK FALSE
