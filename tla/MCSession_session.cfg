\* Two threads change two rows and send the events in any order; a channel that keeps
\* one event, room for one message, a client that may leave.
SPECIFICATION FairSpec
CONSTANTS
  Threads = {t1, t2}
  Ids = {r1, r2}
  Capacity = 1
  Depth = 1
  MaxChanges = 3
  MaxCalls = 3
INVARIANTS
  TypeOK
  ListenersEndUpRight
PROPERTIES
  EveryCallIsAnswered
  ForwarderEnds
