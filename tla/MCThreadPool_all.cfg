\* Two workers, two enqueuing threads, three tasks, stop() with either argument.
CONSTANTS
  w1 = w1
  w2 = w2
  c1 = c1
  c2 = c2
  t1 = t1
  t2 = t2
  t3 = t3
  Workers = {w1, w2}
  Clients = {c1, c2}
  Tasks = {t1, t2, t3}
  Graceful = {TRUE, FALSE}
  Outcomes = {"ok", "std", "foreign"}
  NoTask = NoTask
  Nobody = Nobody
SPECIFICATION FairSpec
INVARIANTS
  TypeOK
  ExitIsFinal
  AbortHasCause
  NoLostTaskWakeup
PROPERTIES
  ImplementsTaskPool
  AcceptedIsExecuted
\* The program ends when std::terminate is called.
CHECK_DEADLOCK FALSE
