\* One worker is enough: it is caught between the test of the predicate and
\* its sleep.
CONSTANTS
  w1 = w1
  c1 = c1
  t1 = t1
  Workers = {w1}
  Clients = {c1}
  Tasks = {t1}
  Graceful = {TRUE}
  Outcomes = {"ok"}
  NoTask = NoTask
  Nobody = Nobody
SPECIFICATION FairSpec
PROPERTY
  StopReturns
