\* Two clients whose calls may overlap for ever, a Stop call, the watcher and
\* the consumer under fair scheduling; the clock and what a line says play no
\* part in who gets the lock.
CONSTANTS
  s1 = s1  g1 = g1  g2 = g2
  Consumer = consumer
  Watcher = watcher
  Stoppers = {s1}
  Getters = {g1, g2}
  Nobody = nobody
  FlushInterval = 1
  Speaks = {}
  MaxLines = 1
  MaxTime = 1
SPECIFICATION FairSpec
PROPERTIES CallsReturn
\* Everything stops once the CLI is silent and the calls are answered.
CHECK_DEADLOCK FALSE
