\* The consumer and the watcher with one Stop call and one client.  Two lines
\* are enough for a slow flush to be overtaken, and two instants for a line
\* inside and a line outside the flush interval.
CONSTANTS
  s1 = s1  g1 = g1  g2 = g2
  Consumer = consumer
  Watcher = watcher
  Stoppers = {s1}
  Getters = {g1}
  Nobody = nobody
  FlushInterval = 1
  Speaks = {"assistant", "reasoning"}
  MaxLines = 2
  MaxTime = 2
SPECIFICATION Spec
INVARIANTS NoJoinUnderReadLock SnapshotsAreWhole Fresh NothingForgotten
PROPERTIES ConsumerNeverRollsBack FlushedBeforeStop
\* Everything stops once the CLI is silent and the calls are answered.
CHECK_DEADLOCK FALSE
