\* Run and two goroutines that publish, over at most 2 connections.
CONSTANTS
  main = main  g1 = g1  g2 = g2
  Goroutine <- MCGoroutine
  Main = main
  Nobody = nobody
  MaxConns = 2
  MaxOutputs = 2
SPECIFICATION FairSpec
INVARIANTS NoLeak OneConnection StreamsFirst
PROPERTIES CallsReturn
\* After Close nobody need publish again.
CHECK_DEADLOCK FALSE
