\* Two characters, texts up to two characters per line, operations may start
\* below sequence 6 and the longest adds 7 outputs.
CONSTANTS
  x = x
  y = y
  Char <- MCChar
  Chunk <- MCChunk
  CallId <- MCCallId
  Generated <- MCGenerated
  MaxSequence = 6
SPECIFICATION Spec
INVARIANTS FlagsMatchOutputs OpenHasText AccumulatorIsReplay
PROPERTIES WellFormedConversation FinalizeClosesFirst
\* The consumer stops when publishing fails, and the bound stops the parser.
CHECK_DEADLOCK FALSE
