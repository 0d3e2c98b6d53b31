\* A turn with a tool and its output, an answer, a client that reconnects, failed writes and
\* restarts.
SPECIFICATION MCSpec
CONSTANTS
  Cap = 3
  ChannelCap = 2
  MaxEvents = 6
  MaxAnswers = 1
  MaxFaults = 2
INVARIANTS SeenIsStored RecordedIdsGrow StreamComplete DeltaBeforeEnd
CHECK_DEADLOCK FALSE
