SPECIFICATION CallsSpec
CONSTANTS
  WaveHandles <- Handles
  NullWave = NullWave
  Byte <- SomeBytes
  Heaps <- AllHeaps
  Texts <- SomeTexts
  Foreign <- SomeMessages
  MaxCalls = 2
  Epoch = 10
  InvalidUTF8 = InvalidUTF8
INVARIANTS TypeOK RowsConverted ZeroMeansSent RowsHoldWaves DocumentsReadBack
CHECK_DEADLOCK FALSE
