SPECIFICATION Spec
CONSTANTS
  Histories <- ShortHistories
  Printed <- ShortTexts
  Versions = {0, 1, 2, 9}
  IdLengths = {0, 1, 3, 4}
  MaxParams = 2
  MaxInt = 3
  MaxIdLength = 3
INVARIANTS TypeOK RejectsExactlyInvalid ReplyCorrelates HistoryIsPrinted
CHECK_DEADLOCK FALSE
