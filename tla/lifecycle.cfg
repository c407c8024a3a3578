SPECIFICATION FairSpec
CONSTANTS
  Main = main
  Others = {heartbeat, igor}
  Heartbeat = heartbeat
  MaxNotices = 3
INVARIANTS TypeOK NoticesKeptInOrder NothingAfterCleanup
PROPERTIES CleanupEnds NoticesAppear
CHECK_DEADLOCK FALSE
