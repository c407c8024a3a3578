SPECIFICATION FairSpec
CONSTANTS
  p1 = p1
  p2 = p2
  Requests <- TwoRequests
  Peers = {p1}
  Sender <- OneSender
  Verdict <- Executed
  Main = Main
  IgorThreads = {it}
  Worker = Worker
  NoThread = NoThread
  NoRequest = NoRequest
  TopCalls = {"Start", "Stop", "zeromq_stop", "Idle"}
  FunctionCalls = {"Idle", "Start"}
  StartApart = TRUE
  PeersMayLeave = FALSE
  LogMayFail = FALSE
INVARIANTS RunningHandlerIsBound
PROPERTIES StopTakesEffect RequestsAnswered
