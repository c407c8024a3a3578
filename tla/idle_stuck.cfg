SPECIFICATION FairSpec
CONSTANTS
  p1 = p1
  p2 = p2
  Requests <- OneRequest
  Peers = {p1, p2}
  Sender <- Senders
  Verdict <- AllRun
  Main = Main
  IgorThreads = {}
  Worker = Worker
  NoThread = NoThread
  NoRequest = NoRequest
  TopCalls = {"Start", "Idle"}
  FunctionCalls = {}
  StartApart = FALSE
  PeersMayLeave = FALSE
  LogMayFail = TRUE
PROPERTY QueuedRequestsServed
