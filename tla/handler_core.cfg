SPECIFICATION Spec
CONSTANTS
  p1 = p1
  p2 = p2
  Requests <- FourRequests
  Peers = {p1, p2}
  Sender <- Senders
  Verdict <- Mixed
  Main = Main
  IgorThreads = {it}
  Worker = Worker
  NoThread = NoThread
  NoRequest = NoRequest
  TopCalls = {"Start", "Stop", "zeromq_stop", "Idle"}
  FunctionCalls = {"Idle"}
  StartApart = FALSE
  PeersMayLeave = TRUE
  LogMayFail = TRUE
INVARIANTS TypeOK NoDeadlock WorkerRunsUntilStopped
PROPERTIES NoRequestVanishes ImplementsService
