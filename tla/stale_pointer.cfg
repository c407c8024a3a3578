SPECIFICATION Spec
CONSTANTS
  main = main
  igor = igor
  heartbeat = heartbeat
  e1 = e1
  e2 = e2
  f1 = f1
  f2 = f2
  Threads = {main, heartbeat}
  Program <- HeartbeatAndStop
  Handles = {h1, h2}
  NoSocket = NoSocket
  Endpoints = {e1, e2}
  Filters = {f1, f2}
  Nothing = Nothing
  LongEndpoints = {}
  QuiescentClose = FALSE
  Refusable = {}
INVARIANT NoStalePointer
