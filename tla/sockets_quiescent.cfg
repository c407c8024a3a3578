SPECIFICATION Spec
CONSTANTS
  main = main
  igor = igor
  heartbeat = heartbeat
  e1 = e1
  e2 = e2
  f1 = f1
  f2 = f2
  Threads = {main, igor}
  Program <- Quiescent
  Handles = {h1, h2, h3, h4}
  NoSocket = NoSocket
  Endpoints = {e1, e2}
  Filters = {f1, f2}
  Nothing = Nothing
  LongEndpoints = {e2}
  QuiescentClose = TRUE
  Refusable = {"addFilter", "removeFilter"}
INVARIANTS TypeOK RegistryOwnsSockets RegistryMatchesSockets IPV6Uniform
PROPERTIES CloseClosesAll ImplementsConnections
