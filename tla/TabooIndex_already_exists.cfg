SPECIFICATION Spec
CONSTANTS
  Threads = {h1, h2}
  WsThreads = {}
  Keys <- MCKeys
  KeysUnder <- MCKeysUnder
  h1 = h1
  h2 = h2
  i1 = i1
  i2 = i2
  d1 = d1
  d2 = d2
  Ids = {i1, i2}
  Docs = {d1, d2}
  NoDoc = NoDoc
  NoRequest = NoRequest
  NoPath = 10
  NoValue = 11
  MaxIterations = 2
  AttachRequests <- MCAttachRequests
  UpdateRequests <- MCUpdateRequests
  QueryRequests <- MCQueryRequests
PROPERTY AlreadyExistsMeansExists
