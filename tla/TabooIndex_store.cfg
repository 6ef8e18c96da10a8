SPECIFICATION FairSpec
CONSTANTS
  Threads = {h1, h2, w1}
  WsThreads = {w1}
  Keys <- MCKeys
  KeysUnder <- MCKeysUnder
  h1 = h1
  h2 = h2
  i1 = i1
  i2 = i2
  d1 = d1
  d2 = d2
  Ids = {i1, i2}
  Docs = {d1, d2}
  NoDoc = NoDoc
  NoRequest = NoRequest
  NoPath = 10
  NoValue = 11
  MaxIterations = 3
  AttachRequests <- MCFewAttachRequests
  UpdateRequests <- MCUpdateRequests
  QueryRequests <- MCFewQueryRequests
PROPERTIES
  ImplementsStore
  EveryRequestAnswered
