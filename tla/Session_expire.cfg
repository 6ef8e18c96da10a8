SPECIFICATION Spec
CONSTANTS
  h1 = h1
  h2 = h2
  k1 = k1
  k2 = k2
  k3 = k3
  k4 = k4
  Threads = {h1, h2}
  Tokens = {k1, k2, k3, k4}
  Identities = {1}
  Filters = {f1}
  NoToken = NoToken
  Presented = {k1}
  NoRequest = NoRequest
  MaxTime = 1
INVARIANT EnsureHonoursExpire
