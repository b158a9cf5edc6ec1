SPECIFICATION Spec
CONSTANTS
  a = a
  b = b
  c = c
  c1 = c1
  c2 = c2
  Ids = {a, b, c}
  Caps = {c1, c2}
  Versions = {1, 2, 3}
  Malformed = Malformed
  Unparseable = Unparseable
  Builds <- MCBuilds
  Callable = {a}
  Chatty = {"invoke_tool"}
  Requests <- MCRequests
  Hosts <- MCHosts
  Listings <- MCListings
  Demands <- MCDemands
  MaxSeen = 2
  NoExt = NoExt
  NoId = NoId
INVARIANT BoundContractsAreCalled
