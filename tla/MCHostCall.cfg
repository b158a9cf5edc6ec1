SPECIFICATION Spec
CONSTANTS
  memory = memory
  table = table
  m1 = m1
  m2 = m2
  t1 = t1
  u = u
  v = v
  w = w
  Kinds = {memory, table}
  Regions = {m1, m2, t1}
  KindOf <- MCKindOf
  Cap <- MCCap
  Sizes = {1, 2}
  Tick = 2
  Late = 1
  MaxHostCall = 2
  MaxHops = 2
  Urls = {u, v, w}
  PublicHttp = {w}
  Configs <- MCConfigs
  Horizon = 14
  NoTimeout = NoTimeout
  NoUrl = NoUrl
INVARIANT HostCallWithinCeiling
