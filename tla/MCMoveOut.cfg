SPECIFICATION HotSpec
CONSTANTS
  a = a
  b = b
  d1 = d1
  d2 = d2
  t1 = t1
  t2 = t2
  k1 = k1
  k2 = k2
  c1 = c1
  c2 = c2
  w1 = w1
  w2 = w2
  Ids = {a, b}
  Dirs = {d1, d2}
  Keys = {k1, k2}
  Caps = {c1, c2}
  Components = {w1, w2}
  Threads = {t1}
  Calls <- MCCalls
  Packs <- MCPacks
  Installs <- MCInstalls
  Changes = {"install", "overwrite", "unlinkListed", "unlinkStray", "moveOut", "uninstall"}
  MaxChanges = 4
  Lossy = FALSE
  MaxStops = 0
  NoExt = NoExt
  NoPack = NoPack
  NoThread = NoThread
  NoKey = NoKey
  NoId = NoId
  NoDir = NoDir
  NoComponent = NoComponent
CHECK_DEADLOCK FALSE
INVARIANT NoGhost
