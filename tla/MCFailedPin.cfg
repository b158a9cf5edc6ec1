SPECIFICATION Spec
CONSTANTS
  a = a
  b = b
  d1 = d1
  d2 = d2
  t1 = t1
  t2 = t2
  k1 = k1
  k2 = k2
  c1 = c1
  c2 = c2
  w1 = w1
  w2 = w2
  Ids = {a, b}
  Dirs = {d1}
  Keys = {k1, k2}
  Caps = {c1, c2}
  Components = {w1, w2}
  Threads = {t2}
  Calls <- MCCalls
  Packs <- MCPacks
  NoExt = NoExt
  NoPack = NoPack
  NoThread = NoThread
  NoKey = NoKey
  NoId = NoId
  NoDir = NoDir
  NoComponent = NoComponent
INVARIANT NoPinForAFailedLoad
