----------------------------- MODULE MCHotReload -----------------------------
EXTENDS HotReload, TLC

CONSTANTS a, b, d1, d2, t1, t2, k1, k2, c1, c2, w1, w2

APack(version, key, component, grade) ==
  [id |-> a, version |-> version, key |-> key, offers |-> {c1},
   component |-> component, grade |-> grade]
BPack(version, grade) ==
  [id |-> b, version |-> version, key |-> k1, offers |-> {c2},
   component |-> w1, grade |-> grade]

\* d1 holds a in two versions, one with another key, one broken and one
\* with a stray file; d2 holds b, or the newer a.
MCInstalls ==
  d1 :> {APack(1, k1, w1, "sound"), APack(2, k1, w2, "sound"),
         APack(2, k2, w2, "sound"), APack(2, k1, w2, "unverifiable"),
         APack(2, k1, w2, "uncovered")}
  @@ d2 :> {BPack(1, "sound"), BPack(1, "badOffer"), BPack(1, "unloadable"),
         APack(2, k1, w2, "sound")}

MCPacks == UNION {MCInstalls[d] : d \in Dirs}

MCCalls == [t \in Threads |-> {"reload", "evict"}]
=============================================================================
