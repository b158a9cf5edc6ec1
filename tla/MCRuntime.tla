------------------------------ MODULE MCRuntime ------------------------------
(* Small packs for TLC: one publisher key against another, two versions. *)
EXTENDS ExtensionRuntime

CONSTANTS a, b, d1, d2, t1, t2, k1, k2, c1, c2, w1, w2

APack(version, key, offers, component, grade) ==
  [id |-> a, version |-> version, key |-> key, offers |-> offers,
   component |-> component, grade |-> grade]

\* Two versions of a, a twin of the newer one signed by another key, and b once
\* sound and once with an offered version that does not parse.
MCPacks ==
  {APack(1, k1, {c1}, w1, "sound"),
   APack(2, k1, {c2}, w2, "sound"),
   APack(2, k2, {c2}, w2, "sound"),
   [APack(1, k1, {c1}, w1, "sound") EXCEPT !.id = b],
   [APack(2, k1, {c1}, w1, "badOffer") EXCEPT !.id = b],
   APack(3, k1, {c1}, w1, "unverifiable"),
   APack(3, k1, {c1}, w1, "unloadable")}

\* A watcher thread and the thread of the embedder; or two watchers.
MCCalls == [t \in Threads |-> IF t = t1 THEN {"reload", "evict"}
                                        ELSE {"register", "reload", "removal"}]
MCWatcherCalls == [t \in Threads |-> {"reload", "evict"}]
=============================================================================
