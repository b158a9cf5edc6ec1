--------------------------- MODULE HotReloadProofs ---------------------------
(***************************************************************************)
(* Proofs about HotReload, for every tree of directories, every number of  *)
(* watchers and of changes: what ExtensionRuntimeProofs establishes of the *)
(* runtime holds of the runtime a filesystem watcher drives.               *)
(***************************************************************************)
EXTENDS HotReload, ExtensionRuntimeProofs

\* A change of the tree is a write of one directory.
LEMMA UsersWrite ==
  ASSUME Users
  PROVE  Environment
  <1>1. PICK d \in Dirs : \/ Install(d) \/ Overwrite(d) \/ UnlinkListed(d)
                          \/ UnlinkStray(d) \/ Uninstall(d) \/ MoveOut(d)
    BY DEF Users
  <1>2. Installs[d] \subseteq Packs
    BY HotReloadAssumption
  <1>3. PICK p \in Packs \cup {NoPack} : \E how : Change(how, d, p)
    BY <1>1, <1>2 DEF Install, Overwrite, UnlinkListed, UnlinkStray, Uninstall, MoveOut
  <1>4. WriteDisk(d, p)
    BY <1>3 DEF Change
  <1>5. QED BY <1>4 DEF Environment

\* A watcher only ever starts or continues an operation of the runtime.
LEMMA WatchOperates ==
  ASSUME NEW t \in Threads, Watch(t)
  PROVE  UNCHANGED vars \/ Start(t) \/ Continue(t)
  BY DEF Watch, HandleRemoved, HandleWritten, Exit, Start

\* The watched system is built of the runtime's actions, so that what holds of the
\* runtime holds of it.
LEMMA WatchedRuntime == HotSpec => Spec
  <1>1. HotInit => Init
    BY DEF HotInit
  <1>2. [HotNext]_hotVars => [Next]_vars
    <2> SUFFICES ASSUME [HotNext]_hotVars
                 PROVE  [Next]_vars
      OBVIOUS
    <2>1. CASE UNCHANGED hotVars
      BY <2>1 DEF hotVars
    <2>2. CASE Users
      BY <2>2, UsersWrite DEF Next
    <2>3. CASE Gtdx
      BY <2>3 DEF Gtdx, Next, Environment
    <2>4. CASE Embedder
      BY <2>4 DEF Embedder, DropGuard, StartWatcher
    <2>5. ASSUME NEW t \in Threads, Watch(t)
          PROVE  [Next]_vars
      BY <2>5, WatchOperates DEF Next
    <2>6. QED BY <2>1, <2>2, <2>3, <2>4, <2>5 DEF HotNext
  <1>3. QED BY <1>1, <1>2, PTL DEF HotSpec, Spec

\* So whatever users do to the tree, only what passed the gate is ever loaded,
\* its offers are the ones advertised, and no reload installs an older version.
THEOREM WatchedIsSafe ==
  HotSpec => [](LoadedIsVerified /\ RegistryInStep) /\ NoHotDowngrade
  BY WatchedRuntime, OnlyVerifiedLoads, RegistryFollows, NoDowngrade, PTL

-----------------------------------------------------------------------------
(* Types *)

\* Every kind of event a change raises is one the watcher thread handles.
LEMMA ClassifyType ==
  ASSUME NEW how \in DOMAIN NotifyKind
  PROVE  Classify(NotifyKind[how]) \in {"Added", "Modified", "Removed"}
  BY DEF NotifyKind, Classify

\* A change puts one well-typed event in the channels it reaches and counts itself.
LEMMA ChangeType ==
  ASSUME HotTypeOK, NEW how, NEW d \in Dirs, NEW p, Change(how, d, p)
  PROVE  /\ fsEvents' \in [Threads -> Seq(FsEvent)]
         /\ changes' \in 0 .. MaxChanges
         /\ unseen' \subseteq Dirs /\ eclipsed' \subseteq Dirs
  <1>1. how \in DOMAIN NotifyKind
    BY HotReloadAssumption DEF Change
  <1> DEFINE e == [kind |-> Classify(NotifyKind[how]), dir |-> d]
  <1>2. e \in FsEvent
    BY <1>1, ClassifyType DEF FsEvent
  <1>3. PICK reached \in Reached :
          fsEvents' = [t \in Threads |->
            IF t \in reached THEN Append(fsEvents[t], e) ELSE fsEvents[t]]
    BY DEF Change
  <1>4. \A t \in Threads : /\ fsEvents[t] \in Seq(FsEvent)
                           /\ Append(fsEvents[t], e) \in Seq(FsEvent)
    <2> HIDE DEF e
    <2> QED BY <1>2 DEF HotTypeOK
  <1>5. fsEvents' \in [Threads -> Seq(FsEvent)]
    <2> HIDE DEF e
    <2> QED BY <1>3, <1>4
  <1>6. changes' \in 0 .. MaxChanges
    BY HotReloadAssumption DEF Change, HotTypeOK
  <1>7. unseen' \subseteq Dirs
    BY DEF Change, HotTypeOK
  <1>8. eclipsed' \subseteq Dirs
    BY DEF Change, HotTypeOK, Rivals
  <1>9. QED BY <1>5, <1>6, <1>7, <1>8

\* A watcher that takes an event, or goes with those it has not taken, leaves
\* well-typed channels behind.
LEMMA WatcherType ==
  ASSUME HotTypeOK, NEW t \in Threads, Receive(t) \/ Exit(t)
  PROVE  /\ fsEvents' \in [Threads -> Seq(FsEvent)]
         /\ changes' = changes
         /\ unseen' \subseteq Dirs /\ eclipsed' = eclipsed
         /\ guard' \in [Threads -> Guards]
         /\ stops' = stops
  <1>1. CASE Receive(t)
    BY <1>1 DEF Receive, HotTypeOK, Guards
  <1>2. CASE Exit(t)
    <2>1. <<>> \in Seq(FsEvent)
      OBVIOUS
    <2>2. fsEvents[t] \in Seq(FsEvent)
      BY DEF HotTypeOK
    <2>3. \A i \in DOMAIN fsEvents[t] : fsEvents[t][i].dir \in Dirs
      <3>1. \A i \in DOMAIN fsEvents[t] : fsEvents[t][i] \in FsEvent
        BY <2>2
      <3>2. \A e \in FsEvent : e.dir \in Dirs
        BY DEF FsEvent
      <3>3. QED BY <3>1, <3>2
    <2>4. QED BY <1>2, <2>1, <2>3 DEF Exit, HotTypeOK, Guards
  <1>3. QED BY <1>1, <1>2

\* The channels hold only events the watcher thread can handle.
THEOREM HotTypeCorrect == HotSpec => []HotTypeOK
  <1>1. HotInit /\ TypeOK => HotTypeOK
    BY HotReloadAssumption DEF HotInit, HotTypeOK, Guards
  <1>2. HotTypeOK /\ TypeOK' /\ [HotNext]_hotVars => HotTypeOK'
    <2> SUFFICES ASSUME HotTypeOK, TypeOK', [HotNext]_hotVars
                 PROVE  HotTypeOK'
      OBVIOUS
    <2>1. CASE UNCHANGED watchVars
      BY <2>1 DEF HotTypeOK, watchVars
    <2>2. CASE Users
      <3>1. UNCHANGED <<guard, stops>>
        BY <2>2 DEF Users, Install, Overwrite, UnlinkListed, UnlinkStray,
                    Uninstall, MoveOut, Change
      <3>2. QED
        BY <2>2, <3>1, ChangeType
        DEF Users, Install, Overwrite, UnlinkListed, UnlinkStray, Uninstall, MoveOut, HotTypeOK
    <2>3. ASSUME NEW t \in Threads, Receive(t) \/ Exit(t)
          PROVE  HotTypeOK'
      BY <2>3, WatcherType DEF HotTypeOK
    <2>4. CASE Embedder
      <3>1. PICK t \in Threads : DropGuard(t) \/ StartWatcher(t)
        BY <2>4 DEF Embedder
      <3>2. CASE DropGuard(t)
        BY <3>2, HotReloadAssumption DEF DropGuard, HotTypeOK, Guards
      <3>3. CASE StartWatcher(t)
        BY <3>3 DEF StartWatcher, HotTypeOK, Guards
      <3>4. QED BY <3>1, <3>2, <3>3
    <2>5. QED BY <2>1, <2>2, <2>3, <2>4
      DEF HotNext, hotVars, Gtdx, Watch, HandleRemoved, HandleWritten
  <1>3. HotSpec => []TypeOK
    BY WatchedRuntime, TypeCorrect, PTL
  <1>4. QED BY <1>1, <1>2, <1>3, PTL DEF HotSpec
-----------------------------------------------------------------------------
(* Nothing stays loaded from a directory that is gone *)

\* A removal of directory d waits in the channel of watcher t.
Pending(t, d) ==
  \E i \in 1 .. Len(fsEvents[t]) : fsEvents[t][i] = [kind |-> "Removed", dir |-> d]

Covered(d) == d \in unseen \/ \E t \in Threads : Pending(t, d)

\* The eviction thread t is in will drop what is loaded under id, if it is gone.
Doomed(t, id) ==
  /\ job[t].op = "evict"
  /\ \/ /\ pc[t] = "stat"
        /\ id \in job[t].unchecked
        /\ job[t].seen[id] # NoExt
        /\ job[t].seen[id].dir = loaded[id].dir
     \/ /\ pc[t] \in {"stat", "edit", "storeMap", "storeRegistry", "emit"}
        /\ id \in job[t].vanished
     \/ pc[t] \in {"edit", "storeMap"} /\ job[t].target = id

\* A load of a directory that has gone since will be followed by an eviction.
LoadCovered(t) ==
  /\ job[t].op \in {"register", "reload"}
  /\ pc[t] \in {"verify", "anchor", "read", "edit", "storeMap"}
  => /\ job[t].dir \in Dirs
     /\ \/ disk[job[t].dir] # NoPack
        \/ job[t].dir \in unseen
        \/ Pending(t, job[t].dir)

\* What the clone of thread t has in place of what is loaded under id.
DraftFrom(t, id) ==
  \/ job[t].draft[id] \in {loaded[id], NoExt}
  \/ job[t].op \in {"register", "reload"} /\ job[t].draft[id].dir = job[t].dir

GhostJob(t) ==
  /\ LoadCovered(t)
  /\ pc[t] = "storeMap" =>
       /\ \A id \in Ids : DraftFrom(t, id)
       /\ job[t].op = "evict" => job[t].draft[job[t].target] = NoExt
  /\ job[t].op = "evict" => job[t].outcome # "refused"

GhostCovered(id) ==
  loaded[id] # NoExt /\ disk[loaded[id].dir] = NoPack
  => Covered(loaded[id].dir) \/ \E t \in Threads : Doomed(t, id)

GhostInv ==
  /\ \A t \in Threads : GhostJob(t)
  /\ \A id \in Ids : GhostCovered(id)
  /\ Threads = {} => loaded = NothingLoaded

\* What the steps of a thread leave to the others.
Alone(t) ==
  /\ \A u \in Threads \ {t} : pc'[u] = pc[u] /\ job'[u] = job[u]
  /\ UNCHANGED <<disk, loaded, unseen, fsEvents>>

\* A step that only moves thread t on, and drops no eviction that is due.
LEMMA GhostLocal ==
  ASSUME GhostInv, NEW t \in Threads, Alone(t), GhostJob(t)',
         \A id \in Ids :
           loaded[id] # NoExt /\ disk[loaded[id].dir] = NoPack /\ Doomed(t, id)
           => Doomed(t, id)'
  PROVE  GhostInv'
  <1>1. \A u \in Threads : GhostJob(u)'
    BY DEF GhostInv, GhostJob, LoadCovered, DraftFrom, Pending, Alone
  <1>2. ASSUME NEW id \in Ids PROVE GhostCovered(id)'
    <2>1. GhostCovered(id)
      BY DEF GhostInv
    <2>2. \A u \in Threads \ {t} : Doomed(u, id) => Doomed(u, id)'
      BY DEF Doomed, Alone
    <2>3. Covered(loaded[id].dir) => Covered(loaded[id].dir)'
      BY DEF Covered, Pending, Alone
    <2>4. loaded' = loaded /\ disk' = disk
      BY DEF Alone
    <2>5. QED BY <2>1, <2>2, <2>3, <2>4 DEF GhostCovered
  <1>3. QED BY <1>1, <1>2 DEF GhostInv, Alone

\* A removal is put behind what waits, in the channel of every watcher unless
\* the change counts as unseen.
LEMMA ChangeIsTold ==
  ASSUME HotTypeOK, NEW how, NEW d \in Dirs, NEW p, Change(how, d, p)
  PROVE  /\ \A t \in Threads, e \in Dirs : Pending(t, e) => Pending(t, e)'
         /\ \A e \in Dirs \ {d} : e \in unseen => e \in unseen'
         /\ how \in {"uninstall", "moveOut"}
              => d \in unseen' \/ \A t \in Threads : Pending(t, d)'
  <1>1. PICK reached \in Reached :
          /\ unseen' = IF how \in {"moveOut", "unlinkStray"} \/ reached # Threads
                        THEN unseen \cup {d} ELSE unseen \ {d}
          /\ fsEvents' = [t \in Threads |->
               IF t \in reached
                 THEN Append(fsEvents[t], [kind |-> Classify(NotifyKind[how]), dir |-> d])
                 ELSE fsEvents[t]]
    BY DEF Change
  <1> DEFINE e == [kind |-> Classify(NotifyKind[how]), dir |-> d]
  <1>2. \A t \in Threads : fsEvents[t] \in Seq(FsEvent)
    BY DEF HotTypeOK
  <1>3. how \in DOMAIN NotifyKind
    BY HotReloadAssumption DEF Change
  <1>4. e \in FsEvent
    BY <1>3, ClassifyType DEF FsEvent
  <1>5. ASSUME NEW t \in Threads, NEW c \in Dirs, Pending(t, c)
        PROVE  Pending(t, c)'
    <2>1. PICK i \in 1 .. Len(fsEvents[t]) :
            fsEvents[t][i] = [kind |-> "Removed", dir |-> c]
      BY <1>5 DEF Pending
    <2>2. CASE t \in reached
      <3> HIDE DEF e
      <3>1. fsEvents'[t] = Append(fsEvents[t], e)
        BY <1>1, <2>2 DEF e
      <3>2. i \in 1 .. Len(fsEvents'[t]) /\ fsEvents'[t][i] = fsEvents[t][i]
        BY <1>2, <1>4, <3>1
      <3>3. QED BY <2>1, <3>2 DEF Pending
    <2>3. CASE t \notin reached
      BY <1>1, <2>1, <2>3 DEF Pending
    <2>4. QED BY <2>2, <2>3
  <1>6. ASSUME how = "uninstall", reached = Threads, NEW t \in Threads
        PROVE  Pending(t, d)'
    <2>1. e = [kind |-> "Removed", dir |-> d]
      BY <1>6 DEF NotifyKind, Classify
    <2> HIDE DEF e
    <2>2. fsEvents'[t] = Append(fsEvents[t], e)
      BY <1>1, <1>6 DEF e
    <2>3. /\ Len(fsEvents[t]) + 1 \in 1 .. Len(fsEvents'[t])
          /\ fsEvents'[t][Len(fsEvents[t]) + 1] = e
      BY <1>2, <1>4, <2>2
    <2>4. QED BY <2>1, <2>3 DEF Pending
  <1>7. QED BY <1>1, <1>5, <1>6

\* A directory that goes is covered from then on, whoever loads or has loaded it.
LEMMA GhostChange ==
  ASSUME HotTypeOK, GhostInv, NEW how, NEW d \in Dirs, NEW p, Change(how, d, p),
         p = NoPack => how \in {"uninstall", "moveOut"}
  PROVE  GhostInv'
  <1>1. /\ disk' = [disk EXCEPT ![d] = p] /\ disk \in [Dirs -> Packs \cup {NoPack}]
        /\ UNCHANGED <<loaded, pc, job>>
    BY DEF Change, WriteDisk, HotTypeOK, TypeOK
  <1>2. /\ \A t \in Threads, e \in Dirs : Pending(t, e) => Pending(t, e)'
        /\ \A e \in Dirs \ {d} : e \in unseen => e \in unseen'
        /\ p = NoPack => d \in unseen' \/ \A t \in Threads : Pending(t, d)'
    BY ChangeIsTold
  <1>3. ASSUME NEW t \in Threads PROVE GhostJob(t)'
    <2>1. GhostJob(t)
      BY DEF GhostInv
    <2>2. LoadCovered(t)'
      BY <1>1, <1>2, <2>1 DEF GhostJob, LoadCovered
    <2>3. QED BY <1>1, <2>1, <2>2 DEF GhostJob, DraftFrom
  <1>4. ASSUME NEW id \in Ids PROVE GhostCovered(id)'
    <2>1. GhostCovered(id)
      BY DEF GhostInv
    <2>2. ASSUME loaded[id] # NoExt, disk'[loaded[id].dir] = NoPack
          PROVE  Covered(loaded[id].dir)' \/ \E t \in Threads : Doomed(t, id)'
      <3>1. loaded[id].dir \in Dirs
        BY <2>2 DEF HotTypeOK, TypeOK, LoadedMap, Entry
      <3>2. CASE loaded[id].dir = d
        <4>1. Threads # {}
          BY <2>2 DEF GhostInv, NothingLoaded
        <4>2. QED BY <1>1, <1>2, <2>2, <3>2, <4>1 DEF Covered
      <3>3. CASE loaded[id].dir # d
        <4>1. disk[loaded[id].dir] = NoPack
          BY <1>1, <2>2, <3>1, <3>3
        <4>2. \A t \in Threads : Doomed(t, id) => Doomed(t, id)'
          BY <1>1 DEF Doomed
        <4>3. Covered(loaded[id].dir) => Covered(loaded[id].dir)'
          BY <1>1, <1>2, <3>1, <3>3 DEF Covered
        <4>4. QED BY <2>1, <2>2, <4>1, <4>2, <4>3 DEF GhostCovered
      <3>4. QED BY <3>2, <3>3
    <2>3. QED BY <1>1, <2>2 DEF GhostCovered
  <1>5. QED BY <1>1, <1>3, <1>4 DEF GhostInv

\* Taking an event leaves the others where they are.
LEMMA ReceiveTakesOne ==
  ASSUME HotTypeOK, NEW t \in Threads, Receive(t)
  PROVE  /\ Head(fsEvents[t]) \in FsEvent /\ pc[t] = "idle"
         /\ \A u \in Threads \ {t}, d \in Dirs : Pending(u, d) => Pending(u, d)'
         /\ \A d \in Dirs : Pending(t, d) =>
              \/ Head(fsEvents[t]) = [kind |-> "Removed", dir |-> d]
              \/ Pending(t, d)'
  <1>1. /\ fsEvents[t] \in Seq(FsEvent) /\ fsEvents[t] # <<>> /\ pc[t] = "idle"
        /\ fsEvents' = [fsEvents EXCEPT ![t] = Tail(@)]
        /\ fsEvents \in [Threads -> Seq(FsEvent)]
    BY DEF Receive, HotTypeOK, Idle
  <1>2. Head(fsEvents[t]) \in FsEvent
    BY <1>1
  <1>3. \A u \in Threads \ {t}, d \in Dirs : Pending(u, d) => Pending(u, d)'
    BY <1>1 DEF Pending
  <1>4. ASSUME NEW d \in Dirs, Pending(t, d),
               Head(fsEvents[t]) # [kind |-> "Removed", dir |-> d]
        PROVE  Pending(t, d)'
    <2>1. PICK i \in 1 .. Len(fsEvents[t]) :
            fsEvents[t][i] = [kind |-> "Removed", dir |-> d]
      BY <1>4 DEF Pending
    <2>2. i # 1
      BY <1>1, <1>4, <2>1
    <2>3. fsEvents'[t] = Tail(fsEvents[t])
      BY <1>1
    <2>4. i - 1 \in 1 .. Len(fsEvents'[t]) /\ fsEvents'[t][i - 1] = fsEvents[t][i]
      BY <1>1, <2>2, <2>3
    <2>5. QED BY <2>1, <2>4 DEF Pending
  <1>5. QED BY <1>1, <1>2, <1>3, <1>4

\* Whatever thread t starts on the event it takes, an eviction must look at all
\* that is loaded if the event was a removal.
LEMMA GhostReceive ==
  ASSUME HotTypeOK, GhostInv, NEW t \in Threads, Receive(t), GhostJob(t)',
         \A u \in Threads \ {t} : pc'[u] = pc[u] /\ job'[u] = job[u],
         UNCHANGED <<disk, loaded>>,
         \/ Head(fsEvents[t]).kind # "Removed"
         \/ \A id \in Ids : loaded[id] # NoExt => Doomed(t, id)'
  PROVE  GhostInv'
  <1>1. unseen' = unseen
    BY DEF Receive
  <1>2. ASSUME NEW u \in Threads \ {t} PROVE GhostJob(u)'
    <2>1. GhostJob(u)
      BY DEF GhostInv
    <2>2. LoadCovered(u)'
      BY <1>1, <2>1, ReceiveTakesOne DEF GhostJob, LoadCovered
    <2>3. QED BY <2>1, <2>2 DEF GhostJob, DraftFrom
  <1>3. ASSUME NEW id \in Ids PROVE GhostCovered(id)'
    <2>1. GhostCovered(id)
      BY DEF GhostInv
    <2>2. \A u \in Threads : Doomed(u, id) => u # t /\ Doomed(u, id)'
      BY ReceiveTakesOne DEF Doomed
    <2>3. loaded[id] # NoExt => loaded[id].dir \in Dirs
      BY DEF HotTypeOK, TypeOK, LoadedMap, Entry
    <2>4. CASE Head(fsEvents[t]).kind # "Removed"
      <3>1. ASSUME loaded[id] # NoExt, Covered(loaded[id].dir)
            PROVE  Covered(loaded[id].dir)'
        <4>1. CASE loaded[id].dir \in unseen
          BY <1>1, <4>1 DEF Covered
        <4>2. ASSUME NEW u \in Threads, Pending(u, loaded[id].dir)
              PROVE  Covered(loaded[id].dir)'
          <5>1. \A d \in Dirs : Head(fsEvents[t]) # [kind |-> "Removed", dir |-> d]
            BY <2>4
          <5>2. \A v \in Threads, d \in Dirs : Pending(v, d) => Pending(v, d)'
            BY <5>1, ReceiveTakesOne
          <5>3. QED BY <2>3, <3>1, <4>2, <5>2 DEF Covered
        <4>3. QED BY <3>1, <4>1, <4>2 DEF Covered
      <3>2. QED BY <2>1, <2>2, <3>1 DEF GhostCovered
    <2>5. CASE \A i \in Ids : loaded[i] # NoExt => Doomed(t, i)'
      BY <2>5 DEF GhostCovered
    <2>6. QED BY <2>4, <2>5
  <1>4. QED BY <1>2, <1>3 DEF GhostInv

\* The two handlers do.
LEMMA GhostHandle ==
  ASSUME HotTypeOK, GhostInv, NEW t \in Threads, HandleRemoved(t) \/ HandleWritten(t)
  PROVE  GhostInv'
  <1>1. Receive(t) /\ pc[t] = "idle" /\ GhostJob(t)
    BY ReceiveTakesOne DEF HandleRemoved, HandleWritten, GhostInv
  <1>2. pc \in [Threads -> Steps] /\ job \in [Threads -> Job] /\ loaded \in LoadedMap
    BY DEF HotTypeOK, TypeOK
  <1>3. CASE HandleRemoved(t)
    <2> DEFINE j == [NoJob EXCEPT !.op = "evict", !.seen = loaded,
                                  !.unchecked = Present(loaded)]
    <2>1. /\ pc' = [pc EXCEPT ![t] = "stat"] /\ job' = [job EXCEPT ![t] = j]
          /\ UNCHANGED <<disk, loaded>>
      BY <1>3 DEF HandleRemoved, BeginEvict, Goto
    <2>2. /\ j.op = "evict" /\ j.seen = loaded /\ j.unchecked = Present(loaded)
          /\ j.outcome = "none"
      BY DEF NoJob
    <2> HIDE DEF j
    <2>3. pc'[t] = "stat" /\ job'[t] = j
      BY <1>2, <2>1
    <2>4. \A id \in Ids : loaded[id] # NoExt => Doomed(t, id)'
      BY <2>1, <2>2, <2>3 DEF Doomed, Present
    <2>5. GhostJob(t)'
      BY <2>2, <2>3 DEF GhostJob, LoadCovered
    <2>6. QED BY <1>1, <1>2, <2>1, <2>4, <2>5, GhostReceive
  <1>4. CASE HandleWritten(t)
    <2>1. Head(fsEvents[t]).kind # "Removed"
      BY <1>4 DEF HandleWritten
    <2>2. CASE UNCHANGED vars
      <3>1. GhostJob(t)'
        BY <1>1, <2>2 DEF vars, GhostJob, LoadCovered
      <3>2. QED BY <1>1, <2>1, <2>2, <3>1, GhostReceive DEF vars
    <2>3. ASSUME NEW d \in Dirs, disk[d] # NoPack, BeginReload(t, d)
          PROVE  GhostInv'
      <3> DEFINE j == [NoJob EXCEPT !.op = "reload", !.dir = d]
      <3>1. /\ pc' = [pc EXCEPT ![t] = "verify"] /\ job' = [job EXCEPT ![t] = j]
            /\ UNCHANGED <<disk, loaded>>
        BY <2>3 DEF BeginReload, Begin, Goto
      <3>2. j.op = "reload" /\ j.dir = d
        BY DEF NoJob
      <3> HIDE DEF j
      <3>3. pc'[t] = "verify" /\ job'[t] = j
        BY <1>2, <3>1
      <3>4. GhostJob(t)'
        BY <2>3, <3>1, <3>2, <3>3 DEF GhostJob, LoadCovered
      <3>5. QED BY <1>1, <1>2, <2>1, <3>1, <3>4, GhostReceive
    <2>4. OwningDir(Head(fsEvents[t])) \in Dirs =>
            disk[OwningDir(Head(fsEvents[t]))] # NoPack
      BY SentinelAssumption DEF OwningDir
    <2>5. QED BY <1>4, <2>2, <2>3, <2>4 DEF HandleWritten
  <1>5. QED BY <1>3, <1>4

\* A watcher that ends leaves as unseen what it was not told.
LEMMA GhostExit ==
  ASSUME HotTypeOK, GhostInv, NEW t \in Threads, Exit(t)
  PROVE  GhostInv'
  <1>1. /\ UNCHANGED <<disk, loaded, pc, job>> /\ pc[t] = "idle" /\ unseen \subseteq unseen'
        /\ \A u \in Threads \ {t} : fsEvents'[u] = fsEvents[u]
    BY DEF Exit, vars, Idle, HotTypeOK
  <1>2. \A d \in Dirs : Pending(t, d) => d \in unseen'
    <2>1. fsEvents[t] \in Seq(FsEvent)
      BY DEF HotTypeOK
    <2>2. ASSUME NEW d \in Dirs, NEW i \in 1 .. Len(fsEvents[t]),
                 fsEvents[t][i] = [kind |-> "Removed", dir |-> d]
          PROVE  d \in unseen'
      <3>1. i \in DOMAIN fsEvents[t] /\ fsEvents[t][i].dir = d
        BY <2>1, <2>2
      <3>2. QED BY <3>1 DEF Exit
    <2>3. QED BY <2>2 DEF Pending
  <1>3. \A u \in Threads \ {t}, d \in Dirs : Pending(u, d) => Pending(u, d)'
    BY <1>1 DEF Pending
  <1>4. ASSUME NEW u \in Threads PROVE GhostJob(u)'
    <2>1. GhostJob(u)
      BY DEF GhostInv
    <2>2. LoadCovered(u)'
      BY <1>1, <1>3, <2>1 DEF GhostJob, LoadCovered
    <2>3. QED BY <1>1, <2>1, <2>2 DEF GhostJob, DraftFrom
  <1>5. ASSUME NEW id \in Ids PROVE GhostCovered(id)'
    <2>1. GhostCovered(id)
      BY DEF GhostInv
    <2>2. \A u \in Threads : Doomed(u, id) => Doomed(u, id)'
      BY <1>1 DEF Doomed
    <2>3. loaded[id] # NoExt => loaded[id].dir \in Dirs
      BY DEF HotTypeOK, TypeOK, LoadedMap, Entry
    <2>4. \A d \in Dirs : Covered(d) => Covered(d)'
      BY <1>1, <1>2, <1>3 DEF Covered
    <2>5. QED BY <1>1, <2>1, <2>2, <2>3, <2>4 DEF GhostCovered
  <1>6. QED BY <1>1, <1>4, <1>5 DEF GhostInv

\* The gate: a load goes on in the same directory or fails.
LEMMA GhostGate ==
  ASSUME IInv, GhostInv, UNCHANGED watchVars, NEW t \in Threads,
         Verify(t) \/ Anchor(t) \/ ReadComponent(t)
  PROVE  GhostInv'
  <1>1. /\ pc[t] \in {"verify", "anchor", "read"} /\ job[t].op \in {"register", "reload"}
        /\ pc \in [Threads -> Steps] /\ job \in [Threads -> Job] /\ job[t] \in Job
        /\ GhostJob(t)
    BY DEF IInv, TypeOK, JobInv, JobOK, GhostInv, Verify, Anchor, ReadComponent
  <1>2. UNCHANGED <<disk, loaded>>
    BY DEF Verify, Anchor, ReadComponent
  <1>3. CASE Fail(t)
    <2>1. /\ pc' = [pc EXCEPT ![t] = "failed"]
          /\ job' = [job EXCEPT ![t] = [NoJob EXCEPT !.op = job[t].op,
                                                     !.pinned = job[t].pinned]]
      BY <1>3 DEF Fail, Goto
    <2>2. pc'[t] = "failed" /\ job'[t].op = job[t].op
      BY <1>1, <2>1 DEF NoJob
    <2>3. GhostJob(t)'
      BY <1>1, <2>2 DEF GhostJob, LoadCovered
    <2>4. Alone(t)
      BY <1>1, <1>2, <2>1 DEF Alone, watchVars
    <2>5. QED BY <1>1, <2>3, <2>4, GhostLocal DEF Doomed
  <1>4. ASSUME NEW step \in {"anchor", "read", "edit"}, NEW j, pc' = [pc EXCEPT ![t] = step],
               job' = [job EXCEPT ![t] = j], j.op = job[t].op, j.dir = job[t].dir
        PROVE  GhostInv'
    <2>1. pc'[t] = step /\ job'[t] = j
      BY <1>1, <1>4
    <2>2. GhostJob(t)'
      BY <1>1, <1>2, <1>4, <2>1 DEF GhostJob, LoadCovered, Pending, watchVars
    <2>3. Alone(t)
      BY <1>1, <1>2, <1>4 DEF Alone, watchVars
    <2>4. QED BY <1>1, <2>2, <2>3, GhostLocal DEF Doomed
  <1>5. ASSUME Goto(t, "read"), UNCHANGED job PROVE GhostInv'
    <2>1. job' = [job EXCEPT ![t] = job[t]]
      BY <1>1, <1>5
    <2>2. QED BY <1>4, <1>5, <2>1 DEF Goto
  <1>6. CASE Verify(t)
    BY <1>1, <1>3, <1>4, <1>6 DEF Verify, Goto, Job
  <1>7. CASE Anchor(t)
    BY <1>1, <1>3, <1>4, <1>5, <1>7 DEF Anchor, Goto, Job
  <1>8. CASE ReadComponent(t)
    BY <1>1, <1>3, <1>4, <1>8 DEF ReadComponent, Goto, Job
  <1>9. QED BY <1>6, <1>7, <1>8

\* The clone m has nothing of its own but what thread t has loaded.
Derived(t, m) ==
  \A i \in Ids :
    \/ m[i] \in {loaded[i], NoExt}
    \/ job[t].op \in {"register", "reload"} /\ m[i].dir = job[t].dir

\* An edit that is made, whichever it is.
LEMMA GhostEdit ==
  ASSUME IInv, GhostInv, UNCHANGED watchVars, NEW t \in Threads,
         NEW m, NEW id, NEW outcome, Edit(t, m, id, outcome), pc[t] = "edit",
         Derived(t, m),
         job[t].op = "evict" => /\ id = job[t].target /\ m[id] = NoExt
                                /\ outcome # "refused" /\ Rebuildable(m)
  PROVE  GhostInv'
  <1>1. /\ pc \in [Threads -> Steps] /\ job \in [Threads -> Job] /\ job[t] \in Job
        /\ GhostJob(t) /\ UNCHANGED <<disk, loaded>>
    BY DEF IInv, TypeOK, GhostInv, Edit
  <1>2. CASE Rebuildable(m)
    <2> DEFINE j == [job[t] EXCEPT !.draft = m, !.target = id, !.outcome = outcome]
    <2>1. pc' = [pc EXCEPT ![t] = "storeMap"] /\ job' = [job EXCEPT ![t] = j]
      BY <1>1, <1>2 DEF Edit, Goto
    <2>2. /\ j.op = job[t].op /\ j.dir = job[t].dir /\ j.draft = m /\ j.target = id
          /\ j.outcome = outcome /\ j.vanished = job[t].vanished
      BY <1>1 DEF Job
    <2> HIDE DEF j
    <2>3. pc'[t] = "storeMap" /\ job'[t] = j
      BY <1>1, <2>1
    <2>4. GhostJob(t)'
      <3>1. LoadCovered(t)'
        BY <1>1, <2>2, <2>3 DEF GhostJob, LoadCovered, Pending, watchVars
      <3>2. \A i \in Ids : DraftFrom(t, i)'
        BY <1>1, <2>2, <2>3 DEF Derived, DraftFrom
      <3>3. QED BY <2>2, <2>3, <3>1, <3>2 DEF GhostJob
    <2>5. Alone(t)
      BY <1>1, <2>1 DEF Alone, watchVars
    <2>6. \A i \in Ids : Doomed(t, i) => Doomed(t, i)'
      BY <2>2, <2>3 DEF Doomed
    <2>7. QED BY <2>4, <2>5, <2>6, GhostLocal
  <1>3. CASE ~Rebuildable(m)
    <2>1. job[t].op # "evict"
      BY <1>3
    <2>2. /\ pc'[t] \in {"failed", "emit"} /\ job'[t].op = job[t].op
          /\ \A u \in Threads \ {t} : pc'[u] = pc[u] /\ job'[u] = job[u]
      BY <1>1, <1>3 DEF Edit, Fail, Goto, NoJob
    <2>3. GhostJob(t)'
      BY <2>1, <2>2 DEF GhostJob, LoadCovered
    <2>4. Alone(t)
      BY <1>1, <2>2 DEF Alone, watchVars
    <2>5. QED BY <2>1, <2>3, <2>4, GhostLocal DEF Doomed
  <1>4. QED BY <1>2, <1>3

LEMMA GhostEditAny ==
  ASSUME IInv, GhostInv, UNCHANGED watchVars, NEW t \in Threads, EditAny(t)
  PROVE  GhostInv'
  <1>1. /\ loaded \in LoadedMap /\ VerifiedMap(loaded) /\ JobOK(t)
    BY DEF IInv, TypeOK, LoadedIsVerified, JobInv
  <1>2. \A id \in Ids : Without(loaded, id) = [loaded EXCEPT ![id] = NoExt]
    BY DEF Without
  <1>3. \A id \in Ids : Rebuildable(Without(loaded, id))
    BY <1>1, <1>2 DEF Rebuildable, VerifiedMap, Present, LoadedMap
  <1>4. CASE EditRegister(t) \/ EditReload(t)
    <2>1. pc[t] = "edit" /\ job[t].op \in {"register", "reload"}
      BY <1>4 DEF EditRegister, EditReload, Editing
    <2>2. NewEntry(t).dir = job[t].dir
      BY DEF NewEntry
    <2>3. Derived(t, With(loaded, NewEntry(t))) /\ Derived(t, loaded)
      BY <1>1, <2>1, <2>2 DEF With, LoadedMap, Derived
    <2>4. CASE Edit(t, With(loaded, NewEntry(t)), job[t].pack.id, "present")
      BY <2>1, <2>3, <2>4, GhostEdit
    <2>5. CASE Edit(t, loaded, job[t].pack.id, "refused")
      BY <2>1, <2>3, <2>5, GhostEdit
    <2>6. QED BY <1>4, <2>4, <2>5 DEF EditRegister, EditReload
  <1>5. CASE EditRemoval(t)
    <2>1. pc[t] = "edit" /\ job[t].op = "removal"
      BY <1>5 DEF EditRemoval, Editing
    <2>2. ASSUME NEW id \in LoadedFrom(loaded, job[t].dir),
                 Edit(t, Without(loaded, id), id, "absent")
          PROVE  GhostInv'
      <3>1. id \in Ids
        BY DEF LoadedFrom, Present
      <3>2. Derived(t, Without(loaded, id))
        BY <1>1, <1>2, <3>1 DEF LoadedMap, Derived
      <3>3. QED BY <2>1, <2>2, <3>2, GhostEdit
    <2>3. CASE Edit(t, loaded, NoId, "none")
      <3>1. Derived(t, loaded)
        BY DEF Derived
      <3>2. QED BY <2>1, <2>3, <3>1, GhostEdit
    <2>4. QED BY <1>5, <2>2, <2>3 DEF EditRemoval
  <1>6. CASE EditEvict(t)
    <2>1. pc[t] = "edit" /\ job[t].op = "evict"
      BY <1>6 DEF EditEvict, Editing
    <2>2. job[t].target \in Ids
      BY <1>1, <2>1 DEF JobOK
    <2>3. /\ Derived(t, Without(loaded, job[t].target))
          /\ Without(loaded, job[t].target)[job[t].target] = NoExt
      BY <1>1, <1>2, <2>2 DEF LoadedMap, Derived
    <2>4. PICK outcome \in {"none", "absent"} :
            Edit(t, Without(loaded, job[t].target), job[t].target, outcome)
      BY <1>6 DEF EditEvict
    <2>5. outcome # "refused" /\ Rebuildable(Without(loaded, job[t].target))
      BY <1>3, <2>2, <2>4
    <2>6. QED BY <2>1, <2>3, <2>4, <2>5, GhostEdit
  <1>7. QED BY <1>4, <1>5, <1>6 DEF EditAny

\* What a load publishes from a directory that has gone is covered by the load.
LEMMA GhostStoreMap ==
  ASSUME IInv, HotTypeOK, GhostInv, UNCHANGED watchVars, NEW t \in Threads, StoreMap(t)
  PROVE  GhostInv'
  <1>1. /\ pc[t] = "storeMap" /\ loaded' = job[t].draft
        /\ pc' = [pc EXCEPT ![t] = "storeRegistry"] /\ UNCHANGED <<disk, job>>
        /\ pc \in [Threads -> Steps] /\ job[t] \in Job
        /\ UNCHANGED <<unseen, fsEvents>>
    BY DEF StoreMap, Goto, IInv, TypeOK, watchVars
  <1>2. GhostJob(t)
    BY DEF GhostInv
  <1>3. ASSUME NEW u \in Threads PROVE GhostJob(u)'
    <2>1. GhostJob(u)
      BY DEF GhostInv
    <2>2. u # t => pc[u] # "storeMap"
      BY <1>1 DEF IInv, MutexInv
    <2>3. pc'[u] # "storeMap" /\ (u # t => pc'[u] = pc[u])
      BY <1>1, <2>2
    <2>4. LoadCovered(u)'
      BY <1>1, <2>1, <2>3 DEF GhostJob, LoadCovered, Pending
    <2>5. QED BY <1>1, <2>1, <2>3, <2>4 DEF GhostJob
  <1>4. ASSUME NEW id \in Ids, loaded'[id] # NoExt, disk'[loaded'[id].dir] = NoPack
        PROVE  Covered(loaded[id].dir)' \/ \E u \in Threads : Doomed(u, id)'
    <2>1. DraftFrom(t, id) /\ LoadCovered(t)
      BY <1>1, <1>2 DEF GhostJob
    <2>2. CASE job[t].draft[id] = loaded[id]
      <3>1. loaded'[id] = loaded[id]
        BY <1>1, <2>2
      <3>2. Covered(loaded[id].dir) \/ \E u \in Threads : Doomed(u, id)
        BY <1>1, <1>4, <3>1 DEF GhostInv, GhostCovered
      <3>3. ASSUME NEW u \in Threads \ {t}, Doomed(u, id) PROVE Doomed(u, id)'
        <4>1. pc'[u] = pc[u]
          BY <1>1
        <4>2. QED BY <1>1, <3>1, <3>3, <4>1 DEF Doomed
      <3>4. ASSUME Doomed(t, id) PROVE Doomed(t, id)'
        <4>1. job[t].target # id \/ job[t].op # "evict"
          BY <1>1, <1>2, <1>4 DEF GhostJob
        <4>2. pc'[t] = "storeRegistry"
          BY <1>1
        <4>3. QED BY <1>1, <3>4, <4>1, <4>2 DEF Doomed
      <3>5. Covered(loaded[id].dir) => Covered(loaded[id].dir)'
        BY <1>1, <3>1 DEF Covered, Pending
      <3>6. QED BY <3>2, <3>3, <3>4, <3>5
    <2>3. CASE job[t].op \in {"register", "reload"} /\ job[t].draft[id].dir = job[t].dir
      <3>1. job[t].dir \in unseen \/ Pending(t, job[t].dir)
        BY <1>1, <1>4, <2>1, <2>3 DEF LoadCovered
      <3>2. Covered(job[t].dir)'
        BY <1>1, <3>1 DEF Covered, Pending
      <3>3. QED BY <1>1, <2>3, <3>2
    <2>4. QED BY <1>1, <1>4, <2>1, <2>2, <2>3 DEF DraftFrom
  <1>5. \A id \in Ids : GhostCovered(id)'
    BY <1>4 DEF GhostCovered
  <1>6. QED BY <1>3, <1>5 DEF GhostInv

\* The rest of an operation: an eviction keeps what it has still to drop.
LEMMA GhostRest ==
  ASSUME IInv, GhostInv, UNCHANGED watchVars, NEW t \in Threads,
         \/ StoreRegistry(t) \/ Emit(t) \/ ReturnError(t) \/ EvictNext(t)
         \/ \E id \in Ids : Stat(t, id)
  PROVE  GhostInv'
  <1>1. /\ pc \in [Threads -> Steps] /\ job \in [Threads -> Job] /\ job[t] \in Job
        /\ GhostJob(t) /\ JobOK(t)
    BY DEF IInv, TypeOK, GhostInv, JobInv
  <1>2. UNCHANGED <<disk, loaded>>
    BY DEF StoreRegistry, Emit, ReturnError, EvictNext, Stat
  <1>3. ASSUME NEW step \in {"emit", "stat", "edit", "idle", "failed"}, NEW j,
               pc' = [pc EXCEPT ![t] = step], job' = [job EXCEPT ![t] = j],
               step = "edit" => j.op = "evict",
               j.outcome \in {job[t].outcome, "none"}, j.op \in {job[t].op, "none"},
               \A id \in Ids :
                 loaded[id] # NoExt /\ disk[loaded[id].dir] = NoPack /\ Doomed(t, id)
                 => /\ j.op = "evict"
                    /\ \/ /\ step = "stat" /\ id \in j.unchecked /\ j.seen[id] # NoExt
                          /\ j.seen[id].dir = loaded[id].dir
                       \/ step \in {"stat", "edit", "emit"} /\ id \in j.vanished
                       \/ step = "edit" /\ j.target = id
        PROVE  GhostInv'
    <2>1. pc'[t] = step /\ job'[t] = j
      BY <1>1, <1>3
    <2>2. GhostJob(t)'
      BY <1>1, <1>3, <2>1 DEF GhostJob, LoadCovered
    <2>3. Alone(t)
      BY <1>1, <1>2, <1>3 DEF Alone, watchVars
    <2>4. \A id \in Ids :
            loaded[id] # NoExt /\ disk[loaded[id].dir] = NoPack /\ Doomed(t, id)
            => Doomed(t, id)'
      BY <1>2, <1>3, <2>1 DEF Doomed
    <2>5. QED BY <2>2, <2>3, <2>4, GhostLocal
  <1>4. ASSUME End(t), \A id \in Ids : ~Doomed(t, id) PROVE GhostInv'
    BY <1>3, <1>4 DEF End, Goto, NoJob
  <1>5. CASE StoreRegistry(t)
    <2> DEFINE j == [job[t] EXCEPT !.draft = NothingLoaded, !.pack = NoPack,
                                   !.component = NoComponent]
    <2>1. /\ pc[t] = "storeRegistry" /\ pc' = [pc EXCEPT ![t] = "emit"]
          /\ job' = [job EXCEPT ![t] = j]
      BY <1>1, <1>5 DEF StoreRegistry, Goto
    <2>2. /\ j.op = job[t].op /\ j.outcome = job[t].outcome
          /\ j.vanished = job[t].vanished
      BY <1>1 DEF Job
    <2>3. \A id \in Ids : Doomed(t, id) => j.op = "evict" /\ id \in j.vanished
      BY <2>1, <2>2 DEF Doomed
    <2>4. QED
      <3> HIDE DEF j
      <3> QED BY <1>3, <2>1, <2>2, <2>3
  <1>6. CASE Emit(t)
    <2>1. pc[t] = "emit"
      BY <1>6 DEF Emit
    <2>2. CASE job[t].op = "evict"
      <3> DEFINE j == [job[t] EXCEPT !.target = NoId, !.outcome = "none"]
      <3>1. /\ j.op = job[t].op /\ j.outcome = "none" /\ j.vanished = job[t].vanished
        BY <1>1 DEF Job
      <3>2. pc' = [pc EXCEPT ![t] = "stat"] /\ job' = [job EXCEPT ![t] = j]
        BY <1>1, <1>6, <2>2 DEF Emit, Goto, GhostJob
      <3>3. \A id \in Ids : Doomed(t, id) => j.op = "evict" /\ id \in j.vanished
        BY <2>1, <3>1 DEF Doomed
      <3>4. QED
        <4> HIDE DEF j
        <4> QED BY <1>3, <2>2, <3>1, <3>2, <3>3
    <2>3. CASE job[t].op # "evict"
      <3>1. \A id \in Ids : ~Doomed(t, id)
        BY <2>3 DEF Doomed
      <3>2. CASE End(t)
        BY <1>4, <3>1, <3>2
      <3>3. CASE Fail(t)
        BY <1>1, <1>3, <3>1, <3>3 DEF Fail, Goto, NoJob
      <3>4. QED BY <1>6, <2>3, <3>2, <3>3 DEF Emit
    <2>4. QED BY <2>2, <2>3
  <1>7. CASE ReturnError(t)
    <2>1. \A id \in Ids : ~Doomed(t, id)
      BY <1>7 DEF ReturnError, Doomed
    <2>2. QED BY <1>4, <1>7, <2>1 DEF ReturnError
  <1>8. CASE EvictNext(t)
    <2>1. pc[t] = "stat" /\ job[t].op = "evict" /\ job[t].unchecked = {}
      BY <1>1, <1>8 DEF EvictNext, JobOK
    <2>2. \A id \in Ids : Doomed(t, id) => id \in job[t].vanished
      BY <2>1 DEF Doomed
    <2>3. ASSUME NEW v \in job[t].vanished,
                 job' = [job EXCEPT ![t].vanished = @ \ {v}, ![t].target = v],
                 Goto(t, "edit")
          PROVE  GhostInv'
      <3> DEFINE j == [job[t] EXCEPT !.vanished = job[t].vanished \ {v}, !.target = v]
      <3>1. /\ j.op = job[t].op /\ j.outcome = job[t].outcome /\ j.target = v
            /\ j.vanished = job[t].vanished \ {v}
        BY <1>1 DEF Job
      <3>2. pc' = [pc EXCEPT ![t] = "edit"] /\ job' = [job EXCEPT ![t] = j]
        BY <1>1, <2>3 DEF Goto
      <3>3. \A id \in Ids : Doomed(t, id) => id \in j.vanished \/ j.target = id
        BY <2>2, <3>1
      <3>4. QED
        <4> HIDE DEF j
        <4> QED BY <1>3, <2>1, <3>1, <3>2, <3>3
    <2>4. CASE job[t].vanished = {} /\ End(t)
      BY <1>4, <2>2, <2>4
    <2>5. QED BY <1>8, <2>3, <2>4 DEF EvictNext
  <1>9. ASSUME NEW v \in Ids, Stat(t, v) PROVE GhostInv'
    <2> DEFINE gone == IF Vanished(job[t].seen[v].dir)
                         THEN job[t].vanished \cup {v} ELSE job[t].vanished
               j == [job[t] EXCEPT !.unchecked = job[t].unchecked \ {v},
                                   !.vanished = gone]
    <2>1. pc[t] = "stat" /\ job[t].op = "evict"
      BY <1>1, <1>9 DEF Stat, JobOK
    <2>2. /\ j.op = job[t].op /\ j.outcome = job[t].outcome /\ j.seen = job[t].seen
          /\ j.unchecked = job[t].unchecked \ {v} /\ j.vanished = gone
      BY <1>1 DEF Job
    <2>3. pc' = [pc EXCEPT ![t] = "stat"] /\ job' = [job EXCEPT ![t] = j]
      BY <1>1, <1>9, <2>1 DEF Stat
    <2>4. ASSUME NEW id \in Ids, loaded[id] # NoExt, disk[loaded[id].dir] = NoPack,
                 Doomed(t, id)
          PROVE  \/ /\ id \in j.unchecked /\ j.seen[id] # NoExt
                    /\ j.seen[id].dir = loaded[id].dir
                 \/ id \in j.vanished
      <3>1. CASE id = v /\ job[t].seen[id].dir = loaded[id].dir
        BY <2>2, <2>4, <3>1 DEF Vanished
      <3>2. CASE id # v
        BY <2>1, <2>2, <2>4, <3>2 DEF Doomed
      <3>3. CASE id \in job[t].vanished
        BY <2>2, <3>3
      <3>4. QED BY <2>1, <2>4, <3>1, <3>2, <3>3 DEF Doomed
    <2>5. QED
      <3> HIDE DEF j, gone
      <3> QED BY <1>3, <2>1, <2>2, <2>3, <2>4
  <1>10. QED BY <1>5, <1>6, <1>7, <1>8, <1>9

LEMMA GhostNext ==
  ASSUME IInv, HotTypeOK, GhostInv, [HotNext]_hotVars
  PROVE  GhostInv'
  <1>1. CASE UNCHANGED <<disk, loaded, unseen, fsEvents, pc, job>>
    BY <1>1 DEF GhostInv, GhostJob, LoadCovered, DraftFrom, GhostCovered, Covered,
                Pending, Doomed
  <1>2. CASE Users
    <2>1. PICK d \in Dirs : \/ Install(d) \/ Overwrite(d) \/ UnlinkListed(d)
                            \/ UnlinkStray(d) \/ Uninstall(d) \/ MoveOut(d)
      BY <1>2 DEF Users
    <2>2. Installs[d] \subseteq Packs /\ NoPack \notin Packs
      BY HotReloadAssumption, SentinelAssumption
    <2>3. PICK how, p : /\ Change(how, d, p)
                        /\ p = NoPack => how \in {"uninstall", "moveOut"}
      BY <2>1, <2>2 DEF Install, Overwrite, UnlinkListed, UnlinkStray, Uninstall, MoveOut
    <2>4. QED BY <2>3, GhostChange
  <1>3. ASSUME NEW t \in Threads, Watch(t) PROVE GhostInv'
    <2>1. CASE HandleRemoved(t) \/ HandleWritten(t)
      BY <2>1, GhostHandle
    <2>2. CASE Exit(t)
      BY <2>2, GhostExit
    <2>3. CASE Continue(t) /\ UNCHANGED watchVars
      BY <2>3, GhostGate, GhostEditAny, GhostStoreMap, GhostRest DEF Continue, EditAny
    <2>4. QED BY <1>3, <2>1, <2>2, <2>3 DEF Watch
  <1>4. QED BY <1>1, <1>2, <1>3
    DEF HotNext, hotVars, vars, watchVars, Gtdx, GtdxPins, Embedder, DropGuard, StartWatcher

\* The invariant holds of every behaviour.
LEMMA GhostInvariance == HotSpec => [](IInv /\ HotTypeOK /\ GhostInv)
  <1>1. HotInit => GhostInv
    BY DEF HotInit, Init, Fresh, NothingLoaded, NoJob, GhostInv, GhostJob, LoadCovered,
           GhostCovered
  <1>2. HotSpec => []IInv
    BY WatchedRuntime, Invariance, PTL
  <1>3. IInv /\ HotTypeOK /\ GhostInv /\ [HotNext]_hotVars => GhostInv'
    BY GhostNext
  <1>4. QED BY <1>1, <1>2, <1>3, HotTypeCorrect, PTL DEF HotSpec

\* Whatever users delete while any number of watchers load and evict, in any
\* order, nothing is left loaded from a directory that is gone, unless its last
\* change reached nobody or was a move.
THEOREM NothingOutlivesItsDirectory == HotSpec => []NoOtherGhost
  <1>1. GhostInv /\ HotTypeOK => NoOtherGhost
    <2> SUFFICES ASSUME GhostInv, HotTypeOK, Settled, NEW id \in Ghosts
                 PROVE  loaded[id].dir \in unseen
      BY DEF NoOtherGhost
    <2>1. id \in Ids /\ loaded[id] # NoExt /\ disk[loaded[id].dir] = NoPack
      BY DEF Ghosts, Present
    <2>2. \A t \in Threads, d \in Dirs : ~Pending(t, d)
      BY DEF Settled, Pending
    <2>3. \A t \in Threads : ~Doomed(t, id)
      BY DEF Settled, Idle, Doomed
    <2>4. loaded[id].dir \in Dirs
      BY <2>1 DEF HotTypeOK, TypeOK, LoadedMap, Entry
    <2>5. QED BY <2>1, <2>2, <2>3, <2>4 DEF GhostInv, GhostCovered, Covered
  <1>2. QED BY <1>1, GhostInvariance, PTL

-----------------------------------------------------------------------------
(* What a subscriber believes *)

OneWatcher == \E t : Threads = {t}

MirrorJob(t) ==
  /\ pc[t] \in {"verify", "anchor", "read", "edit", "stat"} => job[t].outcome = "none"
  /\ pc[t] = "storeMap" => Heard(t) = Present(job[t].draft)
  /\ IF pc[t] \in {"storeRegistry", "emit"}
       THEN Heard(t) = Present(loaded)
       ELSE mirror = Present(loaded)

MirrorInv == \A t \in Threads : MirrorJob(t)

\* What an event does to what a subscriber believes.
LEMMA HeardCases ==
  ASSUME NEW t \in Threads
  PROVE  /\ job[t].outcome = "present" => Heard(t) = mirror \cup {job[t].target}
         /\ job[t].outcome = "absent" => Heard(t) = mirror \ {job[t].target}
         /\ job[t].outcome \notin {"present", "absent"} => Heard(t) = mirror
  BY DEF Heard

\* The event of an edit says what the edit does to the set of loaded ids.
Announced(t, m, id, outcome) ==
  /\ outcome = "present" => Present(m) = Present(loaded) \cup {id}
  /\ outcome = "absent" => Present(m) = Present(loaded) \ {id}
  /\ outcome \notin {"present", "absent"} => Present(m) = Present(loaded)

LEMMA MirrorEdit ==
  ASSUME TypeOK, NEW t \in Threads, MirrorJob(t), pc[t] = "edit",
         NEW m, NEW id, NEW outcome, Edit(t, m, id, outcome), Announced(t, m, id, outcome)
  PROVE  MirrorJob(t)'
  <1>1. /\ pc \in [Threads -> Steps] /\ job \in [Threads -> Job] /\ job[t] \in Job
        /\ mirror = Present(loaded) /\ job[t].outcome = "none"
        /\ UNCHANGED <<loaded, mirror>>
    BY DEF TypeOK, MirrorJob, Edit
  <1>2. CASE Rebuildable(m)
    <2> DEFINE j == [job[t] EXCEPT !.draft = m, !.target = id, !.outcome = outcome]
    <2>1. pc' = [pc EXCEPT ![t] = "storeMap"] /\ job' = [job EXCEPT ![t] = j]
      BY <1>1, <1>2 DEF Edit, Goto
    <2>2. j.draft = m /\ j.target = id /\ j.outcome = outcome
      BY <1>1 DEF Job
    <2> HIDE DEF j
    <2>3. pc'[t] = "storeMap" /\ job'[t] = j
      BY <1>1, <2>1
    <2>4. Heard(t)' = Present(m)
      BY <1>1, <2>2, <2>3 DEF Heard, Announced
    <2>5. Present(loaded') = Present(loaded) /\ Present(job'[t].draft) = Present(m)
      BY <1>1, <2>2, <2>3
    <2>6. QED BY <1>1, <2>3, <2>4, <2>5 DEF MirrorJob, Present
  <1>3. CASE ~Rebuildable(m)
    <2>1. CASE Fail(t)
      <3>1. pc'[t] = "failed"
        BY <1>1, <2>1 DEF Fail, Goto
      <3>2. QED BY <1>1, <3>1 DEF MirrorJob, Present
    <2>2. CASE Goto(t, "emit") /\ UNCHANGED job
      <3>1. pc'[t] = "emit" /\ job'[t] = job[t]
        BY <1>1, <2>2 DEF Goto
      <3>2. QED BY <1>1, <3>1 DEF MirrorJob, Present, Heard
    <2>3. QED BY <1>3, <2>1, <2>2 DEF Edit
  <1>4. QED BY <1>2, <1>3

LEMMA MirrorEditAny ==
  ASSUME IInv, NEW t \in Threads, MirrorJob(t), EditAny(t)
  PROVE  MirrorJob(t)'
  <1>1. TypeOK /\ loaded \in LoadedMap /\ JobOK(t)
    BY DEF IInv, TypeOK, JobInv
  <1>2. \A id \in Ids :
          /\ Present(Without(loaded, id)) = Present(loaded) \ {id}
          /\ id \notin Present(loaded) => Present(Without(loaded, id)) = Present(loaded)
    BY <1>1 DEF Without, Present, LoadedMap
  <1>3. CASE EditRegister(t) \/ EditReload(t)
    <2>1. pc[t] = "edit" /\ job[t].op \in {"register", "reload"}
      BY <1>3 DEF EditRegister, EditReload, Editing
    <2>2. job[t].pack \in Packs /\ job[t].dir \in Dirs
          /\ job[t].component = job[t].pack.component
      BY <1>1, <2>1 DEF JobOK
    <2>3. job[t].pack.id \in Ids /\ NewEntry(t) \in Entry
          /\ NewEntry(t).pack.id = job[t].pack.id
      BY <2>2, PackFacts DEF NewEntry, Entry
    <2>4. NewEntry(t) # NoExt
      BY <2>3, SentinelAssumption DEF Entry
    <2>5. Present(With(loaded, NewEntry(t))) = Present(loaded) \cup {job[t].pack.id}
      BY <1>1, <2>3, <2>4 DEF With, Present, LoadedMap
    <2>6. CASE Edit(t, With(loaded, NewEntry(t)), job[t].pack.id, "present")
      <3>1. Announced(t, With(loaded, NewEntry(t)), job[t].pack.id, "present")
        BY <2>5 DEF Announced
      <3>2. QED BY <1>1, <2>1, <2>6, <3>1, MirrorEdit
    <2>7. CASE Edit(t, loaded, job[t].pack.id, "refused")
      <3>1. Announced(t, loaded, job[t].pack.id, "refused")
        BY DEF Announced
      <3>2. QED BY <1>1, <2>1, <2>7, <3>1, MirrorEdit
    <2>8. QED BY <1>3, <2>6, <2>7 DEF EditRegister, EditReload
  <1>4. CASE EditRemoval(t)
    <2>1. pc[t] = "edit"
      BY <1>4 DEF EditRemoval, Editing
    <2>2. ASSUME NEW id \in LoadedFrom(loaded, job[t].dir),
                 Edit(t, Without(loaded, id), id, "absent")
          PROVE  MirrorJob(t)'
      <3>1. Announced(t, Without(loaded, id), id, "absent")
        BY <1>2 DEF Announced, LoadedFrom, Present
      <3>2. QED BY <1>1, <2>1, <2>2, <3>1, MirrorEdit
    <2>3. CASE Edit(t, loaded, NoId, "none")
      <3>1. Announced(t, loaded, NoId, "none")
        BY DEF Announced
      <3>2. QED BY <1>1, <2>1, <2>3, <3>1, MirrorEdit
    <2>4. QED BY <1>4, <2>2, <2>3 DEF EditRemoval
  <1>5. CASE EditEvict(t)
    <2> DEFINE id == job[t].target
               outcome == IF loaded[id] = NoExt THEN "none" ELSE "absent"
    <2>1. pc[t] = "edit" /\ id \in Ids
      BY <1>1, <1>5 DEF EditEvict, Editing, JobOK
    <2>2. Edit(t, Without(loaded, id), id, outcome)
      BY <1>5 DEF EditEvict
    <2>3. Announced(t, Without(loaded, id), id, outcome)
      BY <1>2, <2>1 DEF Announced, Present
    <2>4. QED
      <3> HIDE DEF id, outcome
      <3> QED BY <1>1, <2>1, <2>2, <2>3, MirrorEdit
  <1>6. QED BY <1>3, <1>4, <1>5 DEF EditAny

\* The other steps of an operation: only the event changes the mirror, and only
\* the store what is loaded.
LEMMA MirrorContinue ==
  ASSUME IInv, NEW t \in Threads, MirrorJob(t), Continue(t)
  PROVE  MirrorJob(t)'
  <1>1. /\ pc \in [Threads -> Steps] /\ job \in [Threads -> Job] /\ job[t] \in Job
        /\ JobOK(t)
    BY DEF IInv, TypeOK, JobInv
  <1>2. ASSUME Fail(t) \/ End(t), mirror' = Present(loaded), loaded' = loaded
        PROVE  MirrorJob(t)'
    <2>1. pc'[t] \in {"failed", "idle"}
      BY <1>1, <1>2 DEF Fail, End, Goto
    <2>2. QED BY <1>2, <2>1 DEF MirrorJob, Present
  <1>3. ASSUME NEW step \in {"anchor", "read", "edit", "stat"}, NEW j,
               pc' = [pc EXCEPT ![t] = step], job' = [job EXCEPT ![t] = j],
               j.outcome = "none", mirror' = Present(loaded), loaded' = loaded
        PROVE  MirrorJob(t)'
    <2>1. pc'[t] = step /\ job'[t] = j
      BY <1>1, <1>3
    <2>2. QED BY <1>3, <2>1 DEF MirrorJob, Present
  <1>4. CASE Verify(t) \/ Anchor(t) \/ ReadComponent(t)
    <2>1. /\ job[t].outcome = "none" /\ mirror' = Present(loaded) /\ loaded' = loaded
      BY <1>4 DEF Verify, Anchor, ReadComponent, MirrorJob
    <2>2. job = [job EXCEPT ![t] = job[t]]
      BY <1>1
    <2>3. CASE Verify(t)
      BY <1>1, <1>2, <1>3, <2>1, <2>3 DEF Verify, Goto, Job
    <2>4. CASE Anchor(t)
      BY <1>1, <1>2, <1>3, <2>1, <2>2, <2>4 DEF Anchor, Goto, Job
    <2>5. CASE ReadComponent(t)
      BY <1>1, <1>2, <1>3, <2>1, <2>5 DEF ReadComponent, Goto, Job
    <2>6. QED BY <1>4, <2>3, <2>4, <2>5
  <1>5. CASE EditAny(t)
    BY <1>5, MirrorEditAny
  <1>6. CASE StoreMap(t)
    <2>1. /\ pc'[t] = "storeRegistry" /\ job' = job /\ mirror' = mirror
          /\ loaded' = job[t].draft /\ pc[t] = "storeMap"
      BY <1>1, <1>6 DEF StoreMap, Goto
    <2>2. Heard(t)' = Heard(t)
      BY <2>1 DEF Heard
    <2>3. QED BY <2>1, <2>2 DEF MirrorJob, Present
  <1>7. CASE StoreRegistry(t)
    <2> DEFINE j == [job[t] EXCEPT !.draft = NothingLoaded, !.pack = NoPack,
                                   !.component = NoComponent]
    <2>1. /\ pc[t] = "storeRegistry" /\ pc'[t] = "emit" /\ job'[t] = j
          /\ UNCHANGED <<mirror, loaded>>
      BY <1>1, <1>7 DEF StoreRegistry, Goto
    <2>2. j.outcome = job[t].outcome /\ j.target = job[t].target
      BY <1>1 DEF Job
    <2> HIDE DEF j
    <2>3. Heard(t)' = Heard(t)
      BY <2>1, <2>2 DEF Heard
    <2>4. QED BY <2>1, <2>3 DEF MirrorJob, Present
  <1>8. CASE Emit(t)
    <2>1. mirror' = Present(loaded) /\ loaded' = loaded
      BY <1>8 DEF Emit, MirrorJob
    <2>2. QED BY <1>1, <1>2, <1>3, <1>8, <2>1 DEF Emit, Goto, Job
  <1>9. CASE EvictNext(t)
    <2>1. job[t].outcome = "none" /\ mirror' = Present(loaded) /\ loaded' = loaded
      BY <1>9 DEF EvictNext, MirrorJob
    <2>2. ASSUME NEW v, Goto(t, "edit"),
                 job' = [job EXCEPT ![t].vanished = @ \ {v}, ![t].target = v]
          PROVE  MirrorJob(t)'
      <3> DEFINE j == [job[t] EXCEPT !.vanished = job[t].vanished \ {v}, !.target = v]
      <3>1. j.outcome = "none" /\ job' = [job EXCEPT ![t] = j]
        BY <1>1, <2>1, <2>2 DEF Job
      <3> HIDE DEF j
      <3>2. QED BY <1>3, <2>1, <2>2, <3>1 DEF Goto
    <2>3. QED BY <1>2, <1>9, <2>1, <2>2 DEF EvictNext
  <1>10. ASSUME NEW id \in Ids, Stat(t, id) PROVE MirrorJob(t)'
    <2>1. /\ job[t].outcome = "none" /\ mirror' = Present(loaded) /\ loaded' = loaded
          /\ pc = [pc EXCEPT ![t] = "stat"]
      BY <1>1, <1>10 DEF Stat, MirrorJob
    <2> DEFINE gone == IF Vanished(job[t].seen[id].dir)
                         THEN job[t].vanished \cup {id} ELSE job[t].vanished
               j == [job[t] EXCEPT !.unchecked = job[t].unchecked \ {id},
                                   !.vanished = gone]
    <2>2. j.outcome = "none" /\ job' = [job EXCEPT ![t] = j]
      BY <1>1, <1>10, <2>1 DEF Stat, Job
    <2> HIDE DEF j
    <2>3. pc' = [pc EXCEPT ![t] = "stat"]
      BY <1>10, <2>1 DEF Stat
    <2>4. QED BY <1>3, <2>1, <2>2, <2>3
  <1>11. CASE ReturnError(t)
    <2>1. mirror' = Present(loaded) /\ loaded' = loaded
      BY <1>11 DEF ReturnError, MirrorJob
    <2>2. QED BY <1>2, <1>11, <2>1 DEF ReturnError
  <1>12. QED
    BY <1>4, <1>5, <1>6, <1>7, <1>8, <1>9, <1>10, <1>11 DEF Continue, EditAny

LEMMA MirrorNext ==
  ASSUME OneWatcher, IInv, MirrorInv, [HotNext]_hotVars
  PROVE  MirrorInv'
  <1>1. CASE UNCHANGED <<loaded, mirror, pc, job>>
    BY <1>1 DEF MirrorInv, MirrorJob, Heard
  <1>2. ASSUME NEW t \in Threads, Watch(t) PROVE MirrorInv'
    <2>1. MirrorJob(t) /\ pc \in [Threads -> Steps] /\ job \in [Threads -> Job]
      BY DEF MirrorInv, IInv, TypeOK
    <2>2. \A u \in Threads : u = t
      BY DEF OneWatcher
    <2>3. CASE Start(t)
      <3>1. /\ UNCHANGED <<loaded, mirror>> /\ pc[t] = "idle"
            /\ pc'[t] \in {"verify", "edit", "stat"} /\ job'[t].outcome = "none"
        BY <2>1, <2>3
        DEF Start, BeginRegister, BeginReload, BeginRemoval, Begin, BeginEvict, Goto, Idle, NoJob
      <3>2. MirrorJob(t)'
        BY <2>1, <3>1 DEF MirrorJob, Present
      <3>3. QED BY <2>2, <3>2 DEF MirrorInv
    <2>4. CASE Continue(t)
      BY <2>1, <2>2, <2>4, MirrorContinue DEF MirrorInv
    <2>5. CASE UNCHANGED vars
      BY <1>1, <2>5 DEF vars
    <2>6. QED BY <1>2, <2>3, <2>4, <2>5, WatchOperates
  <1>3. QED BY <1>1, <1>2
    DEF HotNext, hotVars, vars, Users, Install, Overwrite, UnlinkListed, UnlinkStray,
        Uninstall, MoveOut, Change, WriteDisk, Gtdx, GtdxPins, Embedder, DropGuard, StartWatcher

\* With one watcher, a subscriber that applies its events in order is never wrong
\* about what is loaded while the watcher rests.
THEOREM SubscribersAgree ==
  ASSUME OneWatcher
  PROVE  HotSpec => []MirrorAgrees
  <1>1. HotInit => MirrorInv
    BY DEF HotInit, Init, Fresh, MirrorInv, MirrorJob, Present, NothingLoaded
  <1>2. MirrorInv => MirrorAgrees
    BY DEF MirrorInv, MirrorJob, MirrorAgrees, Idle, OneWatcher
  <1>3. HotSpec => []IInv
    BY WatchedRuntime, Invariance, PTL
  <1>4. IInv /\ MirrorInv /\ [HotNext]_hotVars => MirrorInv'
    BY MirrorNext
  <1>5. QED BY <1>1, <1>2, <1>3, <1>4, PTL DEF HotSpec
=============================================================================
