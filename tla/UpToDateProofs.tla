--------------------------- MODULE UpToDateProofs ---------------------------
(***************************************************************************)
(* Proof that the watchers miss no pack that would load, for every tree of *)
(* directories and any number of watchers and changes: an event of the     *)
(* last change of a directory is handled after whatever could drop, refuse *)
(* or replace what it holds.                                               *)
(***************************************************************************)
EXTENDS HotReloadProofs

-----------------------------------------------------------------------------
(* The inductive invariant *)

\* A write of directory d waits in the channel of watcher t.
Written(t, d) ==
  \E i \in 1 .. Len(fsEvents[t]) :
    fsEvents[t][i].kind \in {"Added", "Modified"} /\ fsEvents[t][i].dir = d

\* Directories UpToDate speaks of: their pack passes the ledger, and their last
\* change was told.
Told(d) ==
  disk[d] # NoPack /\ disk[d].grade = "sound" /\ d \notin unseen /\ d \notin eclipsed

\* What a load leaves in the clone: itself, or what made it an older version.
LoadDraft(t) ==
  LET p == job[t].pack IN
    /\ p \in Packs
    /\ \A id \in Ids \ {p.id} : job[t].draft[id] = loaded[id]
    /\ job[t].draft[p.id] # NoExt
    /\ \/ job[t].draft[p.id].dir = job[t].dir /\ job[t].draft[p.id].pack = p
       \/ /\ job[t].draft[p.id] = loaded[p.id]
          /\ IsDowngrade(loaded[p.id].pack.version, p.version)

\* What the job of a watcher can be.
WatchJob(t) ==
  /\ job[t].op \in {"none", "reload", "evict"}
  /\ job[t].pack # NoPack => job[t].op = "reload" /\ job[t].dir \in Dirs
  /\ pc[t] = "verify" => job[t].dir \in Dirs
  /\ pc[t] = "storeMap" => job[t].op \in {"reload", "evict"}
  /\ pc[t] = "storeMap" /\ job[t].op = "reload" => LoadDraft(t)
  /\ pc[t] = "storeMap" /\ job[t].op = "evict" =>
       \A id \in Ids \ {job[t].target} : job[t].draft[id] = loaded[id]

\* No other directory has a part in the id of directory d.
Sole(d) ==
  LET id == disk[d].id IN
    /\ \A e \in Dirs \ {d} : disk[e] = NoPack \/ disk[e].id # id
    /\ loaded[id] = NoExt \/ loaded[id].dir = d
    /\ \A t \in Threads : job[t].pack = NoPack \/ job[t].pack.id # id \/ job[t].dir = d

\* An eviction that will drop that id, and a load of d that read another pack,
\* began before the last change of d, which the thread has still to handle.
Outdated(t, d) ==
  LET id == disk[d].id IN
    \/ /\ job[t].op = "evict"
       /\ \/ id \in job[t].unchecked /\ job[t].seen[id].dir # d
          \/ id \in job[t].vanished
          \/ pc[t] \in {"edit", "storeMap"} /\ job[t].target = id
    \/ /\ job[t].op = "reload"
       /\ job[t].dir = d
       /\ pc[t] \in {"anchor", "read", "edit", "storeMap"}
       /\ job[t].pack # disk[d]

\* The load of d is under way.
Loading(t, d) ==
  /\ job[t].op = "reload"
  /\ job[t].dir = d
  /\ \/ pc[t] = "verify"
     \/ pc[t] \in {"anchor", "read", "edit", "storeMap"} /\ job[t].pack = disk[d]

\* What is loaded under the id of d is its pack or a newer one.
Good(d) ==
  LET p == disk[d] IN
    /\ loaded[p.id] # NoExt
    /\ \/ loaded[p.id].pack = p
       \/ IsDowngrade(loaded[p.id].pack.version, p.version)

Served(d) ==
  pins[disk[d].id] \in {NoKey, disk[d].key}
  => Good(d) \/ \E t \in Threads : Written(t, d) \/ Loading(t, d)

MissInv ==
  /\ \A t \in Threads : WatchJob(t)
  /\ \A d \in Dirs :
       Told(d) => /\ Sole(d)
                  /\ \A t \in Threads : Outdated(t, d) => Written(t, d)
                  /\ Served(d)

-----------------------------------------------------------------------------
(* Steps that change neither the tree nor what is loaded *)

LEMMA ToldFacts ==
  ASSUME TypeOK, NEW d \in Dirs, Told(d)
  PROVE  /\ disk[d] \in Packs /\ disk[d].id \in Ids /\ disk[d].key \in Keys
         /\ disk[d].key # NoKey /\ Verifiable(disk[d])
  BY PackFacts, SentinelAssumption DEF TypeOK, Told, Verifiable

\* What a step of thread t must leave true of directory d.
Keeps(t, d) ==
  /\ job'[t].pack = NoPack \/ job'[t].pack.id # disk[d].id \/ job'[t].dir = d
  /\ Outdated(t, d)' => Written(t, d) \/ Outdated(t, d)
  /\ Loading(t, d) /\ pins'[disk[d].id] \in {NoKey, disk[d].key}
       => Good(d) \/ Loading(t, d)'

LEMMA MissLocal ==
  ASSUME TypeOK, MissInv, NEW t \in Threads, Alone(t), PinsKept, UNCHANGED eclipsed,
         WatchJob(t)', \A d \in Dirs : Told(d) => Keeps(t, d)
  PROVE  MissInv'
  <1>1. \A u \in Threads : WatchJob(u)'
    BY DEF MissInv, WatchJob, LoadDraft, Alone
  <1>2. ASSUME NEW d \in Dirs, Told(d)'
        PROVE  Sole(d)' /\ (\A u \in Threads : Outdated(u, d)' => Written(u, d)') /\ Served(d)'
    <2>1. Told(d) /\ disk' = disk /\ loaded' = loaded
      BY <1>2 DEF Told, Alone
    <2>2. Sole(d) /\ (\A u \in Threads : Outdated(u, d) => Written(u, d)) /\ Served(d)
      BY <2>1 DEF MissInv
    <2>3. Keeps(t, d)
      BY <2>1
    <2>4. \A u \in Threads : Written(u, d) => Written(u, d)'
      BY DEF Written, Alone
    <2>5. Sole(d)'
      BY <2>1, <2>2, <2>3 DEF Sole, Keeps, Alone
    <2>6. \A u \in Threads \ {t} :
            (Outdated(u, d)' => Outdated(u, d)) /\ (Loading(u, d) => Loading(u, d)')
      BY DEF Outdated, Loading, Alone
    <2>7. Served(d)'
      <3> SUFFICES ASSUME pins'[disk[d].id] \in {NoKey, disk[d].key}
                   PROVE  \/ Good(d)
                          \/ \E u \in Threads : Written(u, d)' \/ Loading(u, d)'
        BY <2>1 DEF Served, Good
      <3>1. pins[disk[d].id] \in {NoKey, disk[d].key}
        BY <2>1, ToldFacts DEF PinsKept
      <3>2. Good(d) \/ \E u \in Threads : Written(u, d) \/ Loading(u, d)
        BY <2>2, <3>1 DEF Served
      <3>3. QED BY <2>3, <2>4, <2>6, <3>2 DEF Keeps
    <2>8. QED BY <2>2, <2>3, <2>4, <2>5, <2>6, <2>7 DEF Keeps
  <1>3. QED BY <1>1, <1>2 DEF MissInv

-----------------------------------------------------------------------------
(* Changes, and the events made of them *)

\* A write is put behind what waits, in every channel or the change counts as
\* unseen.
LEMMA WriteIsTold ==
  ASSUME HotTypeOK, NEW how, NEW d \in Dirs, NEW p, Change(how, d, p)
  PROVE  /\ \A t \in Threads, e \in Dirs : Written(t, e) => Written(t, e)'
         /\ how \in {"install", "overwrite"} /\ d \notin unseen'
              => \A t \in Threads : Written(t, d)'
         /\ how = "unlinkStray" => d \in unseen'
  <1>1. PICK reached \in Reached :
          /\ unseen' = IF how \in {"moveOut", "unlinkStray"} \/ reached # Threads
                        THEN unseen \cup {d} ELSE unseen \ {d}
          /\ fsEvents' = [t \in Threads |->
               IF t \in reached
                 THEN Append(fsEvents[t], [kind |-> Classify(NotifyKind[how]), dir |-> d])
                 ELSE fsEvents[t]]
    BY DEF Change
  <1> DEFINE e == [kind |-> Classify(NotifyKind[how]), dir |-> d]
  <1>2. \A t \in Threads : fsEvents[t] \in Seq(FsEvent)
    BY DEF HotTypeOK
  <1>3. how \in DOMAIN NotifyKind
    BY HotReloadAssumption DEF Change
  <1>4. e \in FsEvent
    BY <1>3, ClassifyType DEF FsEvent
  <1>5. ASSUME NEW t \in Threads, NEW c \in Dirs, Written(t, c)
        PROVE  Written(t, c)'
    <2>1. PICK i \in 1 .. Len(fsEvents[t]) :
            fsEvents[t][i].kind \in {"Added", "Modified"} /\ fsEvents[t][i].dir = c
      BY <1>5 DEF Written
    <2>2. CASE t \in reached
      <3> HIDE DEF e
      <3>1. fsEvents'[t] = Append(fsEvents[t], e)
        BY <1>1, <2>2 DEF e
      <3>2. i \in 1 .. Len(fsEvents'[t]) /\ fsEvents'[t][i] = fsEvents[t][i]
        BY <1>2, <1>4, <3>1
      <3>3. QED BY <2>1, <3>2 DEF Written
    <2>3. CASE t \notin reached
      BY <1>1, <2>1, <2>3 DEF Written
    <2>4. QED BY <2>2, <2>3
  <1>6. ASSUME how \in {"install", "overwrite"}, d \notin unseen', NEW t \in Threads
        PROVE  Written(t, d)'
    <2>1. reached = Threads
      BY <1>1, <1>6
    <2>2. e.kind \in {"Added", "Modified"} /\ e.dir = d
      BY <1>6 DEF NotifyKind, Classify
    <2> HIDE DEF e
    <2>3. fsEvents'[t] = Append(fsEvents[t], e)
      BY <1>1, <2>1 DEF e
    <2>4. /\ Len(fsEvents[t]) + 1 \in 1 .. Len(fsEvents'[t])
          /\ fsEvents'[t][Len(fsEvents[t]) + 1] = e
      BY <1>2, <1>4, <2>3
    <2>5. QED BY <2>2, <2>4 DEF Written
  <1>7. QED BY <1>1, <1>5, <1>6

LEMMA MissChange ==
  ASSUME HotTypeOK, MissInv, Threads # {},
         NEW how, NEW d \in Dirs, NEW p \in Packs \cup {NoPack}, Change(how, d, p),
         p # NoPack /\ p.grade = "sound" => how \in {"install", "overwrite", "unlinkStray"}
  PROVE  MissInv'
  <1>1. /\ disk' = [disk EXCEPT ![d] = p] /\ disk \in [Dirs -> Packs \cup {NoPack}]
        /\ UNCHANGED <<loaded, pins, pc, job>>
    BY DEF Change, WriteDisk, HotTypeOK, TypeOK
  <1>2. /\ \A t \in Threads, e \in Dirs : Written(t, e) => Written(t, e)'
        /\ \A e \in Dirs \ {d} : e \in unseen => e \in unseen'
        /\ \A e \in Dirs \ {d} : e \in eclipsed \cup Rivals(d, p) => e \in eclipsed'
        /\ Rivals(d, p) \cup Sources(d, p) # {} => d \in eclipsed'
    BY WriteIsTold, ChangeIsTold DEF Change
  <1>3. \A t \in Threads : WatchJob(t)'
    BY <1>1 DEF MissInv, WatchJob, LoadDraft
  <1>4. ASSUME NEW e \in Dirs, e # d, Told(e)'
        PROVE  Sole(e)' /\ (\A t \in Threads : Outdated(t, e)' => Written(t, e)') /\ Served(e)'
    <2>1. disk'[e] = disk[e]
      BY <1>1, <1>4
    <2>2. Told(e) /\ e \notin Rivals(d, p)
      BY <1>2, <1>4, <2>1 DEF Told
    <2>3. Sole(e) /\ (\A t \in Threads : Outdated(t, e) => Written(t, e)) /\ Served(e)
      BY <2>2 DEF MissInv
    <2>4. p = NoPack \/ p.id # disk[e].id
      BY <1>4, <2>2 DEF Rivals, Told
    <2>5. Sole(e)'
      BY <1>1, <2>1, <2>3, <2>4 DEF Sole
    <2>6. \A t \in Threads :
            (Outdated(t, e)' => Outdated(t, e)) /\ (Loading(t, e) => Loading(t, e)')
      BY <1>1, <2>1 DEF Outdated, Loading
    <2>7. Good(e) => Good(e)'
      BY <1>1, <2>1 DEF Good
    <2>8. QED BY <1>1, <1>2, <2>1, <2>3, <2>5, <2>6, <2>7 DEF Served
  <1>5. ASSUME Told(d)'
        PROVE  Sole(d)' /\ (\A t \in Threads : Outdated(t, d)' => Written(t, d)') /\ Served(d)'
    <2>1. disk'[d] = p /\ p # NoPack /\ p.grade = "sound"
      BY <1>1, <1>5 DEF Told
    <2>2. \A t \in Threads : Written(t, d)'
      BY <1>5, <2>1, WriteIsTold DEF Told
    <2>3. Rivals(d, p) = {} /\ Sources(d, p) = {}
      BY <1>2, <1>5 DEF Told
    <2>4. p \in Packs /\ p.id \in Ids
      BY <2>1, PackFacts
    <2>5. \A e \in Dirs \ {d} : disk'[e] = NoPack \/ disk'[e].id # p.id
      BY <1>1, <2>1, <2>3 DEF Rivals
    <2>6. loaded[p.id] = NoExt \/ loaded[p.id].dir = d
      <3>1. loaded[p.id] # NoExt => loaded[p.id].dir \in Dirs
        BY <2>4 DEF HotTypeOK, TypeOK, LoadedMap, Entry
      <3>2. QED BY <2>1, <2>3, <3>1 DEF Sources
    <2>7. \A t \in Threads : job[t].pack = NoPack \/ job[t].pack.id # p.id \/ job[t].dir = d
      <3>1. \A t \in Threads : job[t].pack # NoPack => job[t].dir \in Dirs
        BY DEF MissInv, WatchJob
      <3>2. QED BY <2>1, <2>3, <3>1 DEF Sources
    <2>8. Sole(d)'
      BY <1>1, <2>1, <2>5, <2>6, <2>7 DEF Sole
    <2>9. QED BY <2>2, <2>8 DEF Served
  <1>6. QED BY <1>3, <1>4, <1>5 DEF MissInv

\* Taking an event leaves the others where they are; one of a write of d is
\* taken to load d.
LEMMA ReceiveTakesOneWrite ==
  ASSUME HotTypeOK, NEW t \in Threads, Receive(t)
  PROVE  /\ \A u \in Threads \ {t}, d \in Dirs : Written(u, d) => Written(u, d)'
         /\ \A d \in Dirs : Written(t, d) =>
              \/ /\ Head(fsEvents[t]).kind \in {"Added", "Modified"}
                 /\ Head(fsEvents[t]).dir = d
              \/ Written(t, d)'
  <1>1. /\ fsEvents[t] \in Seq(FsEvent) /\ fsEvents[t] # <<>>
        /\ fsEvents' = [fsEvents EXCEPT ![t] = Tail(@)]
        /\ fsEvents \in [Threads -> Seq(FsEvent)]
    BY DEF Receive, HotTypeOK
  <1>2. \A u \in Threads \ {t}, d \in Dirs : Written(u, d) => Written(u, d)'
    BY <1>1 DEF Written
  <1>3. ASSUME NEW d \in Dirs, Written(t, d),
               Head(fsEvents[t]).kind \notin {"Added", "Modified"}
               \/ Head(fsEvents[t]).dir # d
        PROVE  Written(t, d)'
    <2>1. PICK i \in 1 .. Len(fsEvents[t]) :
            fsEvents[t][i].kind \in {"Added", "Modified"} /\ fsEvents[t][i].dir = d
      BY <1>3 DEF Written
    <2>2. i # 1
      BY <1>1, <1>3, <2>1
    <2>3. fsEvents'[t] = Tail(fsEvents[t])
      BY <1>1
    <2>4. i - 1 \in 1 .. Len(fsEvents'[t]) /\ fsEvents'[t][i - 1] = fsEvents[t][i]
      BY <1>1, <2>2, <2>3
    <2>5. QED BY <2>1, <2>4 DEF Written
  <1>4. QED BY <1>2, <1>3

\* An idle thread that takes an event and starts an operation, or none.
LEMMA MissReceive ==
  ASSUME HotTypeOK, MissInv, NEW t \in Threads, Receive(t), WatchJob(t)',
         \A u \in Threads \ {t} : pc'[u] = pc[u] /\ job'[u] = job[u],
         UNCHANGED <<disk, pins, loaded>>,
         \A d \in Dirs : Told(d) =>
           /\ job'[t].pack = NoPack \/ job'[t].pack.id # disk[d].id \/ job'[t].dir = d
           /\ Outdated(t, d)' => Written(t, d)',
         \A d \in Dirs : Told(d) /\ Head(fsEvents[t]).dir = d
                        /\ Head(fsEvents[t]).kind \in {"Added", "Modified"}
                        => Loading(t, d)'
  PROVE  MissInv'
  <1>1. unseen' = unseen /\ eclipsed' = eclipsed /\ pc[t] = "idle"
    BY ReceiveTakesOne DEF Receive
  <1>2. \A u \in Threads : WatchJob(u)'
    BY DEF MissInv, WatchJob, LoadDraft
  <1>3. ASSUME NEW d \in Dirs, Told(d)'
        PROVE  Sole(d)' /\ (\A u \in Threads : Outdated(u, d)' => Written(u, d)') /\ Served(d)'
    <2>1. Told(d)
      BY <1>1, <1>3 DEF Told
    <2>2. Sole(d) /\ (\A u \in Threads : Outdated(u, d) => Written(u, d)) /\ Served(d)
      BY <2>1 DEF MissInv
    <2>3. \A u \in Threads \ {t} : Written(u, d) => Written(u, d)'
      BY ReceiveTakesOneWrite
    <2>4. Written(t, d) => Written(t, d)' \/ Loading(t, d)'
      BY <2>1, ReceiveTakesOneWrite
    <2>5. \A u \in Threads \ {t} :
            (Outdated(u, d)' => Outdated(u, d)) /\ (Loading(u, d) => Loading(u, d)')
      BY DEF Outdated, Loading
    <2>6. ~Loading(t, d)
      BY <1>1 DEF Loading
    <2>7. Sole(d)'
      BY <2>1, <2>2 DEF Sole
    <2>8. Served(d)'
      BY <2>2, <2>3, <2>4, <2>5, <2>6 DEF Served, Good
    <2>9. QED BY <2>1, <2>2, <2>3, <2>5, <2>7, <2>8
  <1>4. QED BY <1>2, <1>3 DEF MissInv

LEMMA MissHandle ==
  ASSUME HotTypeOK, MissInv, NEW t \in Threads, HandleRemoved(t) \/ HandleWritten(t)
  PROVE  MissInv'
  <1>1. /\ Receive(t) /\ pc[t] = "idle" /\ WatchJob(t)
        /\ Head(fsEvents[t]) \in FsEvent
    BY ReceiveTakesOne DEF HandleRemoved, HandleWritten, MissInv
  <1>2. pc \in [Threads -> Steps] /\ job \in [Threads -> Job] /\ loaded \in LoadedMap
    BY DEF HotTypeOK, TypeOK
  <1>3. CASE HandleRemoved(t)
    <2> DEFINE j == [NoJob EXCEPT !.op = "evict", !.seen = loaded,
                                  !.unchecked = Present(loaded)]
    <2>1. /\ pc' = [pc EXCEPT ![t] = "stat"] /\ job' = [job EXCEPT ![t] = j]
          /\ UNCHANGED <<disk, pins, loaded>> /\ Head(fsEvents[t]).kind = "Removed"
      BY <1>3 DEF HandleRemoved, BeginEvict, Goto
    <2>2. /\ j.op = "evict" /\ j.seen = loaded /\ j.unchecked = Present(loaded)
          /\ j.vanished = {} /\ j.pack = NoPack
      BY DEF NoJob
    <2> HIDE DEF j
    <2>3. pc'[t] = "stat" /\ job'[t] = j
      BY <1>2, <2>1
    <2>4. ASSUME NEW d \in Dirs, Told(d) PROVE ~Outdated(t, d)'
      <3>1. loaded[disk[d].id] # NoExt => loaded[disk[d].id].dir = d
        BY <2>4 DEF MissInv, Sole
      <3>2. disk'[d] = disk[d]
        BY <2>1
      <3>3. QED BY <2>2, <2>3, <3>1, <3>2 DEF Outdated, Present
    <2>5. WatchJob(t)'
      BY <2>2, <2>3 DEF WatchJob
    <2>6. QED BY <1>1, <1>2, <2>1, <2>2, <2>3, <2>4, <2>5, MissReceive
  <1>4. CASE HandleWritten(t)
    <2>1. PICK d \in Dirs : Head(fsEvents[t]).dir = d
      BY <1>1 DEF FsEvent
    <2>2. CASE disk[d] = NoPack
      <3>1. OwningDir(Head(fsEvents[t])) \notin Dirs
        BY <2>1, <2>2, SentinelAssumption DEF OwningDir
      <3>2. UNCHANGED vars
        BY <1>4, <3>1 DEF HandleWritten
      <3>3. \A c \in Dirs : Told(c) => c # d
        BY <2>2 DEF Told
      <3>4. ASSUME NEW c \in Dirs, Told(c)
            PROVE  /\ job'[t].pack = NoPack \/ job'[t].pack.id # disk[c].id \/ job'[t].dir = c
                   /\ Outdated(t, c)' => Written(t, c)'
        <4>1. Sole(c) /\ (Outdated(t, c) => Written(t, c))
          BY <3>4 DEF MissInv
        <4>2. Outdated(t, c)' => Outdated(t, c)
          BY <3>2 DEF Outdated, vars
        <4>3. Written(t, c) => Written(t, c)'
          BY <1>1, <2>1, <3>3, <3>4, ReceiveTakesOneWrite
        <4>4. QED BY <3>2, <4>1, <4>2, <4>3 DEF Sole, vars
      <3>5. WatchJob(t)'
        BY <1>1, <3>2 DEF WatchJob, LoadDraft, vars
      <3>6. /\ \A u \in Threads : pc'[u] = pc[u] /\ job'[u] = job[u]
            /\ UNCHANGED <<disk, pins, loaded>>
        BY <3>2 DEF vars
      <3>7. QED BY <1>1, <2>1, <3>3, <3>4, <3>5, <3>6, MissReceive
    <2>3. CASE disk[d] # NoPack
      <3> DEFINE j == [NoJob EXCEPT !.op = "reload", !.dir = d]
      <3>1. OwningDir(Head(fsEvents[t])) = d
        BY <2>1, <2>3 DEF OwningDir
      <3>2. BeginReload(t, d)
        BY <1>4, <2>1, <3>1, SentinelAssumption DEF HandleWritten
      <3>3. /\ pc' = [pc EXCEPT ![t] = "verify"] /\ job' = [job EXCEPT ![t] = j]
            /\ UNCHANGED <<disk, pins, loaded>>
        BY <3>2 DEF BeginReload, Begin, Goto
      <3>4. j.op = "reload" /\ j.dir = d /\ j.pack = NoPack /\ j.vanished = {}
        BY DEF NoJob
      <3> HIDE DEF j
      <3>5. pc'[t] = "verify" /\ job'[t] = j
        BY <1>2, <3>3
      <3>6. WatchJob(t)'
        BY <2>1, <3>4, <3>5 DEF WatchJob
      <3>7. \A c \in Dirs : ~Outdated(t, c)'
        BY <3>4, <3>5 DEF Outdated
      <3>8. Loading(t, d)'
        BY <3>4, <3>5 DEF Loading
      <3>9. /\ \A u \in Threads \ {t} : pc'[u] = pc[u] /\ job'[u] = job[u]
            /\ job'[t].pack = NoPack
        BY <1>2, <3>3, <3>4, <3>5
      <3>10. QED BY <1>1, <2>1, <3>3, <3>6, <3>7, <3>8, <3>9, MissReceive
    <2>4. QED BY <2>2, <2>3
  <1>5. QED BY <1>3, <1>4

LEMMA MissExit ==
  ASSUME HotTypeOK, MissInv, NEW t \in Threads, Exit(t)
  PROVE  MissInv'
  <1>1. /\ UNCHANGED <<disk, pins, loaded, pc, job, eclipsed>> /\ pc[t] = "idle"
        /\ unseen \subseteq unseen' /\ \A u \in Threads \ {t} : fsEvents'[u] = fsEvents[u]
    BY DEF Exit, vars, Idle, HotTypeOK
  <1>2. \A d \in Dirs : Written(t, d) => d \in unseen'
    <2>1. fsEvents[t] \in Seq(FsEvent)
      BY DEF HotTypeOK
    <2>2. ASSUME NEW d \in Dirs, NEW i \in 1 .. Len(fsEvents[t]), fsEvents[t][i].dir = d
          PROVE  d \in unseen'
      <3>1. i \in DOMAIN fsEvents[t]
        BY <2>1, <2>2
      <3>2. QED BY <2>2, <3>1 DEF Exit
    <2>3. QED BY <2>2 DEF Written
  <1>3. \A u \in Threads \ {t}, d \in Dirs : Written(u, d) => Written(u, d)'
    BY <1>1 DEF Written
  <1>4. \A u \in Threads : WatchJob(u)'
    BY <1>1 DEF MissInv, WatchJob, LoadDraft
  <1>5. ASSUME NEW d \in Dirs, Told(d)'
        PROVE  Sole(d)' /\ (\A u \in Threads : Outdated(u, d)' => Written(u, d)') /\ Served(d)'
    <2>1. Told(d) /\ ~Written(t, d)
      BY <1>1, <1>2, <1>5 DEF Told
    <2>2. Sole(d) /\ (\A u \in Threads : Outdated(u, d) => Written(u, d)) /\ Served(d)
      BY <2>1 DEF MissInv
    <2>3. \A u \in Threads :
            (Outdated(u, d)' => Outdated(u, d)) /\ (Loading(u, d) => Loading(u, d)')
      BY <1>1 DEF Outdated, Loading
    <2>4. \A u \in Threads : Written(u, d) => Written(u, d)'
      BY <1>3, <2>1
    <2>5. Sole(d)'
      BY <1>1, <2>2 DEF Sole
    <2>6. Served(d)'
      BY <1>1, <2>2, <2>3, <2>4 DEF Served, Good
    <2>7. QED BY <2>2, <2>3, <2>4, <2>5, <2>6
  <1>6. QED BY <1>4, <1>5 DEF MissInv

-----------------------------------------------------------------------------
(* The steps of an operation *)

\* What a step of thread t that is neither a start nor the store of a map leaves.
LEMMA AloneStep ==
  ASSUME IInv, UNCHANGED watchVars, NEW t \in Threads, NEW step, NEW j,
         pc' = [pc EXCEPT ![t] = step], job' = [job EXCEPT ![t] = j],
         UNCHANGED <<disk, loaded>>
  PROVE  /\ pc'[t] = step /\ job'[t] = j /\ Alone(t) /\ UNCHANGED eclipsed
  BY DEF IInv, TypeOK, watchVars, Alone

LEMMA FailAlone ==
  ASSUME IInv, MissInv, UNCHANGED watchVars, NEW t \in Threads, Fail(t) \/ End(t),
         UNCHANGED <<disk, loaded>>, PinsKept,
         \A d \in Dirs : Told(d) /\ pins'[disk[d].id] \in {NoKey, disk[d].key}
                        => ~Loading(t, d) \/ Good(d)
  PROVE  MissInv'
  <1>1. ASSUME NEW step \in {"failed", "idle"}, NEW j, pc' = [pc EXCEPT ![t] = step],
               job' = [job EXCEPT ![t] = j], j.op \in {job[t].op, "none"},
               j.pack = NoPack, j.vanished = {}, j.unchecked = {}
        PROVE  MissInv'
    <2>1. pc'[t] = step /\ job'[t] = j /\ Alone(t) /\ UNCHANGED eclipsed
      BY <1>1, AloneStep
    <2>2. WatchJob(t)'
      BY <1>1, <2>1 DEF MissInv, WatchJob
    <2>3. \A d \in Dirs : Told(d) => Keeps(t, d)
      BY <1>1, <2>1 DEF Keeps, Outdated
    <2>4. QED BY <2>1, <2>2, <2>3, MissLocal DEF IInv
  <1>2. CASE Fail(t)
    <2> DEFINE j == [NoJob EXCEPT !.op = job[t].op, !.pinned = job[t].pinned]
    <2>1. j.op = job[t].op /\ j.pack = NoPack /\ j.vanished = {} /\ j.unchecked = {}
      BY DEF NoJob
    <2>2. pc' = [pc EXCEPT ![t] = "failed"] /\ job' = [job EXCEPT ![t] = j]
      BY <1>2 DEF Fail, Goto
    <2> HIDE DEF j
    <2>3. QED BY <1>1, <2>1, <2>2
  <1>3. CASE End(t)
    <2>1. /\ NoJob.op = "none" /\ NoJob.pack = NoPack
          /\ NoJob.vanished = {} /\ NoJob.unchecked = {}
      BY DEF NoJob
    <2>2. QED BY <1>1, <1>3, <2>1 DEF End, Goto
  <1>4. QED BY <1>2, <1>3

\* A load of d reads the pack d holds, and nothing of the gate refuses it.
LEMMA MissGate ==
  ASSUME IInv, MissInv, UNCHANGED watchVars, NEW t \in Threads,
         Verify(t) \/ Anchor(t) \/ ReadComponent(t)
  PROVE  MissInv'
  <1>1. /\ pc[t] \in {"verify", "anchor", "read"} /\ job[t].op = "reload"
        /\ job \in [Threads -> Job] /\ job[t] \in Job /\ job[t].dir \in Dirs
        /\ WatchJob(t) /\ JobOK(t)
    BY DEF IInv, TypeOK, JobInv, JobOK, MissInv, WatchJob, Verify, Anchor, ReadComponent
  <1>2. UNCHANGED <<disk, loaded>> /\ PinsKept
    BY DEF Verify, Anchor, ReadComponent, PinsKept, IInv, TypeOK
  <1>3. ASSUME NEW step \in {"anchor", "read", "edit"}, NEW j, pc' = [pc EXCEPT ![t] = step],
               job' = [job EXCEPT ![t] = j], j.op = "reload", j.dir = job[t].dir,
               j.pack # NoPack,
               IF pc[t] = "verify" THEN j.pack = disk[job[t].dir] ELSE j.pack = job[t].pack
        PROVE  MissInv'
    <2>1. pc'[t] = step /\ job'[t] = j /\ Alone(t) /\ UNCHANGED eclipsed
      BY <1>2, <1>3, AloneStep
    <2>2. WatchJob(t)'
      BY <1>1, <1>3, <2>1 DEF WatchJob
    <2>3. ASSUME NEW d \in Dirs, Told(d) PROVE Keeps(t, d)
      <3>1. Sole(d) /\ disk[d] # NoPack
        BY <2>3 DEF MissInv, Told
      <3>2. disk'[d] = disk[d]
        BY <1>2
      <3>3. CASE pc[t] = "verify"
        BY <1>1, <1>3, <2>1, <3>1, <3>2, <3>3 DEF Keeps, Outdated, Loading, Sole
      <3>4. CASE pc[t] # "verify"
        BY <1>1, <1>3, <2>1, <3>1, <3>2, <3>4 DEF Keeps, Outdated, Loading, Sole
      <3>5. QED BY <3>3, <3>4
    <2>4. QED BY <1>2, <2>1, <2>2, <2>3, MissLocal DEF IInv
  <1>4. CASE Verify(t)
    <2>1. CASE Fail(t) /\ ~Verifiable(disk[job[t].dir])
      <3>1. \A d \in Dirs : Told(d) => ~Loading(t, d)
        BY <1>4, <2>1, ToldFacts DEF Loading, Verify, IInv
      <3>2. QED BY <1>2, <2>1, <3>1, FailAlone
    <2>2. CASE /\ Verifiable(disk[job[t].dir]) /\ Goto(t, "anchor")
               /\ job' = [job EXCEPT ![t].pack = disk[job[t].dir]]
      <3> DEFINE j == [job[t] EXCEPT !.pack = disk[job[t].dir]]
      <3>1. /\ j.op = "reload" /\ j.dir = job[t].dir /\ j.pack = disk[job[t].dir]
            /\ job' = [job EXCEPT ![t] = j]
        BY <1>1, <2>2 DEF Job
      <3> HIDE DEF j
      <3>2. QED BY <1>3, <1>4, <2>2, <3>1 DEF Verify, Verifiable, Goto
    <2>3. QED BY <1>4, <2>1, <2>2 DEF Verify
  <1>5. job[t].pack # NoPack <=> job[t].pack \in Packs
    BY <1>1, SentinelAssumption DEF Job
  <1>6. CASE Anchor(t)
    <2>1. pc[t] = "anchor" /\ job[t].pack # NoPack
      BY <1>1, <1>5, <1>6 DEF Anchor, JobOK
    <2>2. CASE Fail(t) /\ pins[job[t].pack.id] \notin {NoKey, job[t].pack.key} /\ UNCHANGED pins
      <3>1. \A d \in Dirs : Told(d) /\ pins'[disk[d].id] \in {NoKey, disk[d].key}
                            => ~Loading(t, d)
        BY <2>1, <2>2 DEF Loading
      <3>2. QED BY <1>2, <2>2, <3>1, FailAlone
    <2>3. CASE Goto(t, "read") /\ job' = [job EXCEPT ![t].pinned = TRUE]
      <3> DEFINE j == [job[t] EXCEPT !.pinned = TRUE]
      <3>1. /\ j.op = "reload" /\ j.dir = job[t].dir /\ j.pack = job[t].pack
            /\ job' = [job EXCEPT ![t] = j]
        BY <1>1, <2>3 DEF Job
      <3> HIDE DEF j
      <3>2. QED BY <1>3, <2>1, <2>3, <3>1 DEF Goto
    <2>4. CASE Goto(t, "read") /\ UNCHANGED job
      <3>1. job' = [job EXCEPT ![t] = job[t]]
        BY <1>1, <2>4
      <3>2. QED BY <1>1, <1>3, <2>1, <2>4, <3>1 DEF Goto
    <2>5. QED BY <1>6, <2>2, <2>3, <2>4 DEF Anchor
  <1>7. CASE ReadComponent(t)
    <2>1. pc[t] = "read" /\ job[t].pack # NoPack
      BY <1>1, <1>5, <1>7 DEF ReadComponent, JobOK
    <2>2. CASE /\ Fail(t) /\ UNCHANGED pins
               /\ ~(Vouched(t, disk[job[t].dir]) /\ job[t].pack.grade # "unloadable")
      <3>1. \A d \in Dirs : Told(d) => ~Loading(t, d)
        BY <2>1, <2>2 DEF Loading, Vouched, Told
      <3>2. QED BY <1>2, <2>2, <3>1, FailAlone
    <2>3. ASSUME NEW c, Goto(t, "edit"), job' = [job EXCEPT ![t].component = c]
          PROVE  MissInv'
      <3> DEFINE j == [job[t] EXCEPT !.component = c]
      <3>1. /\ j.op = "reload" /\ j.dir = job[t].dir /\ j.pack = job[t].pack
            /\ job' = [job EXCEPT ![t] = j]
        BY <1>1, <2>3 DEF Job
      <3> HIDE DEF j
      <3>2. QED BY <1>3, <2>1, <2>3, <3>1 DEF Goto
    <2>4. QED BY <1>7, <2>2, <2>3 DEF ReadComponent
  <1>8. QED BY <1>4, <1>6, <1>7

\* A clone that is about to be published still owes what its thread did.
LEMMA MissDraft ==
  ASSUME IInv, MissInv, UNCHANGED watchVars, NEW t \in Threads,
         NEW m, NEW id, NEW outcome, Edit(t, m, id, outcome), Rebuildable(m), pc[t] = "edit",
         job[t].op \in {"reload", "evict"},
         job[t].op = "evict" => /\ id = job[t].target
                                /\ \A i \in Ids \ {id} : m[i] = loaded[i],
         job[t].op = "reload" =>
           LET p == job[t].pack IN
             /\ p \in Packs
             /\ \A i \in Ids \ {p.id} : m[i] = loaded[i]
             /\ m[p.id] # NoExt
             /\ \/ m[p.id].dir = job[t].dir /\ m[p.id].pack = p
                \/ m[p.id] = loaded[p.id] /\ IsDowngrade(loaded[p.id].pack.version, p.version)
  PROVE  MissInv'
  <1> DEFINE j == [job[t] EXCEPT !.draft = m, !.target = id, !.outcome = outcome]
  <1>1. /\ job \in [Threads -> Job] /\ job[t] \in Job /\ WatchJob(t)
        /\ UNCHANGED <<disk, loaded>> /\ PinsKept
    BY DEF IInv, TypeOK, MissInv, Edit, PinsKept
  <1>2. pc' = [pc EXCEPT ![t] = "storeMap"] /\ job' = [job EXCEPT ![t] = j]
    BY DEF Edit, Goto
  <1>3. /\ j.op = job[t].op /\ j.dir = job[t].dir /\ j.pack = job[t].pack
        /\ j.draft = m /\ j.target = id /\ j.vanished = job[t].vanished
        /\ j.unchecked = job[t].unchecked /\ j.seen = job[t].seen
    BY <1>1 DEF Job
  <1> HIDE DEF j
  <1>4. pc'[t] = "storeMap" /\ job'[t] = j /\ Alone(t) /\ UNCHANGED eclipsed
    BY <1>1, <1>2, AloneStep
  <1>5. LoadDraft(t)' <=>
          LET p == j.pack IN
            /\ p \in Packs
            /\ \A i \in Ids \ {p.id} : j.draft[i] = loaded[i]
            /\ j.draft[p.id] # NoExt
            /\ \/ j.draft[p.id].dir = j.dir /\ j.draft[p.id].pack = p
               \/ /\ j.draft[p.id] = loaded[p.id]
                  /\ IsDowngrade(loaded[p.id].pack.version, p.version)
    BY <1>1, <1>4 DEF LoadDraft
  <1>6. WatchJob(t)'
    BY <1>1, <1>3, <1>4, <1>5 DEF WatchJob
  <1>7. ASSUME NEW d \in Dirs, Told(d) PROVE Keeps(t, d)
    <2>1. Sole(d) /\ disk'[d] = disk[d]
      BY <1>1, <1>7 DEF MissInv
    <2>2. QED BY <1>3, <1>4, <2>1 DEF Keeps, Outdated, Loading, Sole
  <1>8. QED BY <1>1, <1>4, <1>6, <1>7, MissLocal DEF IInv

\* A load of the pack d holds is only refused for a newer one; an eviction edits
\* nothing else.
LEMMA MissEdit ==
  ASSUME IInv, MissInv, UNCHANGED watchVars, NEW t \in Threads, EditAny(t)
  PROVE  MissInv'
  <1>1. /\ pc[t] = "edit" /\ WatchJob(t) /\ JobOK(t) /\ job[t] \in Job
        /\ job \in [Threads -> Job]
        /\ loaded \in LoadedMap /\ VerifiedMap(loaded)
    BY DEF EditAny, EditRegister, EditReload, EditRemoval, EditEvict, Editing, IInv, TypeOK,
           MissInv, JobInv, LoadedIsVerified
  <1>2. ~EditRegister(t) /\ ~EditRemoval(t)
    BY <1>1 DEF EditRegister, EditRemoval, Editing, WatchJob
  <1>3. CASE EditReload(t)
    <2> DEFINE p == job[t].pack
               e == NewEntry(t)
               m == With(loaded, e)
    <2>1. /\ job[t].op = "reload" /\ p \in Packs /\ job[t].dir \in Dirs
          /\ job[t].component = p.component /\ p.id \in Ids
      BY <1>1, <1>3, PackFacts DEF EditReload, Editing, JobOK
    <2>2. e \in Entry /\ e.dir = job[t].dir /\ e.pack = p
      BY <2>1, PackFacts DEF NewEntry, Entry
    <2>3. e # NoExt
      BY <2>2, SentinelAssumption DEF Entry
    <2>4. /\ m[p.id] = e /\ \A i \in Ids \ {p.id} : m[i] = loaded[i]
      BY <1>1, <2>1, <2>2 DEF With, LoadedMap
    <2>5. CASE Refuses(t, loaded)
      <3>1. Edit(t, loaded, p.id, "refused")
        BY <1>3, <2>5 DEF EditReload
      <3>2. Rebuildable(loaded)
        BY <1>1 DEF Rebuildable, VerifiedMap
      <3>3. loaded[p.id] # NoExt /\ IsDowngrade(loaded[p.id].pack.version, p.version)
        BY <2>5 DEF Refuses
      <3>4. QED
        <4> HIDE DEF e, m
        <4> QED BY <1>1, <2>1, <3>1, <3>2, <3>3, MissDraft
    <2>6. CASE ~Refuses(t, loaded) /\ Rebuildable(m)
      <3>1. Edit(t, m, p.id, "present")
        BY <1>3, <2>6 DEF EditReload
      <3>2. QED
        <4> HIDE DEF e, m
        <4> QED BY <1>1, <2>1, <2>2, <2>3, <2>4, <2>6, <3>1, MissDraft
    <2>7. CASE ~Refuses(t, loaded) /\ ~Rebuildable(m)
      <3>1. Edit(t, m, p.id, "present")
        BY <1>3, <2>7 DEF EditReload
      <3>2. Fail(t) /\ UNCHANGED <<disk, loaded, pins>>
        BY <2>1, <2>7, <3>1 DEF Edit
      <3>3. p.grade = "badOffer"
        <4>1. PICK i \in Present(m) : m[i].pack.grade = "badOffer"
          BY <2>7 DEF Rebuildable
        <4>2. i \in Ids /\ (i # p.id => i \in Present(loaded) /\ m[i] = loaded[i])
          BY <2>4, <4>1 DEF Present
        <4>3. i = p.id
          BY <1>1, <4>1, <4>2 DEF VerifiedMap
        <4>4. QED BY <2>2, <2>4, <4>1, <4>3
      <3>4. \A d \in Dirs : Told(d) => ~Loading(t, d)
        BY <1>1, <3>3 DEF Loading, Told
      <3>5. QED BY <3>2, <3>4, FailAlone DEF PinsKept
    <2>8. QED BY <2>5, <2>6, <2>7
  <1>4. CASE EditEvict(t)
    <2> DEFINE id == job[t].target
               m == Without(loaded, id)
    <2>1. job[t].op = "evict" /\ id \in Ids
      BY <1>1, <1>4 DEF EditEvict, Editing, JobOK
    <2>2. \A i \in Ids \ {id} : m[i] = loaded[i]
      BY <1>1 DEF Without, LoadedMap
    <2>3. PICK outcome \in {"none", "absent"} : Edit(t, m, id, outcome)
      BY <1>4 DEF EditEvict
    <2>4. Rebuildable(m)
      BY <1>1, <2>1 DEF Rebuildable, VerifiedMap, Present, Without, LoadedMap
    <2>5. QED
      <3> HIDE DEF m
      <3> QED BY <1>1, <2>1, <2>2, <2>3, <2>4, MissDraft
  <1>5. QED BY <1>2, <1>3, <1>4 DEF EditAny

\* What is published for the id of d comes from d, or d is loaded again after it.
LEMMA MissStoreMap ==
  ASSUME IInv, GhostInv, MissInv, UNCHANGED watchVars, NEW t \in Threads, StoreMap(t)
  PROVE  MissInv'
  <1>1. /\ pc[t] = "storeMap" /\ loaded' = job[t].draft
        /\ pc' = [pc EXCEPT ![t] = "storeRegistry"] /\ UNCHANGED <<disk, pins, job>>
        /\ pc \in [Threads -> Steps] /\ WatchJob(t)
        /\ UNCHANGED <<unseen, eclipsed, fsEvents>>
    BY DEF StoreMap, Goto, IInv, TypeOK, watchVars, MissInv
  <1>2. \A u \in Threads \ {t} : pc'[u] = pc[u]
    BY <1>1
  <1>3. pc'[t] = "storeRegistry"
    BY <1>1
  <1>4. \A u \in Threads : pc'[u] # "storeMap"
    BY <1>1, <1>2, <1>3 DEF IInv, MutexInv
  <1>5. \A u \in Threads : WatchJob(u)'
    BY <1>1, <1>2, <1>3, <1>4 DEF MissInv, WatchJob
  <1>6. ASSUME NEW d \in Dirs, Told(d)'
        PROVE  Sole(d)' /\ (\A u \in Threads : Outdated(u, d)' => Written(u, d)') /\ Served(d)'
    <2> DEFINE id == disk[d].id
    <2>1. Told(d) /\ disk' = disk
      BY <1>1, <1>6 DEF Told
    <2>2. Sole(d) /\ (\A u \in Threads : Outdated(u, d) => Written(u, d)) /\ Served(d)
      BY <2>1 DEF MissInv
    <2>3. id \in Ids
      BY <2>1, ToldFacts DEF IInv
    <2>4. \A u \in Threads : Written(u, d) => Written(u, d)'
      BY <1>1 DEF Written
    <2>5. /\ \A u \in Threads : Outdated(u, d)' => Outdated(u, d)
          /\ \A u \in Threads \ {t} : Loading(u, d) => Loading(u, d)'
      BY <1>1, <1>2, <1>3 DEF Outdated, Loading
    <2>6. CASE job[t].op = "evict" /\ job[t].target = id
      <3>1. loaded'[id] = NoExt
        BY <1>1, <2>6 DEF GhostInv, GhostJob
      <3>2. Written(t, d)
        BY <1>1, <2>2, <2>6 DEF Outdated
      <3>3. QED BY <1>1, <2>1, <2>2, <2>4, <2>5, <3>1, <3>2 DEF Sole, Served
    <2>7. CASE job[t].op = "reload" /\ job[t].pack.id = id
      <3>1. LoadDraft(t) /\ job[t].pack # NoPack
        BY <1>1, <2>7, SentinelAssumption DEF WatchJob, LoadDraft
      <3>2. job[t].dir = d
        BY <2>2, <2>7, <3>1 DEF Sole
      <3>3. loaded'[id] = NoExt \/ loaded'[id].dir = d
        BY <1>1, <2>2, <2>7, <3>1, <3>2 DEF LoadDraft, Sole
      <3>4. Good(d)' \/ Written(t, d)
        <4>1. CASE job[t].pack = disk[d]
          BY <1>1, <2>7, <3>1, <4>1 DEF LoadDraft, Good
        <4>2. CASE job[t].pack # disk[d]
          BY <1>1, <2>2, <2>7, <3>2, <4>2 DEF Outdated
        <4>3. QED BY <4>1, <4>2
      <3>5. QED BY <1>1, <2>1, <2>2, <2>4, <2>5, <3>3, <3>4 DEF Sole, Served
    <2>8. CASE /\ ~(job[t].op = "evict" /\ job[t].target = id)
               /\ ~(job[t].op = "reload" /\ job[t].pack.id = id)
      <3>1. loaded'[id] = loaded[id]
        BY <1>1, <2>3, <2>8 DEF WatchJob, LoadDraft
      <3>2. ~Loading(t, d)
        BY <1>1, <2>8 DEF Loading
      <3>3. Good(d) => Good(d)'
        BY <2>1, <3>1 DEF Good
      <3>4. QED BY <1>1, <2>1, <2>2, <2>4, <2>5, <3>1, <3>2, <3>3 DEF Sole, Served
    <2>9. QED BY <2>6, <2>7, <2>8
  <1>7. QED BY <1>5, <1>6 DEF MissInv

\* The other steps of an operation: a directory found gone is not one that holds
\* a pack.
LEMMA MissRest ==
  ASSUME IInv, MissInv, UNCHANGED watchVars, NEW t \in Threads,
         \/ StoreRegistry(t) \/ Emit(t) \/ ReturnError(t) \/ EvictNext(t)
         \/ \E id \in Ids : Stat(t, id)
  PROVE  MissInv'
  <1>1. /\ pc \in [Threads -> Steps] /\ job \in [Threads -> Job] /\ job[t] \in Job
        /\ WatchJob(t) /\ JobOK(t)
    BY DEF IInv, TypeOK, MissInv, JobInv
  <1>2. UNCHANGED <<disk, loaded, pins>> /\ PinsKept
    BY DEF StoreRegistry, Emit, ReturnError, EvictNext, Stat, PinsKept
  <1>3. \A d \in Dirs : ~Loading(t, d)
    BY <1>1 DEF StoreRegistry, Emit, ReturnError, EvictNext, Stat, Loading, JobOK, WatchJob
  <1>4. ASSUME NEW step \in {"emit", "stat", "edit"}, NEW j,
               pc' = [pc EXCEPT ![t] = step], job' = [job EXCEPT ![t] = j],
               j.op = job[t].op, j.dir = job[t].dir, j.pack \in {job[t].pack, NoPack},
               step = "edit" => j.op = "evict",
               \A d \in Dirs : Told(d) /\ j.op = "evict" =>
                 LET id == disk[d].id IN
                   \/ id \in j.unchecked /\ j.seen[id].dir # d
                   \/ id \in j.vanished
                   \/ step = "edit" /\ j.target = id
                   => Outdated(t, d)
        PROVE  MissInv'
    <2>1. pc'[t] = step /\ job'[t] = j /\ Alone(t) /\ UNCHANGED eclipsed
      BY <1>2, <1>4, AloneStep
    <2>2. WatchJob(t)'
      BY <1>1, <1>4, <2>1 DEF WatchJob
    <2>3. ASSUME NEW d \in Dirs, Told(d) PROVE Keeps(t, d)
      <3>1. Sole(d) /\ disk'[d] = disk[d]
        BY <1>2, <2>3 DEF MissInv
      <3>2. j.pack = NoPack \/ j.pack.id # disk[d].id \/ j.dir = d
        BY <1>4, <3>1 DEF Sole
      <3>3. Outdated(t, d)' => Outdated(t, d)
        BY <1>4, <2>1, <2>3, <3>1 DEF Outdated
      <3>4. QED BY <1>3, <2>1, <2>3, <3>2, <3>3 DEF Keeps
    <2>4. QED BY <1>2, <2>1, <2>2, <2>3, MissLocal DEF IInv
  <1>5. ASSUME Fail(t) \/ End(t) PROVE MissInv'
    BY <1>2, <1>3, <1>5, FailAlone
  <1>6. CASE StoreRegistry(t)
    <2> DEFINE j == [job[t] EXCEPT !.draft = NothingLoaded, !.pack = NoPack,
                                   !.component = NoComponent]
    <2>1. pc' = [pc EXCEPT ![t] = "emit"] /\ job' = [job EXCEPT ![t] = j]
      BY <1>1, <1>6 DEF StoreRegistry, Goto
    <2>2. /\ j.op = job[t].op /\ j.dir = job[t].dir /\ j.pack = NoPack /\ j.seen = job[t].seen
          /\ j.unchecked = job[t].unchecked /\ j.vanished = job[t].vanished
      BY <1>1 DEF Job
    <2> HIDE DEF j
    <2>3. QED BY <1>4, <2>1, <2>2 DEF Outdated
  <1>7. CASE Emit(t)
    <2>1. ASSUME job[t].op = "evict", Goto(t, "stat"),
                 job' = [job EXCEPT ![t].target = NoId, ![t].outcome = "none"]
          PROVE  MissInv'
      <3> DEFINE j == [job[t] EXCEPT !.target = NoId, !.outcome = "none"]
      <3>1. pc' = [pc EXCEPT ![t] = "stat"] /\ job' = [job EXCEPT ![t] = j]
        BY <1>1, <2>1 DEF Goto
      <3>2. /\ j.op = job[t].op /\ j.dir = job[t].dir /\ j.pack = job[t].pack
            /\ j.seen = job[t].seen /\ j.unchecked = job[t].unchecked
            /\ j.vanished = job[t].vanished
        BY <1>1 DEF Job
      <3> HIDE DEF j
      <3>3. QED BY <1>4, <3>1, <3>2 DEF Outdated
    <2>2. QED BY <1>5, <1>7, <2>1 DEF Emit
  <1>8. CASE ReturnError(t)
    BY <1>5, <1>8 DEF ReturnError
  <1>9. CASE EvictNext(t)
    <2>1. job[t].op = "evict" /\ job[t].unchecked = {}
      BY <1>1, <1>9 DEF EvictNext, JobOK
    <2>2. ASSUME NEW v \in job[t].vanished, Goto(t, "edit"),
                 job' = [job EXCEPT ![t].vanished = @ \ {v}, ![t].target = v]
          PROVE  MissInv'
      <3> DEFINE j == [job[t] EXCEPT !.vanished = job[t].vanished \ {v}, !.target = v]
      <3>1. pc' = [pc EXCEPT ![t] = "edit"] /\ job' = [job EXCEPT ![t] = j]
        BY <1>1, <2>2 DEF Goto
      <3>2. /\ j.op = job[t].op /\ j.dir = job[t].dir /\ j.pack = job[t].pack
            /\ j.unchecked = {} /\ j.target = v /\ j.vanished = job[t].vanished \ {v}
        BY <1>1, <2>1 DEF Job
      <3> HIDE DEF j
      <3>3. QED BY <1>4, <2>1, <3>1, <3>2 DEF Outdated
    <2>3. QED BY <1>5, <1>9, <2>2 DEF EvictNext
  <1>10. ASSUME NEW v \in Ids, Stat(t, v) PROVE MissInv'
    <2> DEFINE gone == IF Vanished(job[t].seen[v].dir)
                         THEN job[t].vanished \cup {v} ELSE job[t].vanished
               j == [job[t] EXCEPT !.unchecked = job[t].unchecked \ {v}, !.vanished = gone]
    <2>1. pc[t] = "stat" /\ job[t].op = "evict" /\ v \in job[t].unchecked
      BY <1>1, <1>10 DEF Stat, JobOK
    <2>2. /\ j.op = job[t].op /\ j.dir = job[t].dir /\ j.pack = job[t].pack
          /\ j.seen = job[t].seen /\ j.unchecked = job[t].unchecked \ {v}
          /\ j.vanished = gone
      BY <1>1 DEF Job
    <2>3. pc' = [pc EXCEPT ![t] = "stat"] /\ job' = [job EXCEPT ![t] = j]
      BY <1>1, <1>10, <2>1 DEF Stat
    <2>4. ASSUME NEW d \in Dirs, Told(d), disk[d].id \in gone
          PROVE  Outdated(t, d)
      <3>1. CASE disk[d].id \in job[t].vanished
        BY <2>1, <3>1 DEF Outdated
      <3>2. CASE disk[d].id = v /\ disk[job[t].seen[v].dir] = NoPack
        BY <2>1, <2>4, <3>2 DEF Outdated, Told
      <3>3. QED BY <2>4, <3>1, <3>2 DEF Vanished
    <2>5. QED
      <3> HIDE DEF j, gone
      <3> QED BY <1>4, <2>1, <2>2, <2>3, <2>4 DEF Outdated
  <1>11. QED BY <1>6, <1>7, <1>8, <1>9, <1>10

-----------------------------------------------------------------------------
(* The theorem *)

\* Every step keeps the invariant.
LEMMA MissNext ==
  ASSUME Threads # {}, IInv, HotTypeOK, GhostInv, MissInv, [HotNext]_hotVars
  PROVE  MissInv'
  <1>1. ASSUME UNCHANGED <<disk, loaded, unseen, eclipsed, fsEvents, pc, job>>, PinsKept
        PROVE  MissInv'
    <2>1. PICK t \in Threads : TRUE
      OBVIOUS
    <2>2. Alone(t) /\ WatchJob(t)'
      BY <1>1 DEF Alone, MissInv, WatchJob, LoadDraft
    <2>3. \A d \in Dirs : Told(d) => Keeps(t, d)
      BY <1>1 DEF MissInv, Sole, Keeps, Outdated, Loading
    <2>4. QED BY <1>1, <2>2, <2>3, MissLocal DEF IInv
  <1>2. CASE Users
    <2>1. PICK d \in Dirs : \/ Install(d) \/ Overwrite(d) \/ UnlinkListed(d)
                            \/ UnlinkStray(d) \/ Uninstall(d) \/ MoveOut(d)
      BY <1>2 DEF Users
    <2>2. Installs[d] \subseteq Packs
      BY HotReloadAssumption
    <2>3. ASSUME NEW how, NEW p \in Packs \cup {NoPack}, Change(how, d, p),
                 p = NoPack \/ p.grade = "unverifiable"
                 \/ how \in {"install", "overwrite", "unlinkStray"}
          PROVE  MissInv'
      BY <2>3, MissChange
    <2>4. PICK how, p : /\ p \in Packs \cup {NoPack} /\ Change(how, d, p)
                        /\ \/ p = NoPack \/ p.grade = "unverifiable"
                           \/ how \in {"install", "overwrite", "unlinkStray"}
      BY <2>1, <2>2 DEF Install, Overwrite, UnlinkListed, UnlinkStray, Uninstall, MoveOut
    <2>5. QED BY <2>3, <2>4
  <1>3. ASSUME NEW t \in Threads, Watch(t) PROVE MissInv'
    <2>1. CASE HandleRemoved(t) \/ HandleWritten(t)
      BY <2>1, MissHandle
    <2>2. CASE Exit(t)
      BY <2>2, MissExit
    <2>3. CASE Continue(t) /\ UNCHANGED watchVars
      BY <2>3, MissGate, MissEdit, MissStoreMap, MissRest DEF Continue, EditAny
    <2>4. QED BY <1>3, <2>1, <2>2, <2>3 DEF Watch
  <1>4. CASE Gtdx
    <2>1. PICK id \in Ids : GtdxPins(id) /\ UNCHANGED watchVars
      BY <1>4 DEF Gtdx
    <2>2. PinsKept
      BY <2>1 DEF GtdxPins, PinsKept, IInv, TypeOK
    <2>3. QED BY <1>1, <2>1, <2>2 DEF GtdxPins, watchVars
  <1>5. CASE Embedder \/ UNCHANGED hotVars
    <2>1. UNCHANGED <<disk, loaded, unseen, eclipsed, fsEvents, pc, job, pins>>
      BY <1>5 DEF Embedder, DropGuard, StartWatcher, hotVars, vars, watchVars
    <2>2. QED BY <1>1, <2>1 DEF PinsKept
  <1>6. QED BY <1>2, <1>3, <1>4, <1>5 DEF HotNext

\* However changes, loads and evictions interleave, a pack that would load is
\* loaded once the watchers have settled, or a newer one of its id is, unless its
\* last change was not told or another directory had a part in its id.
THEOREM NoToldPackIsMissed ==
  ASSUME Threads # {}
  PROVE  HotSpec => []UpToDate
  <1>1. HotInit => MissInv
    BY DEF HotInit, Init, Fresh, NoJob, MissInv, WatchJob, Told
  <1>2. MissInv /\ HotTypeOK => UpToDate
    <2> SUFFICES ASSUME MissInv, HotTypeOK, Settled, NEW d \in Missed,
                        d \notin unseen, d \notin eclipsed
                 PROVE  FALSE
      BY DEF UpToDate
    <2>1. d \in Dirs /\ Told(d) /\ ~Good(d) /\ pins[disk[d].id] \in {NoKey, disk[d].key}
      BY DEF Missed, Told, Good
    <2>2. \A t \in Threads : ~Written(t, d) /\ ~Loading(t, d)
      BY DEF Settled, Idle, Written, Loading
    <2>3. QED BY <2>1, <2>2 DEF MissInv, Served
  <1>3. IInv /\ HotTypeOK /\ GhostInv /\ MissInv /\ [HotNext]_hotVars => MissInv'
    BY MissNext
  <1>4. QED BY <1>1, <1>2, <1>3, GhostInvariance, PTL DEF HotSpec
=============================================================================
