----------------------- MODULE ExtensionRuntimeProofs -----------------------
(***************************************************************************)
(* Proofs about ExtensionRuntime, for every set of ids, directories, keys, *)
(* packs and threads and every assignment of operations to threads.        *)
(***************************************************************************)
EXTENDS ExtensionRuntime, TLAPS

-----------------------------------------------------------------------------
(* Facts about the helpers *)

\* The locals of an idle thread.
LEMMA NoJobType == NoJob \in Job
  BY SentinelAssumption DEF NoJob, Job, NothingLoaded, LoadedMap, Ops, Outcomes

\* Removing or replacing an entry leaves a loaded map.
LEMMA MapType ==
  ASSUME NEW m \in LoadedMap
  PROVE  /\ \A id \in Ids : Without(m, id) \in LoadedMap
         /\ \A e \in Entry : e.pack.id \in Ids => With(m, e) \in LoadedMap
         /\ NothingLoaded \in LoadedMap
         /\ Offerings(m) \subseteq Offer
  BY DEF Without, With, LoadedMap, NothingLoaded, Offerings, Offer

\* Failing and returning keep the types, and so does an edit of a loaded map.
LEMMA FailType ==
  ASSUME TypeOK, NEW t \in Threads, Fail(t)
  PROVE  job' \in [Threads -> Job] /\ pc' \in [Threads -> Steps]
  BY NoJobType DEF TypeOK, Fail, Goto, Job, NoJob, Steps

LEMMA EndType ==
  ASSUME TypeOK, NEW t \in Threads, End(t)
  PROVE  job' \in [Threads -> Job] /\ pc' \in [Threads -> Steps]
  BY NoJobType DEF TypeOK, End, Goto, Steps

LEMMA EditType ==
  ASSUME TypeOK, NEW t \in Threads, NEW m \in LoadedMap, NEW id \in Ids \cup {NoId},
         NEW outcome \in Outcomes, Edit(t, m, id, outcome)
  PROVE  TypeOK'
  <1>1. CASE Rebuildable(m)
    BY <1>1 DEF TypeOK, Edit, Goto, Job, Steps
  <1>2. CASE ~Rebuildable(m)
    BY <1>2, FailType DEF TypeOK, Edit, Goto, Steps
  <1>3. QED BY <1>1, <1>2

-----------------------------------------------------------------------------
(* The inductive invariant *)

\* What an operation holds by the time it edits the map.
JobOK(t) ==
  /\ pc[t] \in {"verify", "anchor", "read"} => job[t].op \in {"register", "reload"}
  /\ job[t].op \in {"register", "reload"} =>
       /\ pc[t] \in {"verify", "anchor", "read", "edit"} => job[t].dir \in Dirs
       /\ pc[t] \in {"anchor", "read", "edit"} =>
            job[t].pack \in Packs /\ Verifiable(job[t].pack)
       /\ pc[t] \in {"read", "edit"} => pins[job[t].pack.id] = job[t].pack.key
       /\ pc[t] = "edit" => /\ job[t].component = job[t].pack.component
                            /\ job[t].pack.grade # "unloadable"
  /\ pc[t] = "stat" => job[t].op = "evict"
  /\ pc[t] = "edit" /\ job[t].op = "evict" => job[t].target \in Ids
  /\ job[t].outcome \in {"present", "absent"} => job[t].target \in Ids

JobInv == \A t \in Threads : JobOK(t)

\* Who is between the lock and the unlock of mutate_loaded.
MutexInv ==
  \A t \in Threads : pc[t] \in {"storeMap", "storeRegistry"} <=> lock = t

OneEdit(m, n) ==
  n = m \/ \E id \in Ids, e \in Entry \cup {NoExt} : n = [m EXCEPT ![id] = e]

\* The clone about to be published is an edit of the map it replaces, and the
\* map already published is the one whose registry comes next.
DraftInv ==
  \A t \in Threads :
    /\ pc[t] = "storeMap" =>
         /\ OneEdit(loaded, job[t].draft)
         /\ VerifiedMap(job[t].draft)
         /\ job[t].op = "register" \/ NowhereOlder(loaded, job[t].draft)
    /\ pc[t] = "storeRegistry" => loaded = job[t].draft

\* Only the holder of the lock can have left the registry behind.
LagInv == (\A t \in Threads : pc[t] # "storeRegistry") => registry = Offerings(loaded)

IInv ==
  /\ TypeOK
  /\ JobInv
  /\ MutexInv
  /\ DraftInv
  /\ LagInv
  /\ LoadedIsVerified

-----------------------------------------------------------------------------
(* What an edit can be *)

LEMMA PackFacts ==
  ASSUME NEW p \in Packs
  PROVE  /\ p.id \in Ids /\ p.version \in Nat /\ p.key \in Keys
         /\ p.component \in Components /\ p.grade \in Grades
  BY PacksAssumption DEF PackType

EditAny(t) == EditRegister(t) \/ EditReload(t) \/ EditRemoval(t) \/ EditEvict(t)

\* The edit of thread t puts m, about id, in place of the loaded map.
Edits(t, m, id, outcome) ==
  /\ pc[t] = "edit"
  /\ m \in LoadedMap
  /\ id \in Ids \cup {NoId}
  /\ outcome \in Outcomes
  /\ outcome \in {"present", "absent"} => id \in Ids
  /\ OneEdit(loaded, m)
  /\ Rebuildable(m) => VerifiedMap(m)
  /\ job[t].op = "register" \/ NowhereOlder(loaded, m)
  /\ Edit(t, m, id, outcome)

\* Whatever the operation, its edit changes one entry of the current map, keeps
\* it verified and, unless it registers, puts nothing older in.
LEMMA EditCases ==
  ASSUME IInv, NEW t \in Threads, EditAny(t)
  PROVE  \E m, id, outcome : Edits(t, m, id, outcome)
  <1> USE DEF EditAny
  <1>a. loaded \in LoadedMap /\ VerifiedMap(loaded) /\ OneEdit(loaded, loaded)
    BY DEF IInv, TypeOK, OneEdit, LoadedIsVerified
  <1>b. \A id \in Present(loaded) : loaded[id] \in Entry /\ loaded[id].pack \in Packs
    BY <1>a DEF LoadedMap, Present, Entry
  <1>c. NowhereOlder(loaded, loaded)
    BY <1>b, PackFacts DEF NowhereOlder, IsDowngrade
  <1>d. ASSUME NEW id \in Ids
        PROVE  /\ Without(loaded, id) \in LoadedMap
               /\ OneEdit(loaded, Without(loaded, id))
               /\ VerifiedMap(Without(loaded, id))
               /\ NowhereOlder(loaded, Without(loaded, id))
    <2>1. Without(loaded, id) \in LoadedMap
      BY <1>a, MapType
    <2>2. OneEdit(loaded, Without(loaded, id))
      BY DEF OneEdit, Without
    <2>3. VerifiedMap(Without(loaded, id))
      BY <1>a DEF VerifiedMap, Without, Present, LoadedMap
    <2>4. NowhereOlder(loaded, Without(loaded, id))
      BY <1>a, <1>c DEF NowhereOlder, Without, Present, LoadedMap
    <2>5. QED BY <2>1, <2>2, <2>3, <2>4
  <1>e. ASSUME pc[t] = "edit", job[t].op \in {"register", "reload"}
        PROVE  LET p == job[t].pack
                   m == With(loaded, NewEntry(t)) IN
               /\ p \in Packs /\ p.id \in Ids
               /\ m \in LoadedMap
               /\ OneEdit(loaded, m)
               /\ Rebuildable(m) => VerifiedMap(m)
               /\ ~Refuses(t, loaded) => NowhereOlder(loaded, m)
    <2> DEFINE p == job[t].pack
               e == NewEntry(t)
               m == With(loaded, e)
    <2>1. /\ p \in Packs /\ Verifiable(p) /\ p.grade # "unloadable"
          /\ pins[p.id] = p.key /\ job[t].dir \in Dirs /\ job[t].component = p.component
      BY <1>e DEF IInv, JobInv, JobOK
    <2>2. p.id \in Ids /\ p.version \in Nat /\ p.component \in Components /\ p.grade \in Grades
      BY <2>1, PackFacts
    <2>3. e \in Entry /\ e.pack = p /\ e.component = p.component
      BY <2>1, <2>2 DEF NewEntry, Entry
    <2>4. m = [loaded EXCEPT ![p.id] = e]
      BY <2>3 DEF With
    <2>5. m \in LoadedMap
      BY <1>a, <2>2, <2>3, MapType
    <2>6. OneEdit(loaded, m)
      BY <2>2, <2>3, <2>4 DEF OneEdit
    <2>7. m[p.id] = e /\ e # NoExt /\ \A id \in Ids \ {p.id} : m[id] = loaded[id]
      BY <1>a, <2>2, <2>3, <2>4, SentinelAssumption DEF LoadedMap, Entry
    <2>8. ASSUME Rebuildable(m) PROVE VerifiedMap(m)
      <3>1. p.grade = "sound"
        BY <2>1, <2>2, <2>3, <2>7, <2>8 DEF Rebuildable, Present, Verifiable, Grades
      <3>2. QED BY <1>a, <2>1, <2>3, <2>7, <3>1 DEF VerifiedMap, Present
    <2>9. ASSUME ~Refuses(t, loaded) PROVE NowhereOlder(loaded, m)
      <3>1. loaded[p.id] = NoExt \/ ~IsDowngrade(loaded[p.id].pack.version, p.version)
        BY <2>9 DEF Refuses
      <3>2. QED BY <1>c, <2>3, <2>7, <3>1 DEF NowhereOlder, Present
    <2>10. QED BY <2>1, <2>2, <2>5, <2>6, <2>8, <2>9
  <1>1. CASE EditRegister(t)
    <2>1. pc[t] = "edit" /\ job[t].op = "register"
      BY <1>1 DEF EditRegister, Editing
    <2>2. Edits(t, With(loaded, NewEntry(t)), job[t].pack.id, "present")
      BY <1>1, <1>e, <2>1 DEF EditRegister, Edits, Outcomes
    <2>3. QED BY <2>2
  <1>2. CASE EditReload(t)
    <2>1. pc[t] = "edit" /\ job[t].op = "reload"
      BY <1>2 DEF EditReload, Editing
    <2>2. CASE Refuses(t, loaded)
      <3>1. Edits(t, loaded, job[t].pack.id, "refused")
        BY <1>2, <1>a, <1>c, <1>e, <2>1, <2>2 DEF EditReload, Edits, Outcomes
      <3>2. QED BY <3>1
    <2>3. CASE ~Refuses(t, loaded)
      <3>1. Edits(t, With(loaded, NewEntry(t)), job[t].pack.id, "present")
        BY <1>2, <1>e, <2>1, <2>3 DEF EditReload, Edits, Outcomes
      <3>2. QED BY <3>1
    <2>4. QED BY <2>2, <2>3
  <1>3. CASE EditRemoval(t)
    <2>1. pc[t] = "edit"
      BY <1>3 DEF EditRemoval, Editing
    <2>2. ASSUME NEW id \in LoadedFrom(loaded, job[t].dir),
                 Edit(t, Without(loaded, id), id, "absent")
          PROVE  Edits(t, Without(loaded, id), id, "absent")
      BY <1>d, <2>1, <2>2 DEF Edits, Outcomes, LoadedFrom, Present
    <2>3. ASSUME Edit(t, loaded, NoId, "none")
          PROVE  Edits(t, loaded, NoId, "none")
      BY <1>a, <1>c, <2>1, <2>3 DEF Edits, Outcomes
    <2>4. QED BY <1>3, <2>2, <2>3 DEF EditRemoval
  <1>4. CASE EditEvict(t)
    <2>1. pc[t] = "edit" /\ job[t].op = "evict"
      BY <1>4 DEF EditEvict, Editing
    <2>2. job[t].target \in Ids
      BY <2>1 DEF IInv, JobInv, JobOK
    <2>3. Edits(t, Without(loaded, job[t].target), job[t].target,
                IF loaded[job[t].target] = NoExt THEN "none" ELSE "absent")
      BY <1>4, <1>d, <2>1, <2>2 DEF EditEvict, Edits, Outcomes
    <2>4. QED BY <2>3
  <1>5. QED BY <1>1, <1>2, <1>3, <1>4

-----------------------------------------------------------------------------
(* Steps outside the critical section *)

\* Thread t is not between the lock and the unlock.
Outside(t) == pc[t] \notin {"storeMap", "storeRegistry"}

PinsKept == \A id \in Ids : pins[id] # NoKey => pins'[id] = pins[id]

\* A verified map stays verified while pins are only added.
LEMMA StillVerified ==
  ASSUME TypeOK, PinsKept, NEW m \in LoadedMap, VerifiedMap(m), NEW id \in Present(m)
  PROVE  pins'[id] = m[id].pack.key
  <1>1. m[id] \in Entry /\ id \in Ids
    BY DEF LoadedMap, Present
  <1>2. m[id].pack.key \in Keys
    BY <1>1, PackFacts DEF Entry
  <1>3. pins[id] # NoKey
    BY <1>2, SentinelAssumption DEF VerifiedMap
  <1>4. QED BY <1>1, <1>3 DEF PinsKept, VerifiedMap

\* A step that touches neither what is published nor the lock, and leaves every
\* thread as it was or outside the critical section with its job in order.
LEMMA LocalStep ==
  ASSUME IInv, TypeOK', PinsKept, UNCHANGED <<loaded, registry, lock>>,
         \A u \in Threads : \/ pc'[u] = pc[u] /\ job'[u] = job[u]
                            \/ Outside(u) /\ Outside(u)' /\ JobOK(u)'
  PROVE  IInv'
  <1>1. JobInv'
    <2> SUFFICES ASSUME NEW u \in Threads, pc'[u] = pc[u], job'[u] = job[u]
                 PROVE  JobOK(u)'
      BY DEF JobInv
    <2>1. JobOK(u)
      BY DEF IInv, JobInv
    <2>2. ASSUME job[u].op \in {"register", "reload"}, pc[u] \in {"read", "edit"}
          PROVE  pins'[job[u].pack.id] = job[u].pack.key
      <3>1. job[u].pack \in Packs /\ pins[job[u].pack.id] = job[u].pack.key
        BY <2>1, <2>2 DEF JobOK
      <3>2. job[u].pack.id \in Ids /\ pins[job[u].pack.id] # NoKey
        BY <3>1, PackFacts, SentinelAssumption
      <3>3. QED BY <3>1, <3>2 DEF PinsKept
    <2>3. QED BY <2>1, <2>2 DEF JobOK, Verifiable
  <1>2. MutexInv'
    BY DEF IInv, MutexInv, Outside
  <1>3. DraftInv'
    <2> SUFFICES ASSUME NEW u \in Threads, pc'[u] = pc[u], job'[u] = job[u], ~Outside(u)
                 PROVE  /\ pc[u] = "storeMap" =>
                             /\ OneEdit(loaded, job[u].draft)
                             /\ VerifiedMap(job[u].draft)'
                             /\ job[u].op = "register" \/ NowhereOlder(loaded, job[u].draft)
                        /\ pc[u] = "storeRegistry" => loaded = job[u].draft
      BY SMTT(30) DEF DraftInv, Outside, OneEdit, NowhereOlder, VerifiedMap
    <2>1. job[u].draft \in LoadedMap
      BY DEF IInv, TypeOK, Job
    <2>2. ASSUME VerifiedMap(job[u].draft) PROVE VerifiedMap(job[u].draft)'
      BY <2>1, <2>2, StillVerified DEF IInv, VerifiedMap
    <2>3. QED BY <2>2 DEF IInv, DraftInv
  <1>4. LagInv'
    BY DEF IInv, LagInv, Outside
  <1>5. LoadedIsVerified'
    <2>1. loaded \in LoadedMap /\ VerifiedMap(loaded)
      BY DEF IInv, TypeOK, LoadedIsVerified
    <2>2. QED BY <2>1, StillVerified DEF IInv, LoadedIsVerified, VerifiedMap
  <1>6. QED BY <1>1, <1>2, <1>3, <1>4, <1>5 DEF IInv

-----------------------------------------------------------------------------
(* Steps of the critical section *)

\* The edit takes the lock with a draft in order, or fails and leaves it alone.
LEMMA EditStep ==
  ASSUME IInv, NEW t \in Threads, EditAny(t)
  PROVE  IInv'
  <1>1. PICK m, id, outcome : Edits(t, m, id, outcome)
    BY EditCases
  <1>2. TypeOK'
    BY <1>1, EditType DEF Edits, IInv
  <1>3. pc[t] = "edit" /\ Outside(t)
    BY <1>1 DEF Edits, Outside
  <1>4. PinsKept /\ UNCHANGED <<loaded, registry>>
    BY <1>1 DEF Edits, Edit, PinsKept
  <1>5. \A u \in Threads \ {t} : pc'[u] = pc[u] /\ job'[u] = job[u]
    BY <1>1 DEF IInv, TypeOK, Edits, Edit, Fail, Goto
  <1>6. CASE Rebuildable(m)
    <2>1. /\ lock = NoThread /\ lock' = t /\ pc'[t] = "storeMap"
          /\ job'[t] = [job[t] EXCEPT !.draft = m, !.target = id, !.outcome = outcome]
      BY <1>1, <1>6 DEF IInv, TypeOK, Edits, Edit, Goto, LockFree
    <2>2. /\ job[t] \in Job /\ job'[t].draft = m /\ job'[t].op = job[t].op
          /\ job'[t].target = id /\ job'[t].outcome = outcome
      BY <2>1 DEF IInv, TypeOK, Job
    <2>3. \A u \in Threads : Outside(u)
      BY <2>1, SentinelAssumption DEF IInv, MutexInv, Outside
    <2>4. JobInv'
      <3>1. JobOK(t)'
        BY <1>1, <2>1, <2>2 DEF JobOK, Edits
      <3>2. pins' = pins /\ \A u \in Threads : JobOK(u)
        BY <1>1 DEF IInv, JobInv, Edits, Edit
      <3>3. QED BY <1>5, <3>1, <3>2 DEF JobInv, JobOK
    <2>5. MutexInv'
      BY <1>5, <2>1, <2>3 DEF MutexInv, Outside
    <2>6. DraftInv'
      <3>1. VerifiedMap(m) /\ OneEdit(loaded, m)
            /\ (job[t].op = "register" \/ NowhereOlder(loaded, m))
        BY <1>1, <1>6 DEF Edits
      <3>2. pins' = pins
        BY <1>1 DEF Edits, Edit
      <3>3. \A u \in Threads \ {t} : pc'[u] \notin {"storeMap", "storeRegistry"}
        BY <1>5, <2>3 DEF Outside
      <3>4. VerifiedMap(m)' /\ OneEdit(loaded', m)
            /\ (job[t].op = "register" \/ NowhereOlder(loaded', m))
        BY <1>4, <3>1, <3>2 DEF VerifiedMap
      <3>5. /\ OneEdit(loaded, job[t].draft)'
            /\ VerifiedMap(job[t].draft)'
            /\ (job[t].op = "register" \/ NowhereOlder(loaded, job[t].draft))'
        BY <2>2, <3>4 DEF VerifiedMap, OneEdit, NowhereOlder
      <3>6. QED BY <2>1, <3>3, <3>5 DEF DraftInv
    <2>7. LagInv'
      BY <1>4, <2>3 DEF IInv, LagInv, Outside
    <2>8. LoadedIsVerified'
      BY <1>1, <1>4 DEF IInv, LoadedIsVerified, VerifiedMap, Edits, Edit
    <2>9. QED BY <1>2, <2>4, <2>5, <2>6, <2>7, <2>8 DEF IInv
  <1>7. CASE ~Rebuildable(m)
    <2>1. lock' = lock /\ Outside(t)'
      BY <1>1, <1>7 DEF IInv, TypeOK, Edits, Edit, Fail, Goto, Outside
    <2>2. JobOK(t)'
      BY <1>1, <1>7 DEF IInv, TypeOK, JobInv, JobOK, Edits, Edit, Fail, Goto, NoJob
    <2>3. QED BY <1>2, <1>3, <1>4, <1>5, <2>1, <2>2, LocalStep
  <1>8. QED BY <1>6, <1>7

\* The map is published and only the registry is still to come.
LEMMA StoreMapStep ==
  ASSUME IInv, NEW t \in Threads, StoreMap(t)
  PROVE  IInv'
  <1>1. /\ pc[t] = "storeMap" /\ pc' = [pc EXCEPT ![t] = "storeRegistry"]
        /\ loaded' = job[t].draft
        /\ UNCHANGED <<disk, pins, registry, lock, job, mirror>>
    BY DEF StoreMap, Goto
  <1>2. job[t].draft \in LoadedMap /\ VerifiedMap(job[t].draft)
    BY <1>1 DEF IInv, TypeOK, Job, DraftInv
  <1>3. lock = t /\ \A u \in Threads \ {t} : Outside(u) /\ pc'[u] = pc[u]
    BY <1>1 DEF IInv, TypeOK, MutexInv, Outside
  <1>4. pc'[t] = "storeRegistry" /\ pc' \in [Threads -> Steps]
    BY <1>1 DEF IInv, TypeOK, Steps
  <1>5. TypeOK'
    BY <1>1, <1>2, <1>4 DEF IInv, TypeOK
  <1>6. JobInv'
    BY <1>1, <1>3, <1>4 DEF IInv, JobInv, JobOK
  <1>7. MutexInv'
    BY <1>1, <1>3, <1>4 DEF IInv, MutexInv
  <1>8. DraftInv'
    BY <1>1, <1>3, <1>4 DEF DraftInv, Outside
  <1>9. LagInv'
    BY <1>4 DEF LagInv
  <1>10. LoadedIsVerified'
    BY <1>1, <1>2 DEF LoadedIsVerified, VerifiedMap
  <1>11. QED BY <1>5, <1>6, <1>7, <1>8, <1>9, <1>10 DEF IInv

\* The registry follows and the lock is released.
LEMMA StoreRegistryStep ==
  ASSUME IInv, NEW t \in Threads, StoreRegistry(t)
  PROVE  IInv'
  <1>1. /\ pc[t] = "storeRegistry" /\ pc' = [pc EXCEPT ![t] = "emit"]
        /\ registry' = Offerings(job[t].draft) /\ lock' = NoThread
        /\ job' = [job EXCEPT ![t].draft = NothingLoaded, ![t].pack = NoPack,
                              ![t].component = NoComponent]
        /\ UNCHANGED <<disk, pins, loaded, mirror>>
    BY DEF StoreRegistry, Goto
  <1>2. lock = t /\ \A u \in Threads \ {t} : Outside(u) /\ pc'[u] = pc[u] /\ job'[u] = job[u]
    BY <1>1 DEF IInv, TypeOK, MutexInv, Outside
  <1>3. pc'[t] = "emit" /\ pc' \in [Threads -> Steps]
    BY <1>1 DEF IInv, TypeOK, Steps
  <1>4. job[t] \in Job /\ loaded = job[t].draft /\ loaded \in LoadedMap
    BY <1>1 DEF IInv, TypeOK, DraftInv
  <1>5. job'[t] = [job[t] EXCEPT !.draft = NothingLoaded, !.pack = NoPack,
                                 !.component = NoComponent]
    BY <1>1 DEF IInv, TypeOK
  <1>6. TypeOK'
    <2>1. job'[t] \in Job
      BY <1>4, <1>5, MapType DEF Job
    <2>2. job' \in [Threads -> Job]
      BY <1>1, <2>1 DEF IInv, TypeOK
    <2>3. registry' \subseteq Offer
      BY <1>1, <1>4, MapType
    <2>4. QED BY <1>1, <1>3, <2>2, <2>3 DEF IInv, TypeOK
  <1>7. JobInv'
    <2>1. job'[t].outcome = job[t].outcome /\ job'[t].target = job[t].target
      BY <1>4, <1>5 DEF Job
    <2>2. JobOK(t)'
      BY <1>3, <2>1 DEF IInv, JobInv, JobOK
    <2>3. pins' = pins /\ \A u \in Threads : JobOK(u)
      BY <1>1 DEF IInv, JobInv
    <2>4. ASSUME NEW u \in Threads \ {t} PROVE JobOK(u)'
      BY <1>2, <2>3 DEF JobOK
    <2>5. QED BY <2>2, <2>4 DEF JobInv
  <1>8. MutexInv'
    BY <1>1, <1>2, <1>3, SentinelAssumption DEF MutexInv, Outside
  <1>9. DraftInv'
    BY <1>2, <1>3 DEF DraftInv, Outside
  <1>10. LagInv'
    BY <1>1, <1>4 DEF LagInv
  <1>11. LoadedIsVerified'
    BY <1>1 DEF IInv, LoadedIsVerified, VerifiedMap
  <1>12. QED BY <1>6, <1>7, <1>8, <1>9, <1>10, <1>11 DEF IInv

\* A mutator that panics has published nothing.
LEMMA PanicStep ==
  ASSUME IInv, NEW t \in Threads, Panic(t)
  PROVE  IInv'
  <1>1. pc[t] = "storeMap" /\ Fail(t) /\ lock' = NoThread
        /\ UNCHANGED <<disk, pins, loaded, registry, mirror>>
    BY DEF Panic
  <1>2. lock = t /\ \A u \in Threads \ {t} : Outside(u) /\ pc'[u] = pc[u] /\ job'[u] = job[u]
    BY <1>1 DEF IInv, TypeOK, MutexInv, Outside, Fail, Goto
  <1>3. pc'[t] = "failed" /\ job'[t].outcome = "none"
    BY <1>1 DEF IInv, TypeOK, Fail, Goto, NoJob
  <1>4. TypeOK'
    BY <1>1, FailType DEF IInv, TypeOK
  <1>5. JobInv'
    BY <1>1, <1>2, <1>3 DEF IInv, JobInv, JobOK
  <1>6. MutexInv' /\ DraftInv'
    BY <1>1, <1>2, <1>3, SentinelAssumption DEF MutexInv, DraftInv, Outside
  <1>7. LagInv'
    BY <1>1, <1>2 DEF IInv, LagInv, Outside
  <1>8. LoadedIsVerified'
    BY <1>1 DEF IInv, LoadedIsVerified, VerifiedMap
  <1>9. QED BY <1>4, <1>5, <1>6, <1>7, <1>8 DEF IInv

-----------------------------------------------------------------------------
(* The other steps of an operation *)

\* A step of t alone: it changes its own locals and next step, and perhaps adds
\* a pin or tells the subscriber.
OwnStep(t) ==
  /\ Outside(t)
  /\ PinsKept
  /\ UNCHANGED <<loaded, registry, lock>>
  /\ \A u \in Threads \ {t} : pc'[u] = pc[u] /\ job'[u] = job[u]

\* What there is to show of such a step.
LEMMA OwnStepInv ==
  ASSUME IInv, TypeOK', NEW t \in Threads, OwnStep(t), Outside(t)', JobOK(t)'
  PROVE  IInv'
  BY LocalStep DEF OwnStep

\* Failing and returning leave the locals of the thread in order.
LEMMA FailStep ==
  ASSUME TypeOK, NEW t \in Threads, Fail(t) \/ End(t)
  PROVE  /\ Outside(t)' /\ JobOK(t)'
         /\ \A u \in Threads \ {t} : pc'[u] = pc[u] /\ job'[u] = job[u]
  <1>1. /\ pc'[t] \in {"failed", "idle"} /\ job'[t].outcome = "none"
        /\ \A u \in Threads \ {t} : pc'[u] = pc[u] /\ job'[u] = job[u]
    <2>1. CASE Fail(t)
      BY <2>1 DEF TypeOK, Fail, Goto, NoJob
    <2>2. CASE End(t)
      BY <2>2 DEF TypeOK, End, Goto, NoJob
    <2>3. QED BY <2>1, <2>2
  <1>2. QED BY <1>1 DEF Outside, JobOK

LEMMA BeginStep ==
  ASSUME IInv, NEW t \in Threads, Start(t)
  PROVE  IInv'
  <1>1. ASSUME NEW op \in {"register", "reload", "removal"}, NEW d \in Dirs,
               NEW step \in {"verify", "edit"}, Begin(t, op, d, step),
               step = "verify" <=> op # "removal"
        PROVE  IInv'
    <2>1. /\ pc[t] = "idle" /\ pc' = [pc EXCEPT ![t] = step]
          /\ job' = [job EXCEPT ![t] = [NoJob EXCEPT !.op = op, !.dir = d]]
          /\ UNCHANGED <<disk, pins, loaded, registry, lock, mirror>>
      BY <1>1 DEF Begin, Idle, Goto
    <2>2. [NoJob EXCEPT !.op = op, !.dir = d] \in Job
      BY NoJobType DEF Job, Ops
    <2>3. TypeOK'
      BY <2>1, <2>2 DEF IInv, TypeOK, Steps
    <2>4. OwnStep(t)
      BY <2>1 DEF IInv, TypeOK, OwnStep, Outside, PinsKept
    <2>5. Outside(t)' /\ JobOK(t)'
      BY <1>1, <2>1 DEF IInv, TypeOK, Outside, JobOK, NoJob
    <2>6. QED BY <2>3, <2>4, <2>5, OwnStepInv
  <1>2. CASE BeginEvict(t)
    <2> DEFINE j == [NoJob EXCEPT !.op = "evict", !.seen = loaded,
                                  !.unchecked = Present(loaded)]
    <2>1. /\ pc[t] = "idle" /\ pc' = [pc EXCEPT ![t] = "stat"]
          /\ job' = [job EXCEPT ![t] = j]
          /\ UNCHANGED <<disk, pins, loaded, registry, lock, mirror>>
      BY <1>2 DEF BeginEvict, Idle, Goto
    <2>2. j \in Job
      BY NoJobType DEF IInv, TypeOK, Job, Ops, Present
    <2>3. TypeOK'
      BY <2>1, <2>2 DEF IInv, TypeOK, Steps
    <2>4. OwnStep(t)
      BY <2>1 DEF IInv, TypeOK, OwnStep, Outside, PinsKept
    <2>5. Outside(t)' /\ JobOK(t)'
      BY <2>1 DEF IInv, TypeOK, Outside, JobOK, NoJob
    <2>6. QED BY <2>3, <2>4, <2>5, OwnStepInv
  <1>3. QED BY <1>1, <1>2 DEF Start, BeginRegister, BeginReload, BeginRemoval

LEMMA GateStep ==
  ASSUME IInv, NEW t \in Threads, Verify(t) \/ Anchor(t) \/ ReadComponent(t)
  PROVE  IInv'
  <1>a. /\ pc[t] \in {"verify", "anchor", "read"} /\ Outside(t)
        /\ job[t].op \in {"register", "reload"} /\ job[t].dir \in Dirs
        /\ JobOK(t) /\ job[t] \in Job /\ TypeOK
    BY DEF IInv, TypeOK, JobInv, JobOK, Verify, Anchor, ReadComponent, Outside
  <1>1. ASSUME Fail(t), UNCHANGED <<disk, pins, loaded, registry, lock, mirror>>
        PROVE  IInv'
    <2>1. TypeOK'
      BY <1>1, FailType DEF IInv, TypeOK
    <2>2. OwnStep(t) /\ Outside(t)' /\ JobOK(t)'
      BY <1>1, <1>a, FailStep DEF OwnStep, PinsKept
    <2>3. QED BY <2>1, <2>2, OwnStepInv
  <1>2. CASE Verify(t) /\ Verifiable(disk[job[t].dir])
    <2> DEFINE p == disk[job[t].dir]
    <2>1. /\ p \in Packs /\ Verifiable(p)
          /\ pc' = [pc EXCEPT ![t] = "anchor"]
          /\ job' = [job EXCEPT ![t].pack = p]
          /\ UNCHANGED <<disk, pins, loaded, registry, lock, mirror>>
      BY <1>2, <1>a DEF TypeOK, Verify, Goto, Verifiable
    <2>2. job'[t] = [job[t] EXCEPT !.pack = p] /\ job'[t] \in Job
      BY <1>a, <2>1 DEF TypeOK, Job
    <2>3. TypeOK'
      BY <1>a, <2>1, <2>2 DEF TypeOK, Steps
    <2>4. OwnStep(t)
      BY <1>a, <2>1 DEF TypeOK, OwnStep, PinsKept
    <2>5. Outside(t)' /\ JobOK(t)'
      BY <1>a, <2>1, <2>2 DEF TypeOK, Outside, JobOK, Job, Verifiable
    <2>6. QED BY <2>3, <2>4, <2>5, OwnStepInv
  <1>3. CASE Anchor(t) /\ pins[job[t].pack.id] \in {NoKey, job[t].pack.key}
    <2> DEFINE p == job[t].pack
    <2>1. pc[t] = "anchor" /\ p \in Packs /\ Verifiable(p)
      BY <1>3, <1>a DEF Anchor, JobOK
    <2>2. p.id \in Ids /\ p.key \in Keys
      BY <2>1, PackFacts
    <2>3. /\ pc' = [pc EXCEPT ![t] = "read"]
          /\ UNCHANGED <<disk, loaded, registry, lock, mirror>>
          /\ \/ /\ pins[p.id] = NoKey
                /\ pins' = [pins EXCEPT ![p.id] = p.key]
                /\ job' = [job EXCEPT ![t].pinned = TRUE]
             \/ pins[p.id] = p.key /\ UNCHANGED <<pins, job>>
      BY <1>3 DEF Anchor, Goto
    <2>4. PinsKept /\ pins' \in [Ids -> Keys \cup {NoKey}] /\ pins'[p.id] = p.key
      BY <1>a, <2>2, <2>3 DEF TypeOK, PinsKept
    <2>5. /\ job' \in [Threads -> Job]
          /\ job'[t].pack = p /\ job'[t].op = job[t].op /\ job'[t].dir = job[t].dir
          /\ job'[t].outcome = job[t].outcome /\ job'[t].target = job[t].target
          /\ \A u \in Threads \ {t} : job'[u] = job[u]
      <3>1. CASE UNCHANGED job
        BY <1>a, <3>1 DEF TypeOK
      <3>2. CASE job' = [job EXCEPT ![t].pinned = TRUE]
        <4>1. job'[t] = [job[t] EXCEPT !.pinned = TRUE]
          BY <3>2, <1>a, Zenon DEF TypeOK
        <4>2. job'[t] \in Job
          BY <1>a, <4>1 DEF Job
        <4>3. QED BY <1>a, <3>2, <4>1, <4>2 DEF TypeOK, Job
      <3>3. QED BY <2>3, <3>1, <3>2
    <2>6. TypeOK'
      BY <1>a, <2>3, <2>4, <2>5 DEF TypeOK, Steps
    <2>7. OwnStep(t)
      BY <1>a, <2>3, <2>4, <2>5 DEF TypeOK, OwnStep
    <2>8. Outside(t)' /\ JobOK(t)'
      BY <1>a, <2>1, <2>3, <2>4, <2>5 DEF TypeOK, Outside, JobOK, Verifiable
    <2>9. QED BY <2>6, <2>7, <2>8, OwnStepInv
  <1>4. CASE /\ ReadComponent(t)
            /\ Vouched(t, disk[job[t].dir]) /\ job[t].pack.grade # "unloadable"
    <2> DEFINE found == disk[job[t].dir]
    <2>1. /\ pc[t] = "read" /\ Vouched(t, found) /\ job[t].pack.grade # "unloadable"
          /\ pc' = [pc EXCEPT ![t] = "edit"]
          /\ job' = [job EXCEPT ![t].component = found.component]
          /\ UNCHANGED <<disk, pins, loaded, registry, lock, mirror>>
      BY <1>4 DEF ReadComponent, Goto
    <2>2. found \in Packs /\ found.component = job[t].pack.component
          /\ found.component \in Components
      BY <1>a, <2>1, PackFacts DEF TypeOK, Vouched
    <2>3. job'[t] = [job[t] EXCEPT !.component = found.component] /\ job'[t] \in Job
      BY <1>a, <2>1, <2>2 DEF TypeOK, Job
    <2>4. TypeOK'
      BY <1>a, <2>1, <2>3 DEF TypeOK, Steps
    <2>5. OwnStep(t)
      BY <1>a, <2>1 DEF TypeOK, OwnStep, PinsKept
    <2>6. Outside(t)' /\ JobOK(t)'
      BY <1>a, <2>1, <2>2, <2>3 DEF TypeOK, Outside, JobOK, Job, Verifiable
    <2>7. QED BY <2>4, <2>5, <2>6, OwnStepInv
  <1>5. CASE Verify(t) /\ ~Verifiable(disk[job[t].dir])
    BY <1>1, <1>5 DEF Verify
  <1>6. CASE Anchor(t) /\ pins[job[t].pack.id] \notin {NoKey, job[t].pack.key}
    BY <1>1, <1>6 DEF Anchor
  <1>7. CASE /\ ReadComponent(t)
             /\ ~(Vouched(t, disk[job[t].dir]) /\ job[t].pack.grade # "unloadable")
    BY <1>1, <1>7 DEF ReadComponent
  <1>8. QED BY <1>2, <1>3, <1>4, <1>5, <1>6, <1>7

LEMMA EmitStep ==
  ASSUME IInv, NEW t \in Threads, Emit(t)
  PROVE  IInv'
  <1>a. /\ pc[t] = "emit" /\ Outside(t) /\ PinsKept /\ JobOK(t) /\ job[t] \in Job
        /\ mirror' = Heard(t)
        /\ UNCHANGED <<disk, pins, loaded, registry, lock>>
    BY DEF IInv, TypeOK, JobInv, Emit, Outside, PinsKept
  <1>b. Heard(t) \subseteq Ids
    BY <1>a DEF IInv, TypeOK, Heard, JobOK
  <1>1. CASE Fail(t) \/ End(t)
    <2>1. TypeOK'
      BY <1>1, <1>a, <1>b, FailType, EndType DEF IInv, TypeOK
    <2>2. OwnStep(t) /\ Outside(t)' /\ JobOK(t)'
      BY <1>1, <1>a, FailStep DEF IInv, OwnStep
    <2>3. QED BY <2>1, <2>2, OwnStepInv
  <1>2. CASE /\ job' = [job EXCEPT ![t].target = NoId, ![t].outcome = "none"]
             /\ pc' = [pc EXCEPT ![t] = "stat"]
             /\ job[t].op = "evict"
    <2>1. /\ job'[t] = [job[t] EXCEPT !.target = NoId, !.outcome = "none"]
          /\ job'[t] \in Job /\ job'[t].outcome = "none" /\ job'[t].op = "evict"
      BY <1>2, <1>a DEF IInv, TypeOK, Job, Outcomes
    <2>2. TypeOK'
      BY <1>2, <1>a, <1>b, <2>1 DEF IInv, TypeOK, Steps
    <2>3. OwnStep(t)
      BY <1>2, <1>a DEF IInv, TypeOK, OwnStep
    <2>4. Outside(t)' /\ JobOK(t)'
      BY <1>2, <2>1 DEF IInv, TypeOK, Outside, JobOK
    <2>5. QED BY <2>2, <2>3, <2>4, OwnStepInv
  <1>3. QED BY <1>1, <1>2 DEF Emit, Goto

LEMMA EvictionStep ==
  ASSUME IInv, NEW t \in Threads, (\E id \in Ids : Stat(t, id)) \/ EvictNext(t)
  PROVE  IInv'
  <1>a. /\ pc[t] = "stat" /\ Outside(t) /\ PinsKept /\ JobOK(t) /\ job[t] \in Job /\ TypeOK
        /\ UNCHANGED <<disk, pins, loaded, registry, lock, mirror>>
    BY DEF IInv, TypeOK, JobInv, Stat, EvictNext, Outside, PinsKept
  <1>1. CASE End(t)
    <2>1. TypeOK'
      BY <1>1, <1>a, EndType DEF TypeOK
    <2>2. OwnStep(t) /\ Outside(t)' /\ JobOK(t)'
      BY <1>1, <1>a, FailStep DEF OwnStep
    <2>3. QED BY <2>1, <2>2, OwnStepInv
  <1>2. ASSUME NEW rest \in SUBSET Ids, NEW gone \in SUBSET Ids,
               job' = [job EXCEPT ![t].unchecked = rest, ![t].vanished = gone],
               UNCHANGED pc
        PROVE  IInv'
    <2>1. job'[t] = [job[t] EXCEPT !.unchecked = rest, !.vanished = gone] /\ job'[t] \in Job
      BY <1>2, <1>a DEF TypeOK, Job
    <2>2. TypeOK'
      BY <1>2, <1>a, <2>1 DEF TypeOK
    <2>3. OwnStep(t)
      BY <1>2, <1>a DEF TypeOK, OwnStep
    <2>4. /\ pc'[t] = "stat"
          /\ job'[t].outcome = job[t].outcome /\ job'[t].target = job[t].target
          /\ job'[t].op = job[t].op
      <3>1. pc'[t] = "stat"
        BY <1>2, <1>a
      <3>2. QED BY <1>a, <2>1, <3>1 DEF Job
    <2>5. Outside(t)' /\ JobOK(t)'
      BY <1>a, <2>4 DEF Outside, JobOK
    <2>6. QED BY <2>2, <2>3, <2>5, OwnStepInv
  <1>3. ASSUME NEW id \in Ids, NEW gone \in SUBSET Ids,
               job' = [job EXCEPT ![t].vanished = gone, ![t].target = id],
               pc' = [pc EXCEPT ![t] = "edit"], job[t].op = "evict"
        PROVE  IInv'
    <2>1. job'[t] = [job[t] EXCEPT !.vanished = gone, !.target = id] /\ job'[t] \in Job
      BY <1>3, <1>a DEF TypeOK, Job
    <2>2. TypeOK'
      BY <1>3, <1>a, <2>1 DEF TypeOK, Steps
    <2>3. OwnStep(t)
      BY <1>3, <1>a DEF TypeOK, OwnStep
    <2>4. Outside(t)' /\ JobOK(t)'
      BY <1>3, <1>a, <2>1 DEF TypeOK, Outside, JobOK, Job
    <2>5. QED BY <2>2, <2>3, <2>4, OwnStepInv
  <1>4. CASE \E id \in Ids : Stat(t, id)
    <2>1. PICK id \in Ids : Stat(t, id)
      BY <1>4
    <2> DEFINE rest == job[t].unchecked \ {id}
               gone == IF Vanished(job[t].seen[id].dir)
                         THEN job[t].vanished \cup {id} ELSE job[t].vanished
    <2>2. rest \in SUBSET Ids /\ gone \in SUBSET Ids
      BY <1>a DEF Job
    <2>3. job' = [job EXCEPT ![t].unchecked = rest, ![t].vanished = gone] /\ UNCHANGED pc
      BY <2>1 DEF Stat
    <2>4. QED BY <1>2, <2>2, <2>3
  <1>5. CASE EvictNext(t) /\ ~End(t)
    <2>1. PICK id \in job[t].vanished :
            /\ job' = [job EXCEPT ![t].vanished = @ \ {id}, ![t].target = id]
            /\ pc' = [pc EXCEPT ![t] = "edit"]
      BY <1>5 DEF EvictNext, Goto
    <2> DEFINE gone == job[t].vanished \ {id}
    <2>2. id \in Ids /\ gone \in SUBSET Ids
      BY <1>a, <2>1 DEF Job
    <2>3. job' = [job EXCEPT ![t].vanished = gone, ![t].target = id]
      BY <2>1
    <2>4. job[t].op = "evict"
      BY <1>a DEF JobOK
    <2>5. QED BY <1>3, <2>1, <2>2, <2>3, <2>4
  <1>6. CASE EvictNext(t) /\ End(t)
    BY <1>1, <1>6
  <1>7. QED BY <1>4, <1>5, <1>6

LEMMA ReturnErrorStep ==
  ASSUME IInv, NEW t \in Threads, ReturnError(t)
  PROVE  IInv'
  <1>1. TypeOK'
    BY EndType DEF IInv, TypeOK, ReturnError
  <1>2. OwnStep(t) /\ Outside(t)' /\ JobOK(t)'
    BY FailStep DEF IInv, OwnStep, ReturnError, Outside, PinsKept
  <1>3. QED BY <1>1, <1>2, OwnStepInv

-----------------------------------------------------------------------------
(* The environment, and the whole next-state relation *)

LEMMA RestartInv ==
  ASSUME TypeOK, pins' \in [Ids -> Keys \cup {NoKey}],
         disk' \in [Dirs -> Packs \cup {NoPack}], Fresh'
  PROVE  IInv'
  <1>1. Present(NothingLoaded) = {} /\ Offerings(NothingLoaded) = {}
    BY DEF Present, NothingLoaded, Offerings, Offer
  <1>2. TypeOK'
    BY NoJobType, MapType DEF TypeOK, Fresh, Steps
  <1>3. JobInv' /\ MutexInv' /\ DraftInv'
    BY SentinelAssumption DEF Fresh, JobInv, JobOK, MutexInv, DraftInv, NoJob
  <1>4. LagInv' /\ LoadedIsVerified'
    BY <1>1 DEF Fresh, LagInv, LoadedIsVerified, VerifiedMap
  <1>5. QED BY <1>2, <1>3, <1>4 DEF IInv

LEMMA EnvironmentStep ==
  ASSUME IInv, Environment
  PROVE  IInv'
  <1>1. ASSUME NEW d \in Dirs, NEW p \in Packs \cup {NoPack}, WriteDisk(d, p)
        PROVE  IInv'
    <2>1. TypeOK'
      BY <1>1 DEF IInv, TypeOK, WriteDisk
    <2>2. QED BY <1>1, <2>1, LocalStep DEF WriteDisk, PinsKept
  <1>2. ASSUME NEW id \in Ids, GtdxPins(id)
        PROVE  IInv'
    <2>1. TypeOK' /\ PinsKept
      BY <1>2 DEF IInv, TypeOK, GtdxPins, PinsKept
    <2>2. QED BY <1>2, <2>1, LocalStep DEF GtdxPins
  <1>3. CASE Restart
    BY <1>3, RestartInv DEF IInv, TypeOK, Restart, Fresh
  <1>4. QED BY <1>1, <1>2, <1>3 DEF Environment

LEMMA NextStep ==
  ASSUME IInv, [Next]_vars
  PROVE  IInv'
  <1>1. CASE UNCHANGED vars
    <2>1. TypeOK'
      BY <1>1 DEF IInv, TypeOK, vars
    <2>2. QED BY <1>1, <2>1, LocalStep DEF vars, PinsKept
  <1>2. CASE Environment
    BY <1>2, EnvironmentStep
  <1>3. ASSUME NEW t \in Threads, Start(t) \/ Continue(t) \/ Panic(t)
        PROVE  IInv'
    BY <1>3, BeginStep, GateStep, EditStep, StoreMapStep, StoreRegistryStep, EmitStep,
       EvictionStep, ReturnErrorStep, PanicStep
    DEF Continue, EditAny
  <1>4. QED BY <1>1, <1>2, <1>3 DEF Next

LEMMA InitInv ==
  ASSUME Init
  PROVE  IInv
  <1>1. Present(NothingLoaded) = {} /\ Offerings(NothingLoaded) = {}
    BY DEF Present, NothingLoaded, Offerings, Offer
  <1>2. TypeOK
    <2>1. NothingLoaded \in LoadedMap
      BY DEF NothingLoaded, LoadedMap
    <2>2. loaded \in LoadedMap /\ registry \subseteq Offer /\ mirror \subseteq Ids
      BY <2>1 DEF Init, Fresh
    <2>3. pc \in [Threads -> Steps] /\ job \in [Threads -> Job] /\ lock \in Threads \cup {NoThread}
      BY NoJobType DEF Init, Fresh, Steps
    <2>4. QED BY <2>2, <2>3 DEF Init, TypeOK
  <1>3. JobInv /\ MutexInv /\ DraftInv
    BY SentinelAssumption DEF Init, Fresh, JobInv, JobOK, MutexInv, DraftInv, NoJob
  <1>4. LagInv /\ LoadedIsVerified
    BY <1>1 DEF Init, Fresh, LagInv, LoadedIsVerified, VerifiedMap
  <1>5. QED BY <1>2, <1>3, <1>4 DEF IInv

-----------------------------------------------------------------------------
(* Theorems *)

\* The inductive invariant holds of every behaviour of the runtime.
THEOREM Invariance == Spec => []IInv
  <1>1. Init => IInv
    BY InitInv
  <1>2. IInv /\ [Next]_vars => IInv'
    BY NextStep
  <1>3. QED BY <1>1, <1>2, PTL DEF Spec

\* Every variable keeps its type: in particular the loaded map never holds
\* anything but packs of the ids it is keyed by the type of.
THEOREM TypeCorrect == Spec => []TypeOK
  <1>1. IInv => TypeOK
    BY DEF IInv
  <1>2. QED BY <1>1, Invariance, PTL

\* What is loaded passed the whole load gate, with the component its ledger
\* records and the key the trust store pins (verify_dir_signature,
\* from_verified): whatever is written to the disk meanwhile.
THEOREM OnlyVerifiedLoads == Spec => []LoadedIsVerified
  <1>1. IInv => LoadedIsVerified
    BY DEF IInv
  <1>2. QED BY <1>1, Invariance, PTL

\* Between mutations the capability registry is that of the loaded map
\* (mutate_loaded): no edit is lost, failed or panicking ones included.
THEOREM RegistryFollows == Spec => []RegistryInStep
  <1>1. IInv => RegistryInStep
    BY SentinelAssumption DEF IInv, MutexInv, LagInv, RegistryInStep
  <1>2. QED BY <1>1, Invariance, PTL

\* The steps that change what readers see.
LEMMA PublishedBy ==
  ASSUME IInv, [Next]_vars
  PROVE  \/ UNCHANGED <<loaded, registry>>
         \/ \E t \in Threads : StoreMap(t)
         \/ \E t \in Threads : StoreRegistry(t)
         \/ Restart
  <1>1. CASE UNCHANGED vars
    BY <1>1 DEF vars
  <1>2. CASE Environment
    BY <1>2 DEF Environment, WriteDisk, GtdxPins
  <1>3. ASSUME NEW t \in Threads, Start(t) \/ Panic(t)
        PROVE  UNCHANGED <<loaded, registry>>
    BY <1>3 DEF Start, BeginRegister, BeginReload, BeginRemoval, Begin, BeginEvict, Panic
  <1>4. ASSUME NEW t \in Threads, Continue(t), ~StoreMap(t), ~StoreRegistry(t)
        PROVE  UNCHANGED <<loaded, registry>>
    BY <1>4 DEF Continue, Verify, Anchor, ReadComponent, EditRegister, EditReload,
       EditRemoval, EditEvict, Edit, Emit, Stat, EvictNext, ReturnError
  <1>5. QED BY <1>1, <1>2, <1>3, <1>4 DEF Next

\* Outside start-up registration no version is replaced by an older one,
\* however reloads, removals and evictions interleave (handle_added_or_modified).
THEOREM NoDowngrade == Spec => NoHotDowngrade
  <1>1. IInv /\ [Next]_vars => [Registering \/ NowhereOlder(loaded, loaded')]_loaded
    <2> SUFFICES ASSUME IInv, [Next]_vars, loaded' # loaded
                 PROVE  Registering \/ NowhereOlder(loaded, loaded')
      OBVIOUS
    <2>1. CASE Restart
      BY <2>1 DEF Restart, NowhereOlder, Present, NothingLoaded
    <2>2. ASSUME NEW t \in Threads, StoreMap(t)
          PROVE  Registering \/ NowhereOlder(loaded, loaded')
      BY <2>2 DEF IInv, DraftInv, StoreMap, Registering
    <2>3. ASSUME NEW t \in Threads, StoreRegistry(t)
          PROVE  FALSE
      BY <2>3 DEF StoreRegistry
    <2>4. QED BY <2>1, <2>2, <2>3, PublishedBy
  <1>2. QED BY <1>1, Invariance, PTL DEF Spec, NoHotDowngrade

\* Readers, who take no lock, see what LoadedSet describes: entries come and go
\* one at a time and the offers lag the map by at most one publication.
THEOREM ReadersView == Spec => ReaderSpec
  <1>1. Init => Reader!Init
    <2>1. Offerings(NothingLoaded) = {}
      BY DEF NothingLoaded, Offerings, Offer
    <2>2. QED BY <2>1 DEF Init, Fresh, Reader!Init, Reader!InStep, NothingLoaded
  <1>2. IInv /\ [Next]_vars => [Reader!Next]_(Reader!vars)
    <2> SUFFICES ASSUME IInv, [Next]_vars, ~UNCHANGED <<loaded, registry>>
                 PROVE  Reader!Next
      BY DEF Reader!vars
    <2>1. CASE Restart
      <3>1. Offerings(NothingLoaded) = {}
        BY DEF NothingLoaded, Offerings, Offer
      <3>2. Reader!Reset
        BY <2>1, <3>1 DEF Restart, Reader!Reset, NothingLoaded
      <3>3. QED BY <3>2 DEF Reader!Next
    <2>2. ASSUME NEW t \in Threads, StoreMap(t)
          PROVE  Reader!Next
      <3>1. \A u \in Threads : pc[u] # "storeRegistry"
        BY <2>2 DEF IInv, MutexInv, StoreMap
      <3>2. registry = Offerings(loaded)
        BY <3>1 DEF IInv, LagInv
      <3>3. OneEdit(loaded, loaded') /\ loaded' # loaded /\ UNCHANGED registry
        BY <2>2 DEF IInv, DraftInv, StoreMap
      <3>4. Reader!Publish
        BY <3>2, <3>3 DEF OneEdit, Reader!Publish, Reader!InStep
      <3>5. QED BY <3>4 DEF Reader!Next
    <2>3. ASSUME NEW t \in Threads, StoreRegistry(t)
          PROVE  Reader!Next
      BY <2>3 DEF IInv, DraftInv, StoreRegistry, Reader!Next, Reader!Advertise
    <2>4. QED BY <2>1, <2>2, <2>3, PublishedBy
  <1>3. QED BY <1>1, <1>2, Invariance, PTL DEF Spec, ReaderSpec, Reader!Spec
=============================================================================
