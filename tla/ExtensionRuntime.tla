-------------------------- MODULE ExtensionRuntime --------------------------
(***************************************************************************)
(* The loaded set of the extension runtime and everything that changes it: *)
(* registration at start-up, hot reload, removal by directory and eviction *)
(* of vanished directories, each as the sequence of steps its thread takes *)
(* (crates/greentic-ext-runtime/src/runtime.rs, runtime_registry.rs,       *)
(* runtime_watch.rs, with the load gate of runtime_verify.rs and loaded.rs *)
(* as far as the loaded set depends on it).                                *)
(*                                                                         *)
(* A thread's step ends where it reads or writes something another thread, *)
(* another process or the disk can change.  What a thread computes from    *)
(* its own locals in between belongs to the step.                          *)
(*                                                                         *)
(* A pack stands for a whole installed directory: the describe it parses   *)
(* to (id, version, offers), the publisher key that signed it, the         *)
(* component its ledger records, and a grade that says how far a load of   *)
(* it gets.                                                                *)
(***************************************************************************)
EXTENDS Naturals, FiniteSets

CONSTANTS
  Ids,        \* extension ids
  Dirs,       \* extension directories, <root>/<kind>/<name>
  Keys,       \* publisher keys
  Caps,       \* capability ids
  Components, \* contents of a wasm component
  Packs,      \* what may be installed in a directory
  Threads,    \* threads that call the mutating operations
  Calls,      \* which operations each thread calls
  NoExt, NoPack, NoThread, NoKey, NoId, NoDir, NoComponent

Ops == {"none", "register", "reload", "removal", "evict"}

Grades == {"sound",        \* loads
           "unverifiable", \* the signature or the ledger is rejected
           "uncovered",    \* so it is, for a file the ledger does not list
           "unloadable",   \* passes the gate, its component does not compile
           "badOffer"}     \* loads, an offered version does not parse

PackType == [id : Ids, version : Nat, key : Keys, offers : SUBSET Caps,
             component : Components, grade : Grades]

ASSUME PacksAssumption == Packs \subseteq PackType
ASSUME CallsAssumption == Calls \in [Threads -> SUBSET Ops]
ASSUME SentinelAssumption ==
  /\ NoPack \notin Packs
  /\ NoThread \notin Threads
  /\ NoKey \notin Keys
  /\ NoId \notin Ids
  /\ NoDir \notin Dirs
  /\ NoComponent \notin Components
  /\ NoExt \notin [dir : Dirs, pack : Packs, component : Components]

\* One LoadedExtension: where it came from, the describe the gate verified and
\* the component that was compiled.
Entry == [dir : Dirs, pack : Packs, component : Components]
LoadedMap == [Ids -> Entry \cup {NoExt}]
Offer == [ext : Ids, cap : Caps]

VARIABLES
  disk,     \* what each directory holds
  pins,     \* the trust store: the publisher key pinned for each id
  loaded,   \* ExtensionRuntime.loaded
  registry, \* ExtensionRuntime.capability_registry
  lock,     \* ExtensionRuntime.write_lock: its holder
  pc,       \* the next step of each thread
  job,      \* the locals of the operation each thread is in
  mirror    \* what a subscriber that applied every event believes loaded

vars == <<disk, pins, loaded, registry, lock, pc, job, mirror>>

NothingLoaded == [id \in Ids |-> NoExt]
Present(m) == {id \in Ids : m[id] # NoExt}

Steps == {"idle", "verify", "anchor", "read", "stat", "edit",
          "storeMap", "storeRegistry", "emit", "failed"}
Outcomes == {"none", "present", "absent", "refused"}

\* The locals of one operation.
NoJob == [op |-> "none", dir |-> NoDir, pack |-> NoPack,
          component |-> NoComponent, pinned |-> FALSE, seen |-> NothingLoaded,
          unchecked |-> {}, vanished |-> {}, target |-> NoId,
          draft |-> NothingLoaded, outcome |-> "none"]

Job == [op : Ops, dir : Dirs \cup {NoDir}, pack : Packs \cup {NoPack},
        component : Components \cup {NoComponent},
        pinned : BOOLEAN,         \* this operation wrote the pin
        seen : LoadedMap,         \* the map evict_vanished_extensions reads
        unchecked : SUBSET Ids,   \* those of seen not yet stat'ed
        vanished : SUBSET Ids,    \* those found gone and not yet evicted
        target : Ids \cup {NoId}, \* the id the edit is about
        draft : LoadedMap,        \* the edited clone
        outcome : Outcomes]       \* what the edit did

TypeOK ==
  /\ disk \in [Dirs -> Packs \cup {NoPack}]
  /\ pins \in [Ids -> Keys \cup {NoKey}]
  /\ loaded \in LoadedMap
  /\ registry \subseteq Offer
  /\ lock \in Threads \cup {NoThread}
  /\ pc \in [Threads -> Steps]
  /\ job \in [Threads -> Job]
  /\ mirror \subseteq Ids

\* The process as ExtensionRuntime::new leaves it.
Fresh ==
  /\ loaded = NothingLoaded
  /\ registry = {}
  /\ lock = NoThread
  /\ pc = [t \in Threads |-> "idle"]
  /\ job = [t \in Threads |-> NoJob]
  /\ mirror = {}

Init ==
  /\ disk \in [Dirs -> Packs \cup {NoPack}]
  /\ pins = [id \in Ids |-> NoKey]
  /\ Fresh

-----------------------------------------------------------------------------
(* Pure helpers *)

\* The capability registry a loaded map stands for: rebuild_registry.
Offerings(m) ==
  {o \in Offer : m[o.ext] # NoExt /\ o.cap \in m[o.ext].pack.offers}

\* rebuild_registry fails on an offered version that does not parse.
Rebuildable(m) == \A id \in Present(m) : m[id].pack.grade # "badOffer"

\* Both versions must parse (0 is one that does not) to be compared.
IsDowngrade(current, candidate) ==
  current # 0 /\ candidate # 0 /\ candidate < current

With(m, e) == [m EXCEPT ![e.pack.id] = e]
Without(m, id) == [m EXCEPT ![id] = NoExt]

-----------------------------------------------------------------------------
(* The environment *)

\* Someone installs p in the directory d, or deletes d (p = NoPack).
WriteDisk(d, p) ==
  /\ p # disk[d]
  /\ disk' = [disk EXCEPT ![d] = p]
  /\ UNCHANGED <<pins, loaded, registry, lock, pc, job, mirror>>

\* gtdx, which shares the trust store, pins a key on its own first use of an id.
GtdxPins(id) ==
  /\ pins[id] = NoKey
  /\ \E k \in Keys : pins' = [pins EXCEPT ![id] = k]
  /\ UNCHANGED <<disk, loaded, registry, lock, pc, job, mirror>>

\* The process dies and starts again; the disk and the trust store survive.
Restart ==
  /\ loaded' = NothingLoaded
  /\ registry' = {}
  /\ lock' = NoThread
  /\ pc' = [t \in Threads |-> "idle"]
  /\ job' = [t \in Threads |-> NoJob]
  /\ mirror' = {}
  /\ UNCHANGED <<disk, pins>>

-----------------------------------------------------------------------------
(* Starting and ending an operation *)

Goto(t, step) == pc' = [pc EXCEPT ![t] = step]

Idle(t) == pc[t] = "idle"

\* register_loaded_from_dir takes &mut self: nobody else is inside the runtime.
Registering == \E t \in Threads : job[t].op = "register"

Begin(t, op, d, step) ==
  /\ Idle(t)
  /\ op \in Calls[t]
  /\ ~Registering
  /\ job' = [job EXCEPT ![t] = [NoJob EXCEPT !.op = op, !.dir = d]]
  /\ Goto(t, step)
  /\ UNCHANGED <<disk, pins, loaded, registry, lock, mirror>>

BeginRegister(t, d) ==
  /\ \A u \in Threads : Idle(u)
  /\ Begin(t, "register", d, "verify")

BeginReload(t, d) == Begin(t, "reload", d, "verify")

BeginRemoval(t, d) == Begin(t, "removal", d, "edit")

\* evict_vanished_extensions reads the loaded map once, outside the lock.
BeginEvict(t) ==
  /\ Idle(t)
  /\ "evict" \in Calls[t]
  /\ ~Registering
  /\ job' = [job EXCEPT ![t] = [NoJob EXCEPT !.op = "evict", !.seen = loaded,
                                             !.unchecked = Present(loaded)]]
  /\ Goto(t, "stat")
  /\ UNCHANGED <<disk, pins, loaded, registry, lock, mirror>>

\* The operation returns to its caller.
End(t) ==
  /\ job' = [job EXCEPT ![t] = NoJob]
  /\ Goto(t, "idle")

\* The operation fails; what it did to the trust store stays.
Fail(t) ==
  /\ job' = [job EXCEPT ![t] = [NoJob EXCEPT !.op = job[t].op, !.pinned = job[t].pinned]]
  /\ Goto(t, "failed")

\* The error of a failed load or of a refused reload reaches the caller.
ReturnError(t) ==
  /\ pc[t] = "failed"
  /\ End(t)
  /\ UNCHANGED <<disk, pins, loaded, registry, lock, mirror>>

-----------------------------------------------------------------------------
(* The load gate: verify_dir_signature, then LoadedExtension::from_verified *)

Verifiable(p) == p # NoPack /\ p.grade \notin {"unverifiable", "uncovered"}

\* Steps 1 and 2 of the gate: describe and ledger are read, checked and kept.
Verify(t) ==
  /\ pc[t] = "verify"
  /\ LET p == disk[job[t].dir] IN
       IF Verifiable(p)
         THEN /\ job' = [job EXCEPT ![t].pack = p]
              /\ Goto(t, "anchor")
         ELSE Fail(t)
  /\ UNCHANGED <<disk, pins, loaded, registry, lock, mirror>>

\* Step 3, TrustStore::pin_or_verify: pin on first use, else compare.
Anchor(t) ==
  /\ pc[t] = "anchor"
  /\ LET p == job[t].pack IN
       \/ /\ pins[p.id] = NoKey
          /\ pins' = [pins EXCEPT ![p.id] = p.key]
          /\ job' = [job EXCEPT ![t].pinned = TRUE]
          /\ Goto(t, "read")
       \/ /\ pins[p.id] = p.key
          /\ Goto(t, "read")
          /\ UNCHANGED <<pins, job>>
       \/ /\ pins[p.id] \notin {NoKey, p.key}
          /\ Fail(t)
          /\ UNCHANGED pins
  /\ UNCHANGED <<disk, loaded, registry, lock, mirror>>

\* VerifiedLedger::read_verified: the bytes just read are those the ledger records.
Vouched_Unchecked(t, found) == found # NoPack \* MUTANT: the path is trusted

Vouched(t, found) == found # NoPack /\ found.component = job[t].pack.component

\* The component is read from the directory again, checked and compiled.
ReadComponent(t) ==
  /\ pc[t] = "read"
  /\ LET found == disk[job[t].dir] IN
       IF Vouched(t, found) /\ job[t].pack.grade # "unloadable"
         THEN /\ job' = [job EXCEPT ![t].component = found.component]
              /\ Goto(t, "edit")
         ELSE Fail(t)
  /\ UNCHANGED <<disk, pins, loaded, registry, lock, mirror>>

-----------------------------------------------------------------------------
(* mutate_loaded: lock, clone, edit, rebuild; then two stores; then unlock *)

LockFree_Ignored == TRUE \* MUTANT: ArcSwap alone, no write_lock

LockFree == lock = NoThread

\* MUTANT: the early return of a failed rebuild leaks the lock.
Edit_Leaks(t, m, id, outcome) ==
  /\ LockFree
  /\ lock' = t
  /\ IF Rebuildable(m)
       THEN /\ job' = [job EXCEPT ![t].draft = m, ![t].target = id, ![t].outcome = outcome]
            /\ Goto(t, "storeMap")
       ELSE Fail(t)
  /\ UNCHANGED <<disk, pins, loaded, registry, mirror>>

\* Under the lock: the clone becomes m, its registry is rebuilt; if that fails
\* nothing is stored and the lock is released; a load reports the error, an
\* eviction logs it and goes on.
Edit(t, m, id, outcome) ==
  /\ LockFree
  /\ IF Rebuildable(m)
       THEN /\ lock' = t
            /\ job' = [job EXCEPT ![t].draft = m, ![t].target = id, ![t].outcome = outcome]
            /\ Goto(t, "storeMap")
       ELSE /\ IF job[t].op \in {"register", "reload"}
                 THEN Fail(t)
                 ELSE Goto(t, "emit") /\ UNCHANGED job
            /\ UNCHANGED lock
  /\ UNCHANGED <<disk, pins, loaded, registry, mirror>>

Editing(t, op) == pc[t] = "edit" /\ job[t].op = op

NewEntry(t) ==
  [dir |-> job[t].dir, pack |-> job[t].pack, component |-> job[t].component]

\* MUTANT: the versions are compared the wrong way round.
Refuses_Swapped(t, m) ==
  LET p == job[t].pack IN
    m[p.id] # NoExt /\ IsDowngrade(p.version, m[p.id].pack.version)

\* The reload looks the current version up in the map it is about to edit.
Refuses(t, m) ==
  LET p == job[t].pack IN
    m[p.id] # NoExt /\ IsDowngrade(m[p.id].pack.version, p.version)

EditRegister(t) ==
  /\ Editing(t, "register")
  /\ Edit(t, With(loaded, NewEntry(t)), job[t].pack.id, "present")

\* A refused downgrade leaves the map alone but is published like any edit.
EditReload(t) ==
  /\ Editing(t, "reload")
  /\ IF Refuses(t, loaded)
       THEN Edit(t, loaded, job[t].pack.id, "refused")
       ELSE Edit(t, With(loaded, NewEntry(t)), job[t].pack.id, "present")

LoadedFrom(m, d) == {id \in Present(m) : m[id].dir = d}

\* handle_removal drops the first extension it finds loaded from the directory.
EditRemoval(t) ==
  /\ Editing(t, "removal")
  /\ \/ \E id \in LoadedFrom(loaded, job[t].dir) :
          Edit(t, Without(loaded, id), id, "absent")
     \/ /\ LoadedFrom(loaded, job[t].dir) = {}
        /\ Edit(t, loaded, NoId, "none")

\* evict(id) drops whatever is loaded under the id by now.
EditEvict(t) ==
  /\ Editing(t, "evict")
  /\ Edit(t, Without(loaded, job[t].target), job[t].target,
          IF loaded[job[t].target] = NoExt THEN "none" ELSE "absent")

\* A mutator that panics in its edit poisons the lock without storing anything;
\* the next one recovers it.
Panic(t) ==
  /\ pc[t] = "storeMap"
  /\ lock' = NoThread
  /\ Fail(t)
  /\ UNCHANGED <<disk, pins, loaded, registry, mirror>>

StoreMap(t) ==
  /\ pc[t] = "storeMap"
  /\ loaded' = job[t].draft
  /\ Goto(t, "storeRegistry")
  /\ UNCHANGED <<disk, pins, registry, lock, job, mirror>>

\* MUTANT: the old offerings are carried forward and the new ones appended.
StoreRegistry_Appends(t) ==
  /\ pc[t] = "storeRegistry"
  /\ registry' = registry \cup Offerings(job[t].draft)
  /\ lock' = NoThread
  /\ job' = [job EXCEPT ![t].draft = NothingLoaded, ![t].pack = NoPack,
                        ![t].component = NoComponent]
  /\ Goto(t, "emit")
  /\ UNCHANGED <<disk, pins, loaded, mirror>>

StoreRegistry(t) ==
  /\ pc[t] = "storeRegistry"
  /\ registry' = Offerings(job[t].draft)
  /\ lock' = NoThread
  /\ job' = [job EXCEPT ![t].draft = NothingLoaded, ![t].pack = NoPack,
                        ![t].component = NoComponent]
  /\ Goto(t, "emit")
  /\ UNCHANGED <<disk, pins, loaded, mirror>>

-----------------------------------------------------------------------------
(* After the lock: the event, and the next id of an eviction *)

\* MUTANT: every operation is announced as an installation.
Heard_Always(t) == mirror \cup {job[t].target}

\* MUTANT: evictions are not announced.
Heard_NoRemoval(t) ==
  IF job[t].outcome = "present" THEN mirror \cup {job[t].target} ELSE mirror

\* What the subscriber makes of the operation's event, if it sends one.
Heard(t) ==
  CASE job[t].outcome = "present" -> mirror \cup {job[t].target}
    [] job[t].outcome = "absent"  -> mirror \ {job[t].target}
    [] OTHER                      -> mirror

Emit(t) ==
  /\ pc[t] = "emit"
  /\ mirror' = Heard(t)
  /\ \/ /\ job[t].op = "evict"
        /\ job' = [job EXCEPT ![t].target = NoId, ![t].outcome = "none"]
        /\ Goto(t, "stat")
     \/ /\ job[t].outcome = "refused"
        /\ Fail(t)
     \/ /\ job[t].op # "evict"
        /\ job[t].outcome # "refused"
        /\ End(t)
  /\ UNCHANGED <<disk, pins, loaded, registry, lock>>

\* has_vanished: only a directory that is not there counts as gone.
Vanished(d) == disk[d] = NoPack

Stat(t, id) ==
  /\ pc[t] = "stat"
  /\ id \in job[t].unchecked
  /\ job' = [job EXCEPT ![t].unchecked = @ \ {id},
                        ![t].vanished = IF Vanished(job[t].seen[id].dir)
                                          THEN @ \cup {id} ELSE @]
  /\ UNCHANGED <<disk, pins, loaded, registry, lock, pc, mirror>>

\* All are stat'ed: evict the vanished one by one, then return.
EvictNext(t) ==
  /\ pc[t] = "stat"
  /\ job[t].unchecked = {}
  /\ \/ \E id \in job[t].vanished :
          /\ job' = [job EXCEPT ![t].vanished = @ \ {id}, ![t].target = id]
          /\ Goto(t, "edit")
     \/ job[t].vanished = {} /\ End(t)
  /\ UNCHANGED <<disk, pins, loaded, registry, lock, mirror>>

-----------------------------------------------------------------------------
(* The specification *)

\* One step of the operation thread t is in.
Continue(t) ==
  \/ Verify(t) \/ Anchor(t) \/ ReadComponent(t)
  \/ EditRegister(t) \/ EditReload(t) \/ EditRemoval(t) \/ EditEvict(t)
  \/ StoreMap(t) \/ StoreRegistry(t) \/ Emit(t)
  \/ (\E id \in Ids : Stat(t, id)) \/ EvictNext(t)
  \/ ReturnError(t)

Start(t) ==
  \/ \E d \in Dirs : BeginRegister(t, d) \/ BeginReload(t, d) \/ BeginRemoval(t, d)
  \/ BeginEvict(t)

Environment ==
  \/ \E d \in Dirs, p \in Packs \cup {NoPack} : WriteDisk(d, p)
  \/ \E id \in Ids : GtdxPins(id)
  \/ Restart

Next ==
  \/ \E t \in Threads : Start(t) \/ Continue(t) \/ Panic(t)
  \/ Environment

Spec == Init /\ [][Next]_vars

-----------------------------------------------------------------------------
(* Properties *)

\* Whenever no mutation is in progress the advertised capabilities are exactly
\* those of the loaded extensions (the contract of mutate_loaded).
RegistryInStep == lock = NoThread => registry = Offerings(loaded)

VerifiedMap(m) ==
  \A id \in Present(m) :
    /\ m[id].pack.id = id
    /\ m[id].pack.grade = "sound"
    /\ m[id].component = m[id].pack.component
    /\ pins[id] = m[id].pack.key

\* What is loaded under an id is a pack of that id that passed the whole gate,
\* with the component its ledger records, and its key is the one pinned.
LoadedIsVerified == VerifiedMap(loaded)

NowhereOlder(m, n) ==
  \A id \in Present(m) \cap Present(n) :
    ~IsDowngrade(m[id].pack.version, n[id].pack.version)

\* Only start-up registration may replace a version by an older one: two racing
\* reloads of one id cannot end with the older of them.
NoHotDowngrade == [][Registering \/ NowhereOlder(loaded, loaded')]_loaded

\* runtime_verify.rs:36-37: the anchor must never run for a load that then fails.
NoPinForAFailedLoad == \A t \in Threads : pc[t] = "failed" => ~job[t].pinned

\* runtime_watch.rs:124: evict_vanished_extensions drops the extensions whose
\* source directory no longer exists.  What it takes out of the map, under the
\* lock, is the entry whose directory it found gone; and if it is another that
\* was loaded under the id since, the directory of that one is gone as well.
EvictsOnlyTheVanished ==
  [][\A t \in Threads :
       LET id == job[t].target IN
         /\ Editing(t, "evict") /\ pc'[t] = "storeMap" /\ job'[t].draft[id] = NoExt
         /\ loaded[id] \notin {NoExt, job[t].seen[id]}
         => Vanished(loaded[id].dir)]_vars

\* runtime_registry.rs:66: handle_removal drops the extension loaded from the
\* directory, so by the time it returns none is.
RemovalDropsTheDirectory ==
  \A t \in Threads :
    pc[t] = "emit" /\ job[t].op = "removal" => LoadedFrom(loaded, job[t].dir) = {}

-----------------------------------------------------------------------------
(* What readers are promised: see LoadedSet *)

Reader == INSTANCE LoadedSet
            WITH map <- loaded, offers <- registry, Offered <- Offerings

\* The reader's view of this system is the one LoadedSet describes.
ReaderSpec == Reader!Spec
=============================================================================
