------------------------------ MODULE HotReload ------------------------------
(***************************************************************************)
(* The filesystem watcher driving the runtime: what users do to the        *)
(* extension directories, the events the debouncer makes of it             *)
(* (crates/greentic-ext-runtime/src/watcher.rs) and the watcher threads    *)
(* that receive, classify and handle them (runtime_watch.rs), each through *)
(* the operations of ExtensionRuntime.                                     *)
(***************************************************************************)
EXTENDS ExtensionRuntime, Sequences

CONSTANTS
  Installs,   \* the packs users may put in each directory
  Changes,    \* the kinds of change users make
  MaxChanges, \* how many changes they make
  Lossy,      \* whether the backend may drop events
  MaxStops    \* how often a watcher is stopped

\* What users do, and the kind of the notify event each raises.
NotifyKind ==
  [install      |-> "Create", \* a directory appears
   overwrite    |-> "Modify", \* files of an installed pack are written
   unlinkListed |-> "Remove", \* a file the ledger lists is deleted
   unlinkStray  |-> "Remove", \* a file the ledger does not list is deleted
   uninstall    |-> "Remove", \* the directory is deleted
   moveOut      |-> "Modify"] \* the directory is renamed out of the tree

FsEvent == [kind : {"Added", "Modified", "Removed"}, dir : Dirs]

ASSUME HotReloadAssumption ==
  /\ Installs \in [Dirs -> SUBSET Packs]
  /\ Changes \subseteq DOMAIN NotifyKind
  /\ MaxChanges \in Nat
  /\ Lossy \in BOOLEAN
  /\ MaxStops \in Nat

VARIABLES
  fsEvents, \* the channel of each watcher
  changes,  \* changes made so far
  unseen,   \* directories whose last change a watcher was told wrong, or not at all
  eclipsed, \* directories whose id another has held or given since they changed
  guard,    \* WatcherGuard: what has become of each watcher
  stops     \* watchers stopped so far

watchVars == <<fsEvents, changes, unseen, eclipsed, guard, stops>>
hotVars == <<vars, watchVars>>

Guards == {"held",     \* the thread runs
           "dropping", \* the guard is dropped while the thread waits for an event
           "last",     \* it is dropped, and the thread looks before it waits again
           "gone"}     \* the thread has been joined

HotTypeOK ==
  /\ TypeOK
  /\ fsEvents \in [Threads -> Seq(FsEvent)]
  /\ changes \in 0 .. MaxChanges
  /\ unseen \subseteq Dirs /\ eclipsed \subseteq Dirs
  /\ guard \in [Threads -> Guards]
  /\ stops \in 0 .. MaxStops

\* The watchers start over an empty tree.
HotInit ==
  /\ Init
  /\ disk = [d \in Dirs |-> NoPack]
  /\ fsEvents = [t \in Threads |-> <<>>]
  /\ changes = 0
  /\ unseen = {} /\ eclipsed = {}
  /\ guard = [t \in Threads |-> "held"]
  /\ stops = 0

-----------------------------------------------------------------------------
(* Users and the debouncer *)

\* MUTANT: a kind of event nothing handles is forwarded.
Classify_Forwards(kind) == IF kind = "Remove" THEN "Other" ELSE "Modified"

\* watch: the FsEvent made of a notify event.
Classify(kind) ==
  CASE kind = "Create" -> "Added"
    [] kind = "Modify" -> "Modified"
    [] kind = "Remove" -> "Removed"

Watching == {t \in Threads : guard[t] # "gone"}

\* Those an event reaches.  A backend that fails drops it, and watch only logs.
Reached == IF Lossy THEN SUBSET Watching ELSE {Watching}

\* The other directories that hold the id of p, and those it is loaded or about to
\* be loaded from.
Rivals(d, p) == {e \in Dirs \ {d} : p # NoPack /\ disk[e] # NoPack /\ disk[e].id = p.id}

Sources(d, p) ==
  {e \in Dirs \ {d} :
     /\ p # NoPack
     /\ \/ loaded[p.id] # NoExt /\ loaded[p.id].dir = e
        \/ \E t \in Threads :
             job[t].dir = e /\ job[t].pack # NoPack /\ job[t].pack.id = p.id}

\* One change of one directory, and its event in the channels it reaches.
Change(how, d, p) ==
  /\ how \in Changes
  /\ changes < MaxChanges
  /\ changes' = changes + 1
  /\ \E reached \in Reached :
       /\ unseen' = IF how \in {"moveOut", "unlinkStray"} \/ reached # Threads
                      THEN unseen \cup {d} ELSE unseen \ {d}
       /\ fsEvents' = [t \in Threads |->
            IF t \in reached
              THEN Append(fsEvents[t], [kind |-> Classify(NotifyKind[how]), dir |-> d])
              ELSE fsEvents[t]]
  /\ eclipsed' = (eclipsed \ {d}) \cup Rivals(d, p)
                  \cup {e \in {d} : Rivals(d, p) \cup Sources(d, p) # {}}
  /\ WriteDisk(d, p)
  /\ UNCHANGED <<guard, stops>>

Install(d) ==
  /\ disk[d] = NoPack
  /\ \E p \in Installs[d] : Change("install", d, p)

Overwrite(d) ==
  /\ disk[d] # NoPack
  /\ \E p \in Installs[d] : Change("overwrite", d, p)

\* Deleting a file the ledger lists breaks a pack.
UnlinkListed(d) ==
  /\ disk[d] # NoPack
  /\ \E p \in Installs[d] : p.grade = "unverifiable" /\ Change("unlinkListed", d, p)

\* Deleting the one it does not list mends one.
UnlinkStray(d) ==
  /\ disk[d] # NoPack
  /\ disk[d].grade = "uncovered"
  /\ LET mended == [disk[d] EXCEPT !.grade = "sound"] IN
       mended \in Installs[d] /\ Change("unlinkStray", d, mended)

Uninstall(d) == disk[d] # NoPack /\ Change("uninstall", d, NoPack)

MoveOut(d) == disk[d] # NoPack /\ Change("moveOut", d, NoPack)

-----------------------------------------------------------------------------
(* The watcher thread: receive, classify, handle *)

\* recv_timeout: a guard dropped while it waits is noticed one event late.
Receive(t) ==
  /\ Idle(t)
  /\ guard[t] \in {"held", "dropping"}
  /\ guard' = [guard EXCEPT ![t] = IF @ = "dropping" THEN "last" ELSE @]
  /\ fsEvents[t] # <<>>
  /\ fsEvents' = [fsEvents EXCEPT ![t] = Tail(@)]
  /\ UNCHANGED <<changes, unseen, eclipsed, stops>>

\* find_extension_dir finds the directory that owns the path, if it is there.
OwningDir(e) == IF disk[e.dir] = NoPack THEN NoDir ELSE e.dir

\* MUTANT: a removal is resolved through find_extension_dir, like a write.
HandleRemoved_Resolved(t) ==
  /\ Receive(t)
  /\ LET e == Head(fsEvents[t]) IN
       /\ e.kind = "Removed"
       /\ \/ OwningDir(e) \in Dirs /\ BeginReload(t, OwningDir(e))
          \/ OwningDir(e) = NoDir /\ UNCHANGED vars

\* handle_fs_event on a removal: the filesystem is asked, not the event.
HandleRemoved(t) ==
  /\ Receive(t)
  /\ Head(fsEvents[t]).kind = "Removed"
  /\ BeginEvict(t)

\* MUTANT: a directory something is already loaded from is not loaded again.
HandleWritten_Once(t) ==
  /\ Receive(t)
  /\ LET e == Head(fsEvents[t]) IN
       /\ e.kind \in {"Added", "Modified"}
       /\ \/ /\ OwningDir(e) \in Dirs
             /\ LoadedFrom(loaded, OwningDir(e)) = {}
             /\ BeginReload(t, OwningDir(e))
          \/ /\ OwningDir(e) = NoDir \/ LoadedFrom(loaded, e.dir) # {}
             /\ UNCHANGED vars

\* handle_fs_event on a write: the owning directory is loaded again.
HandleWritten(t) ==
  /\ Receive(t)
  /\ LET e == Head(fsEvents[t]) IN
       /\ e.kind \in {"Added", "Modified"}
       /\ \/ OwningDir(e) \in Dirs /\ BeginReload(t, OwningDir(e))
          \/ OwningDir(e) = NoDir /\ UNCHANGED vars

\* WatcherGuard::drop: the sender of the stop channel goes, then drop joins.
DropGuard(t) ==
  /\ guard[t] = "held"
  /\ stops < MaxStops
  /\ stops' = stops + 1
  /\ guard' = [guard EXCEPT ![t] = IF Idle(t) THEN "dropping" ELSE "last"]
  /\ UNCHANGED <<vars, fsEvents, changes, unseen, eclipsed>>

\* MUTANT: the thread waits for its next event without a timeout.
Noticed_Blocking(t) == guard[t] = "last"
\* try_recv: the thread finds the stop channel closed.
Noticed(t) == guard[t] \in {"dropping", "last"}

\* It leaves its loop and takes the debouncer and the channel with it; drop
\* returns.
Exit(t) ==
  /\ Idle(t)
  /\ Noticed(t)
  /\ guard' = [guard EXCEPT ![t] = "gone"]
  /\ fsEvents' = [fsEvents EXCEPT ![t] = <<>>]
  /\ unseen' = unseen \cup {fsEvents[t][i].dir : i \in DOMAIN fsEvents[t]}
  /\ UNCHANGED <<vars, changes, eclipsed, stops>>

\* start_watcher again: nothing looks for what changed in the meantime.
StartWatcher(t) ==
  /\ guard[t] = "gone"
  /\ guard' = [guard EXCEPT ![t] = "held"]
  /\ UNCHANGED <<vars, fsEvents, changes, unseen, eclipsed, stops>>

Users ==
  \E d \in Dirs : Install(d) \/ Overwrite(d) \/ UnlinkListed(d) \/ UnlinkStray(d)
                \/ Uninstall(d) \/ MoveOut(d)

Watch(t) ==
  \/ HandleRemoved(t)
  \/ HandleWritten(t)
  \/ Exit(t)
  \/ Continue(t) /\ UNCHANGED watchVars

\* gtdx at work on the trust store.
Gtdx == \E id \in Ids : GtdxPins(id) /\ UNCHANGED watchVars

\* The embedder stops and starts watchers.
Embedder == \E t \in Threads : DropGuard(t) \/ StartWatcher(t)

HotNext == Users \/ Gtdx \/ Embedder \/ \E t \in Threads : Watch(t)

\* recv_timeout and the handlers are retried for as long as the thread lives.
HotSpec == HotInit /\ [][HotNext]_hotVars /\ \A t \in Threads : WF_hotVars(Watch(t))

-----------------------------------------------------------------------------
(* Properties *)

\* All watchers run, no change is waiting to be seen and none is at work.
Settled == \A t \in Threads : guard[t] = "held" /\ Idle(t) /\ fsEvents[t] = <<>>

Ghosts == {id \in Present(loaded) : disk[loaded[id].dir] = NoPack}

\* Directories that hold a pack which would load and is not loaded: what is
\* loaded under its id is neither that pack nor a newer one.
Missed ==
  {d \in Dirs :
     LET p == disk[d] IN
       /\ p # NoPack
       /\ p.grade = "sound"
       /\ pins[p.id] \in {NoKey, p.key}
       /\ loaded[p.id] = NoExt \/
            /\ loaded[p.id].pack # p
            /\ ~IsDowngrade(loaded[p.id].pack.version, p.version)}

\* Once all events are handled nothing is loaded from a directory that is gone,
\* however uninstalls, replacements, reloads and stops interleaved, except from
\* one whose last change was a move out of the tree or reached no watcher
\* (runtime_watch.rs, evict_vanished_extensions).
NoOtherGhost == Settled => \A id \in Ghosts : loaded[id].dir \in unseen

\* Nor is a pack that would load missed, unless its last change was a deletion
\* that mended it or reached no watcher, or another directory has had a part in
\* its id since (runtime_watch.rs, handle_fs_event; runtime_registry.rs, evict).
UpToDate == Settled => Missed \subseteq unseen \cup eclipsed

\* watcher_gate.rs:358: mv-ing an extension directory aside must unload it.
NoGhost == Settled => Ghosts = {}

\* runtime_watch.rs:26-27: events trigger reload of the affected directory.
NothingMissed == Settled => Missed = {}

\* A subscriber that applied every event agrees with the loaded set whenever the
\* watcher rests, with events to come or stopped for good (runtime.rs, emit).
MirrorAgrees == (\A t \in Threads : Idle(t)) => mirror = Present(loaded)

\* Every change is eventually seen, and every operation it starts ends, unless
\* the watcher is stopped.
Settles == <>[](Settled \/ \E t \in Threads : guard[t] # "held")

\* Dropping a guard returns, whatever the thread is doing and however many events
\* are waiting (runtime.rs, WatcherGuard: "Dropping this stops the watcher thread
\* cleanly").
DropReturns ==
  \A t \in Threads : guard[t] \in {"dropping", "last"} ~> guard[t] = "gone"
=============================================================================
