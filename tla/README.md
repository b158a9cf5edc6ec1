# A formal model of the greentic extension runtime

TLA+ specifications of `greentic-ext-runtime` (`crates/greentic-ext-runtime`), the engine
that loads signed WebAssembly extensions from disk, keeps them loaded while their
directories change, and lets a designer and the extensions themselves call them. TLC checks
the models on small instances; TLAPS proves their safety for any number of threads, ids,
directories and packs.

Paths below are relative to `crates/greentic-ext-runtime/src/` unless they start with
`tests/` (of that crate).

## 1. The system

### Components

| Part | State it keeps | Operations | Correct when |
|---|---|---|---|
| **Loaded set** `runtime.rs`, `runtime_registry.rs` | `loaded` (id to entry) and `capability_registry`, each an `ArcSwap`; `write_lock`; a broadcast channel | `register_loaded_from_dir`, `handle_added_or_modified`, `handle_removal`, `evict`, all through `mutate_loaded` | no edit is lost; the registry is that of the map; only verified packs get in; no downgrade by hot reload; readers, who take no lock, see whole edits |
| **Load gate** `runtime_verify.rs`, `loaded.rs` | none of its own; the trust store on disk | `verify_dir_signature` (describe, ledger, pin), `from_verified` | what is compiled is what was signed, by the key pinned for its id |
| **Hot-reload thread** `runtime_watch.rs` | the channel's receiving end, a stop signal | `start_watcher`, `handle_fs_event`, `evict_vanished_extensions`, `WatcherGuard::drop` | the loaded set follows the disk; a dropped guard stops the thread |
| **Filesystem watcher** `watcher.rs` | a debouncer, the channel's sending end | `watch` | every change reaches the thread, as the right kind of event |
| **Capability registry** `capability.rs` | the offers | `add_offering`, `resolve`, `detect_cycle` | a plan accounts for every requirement and binds the newest match; exactly the extensions that reach a cycle are reported |
| **Calls of extensions** `runtime.rs`, `runtime_design.rs`, `runtime_deploy.rs`, `runtime_roles.rs`, ... | a fresh store and instance per call | one method per exported function, newest interface version first | a call answers from one loaded entry; the guest hears what was asked and the caller what was said, at every version of the contract; the thread is given back |
| **Conversions** `types.rs`, `ext_error.rs`, `guardrail_map.rs` | none | between the types of six contract versions and the host's | no case becomes another |
| **Limits** `limits.rs` | per store the memory and table totals and a deadline; per engine an epoch and its ticker thread | `apply`, `ResourceLimiter`, `deadline_ticks`, `http_timeout_for` | no store exceeds its budget, no call is trapped early, none outlives its deadline |
| **Broker, host ports** `broker.rs`, `host_state_ports.rs`, `host_state.rs` | the permissions of the describe, a call depth | `call_extension` (checks, then reports that it is not implemented in this commit), `secrets.get` | nothing undeclared is read, however its path is written |
| **Outbound HTTP** `host_state_net.rs`, `url_matcher.rs`, `http_scheme_policy.rs`, `net_permissions.rs` | none | `fetch` with its redirects | every hop is granted by operator and extension both; the chain ends |
| **LLM and OAuth ports** `host_state_llm.rs`, `host_state_oauth.rs`, `oauth.rs` | none | a check of the role or provider; then a blocking call of the embedder, or one request to the token broker | only declared roles and providers are used; a token request ends |
| Discovery, configuration, metadata report | none | directory listing, defaults, logging | not modelled, see section 7 |

### How they interact

The hot-reload thread and the embedder's threads call the loaded set's operations
concurrently. An operation first runs the load gate, without the lock and against a disk
that anybody may be writing; then it edits a clone of the map under `write_lock`, rebuilds
the registry, and makes two stores; then, without the lock, it sends an event. Readers
(`loaded()`, `capability_registry()`, every dispatch) take no lock. The watcher's channel
carries what happened to the tree some time ago; the handler asks the disk what is there now.
The trust store is shared with the `gtdx` command-line tool.

A dispatch looks its extension up once (`list_tools` twice), builds a store of its own (allow
list, budget, deadline, the permissions of the entry it found), picks the newest version of
the interface that the component exports, converts the arguments to that version, runs the
guest on the caller's thread and converts what it says back. Dispatches share the engine's epoch,
which the ticker thread advances; wasm traps when it reaches the store's deadline. A host
call runs on the same thread, where no deadline reaches it, so it needs a bound of its own:
`fetch` has one per request, a token request has the same, and the embedder's LLM and secrets
ports have none.

### What is hard

Interleavings of reload, removal, eviction and registration; the disk changing between the
gate's reads; the window between the two stores; a mutation that fails or panics half way;
events that are late, lost, of the wrong kind, or sent after the lock; a watcher that is stopped
with events in its channel; an id held by two directories; a restart, which keeps the pins and
loses the loaded set. In a call: a reload between any two of its steps, or between the calls
that follow a deployment; two dozen conversions chosen by the version that was resolved; paths
and urls that the check and the server read differently. In a dispatch: a deadline that passes
inside a host call, a redirect chain that renews its timeout at every hop, a phase of the ticker
nobody chose, and a budget shared by every memory of a store. `PROJECT.json` lists each hazard
at its line, with the properties that cover it or the reason why none does.

## 2. Modules

| Module | Models |
|---|---|
| `LoadedSet` | The promise to readers: entries come and go one at a time, offers lag the map by at most one publication. Abstract; no threads, no lock. |
| `ExtensionRuntime` | The loaded set and its four operations, as the steps their threads take; the gate as three of the steps; disk, trust store, panics and restarts. Implements `LoadedSet`. |
| `HotReload` | Users changing the tree, the events the debouncer makes of it or loses, and the watcher threads that are started, handle them through the operations of `ExtensionRuntime`, which it extends, and are stopped. |
| `LoadGate` | One load, read by read, of a directory that is written meanwhile: describe, ledger, every file, the walk, the pin, the component. |
| `StoreLimits` | The budget of one store: what wasmtime's limiter callbacks charge, grant and refuse. |
| `Dispatch` | One dispatch: store, instantiation, wasm, fetches and their redirects, token requests, calls without a bound, the ticker, the deadline, and the time each takes. Extends `StoreLimits`. |
| `Contracts` | The 23 operations a host calls, as a table: interface, function, versions tried, and every conversion of arguments, values and errors at every version. |
| `Grants` | The checks in front of secrets, http, LLM, OAuth, broker and view paths, and what a file system or a lenient server makes of a path. |
| `Capabilities` | `resolve` and `detect_cycle`, and what they are for. |
| `Invocation` | One thread of the host that calls operations, follows a deployment and asks the registry, while other threads reload: composes the last three with `LoadedSet`. |
| `MCRuntime`, `MCHotReload`, `MCLoadGate`, `MCDispatch`, `MCInvocation` | Instances for TLC. |
| `ExtensionRuntimeProofs`, `HotReloadProofs`, `UpToDateProofs`, `LoadGateProofs`, `DispatchProofs`, `ContractsProofs`, `AlgorithmProofs`, `InvocationProofs` | Theorems, checked by TLAPS. |

`LoadedSet` is the joint between the two halves: `ExtensionRuntime` is proved to implement it,
and `Invocation` sees reloads only through it.

### ExtensionRuntime against the code

A step ends where a thread reads or writes something another thread, another process or the
disk can change; `pc[t]` is the next step and `job[t]` holds the locals.

| `pc[t]` | Action | Code |
|---|---|---|
| `idle` | `BeginRegister`, `BeginReload`, `BeginRemoval`, `BeginEvict` | the call; `BeginEvict` takes the snapshot of `loaded()` of `runtime_watch.rs:135` |
| `verify` | `Verify` | `read_describe`, the signature, `verify_dir_manifest` |
| `anchor` | `Anchor` | `pin_or_verify`: reads, and on first use writes, the trust store |
| `read` | `ReadComponent` | `wasm_component_path`, `read_verified`, `Component::from_binary`: a second read of the directory |
| `stat` | `Stat`, `EvictNext` | `has_vanished` of each entry of the snapshot, then one `evict` for each that is gone |
| `edit` | `EditRegister`, `EditReload`, `EditRemoval`, `EditEvict` | lock, clone, edit closure, `rebuild_registry` |
| `storeMap` | `StoreMap`, `Panic` | `loaded.store` |
| `storeRegistry` | `StoreRegistry` | `capability_registry.store`, unlock |
| `emit` | `Emit` | the event, and the return or the next eviction |
| `failed` | `ReturnError` | the error reaches the caller |

Choices that matter:

- **A pack is a whole directory**: the id, version and offers its describe parses to, the key
  that signed it, its component, and a *grade*: `sound`; `unverifiable` (signature or ledger
  is rejected); `uncovered` (rejected for a file the ledger does not list); `unloadable`
  (passes the gate, does not compile); `badOffer` (loads, an offered version does not parse).
  How the gate earns the grade is `LoadGate`'s subject.
- **The disk changes at any step** (`WriteDisk`), so a component read after the gate may
  belong to another pack. It is accepted exactly when its content is the one the ledger
  records, as `read_verified` does.
- **`register_loaded_from_dir` takes `&mut self`**: it starts only when no other operation
  runs, and nothing starts while it runs.
- **A refused downgrade still publishes** the unchanged map, as `mutate_loaded` does.
- **`handle_removal`** removes one id, whichever the hash map yields first: any of those
  loaded from the directory.
- **Panics** are placed where a mutator holds the lock and has stored nothing; the poisoned
  lock is recovered by the next one, so it is released.
- **`mirror`** is what a subscriber that applies every event believes to be loaded.
- Version 0 stands for a version string that is not semver; `is_downgrade` ignores it.

### HotReload against the code

A change writes one directory and appends one event to every watcher's channel, of the kind
`watch` makes of the notify event; with `Lossy` the backend may drop it on the way to any of
them (`watcher.rs:41`), and `watch` only logs. A kind directory that is created after the
watcher started is not watched (`watcher.rs:73`): the same as losing every event of it. Which
notify event a change raises is outside the crate (`NotifyKind`); that a rename out of the tree
is a `Modify` is what `tests/watcher_gate.rs:360` reports of inotify. The handler takes events
in order, judges each by what is on disk when it handles it (`find_extension_dir`,
`has_vanished`), and runs one operation to its end before the next event, as the single watcher
thread does.

`guard[t]` is the life of a watcher. `DropGuard` drops the sender of the stop channel; if the
thread is then waiting in `recv_timeout` (`dropping`) it may handle one more event before it
looks, else (`last`) it looks before it waits again. `Exit` leaves the loop and takes channel
and debouncer with it, which lets `drop` return; `StartWatcher` starts over with an empty
channel and looks at nothing that changed in the meantime.

`unseen` and `eclipsed` are history: a directory is in `unseen` if some watcher was not told
its last change, or told the wrong thing (a move, a deletion that mends), and in `eclipsed` if
since then another directory held its id, or had it loaded or about to be loaded. The
properties excuse these directories and no others.

### LoadGate against the code

| `at` | Actions | Code |
|---|---|---|
| `idle` | `ReadDescribe` | `read_describe`, `verify_describe_self_consistent` |
| `manifest` | `ReadManifest` | `verify_manifest_binding`, the schema |
| `stat` | `StatEntry`, `BeginWalk` | `pack_relative_path` and `symlink_metadata` of one ledger entry, or the end of the list |
| `hash` | `HashEntry` | `fs::read` of that entry, by its path again, and the comparison |
| `walk` | `WalkTo`, `Anchor` | `collect_into` at one path, in any order; then `pin_or_verify` |
| `pick` | `PickComponent` | `wasm_component_path` |
| `read` | `ReadVerified` | `read_verified`, `Component::from_binary` |
| any of these | `IoError` | a read fails |
| the verdicts | `Return` | `register_loaded_from_dir` and `handle_added_or_modified` go on |

- **Between any two reads somebody may write** (`WriteFile`, `WriteDescribe`,
  `WriteManifest`): a file, a link or a directory at any path, or the describe or manifest of
  another release. `had` is history: every state the directory has had since the load began.
- **Contents stand for their digests.** The manifest and the digest of it in the describe are
  the same value when they match.
- **`Depth`** is the nesting of each path; `MaxPackDepth` is `MAX_PACK_DEPTH`. Two paths of the
  model that are one inside the other are not related: a directory is written as a node.
- **What "the pack passed" means.** The comparison is not atomic, so a pack may pass that was
  never whole at one instant (`Compiled => \E t \in had : Intact(t)` fails with two writes:
  the second repairs the file after it was compared with the first, or the other way round).
  `Verify` of `ExtensionRuntime` reads the directory at once, which is an idealisation, and
  `LoadGate` does not refine it step by step. What that module relies on is what
  `LoadGate` shows: the describe, ledger, pin and component that come out are those that were
  signed (`CompiledIsRecorded`), and for an undisturbed directory the verdict is the grade's
  (`UntouchedVerdict`).
- **The component is still chosen by a fresh stat** after the walk: if `extension.wasm` is
  deleted between the two, the gtpack is read instead. It is harmless, since the ledger has to
  list it too.

### Dispatch against the code

| `pc` | Actions | Code |
|---|---|---|
| `idle` | `Begin` | `dispatch_instance_ctx`, `build_store_and_instance` up to `limits::apply` |
| `instantiate` | `Allocate`, `Call` | `linker.instantiate`, which asks `PackLimits` for every declared memory and table; then the export is resolved |
| `wasm` | `Grow`, `StartFetch`, `AskBroker`, `Park`, `Return` | the guest runs, grows, makes host calls, returns |
| `fetch` | `Redirect`, `Respond`, `RequestFails` | the loop of `http::Host::fetch`; one `send_once` per hop |
| `token` | `BrokerAnswers`, `RequestFails` | `get_token`: the one request of `request_resource_token_blocking`, with the timeout of `host_state_oauth.rs:78` |
| `parked` | `Unpark` | the embedder's `llm` and `secrets` ports, a wasi poll: no bound |
| any | `TickerFires`, `Elapse` | `EpochTicker::spawn`; time |
| `instantiate`, `wasm` | `Trap` | epoch interruption |

- **Time is discrete**: `Elapse` lets one unit pass. `Tick` units are an `EPOCH_TICK`; the
  ticker sleeps at least that and wakes at most `Late` too late. A dispatch starts at any
  `since`, that is, anywhere between two ticks. `left` is the store's deadline minus the epoch.
- **`held` and `spent`** record how long the dispatch has had its thread and how long the
  fetch or token request in flight has taken. They stop at `Horizon`, which an assumption puts beyond every
  bound the properties speak of.
- **One dispatch stands for all**: dispatches share nothing that changes but the epoch.
- **Assumed of wasmtime and reqwest**, which are not part of the repository: running wasm
  meets an epoch check in no time; a host call's result is lowered through the guest's
  allocator, which is wasm, so a deadline that passed during the call traps on its return; a
  growth that was granted may still fail without the limiter being told (`PackLimits` does
  not implement the callbacks for that); a request's timeout covers its response,
  and the redirects the client follows by itself.
- **A pattern of an allow list stands for one url** and the operator's matcher honours what it
  lists. `PublicHttp` are the patterns `classify` calls public; they are dropped from what an
  extension declares.
- The configuration does not change during a dispatch: `host_overrides` are cloned into it.

### Invocation against the code

| `pc` | Actions | Code |
|---|---|---|
| `idle` | `StartCall`, `ResolveDemand`, `FindCycles` | the host's thread calls an operation, or asks the registry it has a snapshot of |
| `looking` | `Lookup`, `ListDeclared`, `ListByCall`, `NotLoaded` | `lookup`; `list_views` and, under the v2 contract, `list_tools` answer from the describe |
| `again` | `Lookup`, `NotLoaded` | the second lookup of `list_tools` (`runtime_design.rs:102-119`) |
| `open` | `Open`, `OpenFails` | `build_store_and_instance`, `resolve_iface_versions`, `resolve_func`, conversion of the argument, `get_typed_func`: the first that fails, in this order |
| `running` | `HostCall`, `GuestReturns`, `GuestFails`, `GuestTraps` | the guest, its calls of the host, its result |
| `answered`, `judged` | `Collect`, `Dismiss` | the caller goes on |

- **Other threads are `Reload`**: one step of `LoadedSet`, between any two steps of the call.
  Opening a call is one step, since nothing in it looks at the loaded set.
- **A conversion is a function on cases**: the variants of an enumeration and what they carry.
  Records of strings are one case, which keeps what `types.rs` merely copies out of the model.
- **Which design records fit.** `AbiFits` compares the variants a binding knows with those of
  the WIT files; that the records of design 0.1.0 have the shape 0.2.0 gives them is assumed,
  and no property depends on it.
- **A build** is an entry as far as calls depend on it: the versions of each interface its
  component exports, functions missing from it or of another type, whether it links, its
  permissions, views and offers.
- **Paths are sequences of segments**. The checks compare them as the code does. The
  properties are about where a path leads: `Place` follows its dots, as the file system does
  that a view is read from; `Location` is how the most lenient server would read a secret's
  uri or a url: escapes decoded, then dots followed.
- **A url** (`IsUrl`) is what the url crate makes of one: its own dots, escaped or not, are
  gone from the path; the escapes of other characters are left in it.
- **`job`** is a deployment the host follows over several calls: it remembers the entry and
  the version of the contract it was started in.
- A requirement is the set of versions it admits, or one that does not parse. Of two offers of
  one capability at one version either may be bound, as the order is a hash map's; of two
  requirements on one capability the later binding replaces the earlier one.
- `resolve` and `detect_cycle` are called by hosts, in this repository only by tests.

## 3. Properties and runs

| Run | Bounds | Shows |
|---|---|---|
| `runtime` | 2 threads (a watcher's reload and evict; an embedder's register, reload and removal), 2 ids, 1 directory, 7 packs covering every grade but `uncovered`, 2 keys | `TypeOK`; `RegistryInStep`; `LoadedIsVerified`; `NoHotDowngrade`; `ReaderSpec` (implements `LoadedSet`) |
| `hot_reload` | 1 watcher, 2 directories, 8 packs, one of them for both directories; 3 changes of any kind, whose events may be lost; 1 stop | `HotTypeOK`; `NoOtherGhost`, `UpToDate` whenever all events are handled; `MirrorAgrees`; `Settles` and `DropReturns` (liveness) |
| `load_gate` | 12 releases (whole packs of either layout, a second key, packs sealed wrong, unsigned, of before the ledger, of another schema, none), 3 paths at depths 0 to 2, a limit of 2, 2 contents, 2 keys; 2 writes during the loads, whose number is unbounded | `GateTypeOK`; `UntouchedVerdict`; `CompiledIsRecorded`; `PinsAfterIntegrity` |
| `dispatch` | a tick of 2 units, 1 late; timeouts none, 0, 1, 2 and 3 (below, at and between ticks), ticker alive or not; host calls of at most 2 and 2 redirects; 3 urls, one public http, every kind of list; 2 memories, 1 table | `DispatchTypeOK`; `WithinBudget`; `ThreadIsGivenBack`; `FetchEnds`; `NotTrappedEarly`; `StaysOnTheList`; `EveryCallEnds` (liveness) |
| `invocation` | 6 builds of the extension that is called: against the oldest contracts, the newest called, both, the newest bound, one with functions missing or of other types, one that does not link; all operations and arguments; 2 entries of its id during a call; host calls from `invoke_tool`: 9 secrets, 9 urls, roles, providers, kinds, on 2 set-ups of the host; up to 2 requirements, lists of up to 3 extensions | `InvocationTypeOK`; `OneVersionAnswers`; `HeardAsAsked`; `ToldWhatItSaid`; `JobKeepsItsContract`; `ViewsInsidePack`; `SecretsWithinGrant`; `FetchesWithinLists`; `PortsWithinGrant`; `PlanIsBest`; `CycleReport` |

and seven that TLC refutes, each a sentence of the repository the code does not keep:

| Run | Property | What happens |
|---|---|---|
| `host_call` | `HostCallWithinCeiling` | A fetch is redirected; its second request gets a timeout of its own, and the host call outlasts the "ceiling on how long a single host call made on the guest's behalf may take" (`limits.rs:78`): up to 11 times 2 minutes. `FetchEnds` states the bound that does hold. |
| `failed_pin` | `NoPinForAFailedLoad` | A pack passes the gate and is pinned; its component does not compile, or its registry does not rebuild. The pin stays, although the pin "must never run for a load that then fails" (`runtime_verify.rs:36`). |
| `removal_by_dir` | `RemovalDropsTheDirectory` | A directory is reloaded after its pack changed id: both ids are loaded from it. `handle_removal` drops one. |
| `evict_race` | `EvictsOnlyTheVanished` | A watcher finds an extension's directory gone; the directory comes back and another thread reloads it; the watcher's `evict(id)` drops the fresh entry, whose directory exists. |
| `move_out` | `NoGhost` | A directory is renamed out of the tree; the event is classified `Modified`, resolves to no directory, and the extension stays loaded. |
| `unlink_stray` | `NothingMissed` | A stray file kept a pack from verifying; its deletion raises `Removed`, which only evicts. |
| `newest_contract` | `BoundContractsAreCalled` | An extension is built against design 0.4.0, for which `host_bindings.rs` has bindings; the tables of versions the calls try stop at 0.3.0, so every operation reports a missing interface, and `list_roles` takes the extension for one without roles. |

`NoOtherGhost` says that nothing stays loaded from a directory that is gone, but for `move_out`,
lost events and stops; `UpToDate` that no pack is missed, but for those, `unlink_stray`, and ids
that two directories hold: of those the older copy is not loaded when the newer goes, as an
eviction looks for no other (`runtime_registry.rs:96`). Neither speaks of a directory that
exists and holds another id than one loaded from it: an overwrite that changes the id leaves
the old one loaded, which is where `removal_by_dir` begins. That the race of `evict_race` does
not break them is not obvious: the change that brought the directory back has an event of its
own in the evicting watcher's channel, which is handled after the eviction and loads it again.
It takes a reload outside the watcher to lose an extension for good.

`EvictsOnlyTheVanished` is about the step that takes an entry out, under the lock. An eviction
may drop the entry whose directory it saw gone, and it may drop one that was loaded since if
the directory of that one is gone too. What TLC refutes is the rest: the entry was loaded since,
and its directory is there. An eviction that looked at the directory again under the lock
would satisfy it.

`OneVersionAnswers` compares a call that overlaps reloads with the same call alone. Its one
exception is in the code: `list_tools` judges by the describe of one lookup and calls the
component of another, so a v2 extension that has just replaced a v1 one may be asked by call.
`JobKeepsItsContract` is claimed while the entry stays: after a reload the job id is passed to
the new build, and nothing in the code relates the two.

`RegistryInStep` speaks of the moments when nobody holds the lock; in between, `ReaderSpec`
bounds what a reader can see. `LoadedIsVerified` ties an entry to the trust store of *now*:
nothing the runtime or `gtdx` does ever replaces a pin.

`NotTrappedEarly` and `ThreadIsGivenBack` enclose a deadline from both sides: a call of `t`
is trapped after more than `t` minus one tick and at most `t` rounded up, plus the lateness
of each tick, plus the fetch or token request under way. `limits.rs:56-57` says of 300 seconds "somewhere in
[300, 301)"; the deadline counts ticks from a moment between two of them, so it is
(299, 300], give or take the lateness. Of the lists, the comment at `loaded.rs:124-129`
still describes replace semantics; the code, and `StaysOnTheList`, narrow.

Why the bounds are enough: the races need two operations in flight and one change of the disk
under each; two threads and an unbounded number of disk writes (`runtime`) include them. Two
versions make a downgrade, two keys a mismatch, two ids a directory that changes id. In
`runtime` changes and operations are unbounded: the state space is finite as it is. In the
watched system `MaxChanges` bounds the changes: 3 make install, replace and remove, or an id
that moves from one directory to another and back; with one watcher, no stops and no losses
`UpToDate` was also checked with 5. Two watchers, which handle the same events and undo or
repeat each other's work, are not in a run but in the theorems. The convergence properties do
not rest on these bounds: section 4 proves them for any number of changes, watchers, losses and
stops. `CHECK_DEADLOCK FALSE` is set where changes are bounded: once they are made and handled
the system rests. In `load_gate` two writes make a directory that passes without having been
whole, and one that is changed and restored. In `invocation` one caller stands for any number,
since callers share nothing but the loaded set; `MaxSeen` entries of an id during one call are
the one that was looked up and one that replaced it, and the proofs need no such bound.

Fairness: weak fairness of each watcher thread's steps (`HotSpec`). The thread loops over
`recv_timeout` for as long as its guard lives, errors are logged and do not leave the loop,
and the lock it may wait for is held for bounded work. Nothing is assumed of users, `gtdx` or
the embedder: `Settles` is claimed while the watchers are not stopped, and `DropReturns`, for
a guard that was dropped, whatever users do meanwhile.
No safety property uses it.
A dispatch assumes (`FairSpec`) that time passes whatever the guest does (strong fairness of
`Elapse`, which stops only where a trap, a tick or a timeout is due), that the ticker thread
keeps waking up, that traps are taken and reported and that a request out of time fails.
Guest and network owe nothing: `EveryCallEnds` holds although the guest may loop for ever.
It is claimed only of armed dispatches (a timeout, and a ticker that could be started), and a
parked one is exempt.

## 4. What is proved

The proof modules establish, for every value of the constants that meets the assumptions: the
three of `ExtensionRuntime` (packs are typed, each thread's operations exist, the null values
are none of the real ones), that of `HotReload`, those of `StoreLimits` and `Dispatch` (types;
`Horizon` out of reach), that of `LoadGate` (types), and those of `Capabilities` and
`Invocation`. These last two say that there are finitely many ids, that a describe offers
finitely many capabilities, that the host has at most one OAuth configuration, and that what
guests, operators and callers pass (`Requests`, `Hosts`, `Demands`, `Listings`) has the type
the code gives it, a parsed url included; of how many there are, and of how long a path, a
list of requirements or a chain of dependencies is, they say nothing:

| Theorem | States |
|---|---|
| `TypeCorrect`, `HotTypeCorrect` | the type invariants |
| `OnlyVerifiedLoads` | `Spec => []LoadedIsVerified` |
| `RegistryFollows` | `Spec => []RegistryInStep` |
| `NoDowngrade` | `Spec => NoHotDowngrade` |
| `ReadersView` | `Spec => Reader!Spec`: the runtime implements `LoadedSet` |
| `WatchedIsSafe` | the three safety theorems hold of the watched system |
| `NothingOutlivesItsDirectory` | `HotSpec => []NoOtherGhost` |
| `NoToldPackIsMissed` | `HotSpec => []UpToDate`, if there is a watcher |
| `SubscribersAgree` | `HotSpec => []MirrorAgrees`, if there is one watcher |
| `GateTypeCorrect` | the type invariant of a load |
| `CompilesWhatIsSigned` | `GateSpec => []CompiledIsRecorded` |
| `VerdictsAreTrue` | `GateSpec => []UntouchedVerdict` |
| `PinsFollowIntegrity` | `GateSpec => PinsAfterIntegrity` |
| `DispatchTypeCorrect` | the type invariant of a dispatch |
| `ThreadReturns` | `Spec => []ThreadIsGivenBack` |
| `NoEarlyTrap` | `Spec => []NotTrappedEarly` |
| `FetchesEnd` | `Spec => []FetchEnds` |
| `OnTheList` | `Spec => []StaysOnTheList` |
| `NeverOverBudget` | `Spec => []WithinBudget` |
| `EveryOperationIsSound` | each of the 23 operations, at every version, keeps the case of what it converts |
| `InvocationTypes` | the type invariant of a call |
| `AnswersFromOneVersion` | `Spec => []OneVersionAnswers` |
| `HearsWhatIsAsked`, `TellsWhatIsSaid` | `Spec => []HeardAsAsked`, `Spec => []ToldWhatItSaid` |
| `FollowsInOneVersion` | `Spec => []JobKeepsItsContract` |
| `PortsServeWithinGrant` | `Spec => []PortsWithinGrant` |
| `SecretsServedWithinGrant` | `Spec => []SecretsWithinGrant` |
| `FetchesStayWithinLists` | `Spec => []FetchesWithinLists` |
| `ViewsStayInPack` | `Spec => []ViewsInsidePack` |
| `PlansAreBest` | `Spec => []PlanIsBest` |
| `CyclesAreReported` | `Spec => []CycleReport` |

The argument for the runtime. None of its theorems is inductive alone; `IInv` adds to `TypeOK` and
`LoadedIsVerified`:

- `JobInv`: what an operation knows at each step: past the gate its pack is verifiable, past
  the anchor the pin is the pack's key, at the edit the component is the recorded one. The
  pin part survives other threads because pins are only ever added (`PinsKept`).
- `MutexInv`: a thread is between lock and unlock exactly when it holds the lock.
- `DraftInv`: at `storeMap` the draft is an edit of *the current* map, verified, and nowhere
  older unless registering; at `storeRegistry` the map already is the draft.
- `LagInv`: unless some thread is at `storeRegistry`, the registry is that of the map.

`EditCases` reduces the four edits to one shape (one entry changed, the result verified and
not older), `LocalStep` shows that a step outside the critical section disturbs nothing, and
`NextStep` puts the actions together. Every theorem is then one consequence of `Invariance`.

The argument for the watched system. Its steps are steps of the runtime by construction
(`WatchedRuntime`, a lemma), so `IInv` carries over; each
convergence property, which speaks of settled states only, is the last moment of an invariant
that speaks of all of them:

- `GhostInv`: whatever is loaded from a directory that is gone is on its way out: a removal of
  the directory waits in some channel, or an eviction is under way that will drop it
  (`Doomed`: it has yet to stat it, has found it gone, or is dropping it), or nobody was told
  (`unseen`). The same holds of a load of such a directory that is under way (`LoadCovered`):
  the removal waits *behind* it, in the channel of its own thread.
- `MissInv`: a pack that was told and is alone in its id is loaded, or being loaded from what
  the directory holds now (`Loading`), or a write of it waits in some channel (`Written`). This
  is kept only because no eviction drops it and no load of an earlier pack replaces it without
  a write still waiting in *that thread's* channel (`Outdated`), and because no other
  directory interferes (`Sole`). What could make a load of it fail is excluded by the gate's
  own invariant: it passes the ledger, its key is the pin's, and a map of verified packs
  rebuilds.
- `MirrorInv`: with the event of the operation under way applied, the subscriber has the set
  that is loaded or about to be.

The argument for a load. `GateInv` says what the load knows at each step, in terms of `had`,
which only grows, so that a write cannot undo it (`QuietStep`, `Remembered`):

- `DescribeInv`, `ManifestInv`: the describe is signed and was there; so was the manifest it
  binds.
- `EntriesInv`: each entry before the next one was a file, and was read with its digest.
- `ListedInv`: what is recorded for a path is what an entry of the ledger says.
- `WalkInv`: a path that was walked to was, at some instant, no entry or a listed one, and not
  too deep.
- `AnchorInv`, `ComponentInv`: past the anchor the pin is the pack's key; what was compiled is
  what is recorded for the path that was chosen.
- `VerdictInv`: what a refusal or a failure says of the directory, if it was the only one.

When `had` is the directory alone, these facts are about one instant and add up to `Intact`
(`PassedIsIntact`).

The argument for a dispatch, one strengthening per theorem:

- `TimeInv`: time held plus the ticks to the deadline never exceeds all its ticks plus the
  time since the last one; past the deadline only the request under way goes on, and what it
  may still take is what is left of it and of its redirects.
- `FetchInv`: time spent plus what is left of the request in flight is at most one timeout
  per request so far.
- `EarlyInv`: from its first tick on, a dispatch has lived through all but one of the ticks
  that were counted. It needs `TimeInv`: the clock it reads has not reached `Horizon`.
- `ListInv`: the url in flight and the last response's are allowed, and `AllowedIsGranted`.
- `BudgetInv`: the units held are finitely many and at most those counted; `GrantStep` counts
  what one growth adds.

The argument for a call. `EveryOperationIsSound` is about the table alone, one lemma per
conversion. The invariant `IInv` of `InvocationProofs` then follows a call: it is of something
(`Asked`); what is loaded under its id has been noted in `seen` (`Noted`), so the entry it
holds was loaded during it (`Held`); its version is the one that entry resolves to, and its
guest was entered (`Bound`, `Entered`); nothing is left of the call before (`Fresh`); a host
call is answered with the permissions of that entry (`Served`); a deployment has the version
its own entry resolves to (`Followed`), which all three operations resolve alike. The
exception of `list_tools` is `Dropped`.

The argument for the grants, the plans and the cycles. They are about folds over paths and
lists and about a recursion over a graph, so each is an induction over data, and the library
states induction for an operator, which the provers cannot instantiate. `AlgorithmProofs`
does without: the hypothesis is a *set* of numbers (`NatSetInduction`, `RangeInduction`) or of
finite sets (`LargestSubset`, `LargestNumber`), a counterexample is taken at its least or
largest, and a fold or a recursive function is shown to be the iteration of one step along an
enumeration (`IterationExists`, `IterationInOrder`). On these rest:

- *Paths.* `PlaceSteps` unfolds `Place` one segment at a time. A path without dots goes only
  deeper (`PlaceDeeper`), and what is appended to it keeps its beginning (`BeneathPrefix`).
  A path in which nothing is escaped is read alike by every server (`LocationOfPlain`).
  From that, whatever passes `uri_is_plain` and a declaration is granted (`SecretServed`),
  and whatever passes `pack_relative_path` leads down only (`NoClimbing`, `ViewServed`).
- *Urls.* What one list allows is covered by a pattern of it, once its path is decoded as well,
  for lack of an encoded separator (`AllowedCovered`); a wildcard covers strict subdomains
  only (`StrictSuffix`); the list in force is one that operator and extension both grant
  (`FetchServed`).
- *Plans.* `PlansSteps` makes of `Plans` the steps of a loop. What the plan answers after the
  first `k` requirements is kept by the next one (`BindAnswers`): the last requirement of a
  capability that has a match is bound, to a newest match, and the unmet ones are listed in
  order, the `n`-th of them at place `n` (`UnmetTo`).
- *Cycles.* `HasCycle` remembers the ids it has visited. With more of them visited it can only
  say yes sooner, and with all of them visited it says yes: by induction from the largest
  visited set down, it says yes of an id exactly if the id is in a set every member of which
  depends on another of the set or on a visited id (`Trapped`, `HasCycleTrapped`). With
  nothing visited that is an endless chain (`DetectCycleEndless`).

`Kept`, the last invariant of `InvocationProofs`, carries these facts from the step that
computes an answer to the state that holds it: the views that were listed have resolved
(`Listed`), and a verdict is what the registry said of one of its states, which is finite
(`Judged`). `OfferingsFinite` is where finitely many ids are needed: of an infinite registry
no newest match need exist.

`ViewsInsidePack` is about `Place` for a reason the proof shows: nothing refuses a view whose
id is an escaped pair of dots, which is a plain name to the file system, and a way out of the
pack to whoever would decode it first.

Only model-checked:

- `Settles`, `DropReturns` and `EveryCallEnds`: liveness under fairness, which TLAPS does not
  reach. Every other property of a passing run is a theorem above.

## 5. Layout

`X.tla` is a specification, `MCX.tla` gives its constants values TLC can enumerate, each
`.cfg` is one run. Operators named `Foo_Bar` and commented `MUTANT` are deliberate bugs: each
replaces `Foo` to show that the property listed with it in `PROJECT.json` notices.

    tlc -config MCRuntime.cfg MCRuntime.tla
    tlapm ExtensionRuntimeProofs.tla

## 6. Plan

Done, in this order: `LoadedSet`, `ExtensionRuntime`, `HotReload`; `StoreLimits`, `Dispatch`;
`Contracts`, `Grants`, `Capabilities`, `Invocation`; the watcher's lifecycle, lost events and
ids held by two directories in `HotReload`; the convergence proofs; `LoadGate`; the proofs
about folds and recursions.

Left:

1. A bounded broadcast channel, with a subscriber that lags and resynchronises from
   `loaded()`.
2. The debouncer's coalescing of several events of one path.

## 7. Not modelled

- `dev-allow-unsigned`, a development feature that skips the gate.
- The `StateFileChanged` event, which touches nothing modelled here.
- Lag of the broadcast channel: a subscriber 64 events behind loses some (`runtime.rs:31`), and
  nothing in the crate promises it anything then.
- The debouncer's coalescing: the model has one event per change.
- Cryptography, hashing, wasm compilation: a grade, and equality of contents.
- In the load gate: a link in place of a directory on the way to a ledger entry.
- A lost update inside the trust store: `pin_or_verify` belongs to an SDK crate and is one step
  here. Another tool may pin before it or after it, not in the middle of it.
- A panic in a watcher thread, which ends that thread: `HotSpec` has loads and rebuilds
  that fail; panics are in `runtime`.
- The scan at start-up: the embedder's calls of `register_loaded_from_dir`.
- Header filtering and the cap on a response's body; the payloads of LLM and OAuth requests;
  the strings in the records of `types.rs`, its serialisation and its redacting `Debug` impls.
- Logging and i18n ports.
- Whether an epoch plus `u64::MAX` saturates inside wasmtime: the deadline of a host without
  a timeout is modelled as out of reach, as `limits.rs:251` says.
- Discovery, configuration, health, the metadata report, generated bindings and the linter of
  the WIT files: no state of their own.
- `gtdx`, the SDK crates and the store: other repositories, seen here as the environment.

Comments the models disagree with where no run is needed to show it: `runtime.rs` documents
`for_test` with a `list_tools` that returns an empty list, but a lookup in an empty runtime
fails with `NotFound`; `loaded.rs:124-129` describes replace semantics where
`net_permissions.rs` narrows; `runtime_verify.rs:46-53` and `loaded.rs:60-61` describe a
substitution of the component bytes, read by path with `Component::from_file`, that
`read_verified` and `Component::from_binary` have closed; `runtime_verify.rs:130-135` says
the component is not selected by a fresh `exists()`, which `wasm_component_path` still does.
