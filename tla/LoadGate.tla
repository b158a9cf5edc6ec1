------------------------------- MODULE LoadGate -------------------------------
(***************************************************************************)
(* The load gate file by file, over a directory that is written while it   *)
(* is read: verify_dir_signature and read_verified                         *)
(* (crates/greentic-ext-runtime/src/runtime_verify.rs), and from_verified  *)
(* with its choice of the component (loaded.rs).  Every read is a step of  *)
(* its own.  ExtensionRuntime runs the gate in the steps of an operation   *)
(* and abstracts a directory to a pack with a grade.                       *)
(*                                                                         *)
(* Contents stand for their digests: equal digests mean equal contents.    *)
(***************************************************************************)
EXTENDS Naturals, Sequences

CONSTANTS
  Paths,        \* plain relative paths, those of describe and manifest apart
  Outside,      \* a path that is absolute, empty or climbs with ..
  NoPath,       \* no path: no component, several, or one without a gtpack
  DesignWasm,   \* extension.wasm at the root
  Depth,        \* how many directories are above each path
  MaxPackDepth, \* how many the walk descends
  Bytes,        \* the contents of files
  Compiles,     \* those that are a component
  NoBytes,      \* of a path the ledger does not list
  Packs,        \* the extension ids
  Signers,      \* publisher keys
  NoSigner,
  Releases,     \* what directories are installed from
  MaxWrites     \* how often the directory is written

\* What is at a path.  The bytes of a link are those of the file it leads to.
Node == [kind : {"file", "link", "dir"}, bytes : Bytes]
NoNode == [kind |-> "none"]

LedgerEntry == [path : Paths \cup {Outside}, sha256 : Bytes]
Ledger == [schema : {"v1", "other"}, entries : Seq(LedgerEntry)]
NoLedger == [schema |-> "absent"]

\* signed: the signature verifies under the key the describe itself carries.
Describe ==
  [id : Packs, key : Signers, signed : BOOLEAN,
   manifestSha256 : Ledger \cup {NoLedger}, gtpack : Paths \cup {Outside, NoPath}]
NoDescribe == [signed |-> FALSE] \* absent, or not a describe

Tree ==
  [describe : Describe \cup {NoDescribe}, manifest : Ledger \cup {NoLedger},
   files : [Paths -> Node \cup {NoNode}]]

ASSUME LoadGateAssumption ==
  /\ DesignWasm \in Paths
  /\ Outside \notin Paths /\ NoPath \notin Paths
  /\ Depth \in [Paths -> Nat] /\ MaxPackDepth \in Nat
  /\ Compiles \subseteq Bytes
  /\ NoBytes \notin Bytes
  /\ NoSigner \notin Signers
  /\ Releases \subseteq Tree
  /\ MaxWrites \in Nat

VARIABLES
  tree,    \* the extension directory
  anchors, \* the trust store: the key pinned for each id
  at,      \* the next step of the load, or how it ended
  load,    \* what the load holds
  had,     \* every state the directory has had since the load began
  writes   \* writes of the directory so far

gateVars == <<tree, anchors, at, load, had, writes>>

Working == {"manifest", "stat", "hash", "walk", "pick", "read"}
Verdicts == {"compiled",   \* from_verified returns the extension
             "refused",    \* the gate refuses the directory
             "unloadable", \* it lets it pass, and from_verified fails
             "ioError"}    \* a read fails

NothingListed == [p \in Paths |-> NoBytes]

NoLoad == [describe |-> NoDescribe, manifest |-> NoLedger, next |-> 1,
           listed |-> NothingListed, unwalked |-> {}, path |-> NoPath,
           component |-> NoBytes]

Load ==
  [describe : Describe \cup {NoDescribe}, manifest : Ledger \cup {NoLedger},
   next : Nat \ {0},  \* the ledger entry that is compared
   listed : [Paths -> Bytes \cup {NoBytes}], \* VerifiedLedger
   unwalked : SUBSET Paths, path : Paths \cup {NoPath},
   component : Bytes \cup {NoBytes}]

GateTypeOK ==
  /\ tree \in Tree
  /\ anchors \in [Packs -> Signers \cup {NoSigner}]
  /\ at \in {"idle"} \cup Working \cup Verdicts
  /\ load \in Load
  /\ had \subseteq Tree
  /\ writes \in 0 .. MaxWrites
  /\ at = "idle" => load = NoLoad
  /\ tree \in had
  /\ at \notin {"idle", "refused"} => load.describe \in Describe
  /\ at = "manifest" => load = [NoLoad EXCEPT !.describe = load.describe]
  /\ at \in {"stat", "hash", "walk", "pick", "read", "compiled"} => load.manifest \in Ledger
  /\ at = "stat" => load.next <= Len(load.manifest.entries) + 1
  /\ at = "hash" => /\ load.next \in DOMAIN load.manifest.entries
                    /\ load.manifest.entries[load.next].path \in Paths
  /\ at = "read" => load.path \in Paths

GateInit ==
  /\ tree \in Releases
  /\ anchors = [id \in Packs |-> NoSigner]
  /\ at = "idle"
  /\ load = NoLoad
  /\ had = {tree}
  /\ writes = 0

-----------------------------------------------------------------------------
(* Whoever else writes the directory and the trust store *)

Write(new) ==
  /\ new # tree
  /\ writes < MaxWrites
  /\ writes' = writes + 1
  /\ tree' = new
  /\ had' = IF at = "idle" THEN {new} ELSE had \cup {new}
  /\ UNCHANGED <<anchors, at, load>>

WriteFile(p, node) == Write([tree EXCEPT !.files[p] = node])

WriteDescribe(release) == Write([tree EXCEPT !.describe = release.describe])

WriteManifest(release) == Write([tree EXCEPT !.manifest = release.manifest])

\* gtdx pins a key on its own first use of an id.
GtdxAnchors(id, key) ==
  /\ anchors[id] = NoSigner
  /\ anchors' = [anchors EXCEPT ![id] = key]
  /\ UNCHANGED <<tree, at, load, had, writes>>

-----------------------------------------------------------------------------
(* verify_dir_signature *)

Environment == <<tree, had, writes>>

Conclude(verdict) == at' = verdict /\ UNCHANGED load

\* MUTANT: the key is anchored once the signature is checked, before the ledger.
ReadDescribe_Anchors ==
  /\ at = "idle"
  /\ LET found == tree.describe IN
       /\ found.signed
       /\ anchors[found.id] \in {NoSigner, found.key}
       /\ anchors' = [anchors EXCEPT ![found.id] = found.key]
       /\ load' = [load EXCEPT !.describe = found]
       /\ at' = "manifest"
  /\ had' = {tree}
  /\ UNCHANGED <<tree, writes>>

\* read_describe and step 1, verify_describe_self_consistent.
ReadDescribe ==
  /\ at = "idle"
  /\ IF tree.describe.signed
       THEN /\ load' = [load EXCEPT !.describe = tree.describe]
            /\ at' = "manifest"
       ELSE Conclude("refused")
  /\ had' = {tree}
  /\ UNCHANGED <<tree, anchors, writes>>

\* Step 2 begins: verify_manifest_binding and the schema.
Bound(describe, manifest) ==
  manifest # NoLedger /\ describe.manifestSha256 = manifest /\ manifest.schema = "v1"

ReadManifest ==
  /\ at = "manifest"
  /\ IF Bound(load.describe, tree.manifest)
       THEN /\ load' = [load EXCEPT !.manifest = tree.manifest]
            /\ at' = "stat"
       ELSE Conclude("refused")
  /\ UNCHANGED <<Environment, anchors>>

Entry == load.manifest.entries[load.next]
EntriesLeft == load.next \in DOMAIN load.manifest.entries

\* pack_relative_path and symlink_metadata of one ledger entry.
StatEntry ==
  /\ at = "stat"
  /\ EntriesLeft
  /\ IF Entry.path \in Paths /\ tree.files[Entry.path].kind = "file"
       THEN at' = "hash" /\ UNCHANGED load
       ELSE Conclude("refused")
  /\ UNCHANGED <<Environment, anchors>>

\* fs::read follows a link and fails on anything but a file.
Readable(node) == node.kind \in {"file", "link"}

\* MUTANT: the digest of an entry is recorded and not compared.
HashEntry_Unchecked ==
  /\ at = "hash"
  /\ load' = [load EXCEPT !.next = @ + 1, !.listed[Entry.path] = Entry.sha256]
  /\ at' = "stat"
  /\ UNCHANGED <<Environment, anchors>>

\* The file is read, by its path again, and compared.
HashEntry ==
  /\ at = "hash"
  /\ LET found == tree.files[Entry.path] IN
       IF Readable(found) /\ found.bytes = Entry.sha256
         THEN /\ load' = [load EXCEPT !.next = @ + 1, !.listed[Entry.path] = Entry.sha256]
              /\ at' = "stat"
         ELSE Conclude("refused")
  /\ UNCHANGED <<Environment, anchors>>

\* collect_pack_files begins.
BeginWalk ==
  /\ at = "stat"
  /\ ~EntriesLeft
  /\ load' = [load EXCEPT !.unwalked = Paths]
  /\ at' = "walk"
  /\ UNCHANGED <<Environment, anchors>>

\* collect_into: a path is too deep to be walked to, or a directory to be entered.
TooDeep(p, node) ==
  \/ node.kind # "none" /\ Depth[p] > MaxPackDepth
  \/ node.kind = "dir" /\ Depth[p] + 1 > MaxPackDepth

\* What the ledger must list; a link counts as itself.
IsEntry(node) == node.kind \in {"file", "link"}

\* MUTANT: a link is taken for what it leads to and its own name for no entry.
WalkTo_FollowsLinks(p) ==
  /\ at = "walk"
  /\ p \in load.unwalked
  /\ LET found == tree.files[p] IN
       IF ~TooDeep(p, found) /\ (found.kind # "file" \/ load.listed[p] # NoBytes)
         THEN load' = [load EXCEPT !.unwalked = @ \ {p}] /\ UNCHANGED at
         ELSE Conclude("refused")
  /\ UNCHANGED <<Environment, anchors>>

\* The walk comes to a path, in the order read_dir gives.
WalkTo(p) ==
  /\ at = "walk"
  /\ p \in load.unwalked
  /\ LET found == tree.files[p] IN
       IF ~TooDeep(p, found) /\ (IsEntry(found) => load.listed[p] # NoBytes)
         THEN load' = [load EXCEPT !.unwalked = @ \ {p}] /\ UNCHANGED at
         ELSE Conclude("refused")
  /\ UNCHANGED <<Environment, anchors>>

\* Step 3, TrustStore::pin_or_verify.
Anchor ==
  /\ at = "walk"
  /\ load.unwalked = {}
  /\ LET id == load.describe.id  key == load.describe.key IN
       IF anchors[id] \in {NoSigner, key}
         THEN /\ anchors' = [anchors EXCEPT ![id] = key]
              /\ at' = "pick"
         ELSE at' = "refused" /\ UNCHANGED anchors
  /\ UNCHANGED <<Environment, load>>

-----------------------------------------------------------------------------
(* from_verified *)

\* wasm_component_path: a design wasm that is there, or the one declared gtpack.
PickComponent ==
  /\ at = "pick"
  /\ LET path == IF tree.files[DesignWasm].kind # "none"
                   THEN DesignWasm ELSE load.describe.gtpack
     IN IF path \in Paths
          THEN load' = [load EXCEPT !.path = path] /\ at' = "read"
          ELSE Conclude("unloadable")
  /\ UNCHANGED <<Environment, anchors>>

\* MUTANT: a file without a ledger entry is not compared.
Vouches_Listed(p, bytes) == load.listed[p] # NoBytes => load.listed[p] = bytes

\* read_verified: the digest of what was just read is the one recorded.
Vouches(p, bytes) == load.listed[p] = bytes

\* read_verified, then Component::from_binary on the bytes it returned.
ReadVerified ==
  /\ at = "read"
  /\ LET found == tree.files[load.path] IN
       IF Readable(found) /\ Vouches(load.path, found.bytes) /\ found.bytes \in Compiles
         THEN /\ load' = [load EXCEPT !.component = found.bytes]
              /\ at' = "compiled"
         ELSE Conclude("unloadable")
  /\ UNCHANGED <<Environment, anchors>>

-----------------------------------------------------------------------------
\* A read or the trust store fails.
IoError ==
  /\ at \in Working
  /\ Conclude("ioError")
  /\ UNCHANGED <<Environment, anchors>>

\* MUTANT: the next load starts with what this one listed.
Return_KeepsListed ==
  /\ at \in Verdicts
  /\ at' = "idle"
  /\ load' = [NoLoad EXCEPT !.listed = load.listed]
  /\ had' = {tree}
  /\ UNCHANGED <<tree, anchors, writes>>

\* The result reaches the caller.
Return ==
  /\ at \in Verdicts
  /\ at' = "idle"
  /\ load' = NoLoad
  /\ had' = {tree}
  /\ UNCHANGED <<tree, anchors, writes>>

Others ==
  \/ \E p \in Paths, node \in Node \cup {NoNode} : WriteFile(p, node)
  \/ \E release \in Releases : WriteDescribe(release) \/ WriteManifest(release)
  \/ \E id \in Packs, key \in Signers : GtdxAnchors(id, key)

Gate ==
  \/ ReadDescribe \/ ReadManifest \/ StatEntry \/ HashEntry \/ BeginWalk
  \/ (\E p \in Paths : WalkTo(p)) \/ Anchor
  \/ PickComponent \/ ReadVerified \/ IoError \/ Return

GateNext == Others \/ Gate

GateSpec == GateInit /\ [][GateNext]_gateVars

-----------------------------------------------------------------------------
(* Properties *)

Entries(t) == {t.manifest.entries[i] : i \in DOMAIN t.manifest.entries}
Lists(t, p) == \E e \in Entries(t) : e.path = p

\* A directory that is, at one instant, what was signed: all of it and nothing else.
Intact(t) ==
  /\ t.describe.signed
  /\ Bound(t.describe, t.manifest)
  /\ \A e \in Entries(t) :
       e.path \in Paths /\ t.files[e.path] = [kind |-> "file", bytes |-> e.sha256]
  /\ \A p \in Paths : /\ IsEntry(t.files[p]) => Lists(t, p)
                      /\ ~TooDeep(p, t.files[p])

\* The component of an intact directory: the design wasm if the ledger lists one.
ComponentOf(t) ==
  IF t.files[DesignWasm].kind # "none" THEN DesignWasm ELSE t.describe.gtpack

Loadable(t) ==
  /\ ComponentOf(t) \in Paths
  /\ \E e \in Entries(t) : e.path = ComponentOf(t) /\ e.sha256 \in Compiles

\* Of a directory nobody wrote during the load, each verdict says what it is:
\* compiled, the intact pack of the pinned publisher with a component; refused,
\* neither; unloadable, one without (runtime_verify.rs, verify_dir_signature).
UntouchedVerdict ==
  had = {tree} =>
    /\ at = "compiled" => /\ Intact(tree) /\ Loadable(tree)
                          /\ load.path = ComponentOf(tree)
    /\ at = "refused" => \/ ~Intact(tree)
                         \/ anchors[tree.describe.id] # tree.describe.key
    /\ at = "unloadable" => Intact(tree) /\ ~Loadable(tree)

\* However the directory is written meanwhile, what is compiled is what the signed
\* ledger records for a file of the pack, and the key that signed it is the one
\* pinned (runtime_verify.rs, read_verified).
CompiledIsRecorded ==
  at = "compiled" =>
    /\ load.describe.signed
    /\ anchors[load.describe.id] = load.describe.key
    /\ \E i \in DOMAIN load.describe.manifestSha256.entries :
         load.describe.manifestSha256.entries[i]
           = [path |-> load.path, sha256 |-> load.component]

\* Everything the ledger says was so at some instant since the load began, if not
\* all of it at one.
Vouched ==
  LET ledger == load.describe.manifestSha256 IN
    /\ \E t \in had : t.describe = load.describe /\ t.describe.signed
    /\ \E t \in had : t.manifest = ledger /\ Bound(load.describe, t.manifest)
    /\ \A i \in DOMAIN ledger.entries :
         LET e == ledger.entries[i] IN
           /\ e.path \in Paths
           /\ \E t \in had : t.files[e.path].kind = "file"
           /\ \E t \in had : Readable(t.files[e.path]) /\ t.files[e.path].bytes = e.sha256
    /\ \A p \in Paths :
         (\A t \in had : IsEntry(t.files[p]))
           => \E i \in DOMAIN ledger.entries : ledger.entries[i].path = p

\* A load pins a key only for a directory it has seen to be as signed, part by part:
\* a pin is for good (runtime_verify.rs:86-91).
PinsAfterIntegrity ==
  [][at' # at /\ anchors' # anchors => Vouched']_gateVars
=============================================================================
