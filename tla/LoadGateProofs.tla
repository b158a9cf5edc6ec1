--------------------------- MODULE LoadGateProofs ---------------------------
(***************************************************************************)
(* The load gate, proved for every directory, ledger and number of writes: *)
(* what is compiled is what was signed, a pin follows the comparison of    *)
(* every file, and of a directory nobody writes each verdict is true.      *)
(***************************************************************************)
EXTENDS LoadGate, TLAPS

USE LoadGateAssumption

-----------------------------------------------------------------------------
(* Types *)

LEMMA NoLoadType == NoLoad \in Load
  BY DEF NoLoad, Load, NothingListed

LEMMA LedgerTyped ==
  ASSUME NEW l \in Ledger
  PROVE  /\ l.entries \in Seq(LedgerEntry)
         /\ DOMAIN l.entries = 1 .. Len(l.entries)
         /\ Len(l.entries) \in Nat
         /\ \A i \in DOMAIN l.entries : l.entries[i] \in LedgerEntry
  BY DEF Ledger

LEMMA DescribeTyped ==
  ASSUME NEW d \in Describe
  PROVE  /\ d.id \in Packs /\ d.key \in Signers /\ d.signed \in BOOLEAN
         /\ d.manifestSha256 \in Ledger \cup {NoLedger}
         /\ d.gtpack \in Paths \cup {Outside, NoPath}
  BY DEF Describe

LEMMA NoLedgerIsNone == NoLedger \notin Ledger
  BY DEF Ledger, NoLedger

\* The types of the parts of what a load holds.
LEMMA LoadTyped ==
  ASSUME NEW l \in Load
  PROVE  /\ l.describe \in Describe \cup {NoDescribe}
         /\ l.manifest \in Ledger \cup {NoLedger}
         /\ l.next \in Nat \ {0}
         /\ l.listed \in [Paths -> Bytes \cup {NoBytes}]
         /\ l.unwalked \subseteq Paths
         /\ l.path \in Paths \cup {NoPath}
         /\ l.component \in Bytes \cup {NoBytes}
  BY DEF Load

LEMMA TreeTyped ==
  ASSUME NEW t \in Tree
  PROVE  /\ t.describe \in Describe \cup {NoDescribe}
         /\ t.manifest \in Ledger \cup {NoLedger}
         /\ t.files \in [Paths -> Node \cup {NoNode}]
  BY DEF Tree

LEMMA NodeTyped ==
  ASSUME NEW n \in Node \cup {NoNode}
  PROVE  /\ IsEntry(n) <=> n \in Node /\ n.kind # "dir"
         /\ Readable(n) <=> IsEntry(n)
         /\ n \in Node => n.bytes \in Bytes /\ n = [kind |-> n.kind, bytes |-> n.bytes]
  BY DEF Node, NoNode, IsEntry, Readable

\* Whatever is written, the directory stays one.
LEMMA WriteTyped ==
  ASSUME NEW t \in Tree, NEW r \in Tree, NEW p \in Paths, NEW n \in Node \cup {NoNode}
  PROVE  /\ [t EXCEPT !.files[p] = n] \in Tree
         /\ [t EXCEPT !.describe = r.describe] \in Tree
         /\ [t EXCEPT !.manifest = r.manifest] \in Tree
  BY DEF Tree

LEMMA OthersWrite ==
  ASSUME GateTypeOK, Others
  PROVE  \/ \E new \in Tree : Write(new)
         \/ \E id \in Packs, key \in Signers : GtdxAnchors(id, key)
<1>1. ASSUME NEW p \in Paths, NEW n \in Node \cup {NoNode}, WriteFile(p, n)
      PROVE  \E new \in Tree : Write(new)
  <2>1. [tree EXCEPT !.files[p] = n] \in Tree
    BY WriteTyped DEF GateTypeOK
  <2> QED
    BY <1>1, <2>1 DEF WriteFile
<1>2. ASSUME NEW r \in Releases, WriteDescribe(r) \/ WriteManifest(r)
      PROVE  \E new \in Tree : Write(new)
  <2>1. tree \in Tree /\ r \in Tree
    BY DEF GateTypeOK
  <2>2. /\ [tree EXCEPT !.describe = r.describe] \in Tree
        /\ [tree EXCEPT !.manifest = r.manifest] \in Tree
    BY <2>1 DEF Tree
  <2> QED
    BY <1>2, <2>2 DEF WriteDescribe, WriteManifest
<1> QED
  BY <1>1, <1>2 DEF Others

\* A step of the load that goes on, and one that ends it.
LEMMA ConcludeType ==
  ASSUME GateTypeOK, NEW verdict \in {"refused", "unloadable", "ioError"},
         Conclude(verdict), UNCHANGED <<Environment, anchors>>,
         verdict = "refused" \/ at \in Working
  PROVE  GateTypeOK'
<1> USE DEF GateTypeOK, Conclude, Environment, Working, Verdicts
<1> QED
  OBVIOUS

LEMMA TypeStep ==
  ASSUME GateTypeOK, [GateNext]_gateVars
  PROVE  GateTypeOK'
<1> USE DEF GateTypeOK, Environment, Working, Verdicts
<1>1. CASE UNCHANGED gateVars
  BY <1>1 DEF gateVars
<1>2. ASSUME NEW new \in Tree, Write(new)
      PROVE  GateTypeOK'
  BY <1>2 DEF Write
<1>3. ASSUME NEW id \in Packs, NEW key \in Signers, GtdxAnchors(id, key)
      PROVE  GateTypeOK'
  BY <1>3 DEF GtdxAnchors
<1>4. CASE ReadDescribe
  <2>1. CASE tree.describe.signed
    <3>1. tree.describe \in Describe
      BY <2>1, TreeTyped DEF NoDescribe
    <3>2. load' \in Load
      BY <1>4, <2>1, <3>1 DEF ReadDescribe, Load
    <3>3. load'.describe = tree.describe
      BY <1>4, <2>1, LoadTyped DEF ReadDescribe, Load
    <3> QED
      BY <1>4, <2>1, <3>1, <3>2, <3>3 DEF ReadDescribe
  <2>2. CASE ~tree.describe.signed
    BY <1>4, <2>2 DEF ReadDescribe, Conclude
  <2> QED
    BY <2>1, <2>2
<1>5. CASE ReadManifest
  <2>1. CASE Bound(load.describe, tree.manifest)
    <3>1. tree.manifest \in Ledger
      BY <2>1, TreeTyped DEF Bound
    <3>2. load' \in Load /\ load'.manifest = tree.manifest /\ load'.next = load.next
          /\ load'.describe = load.describe
      BY <1>5, <2>1, <3>1 DEF ReadManifest, Load
    <3>3. load.next = 1
      BY <1>5 DEF ReadManifest, NoLoad
    <3>4. load'.next <= Len(load'.manifest.entries) + 1
      BY <3>1, <3>2, <3>3, LedgerTyped
    <3> QED
      BY <1>5, <2>1, <3>1, <3>2, <3>4 DEF ReadManifest
  <2>2. CASE ~Bound(load.describe, tree.manifest)
    BY <1>5, <2>2, ConcludeType DEF ReadManifest
  <2> QED
    BY <2>1, <2>2
<1>6. CASE StatEntry
  <2>1. CASE Entry.path \in Paths /\ tree.files[Entry.path].kind = "file"
    BY <1>6, <2>1 DEF StatEntry, Entry, EntriesLeft
  <2>2. CASE ~(Entry.path \in Paths /\ tree.files[Entry.path].kind = "file")
    BY <1>6, <2>2, ConcludeType DEF StatEntry
  <2> QED
    BY <2>1, <2>2
<1>7. CASE HashEntry
  <2>1. CASE at' = "stat"
    <3>1. load.manifest \in Ledger /\ load.next \in DOMAIN load.manifest.entries
          /\ Entry \in LedgerEntry /\ Entry.path \in Paths
      BY <1>7, LedgerTyped DEF HashEntry, Entry
    <3>2. Entry.sha256 \in Bytes
      BY <3>1 DEF LedgerEntry
    <3>3. load' = [load EXCEPT !.next = @ + 1, !.listed[Entry.path] = Entry.sha256]
      BY <1>7, <2>1 DEF HashEntry, Conclude
    <3>4. load' \in Load /\ load'.manifest = load.manifest /\ load'.next = load.next + 1
          /\ load'.describe = load.describe
      <4>1. load.next + 1 \in Nat \ {0}
        BY DEF Load
      <4>2. [load.listed EXCEPT ![Entry.path] = Entry.sha256] \in [Paths -> Bytes \cup {NoBytes}]
        BY <3>1, <3>2 DEF Load
      <4>3. load' = [load EXCEPT !.next = load.next + 1,
                      !.listed = [load.listed EXCEPT ![Entry.path] = Entry.sha256]]
        BY <3>3
      <4> HIDE DEF Entry
      <4> QED
        BY <4>1, <4>2, <4>3 DEF Load
    <3>5. load.next + 1 <= Len(load.manifest.entries) + 1
      BY <3>1, LedgerTyped
    <3> QED
      BY <1>7, <2>1, <3>1, <3>4, <3>5 DEF HashEntry
  <2>2. CASE at' # "stat"
    BY <1>7, <2>2, ConcludeType DEF HashEntry
  <2> QED
    BY <2>1, <2>2
<1>8. CASE BeginWalk
  BY <1>8 DEF BeginWalk, Load
<1>9. ASSUME NEW p \in Paths, WalkTo(p)
      PROVE  GateTypeOK'
  <2>1. CASE at' = at
    BY <1>9, <2>1 DEF WalkTo, Load, Conclude
  <2>2. CASE at' # at
    BY <1>9, <2>2, ConcludeType DEF WalkTo
  <2> QED
    BY <2>1, <2>2
<1>10. CASE Anchor
  BY <1>10, DescribeTyped DEF Anchor
<1>11. CASE PickComponent
  <2>1. CASE at' = "read"
    BY <1>11, <2>1 DEF PickComponent, Load, Conclude
  <2>2. CASE at' # "read"
    BY <1>11, <2>2, ConcludeType DEF PickComponent
  <2> QED
    BY <2>1, <2>2
<1>12. CASE ReadVerified
  <2>1. CASE at' = "compiled"
    BY <1>12, <2>1 DEF ReadVerified, Load, Conclude
  <2>2. CASE at' # "compiled"
    BY <1>12, <2>2, ConcludeType DEF ReadVerified
  <2> QED
    BY <2>1, <2>2
<1>13. CASE IoError
  BY <1>13, ConcludeType DEF IoError
<1>14. CASE Return
  BY <1>14, NoLoadType DEF Return
<1> HIDE DEF GateTypeOK
<1> QED
  BY <1>1, <1>2, <1>3, <1>4, <1>5, <1>6, <1>7, <1>8, <1>9, <1>10, <1>11, <1>12, <1>13,
     <1>14, OthersWrite DEF GateNext, Gate

LEMMA TypeInit == GateInit => GateTypeOK
  BY NoLoadType DEF GateInit, GateTypeOK

\* What a load holds and where it stands are always of their types: it reads no
\* ledger entry beyond the last and picks a component inside the pack.
THEOREM GateTypeCorrect == GateSpec => []GateTypeOK
<1>1. GateTypeOK /\ [GateNext]_gateVars => GateTypeOK'
  BY TypeStep
<1> QED
  BY TypeInit, <1>1, PTL DEF GateSpec

-----------------------------------------------------------------------------
(* The inductive invariant *)

PastWalk == {"pick", "read", "compiled", "unloadable"}
PastManifest == {"stat", "hash", "walk"} \cup PastWalk

\* The describe in hand is signed, and was that of the directory.
DescribeInv ==
  at \notin {"idle", "refused"} =>
    load.describe.signed /\ \E t \in had : t.describe = load.describe

\* So was the ledger, and the describe is bound to it.
ManifestInv ==
  at \in PastManifest =>
    Bound(load.describe, load.manifest) /\ \E t \in had : t.manifest = load.manifest

WasRegular(p) == \E t \in had : t.files[p].kind = "file"
WasRead(p, bytes) == \E t \in had : Readable(t.files[p]) /\ t.files[p].bytes = bytes

Compared(e) ==
  /\ e.path \in Paths
  /\ WasRegular(e.path) /\ WasRead(e.path, e.sha256)
  /\ load.listed[e.path] # NoBytes

\* Every entry before the next has been compared, and past the last all have.
EntriesInv ==
  at \in PastManifest =>
    /\ \A i \in DOMAIN load.manifest.entries : i < load.next => Compared(load.manifest.entries[i])
    /\ at = "hash" => WasRegular(Entry.path)
    /\ at \notin {"stat", "hash"} => \A i \in DOMAIN load.manifest.entries : i < load.next

\* What is listed is an entry of the ledger.
ListedInv ==
  at \in PastManifest =>
    \A p \in Paths : load.listed[p] # NoBytes =>
      \E i \in DOMAIN load.manifest.entries :
        load.manifest.entries[i] = [path |-> p, sha256 |-> load.listed[p]]

Walked(p) ==
  \E t \in had : /\ ~TooDeep(p, t.files[p])
                 /\ IsEntry(t.files[p]) => load.listed[p] # NoBytes

\* Where the walk has been there was nothing the ledger does not list.
WalkInv ==
  /\ at \in {"walk"} \cup PastWalk => \A p \in Paths \ load.unwalked : Walked(p)
  /\ at \in PastWalk => load.unwalked = {}

\* The key in hand is the one pinned.
AnchorInv == at \in PastWalk => anchors[load.describe.id] = load.describe.key

Chosen(files, gtpack) == IF files[DesignWasm].kind # "none" THEN DesignWasm ELSE gtpack

\* The component is the one to choose, and its content the one recorded.
ComponentInv ==
  /\ at \in {"read", "compiled"} =>
       \E t \in had : load.path = Chosen(t.files, load.describe.gtpack)
  /\ at = "compiled" => /\ load.path \in Paths
                        /\ load.component = load.listed[load.path]
                        /\ load.component \in Compiles

FactsInv ==
  DescribeInv /\ ManifestInv /\ EntriesInv /\ ListedInv /\ WalkInv /\ AnchorInv /\ ComponentInv

\* A directory that was refused and not written is not intact, or its key is not the
\* one pinned, for good; one that is unloadable has no component.
VerdictInv ==
  had = {tree} =>
    /\ at = "refused" =>
         \/ ~Intact(tree)
         \/ /\ tree.describe \in Describe
            /\ anchors[tree.describe.id] \notin {NoSigner, tree.describe.key}
    /\ at = "unloadable" => ~Loadable(tree)

GateInv == GateTypeOK /\ FactsInv /\ VerdictInv

-----------------------------------------------------------------------------
(* Steps that leave the load alone *)

\* What was so at some instant stays so.
LEMMA Remembered ==
  ASSUME had \subseteq had', UNCHANGED load
  PROVE  /\ \A p : WasRegular(p) => WasRegular(p)'
         /\ \A p, b : WasRead(p, b) => WasRead(p, b)'
         /\ \A p : Walked(p) => Walked(p)'
         /\ \A e : Compared(e) => Compared(e)'
<1>1. \A p : WasRegular(p) => WasRegular(p)'
  BY DEF WasRegular
<1>2. \A p, b : WasRead(p, b) => WasRead(p, b)'
  BY DEF WasRead
<1>3. \A p : Walked(p) => Walked(p)'
  BY DEF Walked
<1> QED
  BY <1>1, <1>2, <1>3 DEF Compared

PinsStay == \A id \in Packs : anchors[id] # NoSigner => anchors'[id] = anchors[id]

LEMMA QuietStep ==
  ASSUME GateTypeOK, FactsInv, had \subseteq had', PinsStay, UNCHANGED <<at, load>>
  PROVE  FactsInv'
<1> USE DEF FactsInv
<1>1. DescribeInv'
  BY DEF DescribeInv
<1>2. ManifestInv'
  BY DEF ManifestInv
<1>3. EntriesInv'
  <2>1. CASE at \in PastManifest
    <3>1. \A i \in DOMAIN load.manifest.entries :
            i < load.next => Compared(load.manifest.entries[i])'
      BY <2>1, Remembered DEF EntriesInv
    <3>2. at = "hash" => WasRegular(Entry.path)'
      BY <2>1 DEF EntriesInv, Entry, WasRegular
    <3> QED
      BY <2>1, <3>1, <3>2 DEF EntriesInv, Entry, Compared, WasRegular, WasRead
  <2> QED
    BY <2>1 DEF EntriesInv
<1>4. ListedInv'
  BY DEF ListedInv
<1>5. WalkInv'
  BY DEF WalkInv, Walked
<1>6. AnchorInv'
  <2>1. CASE at \in PastWalk
    <3>1. load.describe \in Describe
      BY <2>1 DEF GateTypeOK, PastWalk
    <3>2. anchors[load.describe.id] # NoSigner
      BY <2>1, <3>1, DescribeTyped DEF AnchorInv
    <3> QED
      BY <2>1, <3>1, <3>2, DescribeTyped DEF AnchorInv, PinsStay
  <2> QED
    BY <2>1 DEF AnchorInv
<1>7. ComponentInv'
  BY DEF ComponentInv
<1> QED
  BY <1>1, <1>2, <1>3, <1>4, <1>5, <1>6, <1>7

LEMMA WriteStep ==
  ASSUME GateInv, NEW new \in Tree, Write(new)
  PROVE  FactsInv' /\ VerdictInv'
<1>1. CASE at = "idle"
  BY <1>1 DEF Write, FactsInv, VerdictInv, DescribeInv, ManifestInv, EntriesInv, ListedInv,
     WalkInv, AnchorInv, ComponentInv, PastManifest, PastWalk
<1>2. CASE at # "idle"
  <2>1. FactsInv'
    BY <1>2, QuietStep DEF GateInv, Write, PinsStay
  <2>2. had' # {tree'}
    BY <1>2 DEF Write, GateInv, GateTypeOK
  <2> QED
    BY <2>1, <2>2 DEF VerdictInv
<1> QED
  BY <1>1, <1>2

LEMMA GtdxStep ==
  ASSUME GateInv, NEW id \in Packs, NEW key \in Signers, GtdxAnchors(id, key)
  PROVE  FactsInv' /\ VerdictInv'
<1>1. PinsStay
  BY DEF GtdxAnchors, PinsStay, GateInv, GateTypeOK
<1>2. FactsInv'
  BY <1>1, QuietStep DEF GateInv, GtdxAnchors
<1>3. UNCHANGED <<tree, at, load, had>>
  BY DEF GtdxAnchors
<1>4. VerdictInv'
  <2>1. ASSUME tree.describe \in Describe,
               anchors[tree.describe.id] \notin {NoSigner, tree.describe.key}
        PROVE  anchors'[tree.describe.id] \notin {NoSigner, tree.describe.key}
    BY <1>1, <2>1, DescribeTyped DEF PinsStay
  <2>2. Intact(tree)' = Intact(tree) /\ Loadable(tree)' = Loadable(tree)
    BY <1>3 DEF Intact, Loadable, ComponentOf, Lists, Entries
  <2> QED
    BY <1>3, <2>1, <2>2 DEF GateInv, VerdictInv
<1> QED
  BY <1>2, <1>4

-----------------------------------------------------------------------------
(* Steps of the load *)

\* A directory nobody wrote is in hand as it is.
LEMMA Untouched ==
  ASSUME FactsInv, had = {tree}
  PROVE  /\ at \notin {"idle", "refused"} => load.describe = tree.describe
         /\ at \in PastManifest => load.manifest = tree.manifest
         /\ \A p : WasRegular(p) => tree.files[p].kind = "file"
         /\ \A p, b : WasRead(p, b) => Readable(tree.files[p]) /\ tree.files[p].bytes = b
         /\ \A p : Walked(p) => ~TooDeep(p, tree.files[p])
         /\ \A p : Walked(p) /\ IsEntry(tree.files[p]) => load.listed[p] # NoBytes
  BY DEF FactsInv, DescribeInv, ManifestInv, WasRegular, WasRead, Walked

\* One that passes the walk is intact.
LEMMA PassedIsIntact ==
  ASSUME GateTypeOK, FactsInv, had = {tree}, at \in PastWalk
  PROVE  Intact(tree)
<1>1. at \in PastManifest /\ at \notin {"idle", "refused", "stat", "hash"}
  BY DEF PastManifest, PastWalk
<1>2. load.describe = tree.describe /\ load.manifest = tree.manifest
  BY <1>1, Untouched
<1>3. tree.describe.signed /\ Bound(tree.describe, tree.manifest)
  BY <1>1, <1>2 DEF FactsInv, DescribeInv, ManifestInv
<1>4. ASSUME NEW e \in Entries(tree)
      PROVE  e.path \in Paths /\ tree.files[e.path] = [kind |-> "file", bytes |-> e.sha256]
  <2>1. Compared(e)
    BY <1>1, <1>2 DEF Entries, FactsInv, EntriesInv
  <2>2. /\ e.path \in Paths
        /\ tree.files[e.path].kind = "file"
        /\ Readable(tree.files[e.path]) /\ tree.files[e.path].bytes = e.sha256
    BY <2>1, Untouched DEF Compared
  <2>3. tree.files[e.path] \in Node \cup {NoNode}
    BY <2>2, TreeTyped DEF GateTypeOK
  <2> QED
    BY <2>2, <2>3, NodeTyped
<1>5. ASSUME NEW p \in Paths
      PROVE  /\ IsEntry(tree.files[p]) => Lists(tree, p)
             /\ ~TooDeep(p, tree.files[p])
  <2>1. Walked(p)
    BY DEF FactsInv, WalkInv
  <2>2. ~TooDeep(p, tree.files[p]) /\ (IsEntry(tree.files[p]) => load.listed[p] # NoBytes)
    BY <2>1, Untouched
  <2>3. ASSUME load.listed[p] # NoBytes PROVE Lists(tree, p)
    <3>1. PICK i \in DOMAIN load.manifest.entries :
            load.manifest.entries[i] = [path |-> p, sha256 |-> load.listed[p]]
      BY <1>1, <2>3 DEF FactsInv, ListedInv
    <3>2. load.manifest.entries[i].path = p
      BY <3>1
    <3> QED
      BY <1>2, <3>2 DEF Lists, Entries
  <2> QED
    BY <2>2, <2>3
<1> QED
  BY <1>3, <1>4, <1>5 DEF Intact

\* A load that ends keeps what it holds.
LEMMA EndStep ==
  ASSUME GateTypeOK, FactsInv, UNCHANGED <<tree, had, load, anchors>>,
         \/ at' \in {"refused", "ioError"} /\ at \notin {"idle", "refused"}
         \/ at' = "unloadable" /\ at \in PastWalk
  PROVE  FactsInv'
<1>1. CASE at' \in {"refused", "ioError"} /\ at \notin {"idle", "refused"}
  BY <1>1 DEF FactsInv, DescribeInv, ManifestInv, EntriesInv, ListedInv, WalkInv, AnchorInv,
     ComponentInv, PastManifest, PastWalk
<1>2. CASE at' = "unloadable" /\ at \in PastWalk
  <2>1. at \in PastManifest /\ at' \in PastManifest /\ at' \in PastWalk
    BY <1>2 DEF PastManifest, PastWalk
  <2>2. DescribeInv' /\ ManifestInv'
    BY <1>2, <2>1 DEF FactsInv, DescribeInv, ManifestInv, PastWalk
  <2>3. EntriesInv'
    BY <1>2, <2>1 DEF FactsInv, EntriesInv, Compared, WasRegular, WasRead, PastWalk
  <2>4. ListedInv' /\ AnchorInv' /\ ComponentInv'
    BY <1>2, <2>1 DEF FactsInv, ListedInv, AnchorInv, ComponentInv
  <2>5. WalkInv'
    BY <1>2, <2>1 DEF FactsInv, WalkInv, Walked
  <2> QED
    BY <2>2, <2>3, <2>4, <2>5 DEF FactsInv
<1> QED
  BY <1>1, <1>2

LEMMA ReadDescribeStep ==
  ASSUME GateInv, ReadDescribe
  PROVE  FactsInv' /\ VerdictInv'
<1>1. CASE tree.describe.signed
  <2>1. load'.describe = tree.describe
    BY <1>1, LoadTyped DEF ReadDescribe, GateInv, GateTypeOK, Load
  <2> QED
    BY <1>1, <2>1 DEF ReadDescribe, FactsInv, VerdictInv, DescribeInv, ManifestInv, EntriesInv,
       ListedInv, WalkInv, AnchorInv, ComponentInv, PastManifest, PastWalk
<1>2. CASE ~tree.describe.signed
  <2>1. ~Intact(tree)'
    BY <1>2 DEF ReadDescribe, Intact
  <2> QED
    BY <1>2, <2>1 DEF ReadDescribe, Conclude, FactsInv, VerdictInv, DescribeInv, ManifestInv,
       EntriesInv, ListedInv, WalkInv, AnchorInv, ComponentInv, PastManifest, PastWalk
<1> QED
  BY <1>1, <1>2

LEMMA ReadManifestStep ==
  ASSUME GateInv, ReadManifest
  PROVE  FactsInv' /\ VerdictInv'
<1>1. CASE Bound(load.describe, tree.manifest)
  <2>1. at = "manifest" /\ at' = "stat" /\ UNCHANGED <<tree, had, anchors>>
    BY <1>1 DEF ReadManifest, Environment
  <2>2. /\ load'.manifest = tree.manifest /\ load'.describe = load.describe
        /\ load'.next = 1 /\ load'.listed = NothingListed
    BY <1>1 DEF ReadManifest, GateInv, GateTypeOK, Load, NoLoad
  <2>3. tree.manifest \in Ledger /\ tree \in had
    BY <1>1, TreeTyped DEF Bound, GateInv, GateTypeOK
  <2>4. DOMAIN tree.manifest.entries = 1 .. Len(tree.manifest.entries)
    BY <2>3, LedgerTyped
  <2>5. DescribeInv' /\ ManifestInv'
    BY <1>1, <2>1, <2>2, <2>3 DEF GateInv, FactsInv, DescribeInv, ManifestInv
  <2>6. EntriesInv'
    BY <2>1, <2>2, <2>3, <2>4, LedgerTyped DEF EntriesInv
  <2>7. ListedInv'
    BY <2>1, <2>2 DEF ListedInv, NothingListed
  <2> QED
    BY <2>1, <2>5, <2>6, <2>7 DEF FactsInv, VerdictInv, WalkInv, AnchorInv, ComponentInv, PastWalk
<1>2. CASE ~Bound(load.describe, tree.manifest)
  <2>1. /\ at = "manifest" /\ at' = "refused"
        /\ UNCHANGED <<tree, had, load, anchors>>
    BY <1>2 DEF ReadManifest, Conclude, Environment
  <2>2. FactsInv'
    BY <2>1, EndStep DEF GateInv
  <2>3. had = {tree} => ~Intact(tree)'
    BY <1>2, <2>1, Untouched DEF GateInv, Intact
  <2> QED
    BY <2>1, <2>2, <2>3 DEF VerdictInv
<1> QED
  BY <1>1, <1>2

LEMMA StatEntryStep ==
  ASSUME GateInv, StatEntry
  PROVE  FactsInv' /\ VerdictInv'
<1>1. /\ at = "stat" /\ at \in PastManifest
      /\ UNCHANGED <<tree, had, load, anchors>>
  BY DEF StatEntry, Conclude, Environment, PastManifest
<1>2. CASE at' = "hash"
  <2>1. WasRegular(Entry.path)
    BY <1>2 DEF StatEntry, Conclude, GateInv, GateTypeOK, WasRegular
  <2>2. EntriesInv'
    BY <1>1, <1>2, <2>1 DEF GateInv, FactsInv, EntriesInv, Entry, Compared, WasRegular, WasRead
  <2> QED
    BY <1>1, <1>2, <2>2 DEF GateInv, FactsInv, VerdictInv, DescribeInv, ManifestInv, ListedInv,
       WalkInv, AnchorInv, ComponentInv, PastManifest, PastWalk
<1>3. CASE at' # "hash"
  <2>1. at' = "refused" /\ ~(Entry.path \in Paths /\ tree.files[Entry.path].kind = "file")
    BY <1>3 DEF StatEntry, Conclude
  <2>2. FactsInv'
    BY <1>1, <2>1, EndStep DEF GateInv
  <2>3. had = {tree} => ~Intact(tree)'
    <3> SUFFICES ASSUME had = {tree} PROVE ~Intact(tree)
      BY <1>1 DEF Intact, Entries, Lists
    <3>1. Entry \in Entries(tree)
      BY <1>1, Untouched DEF StatEntry, EntriesLeft, Entry, Entries, GateInv
    <3>2. Intact(tree) => /\ Entry.path \in Paths
                          /\ tree.files[Entry.path] = [kind |-> "file", bytes |-> Entry.sha256]
      BY <3>1 DEF Intact
    <3> HIDE DEF Entry
    <3> QED
      BY <2>1, <3>2
  <2> QED
    BY <1>1, <2>1, <2>2, <2>3 DEF VerdictInv
<1> QED
  BY <1>2, <1>3

\* What one comparison adds.
LEMMA HashEntryFacts ==
  ASSUME GateInv, HashEntry, at' = "stat"
  PROVE  /\ UNCHANGED <<tree, had, anchors>>
         /\ at = "hash"
         /\ load.manifest \in Ledger /\ load.next \in DOMAIN load.manifest.entries
         /\ Entry = [path |-> Entry.path, sha256 |-> Entry.sha256]
         /\ Entry.path \in Paths /\ Entry.sha256 \in Bytes
         /\ WasRegular(Entry.path) /\ WasRead(Entry.path, Entry.sha256)
         /\ load'.describe = load.describe /\ load'.manifest = load.manifest
         /\ load'.next = load.next + 1
         /\ load'.listed = [load.listed EXCEPT ![Entry.path] = Entry.sha256]
         /\ load.listed \in [Paths -> Bytes \cup {NoBytes}]
<1>1. at = "hash" /\ UNCHANGED <<tree, had, anchors>>
  BY DEF HashEntry, Environment
<1>2. /\ load.manifest \in Ledger /\ load.next \in DOMAIN load.manifest.entries
      /\ Entry.path \in Paths /\ tree \in had
  BY <1>1 DEF GateInv, GateTypeOK, Entry
<1>3. Entry \in LedgerEntry
  BY <1>2, LedgerTyped DEF Entry
<1>4. Entry = [path |-> Entry.path, sha256 |-> Entry.sha256] /\ Entry.sha256 \in Bytes
  BY <1>3 DEF LedgerEntry
<1>5. /\ Readable(tree.files[Entry.path]) /\ tree.files[Entry.path].bytes = Entry.sha256
      /\ load' = [load EXCEPT !.next = @ + 1, !.listed[Entry.path] = Entry.sha256]
  BY DEF HashEntry, Conclude
<1>6. WasRegular(Entry.path) /\ WasRead(Entry.path, Entry.sha256)
  BY <1>1, <1>2, <1>5 DEF GateInv, FactsInv, EntriesInv, WasRead, PastManifest
<1>7. load \in Load
  BY DEF GateInv, GateTypeOK
<1>8. /\ load'.describe = load.describe /\ load'.manifest = load.manifest
      /\ load'.next = load.next + 1
      /\ load'.listed = [load.listed EXCEPT ![Entry.path] = Entry.sha256]
  <2> HIDE DEF Entry
  <2> QED
    BY <1>5, <1>7 DEF Load
<1> QED
  BY <1>1, <1>2, <1>4, <1>6, <1>7, <1>8, LoadTyped

LEMMA HashEntryStep ==
  ASSUME GateInv, HashEntry
  PROVE  FactsInv' /\ VerdictInv'
<1>1. CASE at' = "stat"
  <2> DEFINE e == Entry
             entries == load.manifest.entries
  <2>1. /\ UNCHANGED <<tree, had, anchors>>
        /\ at = "hash" /\ at \in PastManifest /\ at' \in PastManifest
        /\ load.next \in DOMAIN entries
        /\ e = entries[load.next] /\ e = [path |-> e.path, sha256 |-> e.sha256]
        /\ e.path \in Paths /\ e.sha256 \in Bytes
        /\ WasRegular(e.path) /\ WasRead(e.path, e.sha256)
        /\ load'.describe = load.describe /\ load'.manifest = load.manifest
        /\ load'.next = load.next + 1
        /\ load'.listed = [load.listed EXCEPT ![e.path] = e.sha256]
        /\ load.listed \in [Paths -> Bytes \cup {NoBytes}]
    BY <1>1, HashEntryFacts DEF Entry, PastManifest
  <2>2. load'.manifest.entries = entries
    BY <2>1
  <2>3. DOMAIN entries \subseteq Nat /\ load.next \in Nat
    BY <1>1, HashEntryFacts, LedgerTyped
  <2>4. \A i \in DOMAIN entries : i < load.next => Compared(entries[i])
    BY <2>1 DEF GateInv, FactsInv, EntriesInv
  <2>5. \A p \in Paths : load.listed[p] # NoBytes =>
          \E i \in DOMAIN entries : entries[i] = [path |-> p, sha256 |-> load.listed[p]]
    BY <2>1 DEF GateInv, FactsInv, ListedInv
  <2>6. DescribeInv' /\ ManifestInv'
    BY <2>1, <1>1 DEF GateInv, FactsInv, DescribeInv, ManifestInv
  <2> HIDE DEF e, entries
  <2>7. \A p \in Paths : load.listed[p] # NoBytes => load'.listed[p] # NoBytes
    BY <2>1
  <2>8. load'.listed[e.path] = e.sha256 /\ e.sha256 # NoBytes
    BY <2>1
  <2>9. ASSUME NEW i \in DOMAIN entries, i < load.next + 1
        PROVE  Compared(entries[i])'
    <3> DEFINE f == entries[i]
    <3>1. CASE i = load.next
      <4>1. f.path \in Paths /\ WasRegular(f.path) /\ WasRead(f.path, f.sha256)
            /\ load'.listed[f.path] # NoBytes
        BY <2>1, <2>8, <3>1
      <4> QED
        BY <2>1, <2>2, <4>1 DEF Compared, WasRegular, WasRead, entries
    <3>2. CASE i # load.next
      <4>1. i < load.next
        BY <2>3, <2>9, <3>2
      <4>2. f.path \in Paths /\ WasRegular(f.path) /\ WasRead(f.path, f.sha256)
            /\ load'.listed[f.path] # NoBytes
        BY <2>4, <2>7, <4>1 DEF Compared
      <4> QED
        BY <2>1, <2>2, <4>2 DEF Compared, WasRegular, WasRead, entries
    <3> QED
      BY <3>1, <3>2
  <2>10. EntriesInv'
    BY <1>1, <2>1, <2>2, <2>9 DEF EntriesInv, entries
  <2>11. ListedInv'
    <3> SUFFICES ASSUME NEW p \in Paths, load'.listed[p] # NoBytes
                 PROVE  \E i \in DOMAIN entries :
                          entries[i] = [path |-> p, sha256 |-> load'.listed[p]]
      BY <2>2 DEF ListedInv
    <3>1. CASE p = e.path
      BY <2>1, <2>8, <3>1
    <3>2. CASE p # e.path
      <4>1. load'.listed[p] = load.listed[p]
        BY <2>1, <3>2
      <4> QED
        BY <2>5, <4>1
    <3> QED
      BY <3>1, <3>2
  <2> QED
    BY <1>1, <2>1, <2>6, <2>10, <2>11 DEF FactsInv, VerdictInv, WalkInv, AnchorInv,
       ComponentInv, PastWalk
<1>2. CASE at' # "stat"
  <2>1. /\ at = "hash" /\ at \in PastManifest /\ at' = "refused"
        /\ UNCHANGED <<tree, had, load, anchors>>
        /\ ~(Readable(tree.files[Entry.path]) /\ tree.files[Entry.path].bytes = Entry.sha256)
    BY <1>2 DEF HashEntry, Conclude, Environment, PastManifest
  <2>2. FactsInv'
    BY <2>1, EndStep DEF GateInv
  <2>3. had = {tree} => ~Intact(tree)'
    <3> SUFFICES ASSUME had = {tree} PROVE ~Intact(tree)
      BY <2>1 DEF Intact, Entries, Lists
    <3>1. Entry \in Entries(tree)
      BY <2>1, Untouched DEF Entry, Entries, GateInv, GateTypeOK
    <3>2. Intact(tree) => tree.files[Entry.path] = [kind |-> "file", bytes |-> Entry.sha256]
      BY <3>1 DEF Intact
    <3> HIDE DEF Entry
    <3> QED
      BY <2>1, <3>2 DEF Readable
  <2> QED
    BY <2>1, <2>2, <2>3 DEF VerdictInv
<1> QED
  BY <1>1, <1>2

LEMMA BeginWalkStep ==
  ASSUME GateInv, BeginWalk
  PROVE  FactsInv' /\ VerdictInv'
<1>1. /\ at = "stat" /\ at' = "walk" /\ at \in PastManifest /\ at' \in PastManifest
      /\ UNCHANGED <<tree, had, anchors>>
  BY DEF BeginWalk, Environment, PastManifest
<1>2. /\ load'.describe = load.describe /\ load'.manifest = load.manifest
      /\ load'.next = load.next /\ load'.listed = load.listed /\ load'.unwalked = Paths
  BY DEF BeginWalk, GateInv, GateTypeOK, Load
<1>3. \A i \in DOMAIN load.manifest.entries : i < load.next
  <2>1. /\ load.manifest \in Ledger /\ load.next \in Nat \ {0}
        /\ load.next \notin DOMAIN load.manifest.entries
    BY <1>1, LoadTyped DEF BeginWalk, EntriesLeft, GateInv, GateTypeOK
  <2> QED
    BY <2>1, LedgerTyped
<1>4. EntriesInv'
  BY <1>1, <1>2, <1>3 DEF GateInv, FactsInv, EntriesInv, Compared, WasRegular, WasRead
<1>5. DescribeInv' /\ ManifestInv' /\ ListedInv'
  BY <1>1, <1>2 DEF GateInv, FactsInv, DescribeInv, ManifestInv, ListedInv
<1> QED
  BY <1>1, <1>2, <1>4, <1>5 DEF FactsInv, VerdictInv, WalkInv, AnchorInv, ComponentInv, PastWalk

LEMMA WalkToStep ==
  ASSUME GateInv, NEW p \in Paths, WalkTo(p)
  PROVE  FactsInv' /\ VerdictInv'
<1>1. at = "walk" /\ at \in PastManifest /\ UNCHANGED <<tree, had, anchors>>
  BY DEF WalkTo, Environment, PastManifest
<1>2. CASE ~TooDeep(p, tree.files[p]) /\ (IsEntry(tree.files[p]) => load.listed[p] # NoBytes)
  <2>1. /\ UNCHANGED at
        /\ load'.describe = load.describe /\ load'.manifest = load.manifest
        /\ load'.next = load.next /\ load'.listed = load.listed
        /\ load'.unwalked = load.unwalked \ {p}
    BY <1>2 DEF WalkTo, GateInv, GateTypeOK, Load
  <2>2. Walked(p)
    BY <1>2 DEF Walked, GateInv, GateTypeOK
  <2>3. WalkInv'
    BY <1>1, <2>1, <2>2 DEF GateInv, FactsInv, WalkInv, Walked, PastWalk
  <2>4. EntriesInv'
    BY <1>1, <2>1 DEF GateInv, FactsInv, EntriesInv, Compared, WasRegular, WasRead
  <2>5. DescribeInv' /\ ManifestInv' /\ ListedInv'
    BY <1>1, <2>1 DEF GateInv, FactsInv, DescribeInv, ManifestInv, ListedInv
  <2> QED
    BY <1>1, <2>1, <2>3, <2>4, <2>5 DEF FactsInv, VerdictInv, AnchorInv, ComponentInv, PastWalk
<1>3. CASE ~(~TooDeep(p, tree.files[p]) /\ (IsEntry(tree.files[p]) => load.listed[p] # NoBytes))
  <2>1. at' = "refused" /\ UNCHANGED load
    BY <1>3 DEF WalkTo, Conclude
  <2>2. FactsInv'
    BY <1>1, <2>1, EndStep DEF GateInv
  <2>3. had = {tree} => ~Intact(tree)'
    <3> SUFFICES ASSUME had = {tree} PROVE ~Intact(tree)
      BY <1>1 DEF Intact, Entries, Lists
    <3>1. ASSUME Lists(tree, p)
          PROVE  load.listed[p] # NoBytes
      <4>1. load.manifest = tree.manifest
        BY <1>1, Untouched DEF GateInv
      <4>2. PICK e \in Entries(tree) : e.path = p
        BY <3>1 DEF Lists
      <4>3. Compared(e)
        BY <1>1, <4>1, <4>2 DEF Entries, GateInv, FactsInv, EntriesInv
      <4> QED
        BY <4>2, <4>3 DEF Compared
    <3> QED
      BY <1>3, <3>1 DEF Intact
  <2> QED
    BY <1>1, <2>1, <2>2, <2>3 DEF VerdictInv
<1> QED
  BY <1>2, <1>3

LEMMA AnchorStep ==
  ASSUME GateInv, Anchor
  PROVE  FactsInv' /\ VerdictInv'
<1>1. /\ at = "walk" /\ at \in PastManifest /\ load.unwalked = {}
      /\ UNCHANGED <<tree, had, load>>
  BY DEF Anchor, Environment, PastManifest
<1>2. load.describe \in Describe /\ load.describe.id \in Packs
  BY <1>1, DescribeTyped DEF GateInv, GateTypeOK
<1>3. CASE anchors[load.describe.id] \in {NoSigner, load.describe.key}
  <2>1. /\ at' = "pick" /\ at' \in PastManifest
        /\ anchors'[load.describe.id] = load.describe.key
    BY <1>2, <1>3 DEF Anchor, GateInv, GateTypeOK, PastManifest, PastWalk
  <2>2. EntriesInv'
    BY <1>1, <2>1 DEF GateInv, FactsInv, EntriesInv, Compared, WasRegular, WasRead
  <2>3. DescribeInv' /\ ManifestInv' /\ ListedInv'
    BY <1>1, <2>1 DEF GateInv, FactsInv, DescribeInv, ManifestInv, ListedInv
  <2>4. WalkInv'
    BY <1>1, <2>1 DEF GateInv, FactsInv, WalkInv, Walked
  <2> QED
    BY <1>1, <2>1, <2>2, <2>3, <2>4 DEF FactsInv, VerdictInv, AnchorInv, ComponentInv
<1>4. CASE anchors[load.describe.id] \notin {NoSigner, load.describe.key}
  <2>1. at' = "refused" /\ UNCHANGED anchors
    BY <1>4 DEF Anchor
  <2>2. FactsInv'
    BY <1>1, <2>1, EndStep DEF GateInv
  <2>3. had = {tree} => tree.describe = load.describe
    BY <1>1, Untouched DEF GateInv
  <2> QED
    BY <1>1, <1>2, <1>4, <2>1, <2>2, <2>3 DEF VerdictInv
<1> QED
  BY <1>3, <1>4

\* Past the walk, with what the invariant says of the rest unchanged.
LEMMA PastWalkStep ==
  ASSUME GateInv, at \in PastWalk, at' \in PastWalk, UNCHANGED <<tree, had, anchors>>,
         load'.describe = load.describe, load'.manifest = load.manifest,
         load'.next = load.next, load'.listed = load.listed, load'.unwalked = load.unwalked
  PROVE  DescribeInv' /\ ManifestInv' /\ EntriesInv' /\ ListedInv' /\ WalkInv' /\ AnchorInv'
<1>1. at \in PastManifest /\ at' \in PastManifest
  BY DEF PastManifest
<1>2. EntriesInv'
  BY <1>1 DEF GateInv, FactsInv, EntriesInv, Compared, WasRegular, WasRead, PastWalk
<1>3. DescribeInv' /\ ManifestInv' /\ ListedInv' /\ AnchorInv'
  BY <1>1 DEF GateInv, FactsInv, DescribeInv, ManifestInv, ListedInv, AnchorInv, PastWalk
<1>4. WalkInv'
  BY DEF GateInv, FactsInv, WalkInv, Walked
<1> QED
  BY <1>2, <1>3, <1>4

LEMMA PickComponentStep ==
  ASSUME GateInv, PickComponent
  PROVE  FactsInv' /\ VerdictInv'
<1> DEFINE path == Chosen(tree.files, load.describe.gtpack)
<1>1. at = "pick" /\ at \in PastWalk /\ tree \in had /\ UNCHANGED <<tree, had, anchors>>
  BY DEF PickComponent, Environment, PastWalk, GateInv, GateTypeOK
<1>2. CASE path \in Paths
  <2>1. /\ at' = "read" /\ at' \in PastWalk
        /\ load'.describe = load.describe /\ load'.manifest = load.manifest
        /\ load'.next = load.next /\ load'.listed = load.listed
        /\ load'.unwalked = load.unwalked /\ load'.path = path
    BY <1>2 DEF PickComponent, Chosen, PastWalk, GateInv, GateTypeOK, Load
  <2>2. ComponentInv'
    BY <1>1, <2>1 DEF ComponentInv
  <2> QED
    BY <1>1, <2>1, <2>2, PastWalkStep DEF FactsInv, VerdictInv
<1>3. CASE path \notin Paths
  <2>1. at' = "unloadable" /\ UNCHANGED load
    BY <1>3 DEF PickComponent, Conclude, Chosen
  <2>2. FactsInv'
    BY <1>1, <2>1, EndStep DEF GateInv
  <2>3. had = {tree} => tree.describe = load.describe
    BY <1>1, Untouched DEF GateInv
  <2>4. had = {tree} => ~Loadable(tree)'
    BY <1>1, <1>3, <2>3 DEF Loadable, ComponentOf, Chosen
  <2> QED
    BY <1>1, <2>1, <2>2, <2>4 DEF VerdictInv
<1> QED
  BY <1>2, <1>3

LEMMA ReadVerifiedStep ==
  ASSUME GateInv, ReadVerified
  PROVE  FactsInv' /\ VerdictInv'
<1> DEFINE found == tree.files[load.path]
<1>1. /\ at = "read" /\ at \in PastWalk /\ at \in PastManifest /\ load.path \in Paths
      /\ UNCHANGED <<tree, had, anchors>>
  BY DEF ReadVerified, Environment, PastWalk, PastManifest, GateInv, GateTypeOK
<1>2. PICK t \in had : load.path = Chosen(t.files, load.describe.gtpack)
  BY <1>1 DEF GateInv, FactsInv, ComponentInv
<1>3. CASE Readable(found) /\ Vouches(load.path, found.bytes) /\ found.bytes \in Compiles
  <2>1. /\ at' = "compiled" /\ at' \in PastWalk
        /\ load'.describe = load.describe /\ load'.manifest = load.manifest
        /\ load'.next = load.next /\ load'.listed = load.listed
        /\ load'.unwalked = load.unwalked /\ load'.path = load.path
        /\ load'.component = found.bytes
    BY <1>3 DEF ReadVerified, PastWalk, GateInv, GateTypeOK, Load
  <2>2. load.listed[load.path] = found.bytes
    BY <1>3 DEF Vouches
  <2>3. ComponentInv'
    BY <1>1, <1>2, <1>3, <2>1, <2>2 DEF ComponentInv
  <2> QED
    BY <1>1, <2>1, <2>3, PastWalkStep DEF FactsInv, VerdictInv
<1>4. CASE ~(Readable(found) /\ Vouches(load.path, found.bytes) /\ found.bytes \in Compiles)
  <2>1. at' = "unloadable" /\ UNCHANGED load
    BY <1>4 DEF ReadVerified, Conclude
  <2>2. FactsInv'
    BY <1>1, <2>1, EndStep DEF GateInv
  <2>3. had = {tree} => ~Loadable(tree)'
    <3> SUFFICES ASSUME had = {tree}, Loadable(tree) PROVE FALSE
      BY <1>1 DEF Loadable, ComponentOf, Entries
    <3>1. load.path = ComponentOf(tree)
      BY <1>1, <1>2, Untouched DEF GateInv, ComponentOf, Chosen
    <3>2. PICK e \in Entries(tree) : e.path = load.path /\ e.sha256 \in Compiles
      BY <3>1 DEF Loadable
    <3>3. \A f \in Entries(tree) : tree.files[f.path] = [kind |-> "file", bytes |-> f.sha256]
      BY <1>1, PassedIsIntact DEF GateInv, Intact
    <3>4. Readable(found) /\ found.bytes = e.sha256 /\ found.bytes \in Compiles
      <4>1. found = [kind |-> "file", bytes |-> e.sha256]
        BY <3>2, <3>3
      <4> HIDE DEF found
      <4> QED
        BY <3>2, <4>1 DEF Readable
    <3>5. load.manifest = tree.manifest
      BY <1>1, Untouched DEF GateInv
    <3>6. Compared(e)
      BY <1>1, <3>2, <3>5 DEF Entries, GateInv, FactsInv, EntriesInv
    <3>7. PICK i \in DOMAIN load.manifest.entries :
            load.manifest.entries[i]
              = [path |-> load.path, sha256 |-> load.listed[load.path]]
      BY <1>1, <3>2, <3>6 DEF Compared, GateInv, FactsInv, ListedInv
    <3>8. tree.files[load.path] = [kind |-> "file", bytes |-> load.listed[load.path]]
      BY <3>3, <3>5, <3>7 DEF Entries
    <3> QED
      BY <1>4, <3>4, <3>8 DEF Vouches
  <2> QED
    BY <1>1, <2>1, <2>2, <2>3 DEF VerdictInv
<1> QED
  BY <1>3, <1>4

LEMMA ReturnStep ==
  ASSUME GateInv, Return
  PROVE  FactsInv' /\ VerdictInv'
  BY DEF Return, FactsInv, VerdictInv, DescribeInv, ManifestInv, EntriesInv, ListedInv, WalkInv,
     AnchorInv, ComponentInv, PastManifest, PastWalk

LEMMA IoErrorStep ==
  ASSUME GateInv, IoError
  PROVE  FactsInv' /\ VerdictInv'
<1>1. /\ at' = "ioError" /\ at \notin {"idle", "refused"}
      /\ UNCHANGED <<tree, had, load, anchors>>
  BY DEF IoError, Conclude, Environment, Working
<1>2. FactsInv'
  BY <1>1, EndStep DEF GateInv
<1> QED
  BY <1>1, <1>2 DEF VerdictInv

LEMMA GateInvStep ==
  ASSUME GateInv, [GateNext]_gateVars
  PROVE  GateInv'
<1>1. GateTypeOK'
  BY TypeStep DEF GateInv
<1>2. ASSUME UNCHANGED gateVars
      PROVE  FactsInv' /\ VerdictInv'
  <2>1. FactsInv'
    BY <1>2, QuietStep DEF GateInv, gateVars, PinsStay
  <2>2. VerdictInv'
    BY <1>2 DEF GateInv, VerdictInv, gateVars, Intact, Loadable, ComponentOf, Lists, Entries
  <2> QED
    BY <2>1, <2>2
<1>3. CASE Others
  BY <1>1, <1>3, OthersWrite, WriteStep, GtdxStep DEF GateInv
<1>4. CASE Gate
  BY <1>1, <1>4, ReadDescribeStep, ReadManifestStep, StatEntryStep, HashEntryStep, BeginWalkStep,
     WalkToStep, AnchorStep, PickComponentStep, ReadVerifiedStep, IoErrorStep, ReturnStep
     DEF Gate, GateInv
<1> QED
  BY <1>1, <1>2, <1>3, <1>4 DEF GateInv, GateNext

LEMMA GateInvariance == GateSpec => []GateInv
<1>1. GateInit => GateInv
  BY TypeInit DEF GateInit, GateInv, FactsInv, VerdictInv, DescribeInv, ManifestInv,
     EntriesInv, ListedInv, WalkInv, AnchorInv, ComponentInv, PastManifest, PastWalk
<1>2. GateInv /\ [GateNext]_gateVars => GateInv'
  BY GateInvStep
<1> QED
  BY <1>1, <1>2, PTL DEF GateSpec

-----------------------------------------------------------------------------
(* The theorems *)

\* However a directory is written while it is loaded, what is compiled is the content
\* the signed ledger records for the component, under the pinned key.
THEOREM CompilesWhatIsSigned == GateSpec => []CompiledIsRecorded
<1>1. GateInv => CompiledIsRecorded
  <2> SUFFICES ASSUME GateInv, at = "compiled" PROVE CompiledIsRecorded
    BY DEF CompiledIsRecorded
  <2>1. at \in PastManifest /\ at \in PastWalk
    BY DEF PastManifest, PastWalk
  <2>2. load.describe.signed /\ load.describe.manifestSha256 = load.manifest
    BY <2>1 DEF GateInv, FactsInv, DescribeInv, ManifestInv, Bound
  <2>3. anchors[load.describe.id] = load.describe.key
    BY <2>1 DEF GateInv, FactsInv, AnchorInv
  <2>4. /\ load.path \in Paths /\ load.component = load.listed[load.path]
        /\ load.component # NoBytes
    BY DEF GateInv, FactsInv, ComponentInv
  <2>5. PICK i \in DOMAIN load.manifest.entries :
          load.manifest.entries[i] = [path |-> load.path, sha256 |-> load.component]
    BY <2>1, <2>4 DEF GateInv, FactsInv, ListedInv
  <2> QED
    BY <2>2, <2>3, <2>5 DEF CompiledIsRecorded
<1> QED
  BY GateInvariance, <1>1, PTL

\* Of a directory that is not written during the load every verdict is true, and an
\* intact pack with a component, under the right key, is never turned away.
THEOREM VerdictsAreTrue == GateSpec => []UntouchedVerdict
<1>1. GateInv => UntouchedVerdict
  <2> SUFFICES ASSUME GateInv, had = {tree} PROVE UntouchedVerdict
    BY DEF UntouchedVerdict
  <2>1. ASSUME at = "compiled"
        PROVE  Intact(tree) /\ Loadable(tree) /\ load.path = ComponentOf(tree)
    <3>1. at \in PastManifest /\ at \in PastWalk
      BY <2>1 DEF PastManifest, PastWalk
    <3>2. load.describe = tree.describe /\ load.manifest = tree.manifest
      BY <2>1, <3>1, Untouched DEF GateInv
    <3>3. load.path = ComponentOf(tree)
      BY <2>1, <3>2 DEF GateInv, FactsInv, ComponentInv, ComponentOf, Chosen
    <3>4. /\ load.path \in Paths /\ load.component = load.listed[load.path]
          /\ load.component \in Compiles
      BY <2>1 DEF GateInv, FactsInv, ComponentInv
    <3>5. PICK i \in DOMAIN load.manifest.entries :
            load.manifest.entries[i] = [path |-> load.path, sha256 |-> load.component]
      BY <3>1, <3>4 DEF GateInv, FactsInv, ListedInv
    <3>6. load.manifest.entries[i] \in Entries(tree)
      BY <3>2, <3>5 DEF Entries
    <3>7. Loadable(tree)
      BY <3>3, <3>4, <3>5, <3>6 DEF Loadable
    <3> QED
      BY <3>1, <3>3, <3>7, PassedIsIntact DEF GateInv
  <2>2. ASSUME at = "refused"
        PROVE  ~Intact(tree) \/ anchors[tree.describe.id] # tree.describe.key
    BY <2>2 DEF GateInv, VerdictInv
  <2>3. ASSUME at = "unloadable"
        PROVE  Intact(tree) /\ ~Loadable(tree)
    BY <2>3, PassedIsIntact DEF GateInv, VerdictInv, PastWalk
  <2> QED
    BY <2>1, <2>2, <2>3 DEF UntouchedVerdict
<1> QED
  BY GateInvariance, <1>1, PTL

\* A load writes a pin only after it has seen every part of the directory to be as
\* signed, so that one that fails its comparison leaves none.
THEOREM PinsFollowIntegrity == GateSpec => PinsAfterIntegrity
<1>1. ASSUME GateInv, [GateNext]_gateVars, at' # at, anchors' # anchors
      PROVE  Vouched'
  <2>1. Anchor
    <3>1. UNCHANGED gateVars => UNCHANGED at
      BY DEF gateVars
    <3>2. Others => UNCHANGED at
      BY DEF Others, WriteFile, WriteDescribe, WriteManifest, Write, GtdxAnchors
    <3>3. ASSUME Gate, ~Anchor PROVE UNCHANGED anchors
      BY <3>3 DEF Gate, ReadDescribe, ReadManifest, StatEntry, HashEntry, BeginWalk, WalkTo,
         PickComponent, ReadVerified, IoError, Return
    <3> QED
      BY <1>1, <3>1, <3>2, <3>3 DEF GateNext
  <2>2. /\ at = "walk" /\ at \in PastManifest /\ load.unwalked = {}
        /\ UNCHANGED <<had, load>>
    BY <2>1 DEF Anchor, Environment, PastManifest
  <2>3. load.describe.signed /\ \E t \in had : t.describe = load.describe
    BY <1>1, <2>2 DEF GateInv, FactsInv, DescribeInv
  <2>4. /\ Bound(load.describe, load.manifest) /\ load.describe.manifestSha256 = load.manifest
        /\ \E t \in had : t.manifest = load.manifest
    BY <1>1, <2>2 DEF GateInv, FactsInv, ManifestInv, Bound
  <2>5. \A i \in DOMAIN load.manifest.entries : Compared(load.manifest.entries[i])
    BY <1>1, <2>2 DEF GateInv, FactsInv, EntriesInv
  <2>6. ASSUME NEW p \in Paths, \A t \in had : IsEntry(t.files[p])
        PROVE  \E i \in DOMAIN load.manifest.entries : load.manifest.entries[i].path = p
    <3>1. Walked(p)
      BY <1>1, <2>2 DEF GateInv, FactsInv, WalkInv
    <3>2. load.listed[p] # NoBytes
      BY <2>6, <3>1 DEF Walked
    <3>3. PICK i \in DOMAIN load.manifest.entries :
            load.manifest.entries[i] = [path |-> p, sha256 |-> load.listed[p]]
      BY <1>1, <2>2, <3>2 DEF GateInv, FactsInv, ListedInv
    <3> QED
      BY <3>3
  <2>7. Vouched
    BY <2>3, <2>4, <2>5, <2>6 DEF Vouched, Compared, WasRegular, WasRead
  <2> QED
    BY <2>2, <2>7 DEF Vouched
<1>2. GateInv /\ [GateNext]_gateVars
        => [at' # at /\ anchors' # anchors => Vouched']_gateVars
  BY <1>1
<1> QED
  BY GateInvariance, <1>2, PTL DEF GateSpec, PinsAfterIntegrity
=============================================================================
