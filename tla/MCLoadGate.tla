----------------------------- MODULE MCLoadGate -----------------------------
EXTENDS LoadGate, TLC

CONSTANTS design, gtpack, asset, x, y, n, s1, s2, outside, noPath

MCPaths == {design, gtpack, asset}

\* The asset is in a directory as deep as the walk goes.
MCDepth == design :> 0 @@ gtpack :> 1 @@ asset :> 2

File(bytes) == [kind |-> "file", bytes |-> bytes]
Row(path, bytes) == [path |-> path, sha256 |-> bytes]

Files(d, g, s) == design :> d @@ gtpack :> g @@ asset :> s

Sealed(key, declared, rows, files) ==
  LET ledger == [schema |-> "v1", entries |-> rows] IN
    [describe |-> [id |-> n, key |-> key, signed |-> TRUE,
                   manifestSha256 |-> ledger, gtpack |-> declared],
     manifest |-> ledger, files |-> files]

DualFiles == Files(File(x), File(y), NoNode)
SingleFiles == Files(NoNode, File(x), File(y))

\* A pack with a design wasm, whose gtpack is none of ours, and one without; a later
\* build of each, the second by another key.
Dual == Sealed(s1, gtpack, <<Row(design, x), Row(gtpack, y)>>, DualFiles)
Single == Sealed(s1, gtpack, <<Row(asset, y), Row(gtpack, x)>>, SingleFiles)
Renewed == Sealed(s2, gtpack, <<Row(gtpack, x)>>, Files(NoNode, File(x), NoNode))

\* Packs a publisher sealed wrong: no component declared, one that is none, one
\* outside; a ledger that leads outside or lists a file twice.
Bare == Sealed(s1, noPath, <<Row(gtpack, x)>>, Files(NoNode, File(x), NoNode))
Placeholder == Sealed(s1, gtpack, <<Row(gtpack, y)>>, Files(NoNode, File(y), NoNode))
Foreign == Sealed(s1, outside, <<Row(asset, y)>>, Files(NoNode, NoNode, File(y)))
Climbing == Sealed(s1, gtpack, <<Row(gtpack, x), Row(outside, x)>>,
                   Files(NoNode, File(x), NoNode))
Twice == Sealed(s1, gtpack, <<Row(gtpack, x), Row(gtpack, y)>>,
                Files(NoNode, File(x), NoNode))

\* And what other tools leave: an unsigned pack, one of before the ledger, one of
\* another schema, none.
Unsigned == [Single EXCEPT !.describe.signed = FALSE]
Legacy == [Single EXCEPT !.describe.manifestSha256 = NoLedger, !.manifest = NoLedger]
OtherSchema ==
  LET ledger == [schema |-> "other", entries |-> <<Row(asset, y), Row(gtpack, x)>>] IN
    [Single EXCEPT !.describe.manifestSha256 = ledger, !.manifest = ledger]
Nothing == [describe |-> NoDescribe, manifest |-> NoLedger,
            files |-> Files(NoNode, NoNode, NoNode)]

MCReleases == {Dual, Single, Renewed, Bare, Placeholder, Foreign, Climbing, Twice,
               Unsigned, Legacy, OtherSchema, Nothing}
=============================================================================
