---------------------------- MODULE MCInstallRun ----------------------------
(* Two facets.  f@1 and g@1 collide on the file x and share a definition of *)
(* the server s; f@2 gives x up for y, and defines s differently.           *)
EXTENDS InstallRun, TLC

V1 == <<1, 0, 0>>
V2 == <<2, 0, 0>>

MCDeclares ==
    [f |-> (V1 :> [x |-> "fx", s |-> "d1"] @@ V2 :> [y |-> "fy", s |-> "d2"]),
     g |-> (V1 :> [x |-> "gx", s |-> "d1"])]

MCReleases == [f |-> {V1, V2}, g |-> {V1}]

OnlyFirst == [f |-> {V1}, g |-> {V1}]

Latest == [kind |-> "latest", at |-> V1]
First == Exactly(V1)

GXOmitted == [x |-> "omitted"]

MCAnswers ==
    {[f |-> <<>>, g |-> GXOmitted],
     [f |-> [s |-> "t"], g |-> [x |-> "z"]]}

\* Records of a project that holds these facets, with these overrides.
Project(sources, over) == 
    [existed |-> TRUE,
     facets |-> [f \in DOMAIN sources |-> [source |-> sources[f], over |-> over[f]]]]

Locked(got, over) ==
    [existed |-> TRUE, format |-> CurrentFormat, facets |-> LockEntries(got, over)]

Empty == [existed |-> FALSE, facets |-> NoFacets]

EmptyLock == [existed |-> FALSE, format |-> CurrentFormat, facets |-> NoFacets]

NoReceipt == [kind |-> "missing", facets |-> NoFacets]

ReceiptOf(lock) == [kind |-> "loaded", facets |-> ReceiptEntries(lock.facets)]

\* The same from before there were servers.
AssetsOf(names) == Restrict(names, DOMAIN names \cap AssetName)

OldLock(lock) ==
    [existed |-> TRUE, format |-> "0.3",
     facets |-> [f \in DOMAIN lock.facets |->
        [version |-> lock.facets[f].version, holds |-> AssetsOf(lock.facets[f].holds),
         as |-> AssetsOf(lock.facets[f].as)]]]

OldReceiptOf(lock) == [kind |-> "assets-only", facets |-> ReceiptEntries(OldLock(lock).facets)]

\* What a machine holds that has installed a lockfile.
DiskOf(rec) ==
    [pl \in AllPlaces |-> IF \E c \in Claims(rec) : Place(c) = pl
                     THEN (CHOOSE c \in Claims(rec) : Place(c) = pl).holds
                     ELSE Absent]

Nowhere == [pl \in AllPlaces |-> Absent]

World(m, l, r, d, pub) ==
    [manifest |-> m, lockfile |-> l, receipt |-> r, disk |-> d, published |-> pub]

OneOver == [f |-> <<>>]
BothOver == [f |-> <<>>, g |-> GXOmitted]
OneManifest == Project([f |-> Latest], OneOver)
OneLock == Locked([f |-> V1], OneOver)
BothManifest == Project([f |-> Latest, g |-> First], BothOver)
BothLock == Locked([f |-> V1, g |-> V1], BothOver)
Moved == Locked([f |-> V2], OneOver)

MCWorlds ==
    {World(Empty, EmptyLock, NoReceipt, Nowhere, MCReleases),
     World(Empty, EmptyLock, NoReceipt, [Nowhere EXCEPT ![<<"file", "x">>] = Foreign], MCReleases),
     World(OneManifest, OneLock, ReceiptOf(OneLock), DiskOf(ReceiptOf(OneLock)), OnlyFirst),
     World(BothManifest, BothLock, ReceiptOf(BothLock), DiskOf(ReceiptOf(BothLock)), MCReleases),
     World(BothManifest, BothLock, NoReceipt, Nowhere, MCReleases),
     World(BothManifest, OldLock(BothLock), OldReceiptOf(BothLock),
           DiskOf(OldReceiptOf(BothLock)), MCReleases)}

Command(kind, f, source, bare, choice, mode) ==
    [kind |-> kind, facet |-> f, source |-> source, bare |-> bare, choice |-> choice,
     mode |-> mode, version |-> V1, files |-> <<>>]

MCCommands ==
    {Command("install", "f", Latest, FALSE, "range", "batch"),
     Command("install", "f", Latest, FALSE, "range", "interactive"),
     Command("frozen", "f", Latest, FALSE, "range", "preapproved"),
     Command("add", "g", Latest, TRUE, "range", "interactive"),
     Command("add", "f", Latest, TRUE, "range", "preapproved"),
     Command("remove", "f", Latest, FALSE, "range", "batch"),
     Command("remove", "g", Latest, FALSE, "range", "interactive"),
     Command("update", "f", Latest, FALSE, "latest", "interactive")}

\* A teammate with the first release: nothing of what is done with a file.
FirstLock(got) ==
    [OldLock(Locked(got, [f \in DOMAIN got |-> <<>>])) EXCEPT !.format = "0.2"]

MCPulls ==
    {<<OneManifest, Moved>>, <<BothManifest, BothLock>>,
     <<BothManifest, FirstLock([f |-> V1, g |-> V1])>>}

Symmetry == Permutations(Proc)
=============================================================================
