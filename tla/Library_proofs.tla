--------------------------- MODULE Library_proofs ---------------------------
(***************************************************************************)
(* For every finite set of files and tags, every batch size and any        *)
(* faults: types, the soundness of the incremental scan, the references    *)
(* between tables, that the rows of files that stay are kept, and what an  *)
(* undisturbed scan leaves: a row for each file, no empty album, and, with *)
(* one folder, exact counts.                                               *)
(***************************************************************************)
EXTENDS Library, FiniteSetTheorems, TLAPS

\* Stamps grow: what was statted or recorded earlier is never younger than the
\* clock, and a record read under a stamp that is still the file's has its tags.
StampInv ==
    /\ \A f \in Files : disk[f] # None => disk[f].stamp <= clock
    /\ \A f \in Files : tracks[f] # None => tracks[f].stamp <= clock
    /\ \A x \in toParse : x[2] <= clock
    /\ \A p \in pending :
          /\ p.stamp <= clock
          /\ disk[p.file] # None /\ disk[p.file].stamp = p.stamp
                => ToldOf(p.file, p.tag)
    /\ StampedRowsAreCurrent

\* The list of a walk holds rows that exist; a row still listed although its path
\* was visited is that of a file the walk did not see, and in a scan that nothing
\* disturbed is gone.
WalkInv ==
    /\ pc = "walk" => \A f \in existing : tracks[f] # None
    /\ pc = "walk" => existing \ unvisited \subseteq passed
    /\ pc = "walk" /\ clean => \A f \in passed : disk[f] = None

IInv == TypeOK /\ StampInv /\ ReferencesHold /\ WalkInv

-----------------------------------------------------------------------------
(* Lemmas on the counts *)

\* The album of a tag, and the artist it is filed under, are known keys.
LEMMA KeysOfTags ==
  ASSUME NEW t \in Tags
  PROVE  /\ AlbumOf(t) \in Albums
         /\ t.artist \in Artists /\ AlbumArtist(t) \in Artists
         /\ AlbumOf(t)[1] = AlbumArtist(t)
  BY DEF Albums, Artists, AlbumOf

\* An album is filed under a known artist.
LEMMA ArtistOfAlbum == \A a \in Albums : a[1] \in Artists
  BY DEF Albums, Artists, AlbumOf

\* There are finitely many albums, being one per tag.
LEMMA AlbumsFinite == IsFiniteSet(Albums)
<1> DEFINE g == [t \in Tags |-> AlbumOf(t)]
<1>1. IsFiniteSet(Tags)
  BY ShapeAssumption
<1>2. g \in Surjection(Tags, Albums)
  BY DEF Surjection, Albums
<1> QED
  BY <1>1, <1>2, FS_Surjection

\* The number of tracks is a number, and 0 exactly when the album is empty.
LEMMA TrackCountOfAlbum ==
  ASSUME NEW tr, NEW a
  PROVE  /\ TrackCount(tr, a) \in Nat
         /\ TrackCount(tr, a) = 0 <=>
               \A f \in Files : tr[f] # None => AlbumOf(tr[f].tag) # a
<1> DEFINE S == {f \in Files : tr[f] # None /\ AlbumOf(tr[f].tag) = a}
<1>1. IsFiniteSet(S)
  BY ShapeAssumption, FS_Subset
<1>2. Cardinality(S) \in Nat /\ (Cardinality(S) = 0 <=> S = {})
  BY <1>1, FS_CardinalityType, FS_EmptySet
<1> QED
  BY <1>2 DEF TrackCount

\* The same of the albums of an artist.
LEMMA AlbumCountOfArtist ==
  ASSUME NEW al, NEW x
  PROVE  /\ AlbumCount(al, x) \in Nat
         /\ AlbumCount(al, x) = 0 <=>
               \A a \in Albums : al[a] # None => a[1] # x
<1> DEFINE S == {a \in Albums : al[a] # None /\ a[1] = x}
<1>1. IsFiniteSet(S)
  BY AlbumsFinite, FS_Subset
<1>2. Cardinality(S) \in Nat /\ (Cardinality(S) = 0 <=> S = {})
  BY <1>1, FS_CardinalityType, FS_EmptySet
<1> QED
  BY <1>2 DEF AlbumCount

-----------------------------------------------------------------------------
(* The database statements *)

AlbumRows == [Albums -> Nat \cup {None}]
ArtistRows == [Artists -> Nat \cup {None}]
TrackRows == [Files -> Content \cup {None}]

\* References between given tables.
Refs(tr, al, ar) ==
    /\ \A f \in Files : tr[f] # None =>
          al[AlbumOf(tr[f].tag)] # None /\ ar[tr[f].tag.artist] # None
    /\ \A a \in Albums : al[a] # None => ar[a[1]] # None

\* The cleanup of empty albums and artists keeps types and references,
\* whatever the counts say.
LEMMA CleanupKeepsReferences ==
  ASSUME NEW tr \in TrackRows, NEW al \in AlbumRows, NEW ar \in ArtistRows,
         Refs(tr, al, ar)
  PROVE  /\ CleanAlbums(tr, al) \in AlbumRows
         /\ CleanArtists(tr, CleanAlbums(tr, al), ar) \in ArtistRows
         /\ Refs(tr, CleanAlbums(tr, al),
                 CleanArtists(tr, CleanAlbums(tr, al), ar))
<1> DEFINE al2 == CleanAlbums(tr, al)
           ar2 == CleanArtists(tr, al2, ar)
<1>1. al2 \in AlbumRows /\ ar2 \in ArtistRows
  BY DEF CleanAlbums, CleanArtists, AlbumRows, ArtistRows
<1>2. ASSUME NEW f \in Files, tr[f] # None
      PROVE  al2[AlbumOf(tr[f].tag)] # None /\ ar2[tr[f].tag.artist] # None
  <2>1. tr[f].tag \in Tags
    BY <1>2 DEF TrackRows, Content
  <2>2. AlbumOf(tr[f].tag) \in Albums /\ tr[f].tag.artist \in Artists
    BY <2>1, KeysOfTags
  <2>3. TrackCount(tr, AlbumOf(tr[f].tag)) # 0
    BY <1>2, TrackCountOfAlbum
  <2>4. al2[AlbumOf(tr[f].tag)] # None
    BY <1>2, <2>2, <2>3 DEF CleanAlbums, Refs
  <2>5. ar2[tr[f].tag.artist] # None
    BY <1>2, <2>2 DEF CleanArtists, Refs
  <2> QED
    BY <2>4, <2>5
<1>3. ASSUME NEW a \in Albums, al2[a] # None PROVE ar2[a[1]] # None
  <2>1. al[a] # None
    BY <1>3 DEF CleanAlbums
  <2>2. AlbumCount(al2, a[1]) # 0
    BY <1>3, AlbumCountOfArtist
  <2> QED
    BY <2>1, <2>2, ArtistOfAlbum DEF CleanArtists, Refs
<1> QED
  BY <1>1, <1>2, <1>3 DEF Refs

\* After the transaction of a batch a row is what it was, or what a record of
\* the batch says.
LEMMA CommittedRow ==
  ASSUME CommitBatch, NEW f \in Files
  PROVE  \/ tracks'[f] = tracks[f]
         \/ \E p \in pending : /\ p.file = f
                               /\ tracks'[f] = [stamp |-> p.stamp, tag |-> p.tag]
<1> DEFINE r == CHOOSE p \in pending : p.file = f
<1>1. CASE \E p \in pending : p.file = f
  <2>1. r \in pending /\ r.file = f
    BY <1>1
  <2>2. tracks'[f] = RowFrom(r)
    BY <1>1 DEF CommitBatch
  <2> QED
    BY <2>1, <2>2 DEF RowFrom
<1>2. CASE ~\E p \in pending : p.file = f
  BY <1>2 DEF CommitBatch
<1> QED
  BY <1>1, <1>2

\* The transaction of a batch keeps types and references.
LEMMA CommitKeepsReferences ==
  ASSUME TypeOK, ReferencesHold, CommitBatch
  PROVE  /\ tracks' \in TrackRows /\ albums' \in AlbumRows
         /\ artists' \in ArtistRows
         /\ touched' \subseteq Albums /\ touchedArtists' \subseteq Artists
         /\ ReferencesHold'
<1> DEFINE alKeys == {AlbumOf(p.tag) : p \in pending}
           arKeys == {p.tag.artist : p \in pending}
                        \cup {AlbumArtist(p.tag) : p \in pending}
<1>1. ASSUME NEW p \in pending PROVE p.stamp \in Stamps /\ p.tag \in Tags
  BY DEF TypeOK
<1>2. alKeys \subseteq Albums /\ arKeys \subseteq Artists
  BY <1>1, KeysOfTags
<1>3. touched' \subseteq Albums /\ touchedArtists' \subseteq Artists
  <2>1. {AlbumArtist(p.tag) : p \in pending} \subseteq arKeys
    OBVIOUS
  <2> QED
    BY <1>2, <2>1 DEF CommitBatch, Credited, TypeOK
<1>4. albums' \in AlbumRows /\ artists' \in ArtistRows
  BY DEF CommitBatch, Upsert, TypeOK, AlbumRows, ArtistRows
<1>5. /\ \A a \in Albums : albums'[a] # None <=> albums[a] # None \/ a \in alKeys
      /\ \A x \in Artists :
            artists'[x] # None <=> artists[x] # None \/ x \in arKeys
  BY NoneAssumption DEF CommitBatch, Upsert, TypeOK
<1>6. ASSUME NEW f \in Files
      PROVE  \/ tracks'[f] = tracks[f]
             \/ \E p \in pending : /\ p.file = f
                                   /\ tracks'[f] = [stamp |-> p.stamp, tag |-> p.tag]
  BY CommittedRow
<1>7. tracks' \in TrackRows
  <2>1. ASSUME NEW f \in Files PROVE tracks'[f] \in Content \cup {None}
    <3>1. CASE tracks'[f] = tracks[f]
      BY <3>1 DEF TypeOK
    <3>2. ASSUME NEW p \in pending,
                 tracks'[f] = [stamp |-> p.stamp, tag |-> p.tag]
          PROVE  tracks'[f] \in Content
      BY <3>2, <1>1 DEF Content
    <3> QED
      BY <1>6, <3>1, <3>2
  <2> QED
    BY <2>1 DEF CommitBatch, TrackRows
<1>8. ReferencesHold'
  <2>1. ASSUME NEW f \in Files, tracks'[f] # None
        PROVE  albums'[AlbumOf(tracks'[f].tag)] # None
                  /\ artists'[tracks'[f].tag.artist] # None
    <3>1. CASE tracks'[f] = tracks[f]
      <4>1. tracks[f].tag \in Tags
        BY <2>1, <3>1 DEF TypeOK, Content
      <4> QED
        BY <2>1, <3>1, <4>1, <1>5, KeysOfTags DEF ReferencesHold
    <3>2. ASSUME NEW p \in pending,
                 tracks'[f] = [stamp |-> p.stamp, tag |-> p.tag]
          PROVE  albums'[AlbumOf(tracks'[f].tag)] # None
                    /\ artists'[tracks'[f].tag.artist] # None
      <4>1. tracks'[f].tag = p.tag /\ p.tag \in Tags
        BY <1>1, <3>2
      <4>2. AlbumOf(p.tag) \in alKeys /\ p.tag.artist \in arKeys
        OBVIOUS
      <4> QED
        BY <4>1, <4>2, <1>5, KeysOfTags
    <3> QED
      BY <1>6, <3>1, <3>2
  <2>2. ASSUME NEW a \in Albums, albums'[a] # None PROVE artists'[a[1]] # None
    <3>1. a[1] \in Artists
      BY ArtistOfAlbum
    <3>2. CASE albums[a] # None
      BY <3>1, <3>2, <1>5 DEF ReferencesHold
    <3>3. ASSUME NEW p \in pending, a = AlbumOf(p.tag)
          PROVE  artists'[a[1]] # None
      <4>1. a[1] = AlbumArtist(p.tag)
        BY <3>3, <1>1, KeysOfTags
      <4>2. a[1] \in arKeys
        BY <4>1
      <4> QED
        BY <3>1, <4>2, <1>5
    <3> QED
      BY <2>2, <3>2, <3>3, <1>5
  <2> QED
    BY <2>1, <2>2 DEF ReferencesHold
<1> QED
  BY <1>3, <1>4, <1>7, <1>8

\* Recomputing counts neither makes nor loses a row.
LEMMA RecountKeepsRows ==
  ASSUME NEW al \in AlbumRows, NEW keys,
         NEW counts, \A a \in Albums : counts[a] \in Nat
  PROVE  /\ Recounted(al, keys, counts) \in AlbumRows
         /\ \A a \in Albums : Recounted(al, keys, counts)[a] # None <=> al[a] # None
  BY NoneAssumption DEF Recounted, AlbumRows

\* The same of the artists' counts.
LEMMA RecountKeepsArtists ==
  ASSUME NEW ar \in ArtistRows, NEW keys,
         NEW counts, \A x \in Artists : counts[x] \in Nat
  PROVE  /\ Recounted(ar, keys, counts) \in ArtistRows
         /\ \A x \in Artists : Recounted(ar, keys, counts)[x] # None <=> ar[x] # None
  BY NoneAssumption DEF Recounted, ArtistRows

-----------------------------------------------------------------------------
(* The invariant *)

\* The empty database satisfies the invariant, whatever is on the disk.
LEMMA InitIInv == Init => IInv
<1> SUFFICES ASSUME Init PROVE IInv
  OBVIOUS
<1>1. 0 \in Stamps /\ 0 \in 0..MaxFaults
  BY ShapeAssumption DEF Stamps
<1>2. disk \in [Files -> Content \cup {None}]
  BY <1>1 DEF Init, Content
<1>3. TypeOK
  BY <1>1, <1>2 DEF Init, TypeOK
<1>4. StampInv
  <2>1. ASSUME NEW f \in Files, disk[f] # None PROVE disk[f].stamp <= clock
    <3>1. disk[f] \in [stamp : {0}, tag : Tags]
      BY <2>1 DEF Init
    <3> QED
      BY <3>1 DEF Init
  <2> QED
    BY <2>1 DEF Init, StampInv, StampedRowsAreCurrent, ToldOf
<1>5. ReferencesHold /\ WalkInv
  BY DEF Init, ReferencesHold, WalkInv
<1> QED
  BY <1>3, <1>4, <1>5 DEF IInv

\* Steps that leave the database and the disk alone.
Quiet ==
    \/ StartScan \/ FoldersDone \/ PostCheck \/ Finish \/ ParseDone \/ Abandon
    \/ FolderFails \/ Cancel \/ Crash
    \/ \E d \in Folders : EnterFolder(d) \/ FolderUnavailable(d) \/ AddFolder(d)

\* They keep the invariant: they drop records, and a walk begins with every
\* path of its folder still to visit.
LEMMA QuietStep == IInv /\ Quiet => IInv'
<1> SUFFICES ASSUME IInv, Quiet PROVE IInv'
  OBVIOUS
<1> USE DEF IInv
<1>1. /\ UNCHANGED <<disk, dbVars>>
      /\ toParse' \subseteq toParse /\ pending' \subseteq pending
      /\ clock' >= clock /\ clock' \in Stamps
  BY ShapeAssumption DEF Quiet, StartScan, FoldersDone, PostCheck, Finish, ParseDone,
     Abandon, FolderFails, Cancel, Crash, EnterFolder, FolderUnavailable,
     AddFolder, ForgetFolder, diskVars, dbVars, walkVars, jobVars, TypeOK, Stamps
<1>2. /\ folders' \subseteq Folders /\ todo' \subseteq Folders
      /\ existing' \subseteq Files /\ unvisited' \subseteq Files /\ passed' \subseteq Files
      /\ touched' \subseteq Albums /\ touchedArtists' \subseteq Artists
      /\ toParse' \subseteq Files \X Stamps
      /\ pending' \subseteq [file : Files, stamp : Stamps, tag : Tags]
  BY <1>1 DEF Quiet, StartScan, FoldersDone, PostCheck, Finish, ParseDone,
     Abandon, FolderFails, Cancel, Crash, EnterFolder, FolderUnavailable,
     AddFolder, ForgetFolder, FilesIn, RowsOf, diskVars, dbVars, walkVars,
     jobVars, TypeOK
<1>3. faults' \in 0..MaxFaults
  BY ShapeAssumption DEF Quiet, StartScan, FoldersDone, PostCheck, Finish, ParseDone,
     Abandon, FolderFails, Cancel, Crash, EnterFolder, FolderUnavailable,
     AddFolder, Fault, NoFault, TypeOK
<1>4. pc' \in {"idle", "folders", "walk", "parse", "commit", "drain",
               "aggregate", "post", "gc", "done"}
  BY DEF Quiet, StartScan, FoldersDone, PostCheck, Finish, ParseDone,
     Abandon, FolderFails, Cancel, Crash, EnterFolder, FolderUnavailable,
     AddFolder, AfterParsing, TypeOK
<1>9. force' \in BOOLEAN /\ cancel' \in BOOLEAN
  BY DEF Quiet, StartScan, FoldersDone, PostCheck, Finish, ParseDone,
     Abandon, FolderFails, Cancel, Crash, EnterFolder, FolderUnavailable,
     AddFolder, jobVars, TypeOK
<1>10. clean' \in BOOLEAN /\ aggregated' \in BOOLEAN
  BY DEF Quiet, StartScan, FoldersDone, PostCheck, Finish, ParseDone,
     Abandon, FolderFails, Cancel, Crash, EnterFolder, FolderUnavailable,
     AddFolder, Fault, NoFault, TypeOK
<1>5. TypeOK'
  BY <1>1, <1>2, <1>3, <1>4, <1>9, <1>10 DEF TypeOK, dbVars
<1>6. StampInv'
  BY <1>1 DEF StampInv, StampedRowsAreCurrent, ToldOf, dbVars, TypeOK, Stamps, Content
<1>7. ReferencesHold'
  BY <1>1 DEF ReferencesHold, dbVars
<1>8. WalkInv'
  <2>1. ASSUME pc' = "walk"
        PROVE  /\ existing' \ unvisited' \subseteq passed'
               /\ clean' = TRUE => passed' = {}
    BY <2>1 DEF Quiet, StartScan, FoldersDone, PostCheck, Finish, ParseDone,
     Abandon, FolderFails, Cancel, Crash, EnterFolder, FolderUnavailable,
     AddFolder, RowsOf, FilesIn, Fault, NoFault, AfterParsing, TypeOK,
     WalkInv, walkVars
  <2>2. ASSUME pc' = "walk" PROVE \A f \in existing' : tracks[f] # None
    BY <2>2 DEF Quiet, StartScan, FoldersDone, PostCheck, Finish, ParseDone,
     Abandon, FolderFails, Cancel, Crash, EnterFolder, FolderUnavailable,
     AddFolder, RowsOf, AfterParsing, WalkInv, TypeOK, walkVars, dbVars
  <2> QED
    BY <2>1, <2>2, <1>1, <1>10 DEF WalkInv, dbVars
<1> QED
  BY <1>5, <1>6, <1>7, <1>8

\* What the walk hands on carries the stamp of this moment.
LEMMA WalkFileStep ==
  ASSUME IInv, NEW f \in Files, WalkFile(f) PROVE IInv'
<1> USE DEF IInv, WalkFile, NoFault, diskVars, dbVars, jobVars
<1>1. disk[f] \in Content /\ disk[f].stamp \in Stamps /\ disk[f].stamp <= clock
  BY DEF TypeOK, StampInv, Content
<1>2. toParse' \subseteq toParse \cup {<<f, disk[f].stamp>>}
  BY DEF StampOf
<1>3. touched' \subseteq Albums
  <2>1. CASE Unchanged(f)
    <3>1. (tracks[f] # None /\ tracks[f].tag \in Tags) \/ tracks[f] = None
      BY DEF TypeOK, Content
    <3>2. touched' = touched \cup {AlbumOf(tracks[f].tag)}
      BY <2>1 DEF Touches
    <3>3. tracks[f] # None
      BY <2>1 DEF Unchanged, WalkInv
    <3> QED
      BY <3>1, <3>2, <3>3, KeysOfTags DEF TypeOK
  <2>2. CASE ~Unchanged(f)
    BY <2>2 DEF TypeOK
  <2> QED
    BY <2>1, <2>2
<1>4. TypeOK'
  BY <1>1, <1>2, <1>3 DEF TypeOK
<1>5. StampInv'
  BY <1>1, <1>2 DEF StampInv, StampedRowsAreCurrent, ToldOf
<1>6. ReferencesHold'
  BY DEF ReferencesHold
<1>7. WalkInv'
  BY DEF WalkInv, Popped
<1> QED
  BY <1>4, <1>5, <1>6, <1>7

\* A path where the walk sees no file stays on the list.
LEMMA WalkMissesStep ==
  ASSUME IInv, NEW f \in Files, WalkMisses(f) PROVE IInv'
<1> USE DEF IInv, WalkMisses, diskVars, dbVars, jobVars
<1>1. faults' \in 0..MaxFaults
  <2>1. CASE disk[f] = None
    BY <2>1 DEF TypeOK, NoFault
  <2>2. CASE disk[f] # None
    BY <2>2, ShapeAssumption DEF TypeOK, Fault
  <2> QED
    BY <2>1, <2>2
<1>5. clean' \in BOOLEAN
  BY DEF TypeOK, Fault, NoFault
<1>2. TypeOK'
  BY <1>1, <1>5 DEF TypeOK
<1>3. StampInv' /\ ReferencesHold'
  BY DEF StampInv, StampedRowsAreCurrent, ToldOf, ReferencesHold
<1>4. WalkInv'
  <2>1. CASE disk[f] = None
    BY <2>1 DEF WalkInv, NoFault
  <2>2. CASE disk[f] # None
    BY <2>2 DEF WalkInv, Fault
  <2> QED
    BY <2>1, <2>2
<1> QED
  BY <1>2, <1>3, <1>4

\* The rows left on the list are deleted; the others are as they were.
LEMMA WalkDoneStep == ASSUME IInv, WalkDone PROVE IInv'
<1> USE DEF IInv, WalkDone, diskVars, jobVars
<1>1. \A f \in Files : tracks'[f] = tracks[f] \/ tracks'[f] = None
  OBVIOUS
<1>2. /\ toParse' \subseteq toParse /\ pending' \subseteq pending
      /\ existing' \subseteq Files /\ unvisited' \subseteq Files /\ passed' \subseteq Files
      /\ touched' \subseteq touched /\ touchedArtists' \subseteq touchedArtists
      /\ pc' \in {"folders", "parse"}
  BY DEF ForgetFolder, TypeOK
<1>3. tracks' \in [Files -> Content \cup {None}]
  BY DEF TypeOK
<1>4. TypeOK'
  BY <1>2, <1>3 DEF TypeOK, NoFault
<1>5. StampInv'
  BY <1>1, <1>2 DEF StampInv, StampedRowsAreCurrent, ToldOf
<1>6. ReferencesHold'
  BY <1>1 DEF ReferencesHold
<1>7. WalkInv'
  BY <1>2 DEF WalkInv
<1> QED
  BY <1>4, <1>5, <1>6, <1>7

\* The tags are read now and the stamp is older: if it is still the stamp of
\* the file, the file has not changed in between.
LEMMA CollectStep ==
  ASSUME IInv, NEW f \in Files, NEW stamp \in Stamps, Collect(f, stamp)
  PROVE  IInv'
<1> USE DEF IInv, Collect, diskVars, dbVars, jobVars
<1>1. PICK tag \in Tags :
         /\ \/ disk[f] # None /\ tag = disk[f].tag /\ NoFault
            \/ disk[f] = None /\ tag = FallbackTag /\ NoFault
            \/ disk[f] # None /\ tag = FallbackTag /\ Fault("read")
         /\ pending' = pending \cup {[file |-> f, stamp |-> stamp, tag |-> tag]}
  OBVIOUS
<1>2. disk[f] # None => ToldOf(f, tag)
  BY <1>1 DEF ToldOf, Fault
<1>8. faults' \in 0..MaxFaults
  BY <1>1, ShapeAssumption DEF Fault, NoFault, TypeOK
<1>9. clean' \in BOOLEAN
  BY <1>1 DEF Fault, NoFault, TypeOK
<1>10. toParse' \subseteq toParse /\ UNCHANGED <<disk, clock, tracks>>
  OBVIOUS
<1>3. pc' \in {"commit", "parse"}
  OBVIOUS
<1>4. TypeOK'
  BY <1>1, <1>3, <1>8, <1>9 DEF TypeOK
<1>5. stamp <= clock
  <2>1. \A x \in toParse : x[2] <= clock
    BY DEF StampInv
  <2> QED
    BY <2>1
<1>6. StampInv'
  <2>1. \A g \in Files, t \in Tags : ToldOf(g, t)' = ToldOf(g, t)
    BY DEF ToldOf
  <2>2. ASSUME NEW p \in pending'
        PROVE  /\ p.stamp <= clock
               /\ disk[p.file] # None /\ disk[p.file].stamp = p.stamp
                     => ToldOf(p.file, p.tag)
    BY <1>1, <1>2, <1>5, <2>2 DEF StampInv
  <2> QED
    BY <1>10, <2>2 DEF StampInv, StampedRowsAreCurrent, ToldOf
<1>7. ReferencesHold' /\ WalkInv'
  BY <1>3 DEF ReferencesHold, WalkInv
<1> QED
  BY <1>4, <1>6, <1>7

\* A committed row is the record it was made from.
LEMMA CommitStep == ASSUME IInv, Commit PROVE IInv'
<1> USE DEF IInv, Commit, diskVars, walkVars, jobVars
<1>1. pc' \in {"parse", "aggregate"} /\ pending' = {}
  OBVIOUS
<1>2. CASE CommitBatch /\ NoFault
  <2>1. /\ tracks' \in TrackRows /\ albums' \in AlbumRows
        /\ artists' \in ArtistRows
        /\ touched' \subseteq Albums /\ touchedArtists' \subseteq Artists
        /\ ReferencesHold'
    BY <1>2, CommitKeepsReferences
  <2>2. TypeOK'
    BY <1>1, <1>2, <2>1 DEF TypeOK, NoFault, TrackRows, AlbumRows, ArtistRows
  <2>3. ASSUME NEW f \in Files
        PROVE  \/ tracks'[f] = tracks[f]
               \/ \E p \in pending : /\ p.file = f
                                     /\ tracks'[f] = [stamp |-> p.stamp, tag |-> p.tag]
    BY <1>2, CommittedRow
  <2>4. ASSUME NEW f \in Files, tracks'[f] # None
        PROVE  /\ tracks'[f].stamp <= clock
               /\ disk[f] # None /\ tracks'[f].stamp = disk[f].stamp
                     => ToldOf(f, tracks'[f].tag)
    <3>1. CASE tracks'[f] = tracks[f]
      BY <2>4, <3>1 DEF StampInv, StampedRowsAreCurrent, ToldOf
    <3>2. ASSUME NEW p \in pending, p.file = f,
                 tracks'[f] = [stamp |-> p.stamp, tag |-> p.tag]
          PROVE  /\ tracks'[f].stamp <= clock
                 /\ disk[f] # None /\ tracks'[f].stamp = disk[f].stamp
                       => ToldOf(f, tracks'[f].tag)
      BY <3>2 DEF StampInv
    <3> QED
      BY <2>3, <3>1, <3>2
  <2>5. StampInv'
    BY <1>1, <1>2, <2>4 DEF StampInv, StampedRowsAreCurrent, ToldOf
  <2>6. WalkInv'
    BY <1>1 DEF WalkInv
  <2> QED
    BY <2>1, <2>2, <2>5, <2>6
<1>3. CASE UNCHANGED <<dbVars, touched, touchedArtists>> /\ Fault("db")
  <2>1. faults' \in 0..MaxFaults /\ clean' = FALSE
    BY <1>3, ShapeAssumption DEF Fault, TypeOK
  <2>2. TypeOK'
    BY <1>1, <1>3, <2>1 DEF TypeOK, dbVars
  <2> QED
    BY <1>1, <1>3, <2>2 DEF StampInv, StampedRowsAreCurrent, ToldOf, ReferencesHold,
                            WalkInv, dbVars
<1> QED
  BY <1>2, <1>3

\* Phase 4 leaves the tracks alone, and counts and cleanup keep the references.
LEMMA AggregateStep == ASSUME IInv, Aggregate PROVE IInv'
<1> USE DEF IInv, Aggregate, NoFault, diskVars, jobVars
<1> DEFINE tc == [a \in Albums |-> TrackCount(tracks, a)]
           al == Recounted(albums, touched, tc)
           ac == [x \in Artists |-> AlbumCount(al, x)]
           ar == Recounted(artists, touchedArtists, ac)
<1>1. /\ al \in AlbumRows
      /\ \A a \in Albums : al[a] # None <=> albums[a] # None
  <2>1. albums \in AlbumRows /\ \A a \in Albums : tc[a] \in Nat
    BY TrackCountOfAlbum DEF TypeOK, AlbumRows
  <2> HIDE DEF tc
  <2> QED
    BY <2>1, RecountKeepsRows
<1>2. /\ ar \in ArtistRows
      /\ \A x \in Artists : ar[x] # None <=> artists[x] # None
  <2>1. artists \in ArtistRows /\ \A x \in Artists : ac[x] \in Nat
    BY AlbumCountOfArtist DEF TypeOK, ArtistRows
  <2> HIDE DEF ac
  <2> QED
    BY <2>1, RecountKeepsArtists
<1>3. tracks \in TrackRows
  BY DEF TypeOK, TrackRows
<1>4. Refs(tracks, al, ar)
  <2>1. \A f \in Files : tracks[f] # None =>
           AlbumOf(tracks[f].tag) \in Albums /\ tracks[f].tag.artist \in Artists
    BY <1>3, KeysOfTags DEF TrackRows, Content
  <2> HIDE DEF al, ar
  <2> QED
    BY <1>1, <1>2, <2>1, ArtistOfAlbum DEF ReferencesHold, Refs
<1>5. albums' = CleanAlbums(tracks, al)
         /\ artists' = CleanArtists(tracks, CleanAlbums(tracks, al), ar)
  BY DEF Cleanup
<1>6. /\ albums' \in AlbumRows /\ artists' \in ArtistRows
      /\ Refs(tracks, albums', artists')
  <2> HIDE DEF al, ar
  <2> QED
    BY <1>1, <1>2, <1>3, <1>4, <1>5, CleanupKeepsReferences
<1>7. TypeOK'
  BY <1>6 DEF TypeOK, ForgetFolder, AlbumRows, ArtistRows
<1>8. StampInv'
  BY DEF StampInv, StampedRowsAreCurrent, ToldOf, ForgetFolder
<1>9. ReferencesHold' /\ WalkInv'
  BY <1>6 DEF Refs, ReferencesHold, WalkInv
<1> QED
  BY <1>7, <1>8, <1>9

\* So does the collector, which may also fail.
LEMMA GcStep == ASSUME IInv, Gc PROVE IInv'
<1> USE DEF IInv, Gc, diskVars, walkVars, jobVars
<1>1. CASE Cleanup(tracks, albums, artists) /\ UNCHANGED tracks /\ NoFault
  <2>1. /\ tracks \in TrackRows /\ albums \in AlbumRows /\ artists \in ArtistRows
        /\ Refs(tracks, albums, artists)
    BY DEF TypeOK, TrackRows, AlbumRows, ArtistRows, Refs, ReferencesHold
  <2>2. /\ albums' \in AlbumRows /\ artists' \in ArtistRows
        /\ Refs(tracks, albums', artists')
    BY <1>1, <2>1, CleanupKeepsReferences DEF Cleanup
  <2>3. TypeOK'
    BY <1>1, <2>2 DEF TypeOK, NoFault, AlbumRows, ArtistRows
  <2> QED
    BY <1>1, <2>2, <2>3 DEF StampInv, StampedRowsAreCurrent, ToldOf, ReferencesHold,
                            Refs, WalkInv
<1>2. CASE UNCHANGED dbVars /\ Fault("db")
  <2>1. faults' \in 0..MaxFaults /\ clean' = FALSE
    BY <1>2, ShapeAssumption DEF Fault, TypeOK
  <2>2. TypeOK'
    BY <1>2, <2>1 DEF TypeOK, dbVars
  <2> QED
    BY <1>2, <2>2 DEF StampInv, StampedRowsAreCurrent, ToldOf, ReferencesHold, WalkInv, dbVars
<1> QED
  BY <1>1, <1>2

\* A changed file has a stamp that no row, no queued path and no record has.
LEMMA EditFileStep ==
  ASSUME IInv, NEW f \in Files, EditFile(f) PROVE IInv'
<1> USE DEF IInv, EditFile, dbVars, walkVars, jobVars
<1>1. clock \in Nat /\ clock' = clock + 1 /\ clock' \in Stamps
  BY ShapeAssumption DEF TypeOK, Stamps
<1>2. PICK t \in Tags : disk' = [disk EXCEPT ![f] = [stamp |-> clock', tag |-> t]]
  OBVIOUS
<1>3. disk'[f].stamp = clock + 1 /\ \A g \in Files \ {f} : disk'[g] = disk[g]
  BY <1>1, <1>2 DEF TypeOK
<1>4. disk' \in [Files -> Content \cup {None}]
  BY <1>1, <1>2 DEF TypeOK, Content
<1>5. TypeOK'
  BY <1>1, <1>4 DEF TypeOK
<1>6. \A g \in Files : /\ disk[g] # None => disk[g].stamp \in Nat
                       /\ tracks[g] # None => tracks[g].stamp \in Nat
  BY DEF TypeOK, Content, Stamps
<1>7. /\ \A x \in toParse : x[2] \in Nat
      /\ \A p \in pending : p.stamp \in Nat /\ p.file \in Files
  BY DEF TypeOK, Stamps
<1>8. \A g \in Files : disk'[g] # None => disk'[g].stamp <= clock'
  BY <1>1, <1>3, <1>6 DEF StampInv
<1>9. \A g \in Files : tracks'[g] # None => tracks'[g].stamp <= clock'
  BY <1>1, <1>6 DEF StampInv
<1>10. \A x \in toParse' : x[2] <= clock'
  BY <1>1, <1>7 DEF StampInv
<1>11. ASSUME NEW p \in pending'
       PROVE  /\ p.stamp <= clock'
              /\ disk'[p.file] # None /\ disk'[p.file].stamp = p.stamp
                    => ToldOf(p.file, p.tag)'
  BY <1>1, <1>3, <1>7 DEF StampInv, ToldOf
<1>12. StampedRowsAreCurrent'
  BY <1>1, <1>3, <1>6 DEF StampInv, StampedRowsAreCurrent, ToldOf
<1>13. StampInv'
  BY <1>8, <1>9, <1>10, <1>11, <1>12 DEF StampInv
<1>14. ReferencesHold' /\ WalkInv'
  BY DEF ReferencesHold, WalkInv
<1> QED
  BY <1>5, <1>13, <1>14

\* A removed file makes no record wrong.
LEMMA RemoveFileStep ==
  ASSUME IInv, NEW f \in Files, RemoveFile(f) PROVE IInv'
<1> USE DEF IInv, RemoveFile, dbVars, walkVars, jobVars
<1>1. \A g \in Files : disk'[g] = disk[g] \/ disk'[g] = None
  BY DEF TypeOK
<1>2. disk' \in [Files -> Content \cup {None}]
  BY DEF TypeOK
<1>3. TypeOK'
  BY <1>2 DEF TypeOK
<1>4. \A p \in pending : p.file \in Files
  BY DEF TypeOK
<1>5. StampInv'
  BY <1>1, <1>4 DEF StampInv, StampedRowsAreCurrent, ToldOf
<1>6. ReferencesHold' /\ WalkInv'
  BY DEF ReferencesHold, WalkInv
<1> QED
  BY <1>3, <1>5, <1>6

\* The cascade removes tracks and the collector what they leave behind.
LEMMA DeleteFolderStep ==
  ASSUME IInv, NEW d \in Folders, DeleteFolder(d) PROVE IInv'
<1> USE DEF IInv, DeleteFolder, walkVars, jobVars
<1>1. clock \in Nat /\ clock' = clock + 1 /\ clock' \in Stamps
  BY ShapeAssumption DEF TypeOK, Stamps
<1>2. /\ tracks' \in TrackRows
      /\ \A f \in Files : tracks'[f] = tracks[f] \/ tracks'[f] = None
  BY DEF TypeOK, TrackRows
<1>3. /\ albums \in AlbumRows /\ artists \in ArtistRows
      /\ Refs(tracks', albums, artists)
  BY <1>2 DEF TypeOK, AlbumRows, ArtistRows, Refs, ReferencesHold
<1>4. /\ albums' \in AlbumRows /\ artists' \in ArtistRows
      /\ Refs(tracks', albums', artists')
  <2>1. CASE Cleanup(tracks', albums, artists)
    BY <2>1, <1>2, <1>3, CleanupKeepsReferences DEF Cleanup
  <2>2. CASE UNCHANGED <<albums, artists>>
    BY <2>2, <1>3
  <2> QED
    BY <2>1, <2>2
<1>9. faults' \in 0..MaxFaults
  BY ShapeAssumption DEF Fault, TypeOK
<1>5. TypeOK'
  BY <1>1, <1>2, <1>4, <1>9 DEF TypeOK, TrackRows, AlbumRows, ArtistRows
<1>6. /\ \A g \in Files : /\ disk[g] # None => disk[g].stamp \in Nat
                          /\ tracks[g] # None => tracks[g].stamp \in Nat
      /\ \A x \in toParse : x[2] \in Nat
      /\ \A p \in pending : p.stamp \in Nat
  BY DEF TypeOK, Content, Stamps
<1>7. StampInv'
  BY <1>1, <1>2, <1>6 DEF StampInv, StampedRowsAreCurrent, ToldOf
<1>8. ReferencesHold' /\ WalkInv'
  BY <1>4 DEF Refs, ReferencesHold, WalkInv
<1> QED
  BY <1>5, <1>7, <1>8

\* Every step keeps the invariant.
LEMMA StepIInv == IInv /\ [Next]_vars => IInv'
<1> SUFFICES ASSUME IInv, [Next]_vars PROVE IInv'
  OBVIOUS
<1>1. CASE Quiet
  BY <1>1, QuietStep
<1>2. ASSUME NEW f \in Files, WalkFile(f) \/ WalkMisses(f) PROVE IInv'
  BY <1>2, WalkFileStep, WalkMissesStep
<1>3. CASE WalkDone
  BY <1>3, WalkDoneStep
<1>4. ASSUME NEW f \in Files, NEW s \in Stamps, Collect(f, s) PROVE IInv'
  BY <1>4, CollectStep
<1>5. CASE Commit
  BY <1>5, CommitStep
<1>6. CASE Aggregate
  BY <1>6, AggregateStep
<1>7. CASE Gc
  BY <1>7, GcStep
<1>8. ASSUME NEW f \in Files, EditFile(f) \/ RemoveFile(f) PROVE IInv'
  BY <1>8, EditFileStep, RemoveFileStep
<1>9. ASSUME NEW d \in Folders, DeleteFolder(d) PROVE IInv'
  BY <1>9, DeleteFolderStep
<1>10. CASE UNCHANGED vars
  BY <1>10 DEF IInv, TypeOK, StampInv, StampedRowsAreCurrent, ToldOf, ReferencesHold,
     WalkInv, vars, diskVars, dbVars, walkVars, jobVars
<1> QED
  BY <1>1, <1>2, <1>3, <1>4, <1>5, <1>6, <1>7, <1>8, <1>9, <1>10
  DEF Next, Scan, Environment, Quiet

-----------------------------------------------------------------------------
(* Theorems *)

\* The invariant holds throughout.
THEOREM InductiveInvariant == Spec => []IInv
<1>1. Init => IInv
  BY InitIInv
<1>2. IInv /\ [Next]_vars => IInv'
  BY StepIInv
<1> QED
  BY <1>1, <1>2, PTL DEF Spec

\* Every variable keeps its type, every count its column's.
THEOREM TypeCorrect == Spec => []TypeOK
<1>1. IInv => TypeOK
  BY DEF IInv
<1> QED
  BY <1>1, InductiveInvariant, PTL

\* Skipping a file whose (mtime, size) is that of its row is sound: however
\* edits fall between stat, read and commit, in any number of scans, the row
\* has the file's tags.
THEOREM IncrementalScanIsSound == Spec => []StampedRowsAreCurrent
<1>1. IInv => StampedRowsAreCurrent
  BY DEF IInv, StampInv
<1> QED
  BY <1>1, InductiveInvariant, PTL

\* No cleanup ever removes an album or an artist that a row refers to.
THEOREM ReferencesPreserved == Spec => []ReferencesHold
<1>1. IInv => ReferencesHold
  BY DEF IInv
<1> QED
  BY <1>1, InductiveInvariant, PTL

\* A scan removes only rows of paths where its walk saw no file, whatever disturbs
\* it meanwhile.
THEOREM RowsAreKept == Spec => RowsOfPresentFilesSurvive
<1> DEFINE Kept == \A f \in Files :
                      tracks[f] # None /\ tracks'[f] = None =>
                         FolderOf[f] \notin folders' \/ f \in passed
<1>1. IInv /\ [Next]_vars => Kept
  <2> SUFFICES ASSUME IInv, [Next]_vars, NEW f \in Files,
                      tracks[f] # None, tracks'[f] = None
               PROVE  FolderOf[f] \notin folders' \/ f \in passed
    OBVIOUS
  <2>1. CASE WalkDone
    <3>1. f \in existing /\ pc = "walk" /\ unvisited = {}
      BY <2>1 DEF WalkDone
    <3> QED
      BY <3>1 DEF IInv, WalkInv
  <2>2. ASSUME NEW d \in Folders, DeleteFolder(d)
        PROVE  FolderOf[f] \notin folders'
    BY <2>2 DEF DeleteFolder
  <2>3. CASE Commit
    <3>1. CASE CommitBatch
      <4>1. PICK p \in pending : tracks'[f] = [stamp |-> p.stamp, tag |-> p.tag]
        BY <3>1, CommittedRow
      <4>2. tracks'[f] \in Content
        BY <4>1 DEF IInv, TypeOK, Content
      <4> QED
        BY <4>2, NoneAssumption
    <3>2. CASE UNCHANGED dbVars
      BY <3>2 DEF dbVars
    <3> QED
      BY <2>3, <3>1, <3>2 DEF Commit
  <2>4. CASE UNCHANGED tracks
    BY <2>4
  <2> QED
    BY <2>1, <2>2, <2>3, <2>4 DEF Next, Scan, Environment, StartScan, FoldersDone,
       PostCheck, Gc, Finish, EnterFolder, WalkFile, WalkMisses, ParseDone,
       Abandon, Aggregate, Collect, EditFile, RemoveFile, AddFolder,
       FolderUnavailable, FolderFails, Cancel, Crash, vars, dbVars
<1> QED
  BY <1>1, InductiveInvariant, PTL DEF Spec, RowsOfPresentFilesSurvive
-----------------------------------------------------------------------------
(* What an undisturbed scan achieves. Between two folders nothing is under *)
(* way; what is on its way is of a configured folder and bears the present *)
(* stamp; and each file is recorded or still on its way.                   *)

PhaseInv ==
    /\ pc \notin {"walk", "parse", "commit", "drain"} => toParse = {} /\ pending = {}
    /\ pc # "walk" => existing = {} /\ unvisited = {}
    /\ pc = "walk" => pending = {}
    /\ pc = "drain" => toParse = {}

FolderInv ==
    /\ todo \subseteq folders
    /\ pc \in {"idle", "post", "gc", "done"} => todo = {}
    /\ \A f \in Files : tracks[f] # None \/ f \in unvisited => FolderOf[f] \in folders
    /\ \A x \in toParse : FolderOf[x[1]] \in folders
    /\ \A p \in pending : FolderOf[p.file] \in folders

FreshInv ==
    clean => /\ ~cancel
             /\ \A x \in toParse : disk[x[1]] # None /\ disk[x[1]].stamp = x[2]
             /\ \A p \in pending : disk[p.file] # None /\ disk[p.file].stamp = p.stamp

Recorded(f) ==
    IF disk[f] = None THEN tracks[f] = None
    ELSE tracks[f] # None /\ tracks[f].stamp = disk[f].stamp

OnItsWay(f) ==
    \/ FolderOf[f] \in todo
    \/ f \in unvisited /\ (tracks[f] # None => f \in existing)
    \/ f \in existing /\ disk[f] = None
    \/ \E x \in toParse : x[1] = f
    \/ \E p \in pending : p.file = f

SyncInv ==
    clean => \A f \in Files : FolderOf[f] \in folders => OnItsWay(f) \/ Recorded(f)

ScanInv == PhaseInv /\ FolderInv /\ FreshInv /\ SyncInv

(* With one folder every row is, when phase 4 comes, of an album to recount. *)
Accounted(f) ==
    \/ f \in unvisited \/ f \in existing
    \/ \E x \in toParse : x[1] = f
    \/ \E p \in pending : p.file = f
    \/ AlbumOf(tracks[f].tag) \in touched

CountInv ==
    clean =>
        IF pc \in {"walk", "parse", "commit", "drain", "aggregate"}
        THEN /\ todo = {} /\ ~aggregated
             /\ \A f \in Files : tracks[f] # None => Accounted(f)
        ELSE aggregated => todo = {} /\ AlbumCountsExact

\* Where the scanner has come to says what it holds.
LEMMA PhaseStep ==
  ASSUME TypeOK, PhaseInv, [Next]_vars PROVE PhaseInv'
<1> USE DEF PhaseInv, walkVars
<1>1. CASE StartScan \/ FoldersDone \/ PostCheck \/ Gc \/ Finish
  BY <1>1 DEF StartScan, FoldersDone, PostCheck, Gc, Finish
<1>2. ASSUME NEW d \in Folders, EnterFolder(d) \/ FolderUnavailable(d) \/ AddFolder(d)
                                  \/ DeleteFolder(d)
      PROVE  PhaseInv'
  BY <1>2 DEF EnterFolder, FolderUnavailable, AddFolder, DeleteFolder
<1>3. ASSUME NEW f \in Files, WalkFile(f) PROVE PhaseInv'
  BY <1>3 DEF WalkFile
<1>4. ASSUME NEW f \in Files, WalkMisses(f) \/ EditFile(f) \/ RemoveFile(f)
      PROVE  PhaseInv'
  BY <1>4 DEF WalkMisses, EditFile, RemoveFile
<1>5. CASE WalkDone
  BY <1>5 DEF WalkDone, ForgetFolder
<1>6. ASSUME NEW f \in Files, NEW s \in Stamps, Collect(f, s) PROVE PhaseInv'
  BY <1>6 DEF Collect
<1>7. CASE ParseDone
  BY <1>7 DEF ParseDone, AfterParsing
<1>8. CASE Commit
  BY <1>8 DEF Commit
<1>9. CASE Abandon \/ Aggregate \/ FolderFails \/ Crash
  BY <1>9 DEF Abandon, Aggregate, FolderFails, Crash, ForgetFolder
<1>10. CASE Cancel \/ UNCHANGED vars
  BY <1>10 DEF Cancel, vars
<1> QED
  BY <1>1, <1>2, <1>3, <1>4, <1>5, <1>6, <1>7, <1>8, <1>9, <1>10
  DEF Next, Scan, Environment

\* What is on its way, and what is recorded, is of a configured folder: one is
\* removed only when no scan runs, and takes its rows along.
LEMMA FolderStep ==
  ASSUME TypeOK, PhaseInv, FolderInv, [Next]_vars PROVE FolderInv'
<1> USE DEF FolderInv, diskVars, dbVars, walkVars, jobVars
<1>1. CASE StartScan \/ PostCheck \/ Gc \/ Finish
  BY <1>1 DEF StartScan, PostCheck, Gc, Finish
<1>2. CASE FoldersDone
  BY <1>2 DEF FoldersDone
<1>3. ASSUME NEW d \in Folders, EnterFolder(d) PROVE FolderInv'
  BY <1>3 DEF EnterFolder, FilesIn
<1>4. ASSUME NEW d \in Folders, FolderUnavailable(d) \/ AddFolder(d) PROVE FolderInv'
  BY <1>4 DEF FolderUnavailable, AddFolder
<1>5. ASSUME NEW d \in Folders, DeleteFolder(d) PROVE FolderInv'
  BY <1>5 DEF DeleteFolder, PhaseInv
<1>6. ASSUME NEW f \in Files, WalkFile(f) PROVE FolderInv'
  BY <1>6 DEF WalkFile
<1>7. ASSUME NEW f \in Files, WalkMisses(f) \/ EditFile(f) \/ RemoveFile(f)
      PROVE  FolderInv'
  BY <1>7 DEF WalkMisses, EditFile, RemoveFile
<1>8. CASE WalkDone
  BY <1>8 DEF WalkDone, ForgetFolder
<1>9. ASSUME NEW f \in Files, NEW s \in Stamps, Collect(f, s) PROVE FolderInv'
  <2>1. PICK tag \in Tags :
           pending' = pending \cup {[file |-> f, stamp |-> s, tag |-> tag]}
    BY <1>9 DEF Collect
  <2>2. FolderOf[f] \in folders
    BY <1>9 DEF Collect
  <2> QED
    BY <1>9, <2>1, <2>2 DEF Collect
<1>10. CASE ParseDone
  BY <1>10 DEF ParseDone, AfterParsing
<1>11. CASE Commit
  <2>1. ASSUME NEW f \in Files, tracks'[f] # None PROVE FolderOf[f] \in folders
    <3>1. CASE CommitBatch
      <4>1. tracks'[f] = tracks[f] \/ \E p \in pending : p.file = f
        BY <3>1, CommittedRow
      <4> QED
        BY <2>1, <4>1
    <3>2. CASE UNCHANGED dbVars
      BY <2>1, <3>2
    <3> QED
      BY <1>11, <3>1, <3>2 DEF Commit
  <2>2. /\ UNCHANGED <<folders, todo, unvisited, toParse>> /\ pending' = {}
        /\ pc' \in {"parse", "aggregate"}
    BY <1>11 DEF Commit
  <2> QED
    BY <2>1, <2>2
<1>12. CASE Abandon \/ Aggregate \/ FolderFails \/ Crash
  BY <1>12 DEF Abandon, Aggregate, FolderFails, Crash, ForgetFolder
<1>13. CASE Cancel \/ UNCHANGED vars
  BY <1>13 DEF Cancel, vars
<1> QED
  BY <1>1, <1>2, <1>3, <1>4, <1>5, <1>6, <1>7, <1>8, <1>9, <1>10, <1>11, <1>12, <1>13
  DEF Next, Scan, Environment

\* A step that disturbs the scan.
Disturbing ==
    \/ Cancel \/ Crash \/ FolderFails
    \/ \E d \in Folders : FolderUnavailable(d) \/ AddFolder(d) \/ DeleteFolder(d)
    \/ \E f \in Files : EditFile(f) \/ RemoveFile(f)

\* After it the scan does not count as undisturbed.
LEMMA DisturbingStep == Disturbing => clean' = FALSE
BY DEF Disturbing, Cancel, Crash, FolderFails, FolderUnavailable, AddFolder,
       DeleteFolder, EditFile, RemoveFile, Fault

\* In an undisturbed scan what is on its way bears the stamp the file still has.
LEMMA FreshStep ==
  ASSUME TypeOK, PhaseInv, FreshInv, [Next]_vars, clean' PROVE FreshInv'
<1> USE DEF FreshInv, NoFault, diskVars, walkVars, jobVars
<1>1. CASE Disturbing
  BY <1>1, DisturbingStep
<1>2. CASE StartScan
  BY <1>2 DEF StartScan, PhaseInv
<1>3. CASE FoldersDone \/ PostCheck \/ Finish \/ ParseDone
  BY <1>3 DEF FoldersDone, PostCheck, Finish, ParseDone
<1>4. CASE Gc
  BY <1>4 DEF Gc, Fault
<1>5. ASSUME NEW d \in Folders, EnterFolder(d) PROVE FreshInv'
  BY <1>5 DEF EnterFolder
<1>6. ASSUME NEW f \in Files, WalkFile(f) PROVE FreshInv'
  <2>1. \A x \in toParse' : x \in toParse \/ x = <<f, disk[f].stamp>>
    BY <1>6 DEF WalkFile, StampOf
  <2>2. disk[f] # None /\ clean /\ UNCHANGED <<disk, pending, cancel>>
    BY <1>6 DEF WalkFile
  <2> QED
    BY <2>1, <2>2
<1>7. ASSUME NEW f \in Files, WalkMisses(f) PROVE FreshInv'
  BY <1>7 DEF WalkMisses, Fault
<1>8. CASE WalkDone
  BY <1>8 DEF WalkDone, ForgetFolder
<1>9. ASSUME NEW f \in Files, NEW s \in Stamps, Collect(f, s) PROVE FreshInv'
  <2>1. PICK tag \in Tags :
           /\ pending' = pending \cup {[file |-> f, stamp |-> s, tag |-> tag]}
           /\ NoFault \/ Fault("read")
    BY <1>9 DEF Collect
  <2>2. clean
    BY <2>1 DEF Fault
  <2>3. disk[f] # None /\ disk[f].stamp = s
    BY <1>9, <2>2 DEF Collect
  <2> QED
    BY <1>9, <2>1, <2>2, <2>3 DEF Collect
<1>10. CASE Commit
  BY <1>10 DEF Commit, Fault
<1>11. CASE Abandon \/ Aggregate
  BY <1>11 DEF Abandon, Aggregate, ForgetFolder
<1>12. CASE UNCHANGED vars
  BY <1>12 DEF vars
<1> QED
  BY <1>1, <1>2, <1>3, <1>4, <1>5, <1>6, <1>7, <1>8, <1>9, <1>10, <1>11, <1>12
  DEF Next, Scan, Environment, Disturbing

\* A file that was recorded or on its way stays so when nothing about it is lost.
LEMMA StaysOnItsWay ==
  ASSUME NEW f \in Files, OnItsWay(f) \/ Recorded(f),
         disk'[f] = disk[f], tracks'[f] = tracks[f],
         FolderOf[f] \in todo => FolderOf[f] \in todo',
         f \in unvisited => f \in unvisited', f \in existing => f \in existing',
         toParse \subseteq toParse', pending \subseteq pending'
  PROVE  (OnItsWay(f) \/ Recorded(f))'
BY DEF OnItsWay, Recorded

\* In an undisturbed scan no file is missed.
LEMMA SyncStep ==
  ASSUME IInv, ScanInv, [Next]_vars, clean' PROVE SyncInv'
<1> USE DEF NoFault, diskVars, dbVars, walkVars, jobVars
<1> SUFFICES ASSUME NEW f \in Files, FolderOf[f] \in folders'
             PROVE  (OnItsWay(f) \/ Recorded(f))'
  BY DEF SyncInv
<1>0. /\ TypeOK /\ PhaseInv /\ FolderInv /\ FreshInv
      /\ clean => (FolderOf[f] \in folders => OnItsWay(f) \/ Recorded(f))
  BY DEF ScanInv, SyncInv, IInv
<1>1. CASE Disturbing
  BY <1>1, DisturbingStep
<1>2. CASE StartScan
  BY <1>2 DEF StartScan, OnItsWay
<1>3. CASE FoldersDone
  <2>1. clean /\ todo = {}
    BY <1>0, <1>3 DEF FoldersDone, FreshInv
  <2> QED
    BY <1>0, <1>3, <2>1, StaysOnItsWay DEF FoldersDone
<1>4. CASE PostCheck \/ Finish \/ ParseDone
  BY <1>0, <1>4, StaysOnItsWay DEF PostCheck, Finish, ParseDone
<1>5. CASE Gc
  BY <1>0, <1>5, StaysOnItsWay DEF Gc, Fault
<1>6. ASSUME NEW d \in Folders, EnterFolder(d) PROVE (OnItsWay(f) \/ Recorded(f))'
  <2>1. /\ clean /\ pc = "folders" /\ todo' = todo \ {d} /\ existing' = RowsOf(d)
        /\ unvisited' = FilesIn(d) /\ UNCHANGED <<disk, folders, tracks, toParse, pending>>
    BY <1>6 DEF EnterFolder
  <2>2. CASE FolderOf[f] = d
    BY <2>1, <2>2 DEF OnItsWay, RowsOf, FilesIn
  <2>3. CASE FolderOf[f] # d
    BY <1>0, <2>1, <2>3, StaysOnItsWay DEF PhaseInv
  <2> QED
    BY <2>2, <2>3
<1>7. ASSUME NEW g \in Files, WalkFile(g) PROVE (OnItsWay(f) \/ Recorded(f))'
  <2>1. /\ clean /\ pc = "walk" /\ g \in unvisited /\ disk[g] # None
        /\ unvisited' = unvisited \ {g} /\ existing' = existing \ {g}
        /\ UNCHANGED <<disk, folders, tracks, todo, pending>>
    BY <1>7 DEF WalkFile, Popped
  <2>2. toParse \subseteq toParse'
    BY <1>7 DEF WalkFile
  <2>3. CASE f = g
    <3>1. CASE Unchanged(g)
      <4>1. tracks[g] # None
        BY <2>1, <3>1 DEF Unchanged, IInv, WalkInv
      <4> QED
        BY <2>1, <2>3, <3>1, <4>1 DEF Unchanged, Recorded
    <3>2. CASE ~Unchanged(g)
      <4>1. <<g, disk[g].stamp>> \in toParse'
        BY <1>7, <3>2 DEF WalkFile, StampOf
      <4>2. PICK x \in toParse' : x = <<g, disk[g].stamp>>
        BY <4>1
      <4> QED
        BY <2>3, <4>2 DEF OnItsWay
    <3> QED
      BY <3>1, <3>2
  <2>4. CASE f # g
    BY <1>0, <2>1, <2>2, <2>4, StaysOnItsWay
  <2> QED
    BY <2>3, <2>4
<1>8. ASSUME NEW g \in Files, WalkMisses(g) PROVE (OnItsWay(f) \/ Recorded(f))'
  <2>1. /\ clean /\ disk[g] = None /\ unvisited' = unvisited \ {g}
        /\ UNCHANGED <<disk, folders, tracks, todo, existing, toParse, pending>>
    BY <1>8 DEF WalkMisses, Fault
  <2>2. CASE f = g
    BY <1>0, <2>1, <2>2 DEF OnItsWay, Recorded
  <2>3. CASE f # g
    BY <1>0, <2>1, <2>3, StaysOnItsWay
  <2> QED
    BY <2>2, <2>3
<1>9. CASE WalkDone
  <2>1. /\ clean /\ pc = "walk" /\ unvisited = {} /\ UNCHANGED <<disk, folders, todo>>
        /\ tracks'[f] = IF f \in existing THEN None ELSE tracks[f]
        /\ toParse' = toParse /\ pending = {} /\ pending' = {}
    BY <1>0, <1>9 DEF WalkDone, ForgetFolder, PhaseInv
  <2>2. CASE f \in existing
    <3>1. disk[f] = None
      BY <2>1, <2>2 DEF IInv, WalkInv
    <3> QED
      BY <2>1, <2>2, <3>1 DEF Recorded
  <2>3. CASE f \notin existing
    BY <1>0, <2>1, <2>3 DEF OnItsWay, Recorded
  <2> QED
    BY <2>2, <2>3
<1>10. ASSUME NEW g \in Files, NEW s \in Stamps, Collect(g, s)
       PROVE  (OnItsWay(f) \/ Recorded(f))'
  <2>1. PICK tag \in Tags :
           /\ pending' = pending \cup {[file |-> g, stamp |-> s, tag |-> tag]}
           /\ NoFault \/ Fault("read")
    BY <1>10 DEF Collect
  <2>2. /\ clean /\ toParse' = toParse \ {<<g, s>>}
        /\ UNCHANGED <<disk, folders, tracks, todo, existing, unvisited>>
    BY <1>10, <2>1 DEF Collect, Fault
  <2>3. CASE f = g
    <3>1. PICK p \in pending' : p = [file |-> g, stamp |-> s, tag |-> tag]
      BY <2>1
    <3> QED
      BY <2>3, <3>1 DEF OnItsWay
  <2>4. CASE f # g
    BY <1>0, <2>1, <2>2, <2>4 DEF OnItsWay, Recorded
  <2> QED
    BY <2>3, <2>4
<1>11. CASE Commit
  <2>1. /\ clean /\ CommitBatch /\ pending' = {}
        /\ UNCHANGED <<disk, folders, todo, existing, unvisited, toParse>>
    BY <1>11 DEF Commit, Fault
  <2>2. CASE \E p \in pending : p.file = f
    <3>1. PICK p \in pending : p.file = f /\ tracks'[f] = [stamp |-> p.stamp, tag |-> p.tag]
      <4>1. PICK q : q = CHOOSE p \in pending : p.file = f
        OBVIOUS
      <4>2. q \in pending /\ q.file = f
        BY <2>2, <4>1
      <4>3. tracks'[f] = RowFrom(q)
        BY <2>1, <2>2, <4>1 DEF CommitBatch
      <4> QED
        BY <4>2, <4>3 DEF RowFrom
    <3>2. disk[f] # None /\ disk[f].stamp = p.stamp
      BY <1>0, <2>1, <3>1 DEF FreshInv
    <3>3. tracks'[f] # None
      <4>1. tracks'[f] \in Content
        BY <1>0, <3>1 DEF TypeOK, Content
      <4> QED
        BY <4>1, NoneAssumption
    <3> QED
      BY <2>1, <3>1, <3>2, <3>3 DEF Recorded
  <2>3. CASE ~\E p \in pending : p.file = f
    <3>1. tracks'[f] = tracks[f]
      BY <2>1, <2>3 DEF CommitBatch
    <3> QED
      BY <1>0, <2>1, <2>3, <3>1 DEF OnItsWay, Recorded
  <2> QED
    BY <2>2, <2>3
<1>12. CASE Abandon
  BY <1>0, <1>12 DEF Abandon, FreshInv
<1>13. CASE Aggregate
  <2>1. /\ clean /\ pc = "aggregate" /\ UNCHANGED <<disk, folders, todo, tracks>>
    BY <1>13 DEF Aggregate
  <2>2. existing = {} /\ unvisited = {} /\ toParse = {} /\ pending = {}
    BY <1>0, <2>1 DEF PhaseInv
  <2> QED
    BY <1>0, <2>1, <2>2 DEF OnItsWay, Recorded
<1>14. CASE UNCHANGED vars
  BY <1>0, <1>14, StaysOnItsWay DEF vars
<1> QED
  BY <1>1, <1>2, <1>3, <1>4, <1>5, <1>6, <1>7, <1>8, <1>9, <1>10, <1>11, <1>12, <1>13, <1>14
  DEF Next, Scan, Environment, Disturbing

\* No scan has begun: nothing is on its way.
LEMMA InitScanInv == Init => ScanInv
BY DEF Init, ScanInv, PhaseInv, FolderInv, FreshInv, SyncInv

\* An undisturbed scan misses nothing in any of its phases.
LEMMA ScanInvariant == Spec => []ScanInv
<1>1. ASSUME IInv, ScanInv, [Next]_vars PROVE ScanInv'
  <2>1. PhaseInv' /\ FolderInv'
    BY <1>1, PhaseStep, FolderStep DEF ScanInv, IInv
  <2>2. FreshInv' /\ SyncInv'
    BY <1>1, FreshStep, SyncStep DEF ScanInv, IInv, FreshInv, SyncInv
  <2> QED
    BY <2>1, <2>2 DEF ScanInv
<1>2. IInv /\ ScanInv /\ [Next]_vars => ScanInv'
  BY <1>1
<1> QED
  BY <1>2, InitScanInv, InductiveInvariant, PTL DEF Spec

\* A scan that nothing disturbed leaves a row for each file of the configured
\* folders, with its tags, and no other row.
THEOREM CleanScanIsExact == Spec => []CleanScanMirrorsDisk
<1>1. ASSUME IInv, ScanInv PROVE CleanScanMirrorsDisk
  <2> SUFFICES ASSUME pc = "done", clean, NEW f \in Files
               PROVE  IF InLibrary(f) = None THEN tracks[f] = None
                      ELSE /\ tracks[f] # None /\ tracks[f].stamp = disk[f].stamp
                           /\ ToldOf(f, tracks[f].tag)
    BY DEF CleanScanMirrorsDisk, TracksMirrorDisk
  <2>1. existing = {} /\ unvisited = {} /\ toParse = {} /\ pending = {} /\ todo = {}
    BY <1>1 DEF ScanInv, PhaseInv, FolderInv
  <2>2. FolderOf[f] \in folders => Recorded(f)
    BY <1>1, <2>1 DEF ScanInv, SyncInv, OnItsWay
  <2>3. FolderOf[f] \notin folders => tracks[f] = None
    BY <1>1 DEF ScanInv, FolderInv
  <2>4. tracks[f] # None /\ disk[f] # None /\ tracks[f].stamp = disk[f].stamp
           => ToldOf(f, tracks[f].tag)
    BY <1>1 DEF IInv, StampInv, StampedRowsAreCurrent
  <2> QED
    BY <2>2, <2>3, <2>4 DEF InLibrary, Recorded
<1>2. IInv /\ ScanInv => CleanScanMirrorsDisk
  BY <1>1
<1> QED
  BY <1>2, InductiveInvariant, ScanInvariant, PTL

\* A row is accounted for while it is on the way, and afterwards by its album.
LEMMA StaysAccounted ==
  ASSUME NEW f \in Files, Accounted(f), tracks'[f] = tracks[f],
         f \in unvisited => f \in unvisited', f \in existing => f \in existing',
         toParse \subseteq toParse', pending \subseteq pending', touched \subseteq touched'
  PROVE  Accounted(f)'
BY DEF Accounted

\* The cleanup leaves the counts of the albums it keeps alone.
LEMMA CleanupKeepsCounts ==
  ASSUME AlbumCountsExact, tracks' = tracks, albums' = CleanAlbums(tracks, albums)
  PROVE  AlbumCountsExact'
BY DEF AlbumCountsExact, CleanAlbums, TrackCount

\* Phase 4 of the only folder counts every album that is left.
LEMMA AggregateCounts ==
  ASSUME TypeOK, Aggregate, \A f \in Files : tracks[f] # None => AlbumOf(tracks[f].tag) \in touched
  PROVE  AlbumCountsExact'
<1> DEFINE tc == [a \in Albums |-> TrackCount(tracks, a)]
           al == Recounted(albums, touched, tc)
<1>1. albums' = CleanAlbums(tracks, al) /\ tracks' = tracks
  BY DEF Aggregate, Cleanup
<1>2. DOMAIN albums = Albums
  BY DEF TypeOK
<1>3. ASSUME NEW a \in Albums, albums'[a] # None PROVE albums'[a] = TrackCount(tracks, a)
  <2>1. albums'[a] = al[a] /\ TrackCount(tracks, a) # 0
    BY <1>1, <1>3 DEF CleanAlbums
  <2>2. a \in touched
    BY <2>1, TrackCountOfAlbum
  <2>3. al[a] = IF albums[a] # None THEN tc[a] ELSE albums[a]
    BY <1>2, <2>2 DEF Recounted
  <2>4. al[a] = tc[a]
    BY <1>3, <2>1, <2>3
  <2> QED
    BY <2>1, <2>4
<1>4. \A a \in Albums : TrackCount(tracks, a)' = TrackCount(tracks, a)
  BY <1>1 DEF TrackCount
<1> QED
  BY <1>3, <1>4 DEF AlbumCountsExact

\* With one folder, every row is accounted for until phase 4 has counted.
LEMMA CountStep ==
  ASSUME NEW d \in Folders, Folders = {d}, IInv, ScanInv, CountInv, [Next]_vars, clean'
  PROVE  CountInv'
<1> USE DEF CountInv, NoFault, diskVars, dbVars, walkVars, jobVars
<1>0. TypeOK /\ PhaseInv /\ FolderInv /\ FreshInv /\ SyncInv
  BY DEF ScanInv, IInv
<1>1. CASE Disturbing
  BY <1>1, DisturbingStep
<1>2. CASE StartScan
  BY <1>2 DEF StartScan
<1>3. CASE FoldersDone \/ PostCheck \/ Finish
  <2>1. /\ clean /\ pc \in {"folders", "post", "done"} /\ pc' \in {"post", "done", "gc", "idle"}
        /\ UNCHANGED <<tracks, albums, aggregated>> /\ (todo = {} => todo' = {})
    BY <1>3 DEF FoldersDone, PostCheck, Finish
  <2> QED
    BY <2>1 DEF AlbumCountsExact, TrackCount
<1>4. CASE ParseDone
  <2>1. clean /\ pc = "parse" /\ pc' = "drain" /\ UNCHANGED <<todo, aggregated, tracks>>
    BY <1>4 DEF ParseDone, AfterParsing
  <2>2. ASSUME NEW f \in Files, tracks'[f] # None PROVE Accounted(f)'
    BY <1>4, <2>1, <2>2, StaysAccounted DEF ParseDone
  <2> QED
    BY <2>1, <2>2
<1>5. CASE Gc
  <2>1. /\ clean /\ pc = "gc" /\ pc' = "done" /\ UNCHANGED <<todo, aggregated, tracks>>
        /\ albums' = CleanAlbums(tracks, albums)
    BY <1>5 DEF Gc, Fault, Cleanup
  <2> QED
    BY <2>1, CleanupKeepsCounts
<1>6. ASSUME NEW e \in Folders, EnterFolder(e) PROVE CountInv'
  <2>1. /\ clean /\ pc = "folders" /\ pc' = "walk" /\ e \in todo /\ todo' = todo \ {e}
        /\ unvisited' = FilesIn(e) /\ UNCHANGED <<tracks, aggregated>>
    BY <1>6 DEF EnterFolder
  <2>2. ~aggregated' /\ todo' = {}
    BY <1>0, <2>1 DEF TypeOK
  <2>3. ASSUME NEW f \in Files PROVE Accounted(f)'
    <3>1. FolderOf[f] = e
      BY ShapeAssumption
    <3> QED
      BY <2>1, <3>1 DEF Accounted, FilesIn
  <2> QED
    BY <2>1, <2>2, <2>3
<1>7. ASSUME NEW g \in Files, WalkFile(g) PROVE CountInv'
  <2>1. /\ clean /\ pc = "walk" /\ pc' = "walk" /\ g \in unvisited
        /\ unvisited' = unvisited \ {g} /\ existing' = existing \ {g}
        /\ UNCHANGED <<tracks, todo, pending, aggregated>>
        /\ toParse \subseteq toParse' /\ touched \subseteq touched'
    BY <1>7 DEF WalkFile, Popped
  <2>2. Accounted(g)'
    <3>1. CASE Unchanged(g)
      <4>1. AlbumOf(tracks[g].tag) \in touched'
        BY <1>7, <3>1 DEF WalkFile, Touches
      <4> QED
        BY <2>1, <4>1 DEF Accounted
    <3>2. CASE ~Unchanged(g)
      <4>1. PICK x \in toParse' : x = <<g, disk[g].stamp>>
        BY <1>7, <3>2 DEF WalkFile, StampOf
      <4> QED
        BY <4>1 DEF Accounted
    <3> QED
      BY <3>1, <3>2
  <2>3. ASSUME NEW f \in Files, f # g, tracks'[f] # None PROVE Accounted(f)'
    BY <2>1, <2>3, StaysAccounted
  <2> QED
    BY <2>1, <2>2, <2>3
<1>8. ASSUME NEW g \in Files, WalkMisses(g) PROVE CountInv'
  <2>1. /\ clean /\ pc = "walk" /\ pc' = "walk" /\ disk[g] = None /\ g \in unvisited
        /\ unvisited' = unvisited \ {g}
        /\ UNCHANGED <<tracks, todo, existing, toParse, pending, touched, aggregated>>
    BY <1>8 DEF WalkMisses, Fault
  <2>2. tracks[g] # None => Accounted(g)'
    <3>1. OnItsWay(g) \/ Recorded(g)
      BY <1>0, <2>1 DEF FolderInv, SyncInv
    <3>2. tracks[g] # None => \/ g \in existing
                              \/ \E x \in toParse : x[1] = g
                              \/ \E p \in pending : p.file = g
      BY <2>1, <3>1 DEF OnItsWay, Recorded
    <3> QED
      BY <2>1, <3>2 DEF Accounted
  <2>3. ASSUME NEW f \in Files, f # g, tracks'[f] # None PROVE Accounted(f)'
    BY <2>1, <2>3, StaysAccounted
  <2> QED
    BY <2>1, <2>2, <2>3
<1>9. CASE WalkDone
  <2>1. /\ clean /\ pc = "walk" /\ unvisited = {} /\ UNCHANGED <<todo, aggregated>>
        /\ \A f \in Files : tracks'[f] # None => f \notin existing /\ tracks'[f] = tracks[f]
        /\ pending = {} /\ pc' \in {"folders", "parse"}
        /\ pc' = "parse" => UNCHANGED <<toParse, touched>>
    BY <1>0, <1>9 DEF WalkDone, PhaseInv
  <2>2. ASSUME NEW f \in Files, tracks'[f] # None, pc' = "parse" PROVE Accounted(f)'
    BY <2>1, <2>2 DEF Accounted
  <2> QED
    BY <2>1, <2>2
<1>10. ASSUME NEW g \in Files, NEW s \in Stamps, Collect(g, s) PROVE CountInv'
  <2>1. PICK tag \in Tags :
           /\ pending' = pending \cup {[file |-> g, stamp |-> s, tag |-> tag]}
           /\ NoFault \/ Fault("read")
    BY <1>10 DEF Collect
  <2>2. /\ clean /\ pc = "parse" /\ pc' \in {"commit", "parse"}
        /\ toParse' = toParse \ {<<g, s>>}
        /\ UNCHANGED <<tracks, todo, existing, unvisited, touched, aggregated>>
    BY <1>10, <2>1 DEF Collect, Fault
  <2>3. ASSUME NEW f \in Files, tracks'[f] # None PROVE Accounted(f)'
    <3>1. CASE f = g
      <4>1. PICK p \in pending' : p = [file |-> g, stamp |-> s, tag |-> tag]
        BY <2>1
      <4> QED
        BY <3>1, <4>1 DEF Accounted
    <3>2. CASE f # g
      BY <2>1, <2>2, <2>3, <3>2 DEF Accounted
    <3> QED
      BY <3>1, <3>2
  <2> QED
    BY <2>2, <2>3
<1>11. CASE Commit
  <2>1. /\ clean /\ CommitBatch /\ pending' = {} /\ pc \in {"commit", "drain"}
        /\ pc' \in {"parse", "aggregate"}
        /\ UNCHANGED <<todo, existing, unvisited, toParse, aggregated>>
    BY <1>11 DEF Commit, Fault
  <2>2. touched' = touched \cup {AlbumOf(p.tag) : p \in pending}
    BY <2>1 DEF CommitBatch
  <2>3. ASSUME NEW f \in Files, tracks'[f] # None PROVE Accounted(f)'
    <3>1. CASE \E p \in pending : p.file = f
      <4>1. PICK q : q = CHOOSE p \in pending : p.file = f
        OBVIOUS
      <4>2. q \in pending
        BY <3>1, <4>1
      <4>3. tracks'[f] = RowFrom(q)
        BY <2>1, <3>1, <4>1 DEF CommitBatch
      <4>4. tracks'[f].tag = q.tag /\ AlbumOf(q.tag) \in touched'
        BY <2>2, <4>2, <4>3 DEF RowFrom
      <4> QED
        BY <4>4 DEF Accounted
    <3>2. CASE ~\E p \in pending : p.file = f
      <4>1. tracks'[f] = tracks[f]
        BY <2>1, <3>2 DEF CommitBatch
      <4> QED
        BY <2>1, <2>2, <2>3, <3>2, <4>1 DEF Accounted
    <3> QED
      BY <3>1, <3>2
  <2> QED
    BY <2>1, <2>3
<1>12. CASE Abandon
  BY <1>0, <1>12 DEF Abandon, FreshInv
<1>13. CASE Aggregate
  <2>1. clean /\ pc = "aggregate" /\ pc' = "folders" /\ todo' = todo /\ aggregated'
    BY <1>13 DEF Aggregate
  <2>2. existing = {} /\ unvisited = {} /\ toParse = {} /\ pending = {}
    BY <1>0, <2>1 DEF PhaseInv
  <2>3. \A f \in Files : tracks[f] # None => AlbumOf(tracks[f].tag) \in touched
    BY <2>1, <2>2 DEF Accounted
  <2> QED
    BY <1>0, <1>13, <2>1, <2>3, AggregateCounts
<1>14. CASE UNCHANGED vars
  BY <1>14 DEF vars, AlbumCountsExact, TrackCount, Accounted
<1> QED
  BY <1>1, <1>2, <1>3, <1>4, <1>5, <1>6, <1>7, <1>8, <1>9, <1>10, <1>11, <1>12, <1>13, <1>14
  DEF Next, Scan, Environment, Disturbing

\* The collector's cleanup leaves neither an empty album nor an artist without both
\* albums and tracks.
LEMMA CleanupLeavesNoEmptyRows ==
  ASSUME TypeOK, Cleanup(tracks, albums, artists), tracks' = tracks
  PROVE  NoEmptyRows'
<1> DEFINE al == CleanAlbums(tracks, albums)
<1>1. albums' = al /\ artists' = CleanArtists(tracks, al, artists)
  BY DEF Cleanup
<1>2. ASSUME NEW a \in Albums, albums'[a] # None PROVE TrackCount(tracks, a) > 0
  BY <1>1, <1>2, TrackCountOfAlbum DEF CleanAlbums
<1>3. ASSUME NEW x \in Artists, artists'[x] # None
      PROVE  \/ AlbumCount(albums', x) > 0
             \/ \E f \in Files : tracks[f] # None /\ tracks[f].tag.artist = x
  <2>1. AlbumCount(al, x) \in Nat
    BY AlbumCountOfArtist
  <2> HIDE DEF al
  <2> QED
    BY <1>1, <1>3, <2>1 DEF CleanArtists
<1>4. \A a \in Albums : TrackCount(tracks, a)' = TrackCount(tracks, a)
  BY DEF TrackCount
<1>5. \A x \in Artists : AlbumCount(albums, x)' = AlbumCount(albums', x)
  BY DEF AlbumCount
<1> QED
  BY <1>2, <1>3, <1>4, <1>5 DEF NoEmptyRows

TidyInv == pc = "done" /\ clean => NoEmptyRows

\* Only the collector leads an undisturbed scan to its end.
LEMMA TidyStep ==
  ASSUME IInv, ScanInv, TidyInv, [Next]_vars PROVE TidyInv'
<1> USE DEF TidyInv
<1> SUFFICES ASSUME pc' = "done", clean' PROVE NoEmptyRows'
  OBVIOUS
<1>1. CASE Gc
  BY <1>1, CleanupLeavesNoEmptyRows DEF Gc, Fault, IInv
<1>2. CASE PostCheck
  <2>1. clean /\ cancel
    BY <1>2 DEF PostCheck, NoFault
  <2> QED
    BY <2>1 DEF ScanInv, FreshInv
<1>3. CASE UNCHANGED vars
  BY <1>3 DEF vars, dbVars, NoEmptyRows, TrackCount, AlbumCount
<1>4. CASE Disturbing
  BY <1>4, DisturbingStep
<1> QED
  BY <1>1, <1>2, <1>3, <1>4 DEF Next, Scan, Environment, Disturbing, StartScan, FoldersDone,
     Finish, EnterFolder, WalkFile, WalkMisses, WalkDone, ParseDone, AfterParsing,
     Abandon, Commit, Aggregate, Collect

\* With any number of folders, an undisturbed scan leaves no empty album and no artist
\* without both albums and tracks.
THEOREM CleanScanIsTidy == Spec => []TidyInv
<1>1. Init => TidyInv
  BY DEF Init, TidyInv
<1>2. IInv /\ ScanInv /\ TidyInv /\ [Next]_vars => TidyInv'
  BY TidyStep
<1> QED
  BY <1>1, <1>2, InductiveInvariant, ScanInvariant, PTL DEF Spec

\* With one music folder every count is exact besides, when a scan that came to
\* phase 4 was not disturbed. (A folder from which rows only go does not come to it, and
\* leaves the counts of their albums as they were.)
THEOREM CountsAreExact ==
  ASSUME NEW d \in Folders, Folders = {d}
  PROVE  Spec => []AggregatedCountsExact
<1>1. Init => CountInv
  BY DEF Init, CountInv
<1>2. IInv /\ ScanInv /\ CountInv /\ [Next]_vars => CountInv'
  <2> SUFFICES ASSUME IInv, ScanInv, CountInv, [Next]_vars PROVE CountInv'
    OBVIOUS
  <2>1. CASE clean'
    BY <2>1, CountStep
  <2>2. CASE ~clean'
    BY <2>2 DEF CountInv
  <2> QED
    BY <2>1, <2>2
<1>3. CountInv /\ TidyInv => AggregatedCountsExact
  BY DEF CountInv, TidyInv, AggregatedCountsExact
<1> QED
  BY <1>1, <1>2, <1>3, InductiveInvariant, ScanInvariant, CleanScanIsTidy, PTL DEF Spec
=============================================================================
