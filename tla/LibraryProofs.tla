----------------------------- MODULE LibraryProofs -----------------------------
(***************************************************************************)
(* The library, for any files, requests, publications, edits and crashes.  *)
(* An edit is never overwritten by a publication that was not prepared     *)
(* from it; and unless requests met in one of the ways recovery cannot     *)
(* undo, files and graph are what the commits and the edits made them.     *)
(***************************************************************************)
EXTENDS LibraryPublication, GreatestElements, FiniteSetTheorems

-----------------------------------------------------------------------------
(* Recovery of one file. *)

(* What one journal makes of a file. *)
RecoveredBy(r, f, file) ==
    IF f \notin DOMAIN manifests[r] THEN file
    ELSE IF Committed(r) THEN RolledForward(r, f, file)
    ELSE RolledBack(r, f, file)

(* The file after each of the first k journals. *)
Fold(f, order, k, g) ==
    g = [i \in 0..k |-> IF i = 0 THEN live[f] ELSE RecoveredBy(order[i], f, g[i - 1])]

LEMMA FoldExists ==
  ASSUME NEW f, NEW order, NEW n \in Nat
  PROVE  \E g : Fold(f, order, n, g)
  <1> DEFINE Missing == {k \in Nat : ~ \E g : Fold(f, order, k, g)}
  <1>1. SUFFICES ASSUME Missing # {}
                 PROVE  FALSE
    OBVIOUS
  <1>2. PICK k \in Missing : \A j \in Missing : k <= j
    BY <1>1, LeastNatural
  <1>3. k # 0
    <2>1. Fold(f, order, 0, [i \in 0..0 |-> live[f]])
      BY DEF Fold
    <2>2. QED
      BY <2>1
  <1>4. PICK g : Fold(f, order, k - 1, g)
    <2>1. k - 1 \in Nat /\ ~ (k <= k - 1)
      BY <1>3
    <2>2. k - 1 \notin Missing
      BY <1>2, <2>1
    <2>3. QED
      BY <2>1, <2>2
  <1> DEFINE h == [i \in 0..k |-> IF i = k THEN RecoveredBy(order[k], f, g[k - 1]) ELSE g[i]]
  <1>5. Fold(f, order, k, h)
    <2>1. k \in Nat /\ k # 0
      BY <1>3
    <2>2. g = [i \in 0..k - 1 |-> IF i = 0 THEN live[f] ELSE RecoveredBy(order[i], f, g[i - 1])]
      BY <1>4 DEF Fold
    <2>3. ASSUME NEW i \in 0..k
          PROVE  h[i] = IF i = 0 THEN live[f] ELSE RecoveredBy(order[i], f, h[i - 1])
      <3>1. CASE i = 0
        BY <2>1, <2>2, <3>1
      <3>2. CASE i = k
        <4>1. k - 1 \in 0..k /\ k - 1 # k
          BY <2>1
        <4>2. h[k - 1] = g[k - 1] /\ h[k] = RecoveredBy(order[k], f, g[k - 1])
          BY <2>1, <4>1
        <4> HIDE DEF h
        <4>3. QED
          BY <2>1, <3>2, <4>2
      <3>3. CASE i # 0 /\ i # k
        <4>1. i \in 0..k - 1 /\ i - 1 \in 0..k /\ i - 1 # k
          BY <2>1, <3>3
        <4>2. h[i] = g[i] /\ h[i - 1] = g[i - 1]
          BY <3>3, <4>1
        <4>3. g[i] = RecoveredBy(order[i], f, g[i - 1])
          BY <2>2, <3>3, <4>1
        <4> HIDE DEF h
        <4>4. QED
          BY <3>3, <4>2, <4>3
      <3>4. QED
        BY <3>1, <3>2, <3>3
    <2>4. h = [i \in 0..k |-> h[i]]
      OBVIOUS
    <2> HIDE DEF h
    <2>5. QED
      BY <2>3, <2>4 DEF Fold
  <1> HIDE DEF h
  <1>6. QED
    BY <1>2, <1>5

LEMMA RecoveredIsFold ==
  ASSUME NEW f, NEW order, NEW n \in Nat, Len(order) = n
  PROVE  \E g : Fold(f, order, n, g) /\ RecoveredFile(f, order) = g[n]
  <1> DEFINE after == CHOOSE g : Fold(f, order, n, g)
  <1>1. Fold(f, order, n, after)
    BY FoldExists
  <1>2. RecoveredFile(f, order) = after[n]
    BY DEF RecoveredFile, Fold, RecoveredBy
  <1>3. QED
    BY <1>1, <1>2

(* What holds of a file before the first journal, and is carried on by     *)
(* each, holds after the last.                                             *)
LEMMA RecoveredAlong ==
  ASSUME NEW f, NEW order, NEW n \in Nat, Len(order) = n,
         NEW Stage, live[f] \in Stage[0],
         \A i \in 1..n : \A file \in Stage[i - 1] :
           RecoveredBy(order[i], f, file) \in Stage[i]
  PROVE  RecoveredFile(f, order) \in Stage[n]
  <1>1. PICK g : Fold(f, order, n, g) /\ RecoveredFile(f, order) = g[n]
    BY RecoveredIsFold
  <1> DEFINE Missing == {k \in 0..n : g[k] \notin Stage[k]}
  <1>2. SUFFICES ASSUME Missing # {}
                 PROVE  FALSE
    BY <1>1
  <1>3. PICK k \in Missing : \A j \in Missing : k <= j
    <2>1. Missing \in SUBSET Nat
      OBVIOUS
    <2>2. QED
      BY <1>2, <2>1, LeastNatural
  <1>4. k \in 0..n /\ g[k] \notin Stage[k]
    OBVIOUS
  <1>5. g[0] = live[f] /\ (k # 0 => g[k] = RecoveredBy(order[k], f, g[k - 1]))
    BY <1>1, <1>4 DEF Fold
  <1>6. k # 0
    BY <1>4, <1>5
  <1>7. k \in 1..n /\ k - 1 \in 0..n /\ ~ (k <= k - 1)
    BY <1>4, <1>6
  <1>8. g[k - 1] \in Stage[k - 1]
    BY <1>3, <1>7
  <1>9. RecoveredBy(order[k], f, g[k - 1]) \in Stage[k]
    BY <1>7, <1>8
  <1>10. QED
    BY <1>4, <1>5, <1>6, <1>9

(* A listing names every journal. *)
LEMMA ListingIsFull ==
  ASSUME NEW order \in Listings
  PROVE  \E n \in Nat : /\ Len(order) = n
                        /\ \A i \in 1..n : order[i] \in ListedJournals
                        /\ \A r \in ListedJournals : \E i \in 1..n : order[i] = r
  <1> DEFINE n == Cardinality(ListedJournals)
             S == ListedJournals
  <1>1. IsFiniteSet(S)
    BY LibraryBounds, FS_Subset DEF ListedJournals
  <1>2. n \in Nat
    BY <1>1, FS_CardinalityType
  <1>3. order \in [1..n -> S] /\ \A i, j \in 1..n : order[i] = order[j] => i = j
    BY DEF Listings
  <1> HIDE DEF n, S
  <1>4. IsFiniteSet(1..n) /\ Cardinality(1..n) = n
    BY <1>2, FS_Interval
  <1>5. order \in Injection(1..n, S)
    BY <1>3 DEF Injection, IsInjective
  <1>6. order \in Surjection(1..n, S)
    BY <1>1, <1>4, <1>5, FS_Injection DEF n, S
  <1>7. Len(order) = n
    BY <1>2, <1>3
  <1>8. QED
    BY <1>2, <1>3, <1>6, <1>7 DEF S, Surjection

-----------------------------------------------------------------------------
(* Types. *)

FileType == [text : Texts \cup {"absent"}, inode : Requests \cup {"nobody"}]

(* What a recovery of all journals leaves of a file is a file. *)
LEMMA RecoveredIsAFile ==
  ASSUME LibraryTypeOK, NEW f \in Files, NEW order \in Listings
  PROVE  RecoveredFile(f, order) \in FileType
  <1>1. PICK n \in Nat : /\ Len(order) = n
                         /\ \A i \in 1..n : order[i] \in ListedJournals
    BY ListingIsFull
  <1> DEFINE Stage == [i \in 0..n |-> FileType]
  <1>2. live[f] \in Stage[0]
    BY DEF LibraryTypeOK, FileType
  <1>3. ASSUME NEW i \in 1..n, NEW file \in Stage[i - 1]
        PROVE  RecoveredBy(order[i], f, file) \in Stage[i]
    <2>1. order[i] \in Requests /\ file \in FileType /\ i \in 0..n
      BY <1>1, <1>3 DEF ListedJournals
    <2> DEFINE r == order[i]
    <2>2. CASE f \in DOMAIN manifests[r]
      <3>1. manifests[r][f] \in [expected : Texts \cup {"absent"}, new : Texts]
        BY <2>1, <2>2 DEF LibraryTypeOK
      <3>2. manifests[r][f].expected \in Texts \cup {"absent"} /\ manifests[r][f].new \in Texts
        BY <3>1
      <3> HIDE DEF r
      <3>3. RolledForward(r, f, file) \in FileType
        BY <2>1, <3>2 DEF RolledForward, FileType, r
      <3>4. RolledBack(r, f, file) \in FileType
        BY <2>1, <3>2 DEF RolledBack, FileType, NoFile
      <3>5. QED
        BY <2>1, <2>2, <3>3, <3>4 DEF RecoveredBy, r
    <2>3. CASE f \notin DOMAIN manifests[r]
      BY <2>1, <2>3 DEF RecoveredBy
    <2>4. QED
      BY <2>2, <2>3
  <1> HIDE DEF Stage
  <1>4. RecoveredFile(f, order) \in Stage[n]
    BY <1>1, <1>2, <1>3, RecoveredAlong
  <1>5. QED
    BY <1>4 DEF Stage

(* What a rollback leaves of the files are files. *)
LEMMA RollbackIsFiles ==
  ASSUME LibraryTypeOK, NEW r \in Requests, NEW S, S \subseteq DOMAIN manifests[r]
  PROVE  RollbackOf(r, S) \in [Files -> FileType]
  <1>1. ASSUME NEW f \in S
        PROVE  RolledBack(r, f, live[f]) \in FileType
    <2>1. f \in Files /\ manifests[r][f] \in [expected : Texts \cup {"absent"}, new : Texts]
      BY DEF LibraryTypeOK
    <2>2. live[f] \in FileType
      BY <2>1 DEF LibraryTypeOK, FileType
    <2>3. manifests[r][f].expected \in Texts \cup {"absent"}
      BY <2>1
    <2>4. QED
      BY <2>2, <2>3 DEF RolledBack, FileType, NoFile
  <1>2. \A f \in Files : live[f] \in FileType
    BY DEF LibraryTypeOK, FileType
  <1>3. QED
    BY <1>1, <1>2 DEF RollbackOf


-----------------------------------------------------------------------------
(* What holds of requests and of the lock, whatever they meet. *)

Old(r, f) == manifests[r][f].expected
New(r, f) == manifests[r][f].new

(* The texts a publication has: no operator's, and none that is there only *)
(* once the file is gone.                                                  *)
EntryInStep(r, f) ==
    /\ New(r, f) \in {r, "original", "import"}
    /\ New(r, f) = "import" => request[r].kind \in {"install", "approve"}
    /\ request[r].kind = "approve" => Old(r, f) = "absent"

RequestInStep(r) ==
    /\ request[r].at \in {"idle", "reserved"} => DOMAIN manifests[r] = {}
    /\ request[r].at \in {"prepared", "publishing"} /\ request[r].kind # "patch" =>
         DOMAIN manifests[r] = Files
    /\ holder.by = r <=> request[r].at = "publishing"
    /\ r \in markers => request[r].at \in {"finalizing", "done"}
    /\ ~server.up => request[r].at \in {"idle", "done"}
    /\ \A f \in DOMAIN manifests[r] : EntryInStep(r, f)

(* A file that is aside is one the holder replaces, and is missing. *)
HolderInStep ==
    /\ holder.by = "nobody" => holder = Free
    /\ ~server.up => holder = Free
    /\ \A r \in Requests : holder.by = r =>
         /\ holder.aside \cup holder.placed \subseteq DOMAIN manifests[r]
         /\ \A f \in holder.aside : ~Creates(r, f)
    /\ \A f \in holder.aside \ holder.placed : live[f] = NoFile

LibraryInv ==
    /\ LibraryTypeOK
    /\ \A r \in Requests : RequestInStep(r)
    /\ HolderInStep

(* The types, one by one. *)
LiveTyped == live \in [Files -> FileType]
SettledTyped == settled \in [Files -> Texts \cup {"absent"}]
GraphTyped == graph \in [Files -> Texts \cup {"absent", "deprecated"}]
DraftTyped ==
    importDraft \in [status : {"draft", "applying", "installed", "approved"},
                    lease : Requests \cup {"nobody"}, expired : BOOLEAN]
JournalsTyped ==
    journals \in [Requests -> [state : {"none", "held", "torn"}, links : SUBSET Files]]
ManifestTyped(m) ==
    DOMAIN m \subseteq Files
      /\ \A f \in DOMAIN m : m[f] \in [expected : Texts \cup {"absent"}, new : Texts]
ManifestsTyped ==
    DOMAIN manifests = Requests /\ \A r \in Requests : ManifestTyped(manifests[r])
RequestTyped ==
    request \in [Requests -> [kind : {"none", "patch", "install", "approve", "sync"},
                             at : {"idle", "reserved", "prepared", "publishing",
                                   "finalizing", "discarding", "done"},
                             found : SUBSET Requests]]
HolderTyped ==
    holder \in [by : Requests \cup {"nobody"}, aside : SUBSET Files, placed : SUBSET Files]
ServerTyped ==
    server \in [up : BOOLEAN, crashes : 0..MaxLibCrashes, edits : 0..MaxEdits]

AllTyped ==
    /\ LiveTyped /\ SettledTyped /\ GraphTyped /\ DraftTyped /\ JournalsTyped
    /\ ManifestsTyped /\ RequestTyped /\ HolderTyped /\ ServerTyped
    /\ markers \subseteq Requests /\ overlapped \in BOOLEAN

LEMMA TypeParts == (LibraryTypeOK <=> AllTyped) /\ (LibraryTypeOK' <=> AllTyped')
  BY DEF AllTyped, LibraryTypeOK, LiveTyped, SettledTyped, GraphTyped, DraftTyped,
     JournalsTyped, ManifestsTyped, ManifestTyped, RequestTyped, HolderTyped, ServerTyped,
     FileType

LEMMA LibraryStarts == LibraryInit => LibraryInv
  <1> SUFFICES ASSUME LibraryInit
               PROVE  LibraryInv
    OBVIOUS
  <1> USE DEF LibraryInit
  <1>1. PICK present \in SUBSET {FileOrder[1]} :
          /\ settled = [f \in Files |-> IF f \in present THEN "original" ELSE "absent"]
          /\ live = [f \in Files |-> [text |-> settled[f], inode |-> "nobody"]]
          /\ graph = settled
    OBVIOUS
  <1>2. \A r \in Requests : DOMAIN manifests[r] = {}
    OBVIOUS
  <1>3. LibraryTypeOK
    <2>1. \A f \in Files : settled[f] \in Texts \cup {"absent"}
      BY <1>1 DEF Texts
    <2>2. LiveTyped
      BY <1>1, <2>1 DEF LiveTyped, FileType
    <2>3. GraphTyped /\ SettledTyped
      BY <1>1, <2>1 DEF GraphTyped, SettledTyped
    <2>4. JournalsTyped /\ RequestTyped /\ ServerTyped /\ DraftTyped /\ HolderTyped
      BY LibraryBounds DEF JournalsTyped, RequestTyped, ServerTyped, DraftTyped,
         HolderTyped, NoJournal, Free
    <2>5. ManifestsTyped /\ overlapped \in BOOLEAN /\ markers \subseteq Requests
      BY <1>2 DEF ManifestsTyped, ManifestTyped
    <2>6. QED
      BY <2>2, <2>3, <2>4, <2>5, TypeParts DEF AllTyped
  <1>4. "nobody" \notin Requests
    BY LibraryBounds DEF Words
  <1>5. QED
    BY <1>2, <1>3, <1>4 DEF LibraryInv, RequestInStep, HolderInStep, Free

-----------------------------------------------------------------------------
(* The steps keep the types. *)

LEMMA LiveWriters ==
  ASSUME LibraryNext
  PROVE  \/ UNCHANGED live
         \/ \E r \in Requests, f \in Files :
              MoveAside(r, f) \/ Place(r, f) \/ PublishFails(r, f)
         \/ \E r \in Requests : CommitFails(r) \/ Sync(r)
         \/ Startup \/ \E f \in Files : Edit(f)
  BY DEF LibraryNext, PreparePatch, PrepareInstall, Reserve, PrepareApproval, Prepare, Enter,
     GuardRejects, Commit, Finalize, Discard, LeaseExpires, LibraryCrash

LEMMA RecoveringWritesLive ==
  ASSUME Startup \/ \E r \in Requests : Sync(r)
  PROVE  \E order \in Listings : live' = [f \in Files |-> RecoveredFile(f, order)]
  BY DEF Startup, Sync, Recover

LEMMA PrepareKeepsTypes ==
  ASSUME LibraryTypeOK, NEW r \in Requests, NEW kind \in {"patch", "install", "approve"},
         NEW files \in SUBSET Files, NEW text \in Texts, Prepare(r, kind, files, text),
         DraftTyped'
  PROVE  LibraryTypeOK'
  <1> USE TypeParts DEF AllTyped, Prepare
  <1>1. ManifestsTyped'
    <2>1. \A f \in files : live[f].text \in Texts \cup {"absent"}
      BY DEF LiveTyped, FileType
    <2>2. ManifestTyped([f \in files |-> [expected |-> live[f].text, new |-> text]])
      BY <2>1 DEF ManifestTyped
    <2>3. QED
      BY <2>2 DEF ManifestsTyped
  <1>2. JournalsTyped'
    BY DEF JournalsTyped
  <1>3. RequestTyped'
    BY DEF RequestTyped
  <1>4. LiveTyped' /\ SettledTyped' /\ GraphTyped' /\ markers' \subseteq Requests
          /\ HolderTyped' /\ ServerTyped' /\ overlapped' \in BOOLEAN
    BY DEF LiveTyped, SettledTyped, GraphTyped, HolderTyped, ServerTyped
  <1>5. QED
    BY <1>1, <1>2, <1>3, <1>4

LEMMA TypesAreKept ==
  ASSUME LibraryInv, LibraryNext
  PROVE  LibraryTypeOK'
  <1> USE TypeParts DEF AllTyped, LibraryInv
  <1>d. ASSUME NEW r \in Requests, importDraft' \in {importDraft, DraftAfterFailure(r)}
        PROVE  DraftTyped'
    BY <1>d DEF DraftAfterFailure, DraftTyped
  <1>q. ASSUME NEW r \in Requests, UNCHANGED request \/ Done(r)
        PROVE  RequestTyped'
    BY <1>q DEF Done, RequestTyped
  <1>j. ASSUME NEW r \in Requests,
               UNCHANGED journals \/ journals' = [journals EXCEPT ![r] = NoJournal]
        PROVE  JournalsTyped'
    BY <1>j DEF NoJournal, JournalsTyped
  <1>h. ASSUME UNCHANGED holder \/ holder' = Free
        PROVE  HolderTyped'
    BY <1>h DEF HolderTyped, Free
  <1>1. ASSUME NEW r \in Requests, PreparePatch(r) \/ PrepareInstall(r)
        PROVE  LibraryTypeOK'
    <2>1. \E kind \in {"patch", "install"}, files \in SUBSET Files, text \in Texts :
            Prepare(r, kind, files, text)
      BY <1>1 DEF PreparePatch, PrepareInstall, Texts
    <2>2. DraftTyped'
      BY <1>1 DEF PreparePatch, PrepareInstall, DraftTyped
    <2>3. QED
      BY <2>1, <2>2, PrepareKeepsTypes
  <1>2. ASSUME NEW r \in Requests, PrepareApproval(r)
        PROVE  LibraryTypeOK'
    <2>1. CASE Prepare(r, "approve", Files, "import") /\ UNCHANGED importDraft
      BY <2>1, PrepareKeepsTypes DEF DraftTyped, Texts
    <2>2. CASE importDraft' = DraftAfterFailure(r) /\ Done(r)
                 /\ UNCHANGED <<live, settled, graph, markers, journals, manifests, holder,
                                server, overlapped>>
      BY <1>d, <1>q, <2>2 DEF LiveTyped, SettledTyped, GraphTyped, JournalsTyped,
         ManifestsTyped, ManifestTyped, HolderTyped, ServerTyped
    <2>3. QED
      BY <1>2, <2>1, <2>2 DEF PrepareApproval
  <1>3. ASSUME NEW r \in Requests, Reserve(r)
        PROVE  LibraryTypeOK'
    <2>1. DraftTyped' /\ RequestTyped'
      BY <1>3 DEF Reserve, DraftTyped, RequestTyped
    <2>2. QED
      BY <1>3, <2>1 DEF Reserve, LiveTyped, SettledTyped, GraphTyped, JournalsTyped,
         ManifestsTyped, ManifestTyped, HolderTyped, ServerTyped
  <1>4. ASSUME NEW r \in Requests, Enter(r)
        PROVE  LibraryTypeOK'
    <2>1. RequestTyped' /\ HolderTyped'
      BY <1>4 DEF Enter, Done, RequestTyped, HolderTyped
    <2>2. QED
      BY <1>4, <2>1 DEF Enter, LiveTyped, SettledTyped, GraphTyped, DraftTyped,
         JournalsTyped, ManifestsTyped, ManifestTyped, ServerTyped
  <1>5. ASSUME NEW r \in Requests, GuardRejects(r) \/ Finalize(r)
        PROVE  LibraryTypeOK'
    BY <1>5, <1>j, <1>q DEF GuardRejects, Finalize, LiveTyped, SettledTyped, GraphTyped,
       DraftTyped, ManifestsTyped, ManifestTyped, HolderTyped, ServerTyped
  <1>6. ASSUME NEW r \in Requests, NEW f \in Files, MoveAside(r, f)
        PROVE  LibraryTypeOK'
    <2>1. LiveTyped' /\ HolderTyped' /\ JournalsTyped'
      BY <1>6 DEF MoveAside, LiveTyped, FileType, NoFile, HolderTyped, JournalsTyped
    <2>2. QED
      BY <1>6, <2>1 DEF MoveAside, SettledTyped, GraphTyped, DraftTyped, ManifestsTyped,
         ManifestTyped, RequestTyped, ServerTyped
  <1>7. ASSUME NEW r \in Requests, NEW f \in Files, Place(r, f)
        PROVE  LibraryTypeOK'
    <2>1. manifests[r][f].new \in Texts
      BY <1>7 DEF Place, NextEntry, Unplaced, ManifestsTyped, ManifestTyped
    <2>2. LiveTyped' /\ HolderTyped' /\ JournalsTyped'
      BY <1>7, <2>1 DEF Place, LiveTyped, FileType, HolderTyped, JournalsTyped
    <2>3. QED
      BY <1>7, <2>2 DEF Place, SettledTyped, GraphTyped, DraftTyped, ManifestsTyped,
         ManifestTyped, RequestTyped, ServerTyped
  <1>8. ASSUME NEW r \in Requests, NEW f \in Files, PublishFails(r, f)
        PROVE  LibraryTypeOK'
    <2>1. holder.aside \cup holder.placed \subseteq DOMAIN manifests[r]
      BY <1>8 DEF PublishFails, Publishing, HolderInStep
    <2>2. LiveTyped'
      BY <1>8, <2>1, RollbackIsFiles DEF PublishFails, LiveTyped
    <2>3. QED
      BY <1>8, <1>d, <1>q, <1>j, <1>h, <2>2 DEF PublishFails, SettledTyped, GraphTyped,
         ManifestsTyped, ManifestTyped, ServerTyped
  <1>9. ASSUME NEW r \in Requests, Commit(r)
        PROVE  LibraryTypeOK'
    <2>1. SettledTyped'
      <3>1. \A f \in DOMAIN manifests[r] : manifests[r][f].new \in Texts
        BY DEF ManifestsTyped, ManifestTyped
      <3>2. QED
        BY <1>9, <3>1 DEF Commit, SettledBy, SettledTyped
    <2>2. GraphTyped'
      <3>1. \A f \in Files : live[f].text \in Texts \cup {"absent"}
        BY DEF LiveTyped, FileType
      <3>2. QED
        BY <1>9, <3>1 DEF Commit, Projected, GraphTyped
    <2>3. DraftTyped' /\ RequestTyped'
      BY <1>9 DEF Commit, DraftTyped, RequestTyped
    <2>4. QED
      BY <1>9, <1>h, <2>1, <2>2, <2>3 DEF Commit, LiveTyped, JournalsTyped, ManifestsTyped,
         ManifestTyped, ServerTyped
  <1>10. ASSUME NEW r \in Requests, CommitFails(r)
         PROVE  LibraryTypeOK'
    <2>1. LiveTyped'
      BY <1>10, RollbackIsFiles DEF CommitFails, LiveTyped
    <2>2. QED
      BY <1>10, <1>d, <1>q, <1>j, <1>h, <2>1 DEF CommitFails, SettledTyped, GraphTyped,
         ManifestsTyped, ManifestTyped, ServerTyped
  <1>11. ASSUME NEW r \in Requests, Sync(r)
         PROVE  LibraryTypeOK'
    <2>1. LiveTyped'
      BY <1>11, RecoveringWritesLive, RecoveredIsAFile DEF LiveTyped
    <2>2. GraphTyped'
      BY <1>11, <2>1 DEF Sync, Recover, Projected, GraphTyped, LiveTyped, FileType
    <2>3. RequestTyped'
      BY <1>11 DEF Sync, RequestTyped, ListedJournals
    <2>4. QED
      BY <1>11, <2>1, <2>2, <2>3 DEF Sync, SettledTyped, DraftTyped, JournalsTyped,
         ManifestsTyped, ManifestTyped, HolderTyped, ServerTyped
  <1>12. ASSUME NEW r \in Requests, Discard(r)
         PROVE  LibraryTypeOK'
    <2>1. JournalsTyped' /\ overlapped' \in BOOLEAN
      BY <1>12 DEF Discard, JournalsTyped, NoJournal
    <2>2. QED
      BY <1>12, <1>q, <2>1 DEF Discard, LiveTyped, SettledTyped, GraphTyped, DraftTyped,
         ManifestsTyped, ManifestTyped, HolderTyped, ServerTyped
  <1>13. CASE LeaseExpires
    <2>1. DraftTyped'
      BY <1>13 DEF LeaseExpires, DraftTyped
    <2>2. QED
      BY <1>13, <2>1 DEF LeaseExpires, LiveTyped, SettledTyped, GraphTyped, JournalsTyped,
         ManifestsTyped, ManifestTyped, RequestTyped, HolderTyped, ServerTyped
  <1>14. CASE Startup
    <2>1. LiveTyped'
      BY <1>14, RecoveringWritesLive, RecoveredIsAFile DEF LiveTyped
    <2>2. GraphTyped'
      BY <1>14, <2>1 DEF Startup, Recover, Projected, GraphTyped, LiveTyped, FileType
    <2>3. JournalsTyped' /\ ServerTyped'
      BY <1>14 DEF Startup, JournalsTyped, NoJournal, ServerTyped
    <2>4. QED
      BY <1>14, <2>1, <2>2, <2>3 DEF Startup, SettledTyped, DraftTyped, ManifestsTyped,
         ManifestTyped, RequestTyped, HolderTyped
  <1>15. CASE LibraryCrash
    <2>1. RequestTyped'
      <3>1. ASSUME NEW r \in Requests
            PROVE  [request[r] EXCEPT !.at = "done", !.found = {}] \in
                     [kind : {"none", "patch", "install", "approve", "sync"},
                      at : {"idle", "reserved", "prepared", "publishing", "finalizing",
                            "discarding", "done"},
                      found : SUBSET Requests]
        <4>1. request[r] \in
                [kind : {"none", "patch", "install", "approve", "sync"},
                 at : {"idle", "reserved", "prepared", "publishing", "finalizing",
                       "discarding", "done"},
                 found : SUBSET Requests]
          BY DEF RequestTyped
        <4>2. {} \in SUBSET Requests
          OBVIOUS
        <4>3. QED
          BY ONLY <4>1, <4>2
      <3>2. request' = [r \in Requests |-> IF request[r].at = "idle" THEN request[r]
                          ELSE [request[r] EXCEPT !.at = "done", !.found = {}]]
        BY <1>15 DEF LibraryCrash
      <3>3. QED
        BY <3>1, <3>2 DEF RequestTyped
    <2>2. ServerTyped' /\ overlapped' \in BOOLEAN
      <3>1. /\ server.up \in BOOLEAN /\ server.crashes \in Nat /\ server.edits \in 0..MaxEdits
            /\ MaxLibCrashes \in Nat
        BY LibraryBounds DEF ServerTyped
      <3>2. server' = [server EXCEPT !.up = FALSE, !.crashes = @ + 1]
              /\ server.crashes < MaxLibCrashes
              /\ overlapped' = (overlapped \/ Contested)
        BY <1>15 DEF LibraryCrash
      <3>3. overlapped' \in BOOLEAN
        BY <3>2, Zenon
      <3>4. server.crashes + 1 \in 0..MaxLibCrashes
        BY <3>1, <3>2
      <3>5. QED
        BY <3>1, <3>2, <3>3, <3>4 DEF ServerTyped
    <2>3. QED
      BY <1>15, <1>h, <2>1, <2>2 DEF LibraryCrash, LiveTyped, SettledTyped, GraphTyped,
         DraftTyped, JournalsTyped, ManifestsTyped, ManifestTyped
  <1>16. ASSUME NEW f \in Files, Edit(f)
         PROVE  LibraryTypeOK'
    <2>1. LiveTyped'
      <3>1. PICK inode \in {live[f].inode, "nobody"} :
              live' = [live EXCEPT ![f] = [text |-> "edited", inode |-> inode]]
        BY <1>16 DEF Edit
      <3>2. inode \in Requests \cup {"nobody"}
        BY <3>1 DEF LiveTyped, FileType
      <3>3. QED
        BY <3>1, <3>2 DEF LiveTyped, FileType, Texts
    <2>2. SettledTyped'
      BY <1>16 DEF Edit, SettledTyped, Texts
    <2>3. ServerTyped' /\ overlapped' \in BOOLEAN
      BY <1>16, LibraryBounds DEF Edit, ServerTyped
    <2>4. QED
      BY <1>16, <2>1, <2>2, <2>3 DEF Edit, GraphTyped, DraftTyped, JournalsTyped,
         ManifestsTyped, ManifestTyped, RequestTyped, HolderTyped
  <1>17. QED
    BY <1>1, <1>2, <1>3, <1>4, <1>5, <1>6, <1>7, <1>8, <1>9, <1>10, <1>11, <1>12, <1>13,
       <1>14, <1>15, <1>16 DEF LibraryNext


-----------------------------------------------------------------------------
(* The steps keep requests and lock in step. *)

LEMMA PrepareKeepsRequests ==
  ASSUME LibraryInv, NEW r \in Requests, NEW kind \in {"patch", "install", "approve"},
         NEW files \in SUBSET Files, NEW text \in Texts, Prepare(r, kind, files, text),
         request[r].at \in {"idle", "reserved"}, server.up,
         IF kind = "patch" THEN text \in {r, "original"} ELSE text = "import" /\ files = Files,
         kind = "approve" => \A f \in Files : live[f] = NoFile,
         NEW q \in Requests
  PROVE  RequestInStep(q)'
  <1> USE TypeParts DEF AllTyped, LibraryInv
  <1>1. request' = [request EXCEPT ![r] = [kind |-> kind, at |-> "prepared", found |-> {}]]
          /\ manifests' = [manifests EXCEPT ![r] =
                       [f \in files |-> [expected |-> live[f].text, new |-> text]]]
          /\ UNCHANGED <<holder, markers, server>>
    BY DEF Prepare
  <1>2. RequestInStep(q) /\ RequestInStep(r)
    OBVIOUS
  <1>3. CASE q = r
    <2>1. request'[r].at = "prepared" /\ request'[r].kind = kind
      BY <1>1 DEF RequestTyped
    <2>2. manifests'[r] = [f \in files |-> [expected |-> live[f].text, new |-> text]]
      BY <1>1 DEF ManifestsTyped
    <2>3. \A f \in files : EntryInStep(r, f)'
      BY <2>1, <2>2, LibraryBounds DEF EntryInStep, Old, New, NoFile, Words
    <2>4. QED
      BY <1>1, <1>2, <1>3, <2>1, <2>2, <2>3 DEF RequestInStep
  <1>4. CASE q # r
    <2>1. request'[q] = request[q] /\ manifests'[q] = manifests[q]
      BY <1>1, <1>4 DEF RequestTyped, ManifestsTyped
    <2>2. QED
      BY <1>1, <1>2, <2>1 DEF RequestInStep, EntryInStep, Old, New
  <1>5. QED
    BY <1>3, <1>4

LEMMA RequestsAreKept ==
  ASSUME LibraryInv, LibraryNext, NEW q \in Requests
  PROVE  RequestInStep(q)'
  <1> USE TypeParts DEF AllTyped, LibraryInv
  <1>0. RequestInStep(q) /\ "nobody" \notin Requests
    BY LibraryBounds DEF Words
  <1>e. ASSUME UNCHANGED <<manifests, request, holder, markers, server>>
        PROVE  RequestInStep(q)'
    BY <1>0, <1>e DEF RequestInStep, EntryInStep, Old, New
  <1>d. ASSUME NEW r \in Requests, Done(r), UNCHANGED <<manifests, markers, server>>,
               holder' = (IF holder.by = r THEN Free ELSE holder)
        PROVE  RequestInStep(q)'
    <2>1. CASE q = r
      <3>1. request'[r].at = "done" /\ request'[r].kind = request[r].kind
        BY <1>d DEF Done, RequestTyped
      <3>2. holder'.by # r
        BY <1>0, <1>d DEF Free
      <3>3. QED
        BY <1>0, <1>d, <2>1, <3>1, <3>2 DEF RequestInStep, EntryInStep, Old, New
    <2>2. CASE q # r
      <3>1. request'[q] = request[q] /\ (holder'.by = q <=> holder.by = q)
        BY <1>0, <1>d, <2>2 DEF Done, RequestTyped, Free
      <3>2. QED
        BY <1>0, <1>d, <3>1 DEF RequestInStep, EntryInStep, Old, New
    <2>3. QED
      BY <2>1, <2>2
  <1>1. ASSUME NEW r \in Requests, PreparePatch(r) \/ PrepareInstall(r)
        PROVE  RequestInStep(q)'
    BY <1>1, PrepareKeepsRequests DEF PreparePatch, PrepareInstall, Publishes, Unserved, Texts
  <1>2. ASSUME NEW r \in Requests, PrepareApproval(r)
        PROVE  RequestInStep(q)'
    <2>1. CASE Prepare(r, "approve", Files, "import") /\ \A f \in Files : live[f] = NoFile
      BY <1>2, <2>1, PrepareKeepsRequests DEF PrepareApproval, Texts
    <2>2. CASE Done(r) /\ UNCHANGED <<manifests, holder, markers, server>>
      <3>1. holder.by # r
        BY <1>2 DEF PrepareApproval, RequestInStep
      <3>2. QED
        BY <1>d, <2>2, <3>1
    <2>3. QED
      BY <1>2, <2>1, <2>2 DEF PrepareApproval
  <1>3. ASSUME NEW r \in Requests, Reserve(r)
        PROVE  RequestInStep(q)'
    BY <1>0, <1>3 DEF Reserve, Publishes, Unserved, RequestInStep, EntryInStep, Old, New, RequestTyped
  <1>4. ASSUME NEW r \in Requests, Enter(r)
        PROVE  RequestInStep(q)'
    <2>1. CASE Done(r) /\ UNCHANGED holder
      <3>1. holder.by # r
        BY <1>4 DEF Enter, RequestInStep
      <3>2. QED
        BY <1>4, <1>d, <2>1, <3>1 DEF Enter
    <2>2. CASE /\ LockFree /\ holder' = [by |-> r, aside |-> {}, placed |-> {}]
               /\ request' = [request EXCEPT ![r].at = "publishing"]
      BY <1>0, <1>4, <2>2 DEF Enter, LockFree, RequestInStep, EntryInStep, Old, New, RequestTyped
    <2>3. QED
      BY <1>4, <2>1, <2>2 DEF Enter
  <1>5. ASSUME NEW r \in Requests, GuardRejects(r) \/ Finalize(r)
        PROVE  RequestInStep(q)'
    <2>1. holder.by # r
      BY <1>5 DEF GuardRejects, Finalize, RequestInStep
    <2>2. QED
      BY <1>5, <1>d, <2>1 DEF GuardRejects, Finalize
  <1>6. ASSUME NEW r \in Requests, NEW f \in Files, MoveAside(r, f) \/ Place(r, f)
        PROVE  RequestInStep(q)'
    <2>1. holder'.by = holder.by /\ UNCHANGED <<manifests, request, markers, server>>
      BY <1>6 DEF MoveAside, Place, HolderTyped
    <2>2. QED
      BY <1>0, <2>1 DEF RequestInStep, EntryInStep, Old, New
  <1>8. ASSUME NEW r \in Requests, NEW f \in Files, PublishFails(r, f)
        PROVE  RequestInStep(q)'
    BY <1>8, <1>d DEF PublishFails, Publishing
  <1>9. ASSUME NEW r \in Requests, Commit(r)
        PROVE  RequestInStep(q)'
    BY <1>0, <1>9 DEF Commit, Publishing, Free, RequestInStep, EntryInStep, Old, New, RequestTyped
  <1>10. ASSUME NEW r \in Requests, CommitFails(r)
         PROVE  RequestInStep(q)'
    BY <1>10, <1>d DEF CommitFails, Publishing
  <1>11. ASSUME NEW r \in Requests, Sync(r)
         PROVE  RequestInStep(q)'
    <2>1. PICK at \in {"discarding", "done"}, found \in SUBSET Requests :
            request' = [request EXCEPT ![r] = [kind |-> "sync", at |-> at, found |-> found]]
      BY <1>11 DEF Sync, ListedJournals
    <2>2. request[r].at = "idle" /\ UNCHANGED <<manifests, holder, markers, server>> /\ server.up
      BY <1>11 DEF Sync, Unserved
    <2>3. QED
      BY <1>0, <2>1, <2>2 DEF RequestInStep, EntryInStep, Old, New, RequestTyped
  <1>12. ASSUME NEW r \in Requests, Discard(r)
         PROVE  RequestInStep(q)'
    <2>1. holder.by # r
      BY <1>12 DEF Discard, RequestInStep
    <2>2. QED
      BY <1>12, <1>d, <2>1 DEF Discard
  <1>13. CASE LeaseExpires \/ \E f \in Files : Edit(f)
    BY <1>0, <1>13, <1>e DEF LeaseExpires, Edit, RequestInStep, EntryInStep, Old, New, ServerTyped
  <1>14. CASE Startup
    BY <1>0, <1>14 DEF Startup, RequestInStep, EntryInStep, Old, New, ServerTyped
  <1>15. CASE LibraryCrash
    <2>1. request'[q] = IF request[q].at = "idle" THEN request[q]
                        ELSE [request[q] EXCEPT !.at = "done", !.found = {}]
      BY <1>15 DEF LibraryCrash
    <2>2. request'[q].kind = request[q].kind
            /\ request'[q].at = IF request[q].at = "idle" THEN "idle" ELSE "done"
      BY <2>1 DEF RequestTyped
    <2>3. holder'.by # q /\ UNCHANGED <<manifests, markers>>
      BY <1>0, <1>15 DEF LibraryCrash, Free
    <2>4. QED
      BY <1>0, <2>2, <2>3 DEF RequestInStep, EntryInStep, Old, New
  <1>17. QED
    BY <1>1, <1>2, <1>3, <1>4, <1>5, <1>6, <1>8, <1>9, <1>10, <1>11, <1>12, <1>13,
       <1>14, <1>15 DEF LibraryNext


LEMMA HolderIsKept ==
  ASSUME LibraryInv, LibraryNext
  PROVE  HolderInStep'
  <1> USE TypeParts DEF AllTyped, LibraryInv
  <1>0. HolderInStep /\ "nobody" \notin Requests
    BY LibraryBounds DEF Words
  <1>e. ASSUME UNCHANGED <<holder, live>>, server'.up = server.up,
               \A r \in Requests : holder.by = r => manifests'[r] = manifests[r]
        PROVE  HolderInStep'
    BY <1>0, <1>e DEF HolderInStep, Creates, Free
  <1>f. ASSUME holder' = Free
        PROVE  HolderInStep'
    BY <1>0, <1>f DEF HolderInStep, Free
  <1>1. ASSUME NEW r \in Requests, PreparePatch(r) \/ PrepareInstall(r) \/ PrepareApproval(r)
        PROVE  HolderInStep'
    <2>1. holder.by # r /\ UNCHANGED <<holder, live, server>>
      BY <1>1 DEF PreparePatch, PrepareInstall, PrepareApproval, Prepare, Publishes, Unserved,
         RequestInStep
    <2>2. \A q \in Requests : q # r => manifests'[q] = manifests[q]
      BY <1>1 DEF PreparePatch, PrepareInstall, PrepareApproval, Prepare, ManifestsTyped
    <2>3. QED
      BY <1>e, <2>1, <2>2
  <1>2. ASSUME NEW r \in Requests, Reserve(r) \/ GuardRejects(r) \/ Finalize(r) \/ Discard(r)
        PROVE  HolderInStep'
    BY <1>2, <1>e DEF Reserve, GuardRejects, Finalize, Discard
  <1>4. ASSUME NEW r \in Requests, Enter(r)
        PROVE  HolderInStep'
    <2>1. CASE UNCHANGED holder
      BY <1>4, <1>e, <2>1 DEF Enter
    <2>2. CASE holder' = [by |-> r, aside |-> {}, placed |-> {}]
      BY <1>0, <1>4, <2>2 DEF Enter, HolderInStep
    <2>3. QED
      BY <1>4, <2>1, <2>2 DEF Enter
  <1>6. ASSUME NEW r \in Requests, NEW f \in Files, MoveAside(r, f)
        PROVE  HolderInStep'
    <2>1. /\ holder.by = r /\ server.up /\ ~Creates(r, f) /\ f \in DOMAIN manifests[r]
          /\ live' = [live EXCEPT ![f] = NoFile]
          /\ holder' = [holder EXCEPT !.aside = @ \cup {f}]
          /\ UNCHANGED <<manifests, server>>
      BY <1>6 DEF MoveAside, Publishing, NextEntry, Unplaced
    <2>2. /\ holder'.by = r /\ holder'.aside = holder.aside \cup {f}
          /\ holder'.placed = holder.placed
      BY <2>1 DEF HolderTyped
    <2>3. \A g \in holder'.aside \ holder'.placed : live'[g] = NoFile
      BY <1>0, <2>1, <2>2 DEF HolderInStep, LiveTyped, HolderTyped
    <2>4. QED
      BY <1>0, <2>1, <2>2, <2>3 DEF HolderInStep, Creates
  <1>7. ASSUME NEW r \in Requests, NEW f \in Files, Place(r, f)
        PROVE  HolderInStep'
    <2>1. /\ holder.by = r /\ server.up /\ f \in DOMAIN manifests[r]
          /\ live' = [live EXCEPT ![f] = [text |-> manifests[r][f].new, inode |-> r]]
          /\ holder' = [holder EXCEPT !.placed = @ \cup {f}]
          /\ UNCHANGED <<manifests, server>>
      BY <1>7 DEF Place, Publishing, NextEntry, Unplaced
    <2>2. /\ holder'.by = r /\ holder'.aside = holder.aside
          /\ holder'.placed = holder.placed \cup {f}
      BY <2>1 DEF HolderTyped
    <2>3. \A g \in holder'.aside \ holder'.placed : live'[g] = NoFile
      BY <1>0, <2>1, <2>2 DEF HolderInStep, LiveTyped, HolderTyped
    <2>4. QED
      BY <1>0, <2>1, <2>2, <2>3 DEF HolderInStep, Creates
  <1>8. ASSUME NEW r \in Requests,
               Commit(r) \/ CommitFails(r) \/ \E f \in Files : PublishFails(r, f)
        PROVE  HolderInStep'
    BY <1>8, <1>f DEF PublishFails, Commit, CommitFails
  <1>11. ASSUME NEW r \in Requests, Sync(r)
         PROVE  HolderInStep'
    <2>1. holder' = Free
      BY <1>0, <1>11 DEF Sync, LockFree, HolderInStep
    <2>2. QED
      BY <1>f, <2>1
  <1>13. CASE LeaseExpires
    BY <1>13, <1>e DEF LeaseExpires
  <1>14. CASE Startup
    BY <1>0, <1>14, <1>f DEF Startup, HolderInStep
  <1>15. CASE LibraryCrash
    BY <1>15, <1>f DEF LibraryCrash
  <1>16. ASSUME NEW f \in Files, Edit(f)
         PROVE  HolderInStep'
    <2>1. /\ live[f] # NoFile /\ UNCHANGED <<holder, manifests>> /\ server'.up = server.up
          /\ \A g \in Files : g # f => live'[g] = live[g]
      BY <1>16 DEF Edit, LiveTyped, ServerTyped
    <2>2. QED
      BY <1>0, <2>1 DEF HolderInStep, Creates, Free, HolderTyped
  <1>17. QED
    BY <1>1, <1>2, <1>4, <1>6, <1>7, <1>8, <1>11, <1>13, <1>14, <1>15, <1>16 DEF LibraryNext

LEMMA LibrarySteps == LibraryInv /\ [LibraryNext]_libraryVars => LibraryInv'
  <1>1. CASE LibraryInv /\ LibraryNext
    BY <1>1, TypesAreKept, RequestsAreKept, HolderIsKept DEF LibraryInv
  <1>2. CASE LibraryInv /\ UNCHANGED libraryVars
    BY <1>2 DEF libraryVars, LibraryInv, LibraryTypeOK, RequestInStep, EntryInStep, Old, New,
       HolderInStep, Creates
  <1>3. QED
    BY <1>1, <1>2

THEOREM LibraryInvariance == LibrarySpec => []LibraryInv
  <1>1. QED
    BY LibraryStarts, LibrarySteps, PTL DEF LibrarySpec

(* LibraryTypeOK: every file, text, request and journal is of its kind,    *)
(* and only files a publication names are ever aside or placed.            *)
THEOREM LibraryIsTyped == LibrarySpec => []LibraryTypeOK
  <1>1. LibraryInv => LibraryTypeOK
    BY DEF LibraryInv
  <1>2. QED
    BY <1>1, LibraryInvariance, PTL

-----------------------------------------------------------------------------
(* Edits. *)

(* An edit is not what a rollback takes for the publication's own file. *)
LEMMA EditIsNotOwned ==
  ASSUME LibraryInv, NEW r \in Requests, NEW f \in DOMAIN manifests[r],
         live[f].text = "edited"
  PROVE  ~StillOwned(r, f)
  <1>1. New(r, f) \in {r, "original", "import"} /\ r # "edited"
    BY LibraryBounds DEF LibraryInv, RequestInStep, EntryInStep, Words
  <1>2. QED
    BY <1>1 DEF StillOwned, New

(* A rollback leaves it. *)
LEMMA RollbackKeepsEdits ==
  ASSUME LibraryInv, NEW r \in Requests, NEW S, S \subseteq DOMAIN manifests[r],
         NEW f \in Files, live[f].text = "edited"
  PROVE  RollbackOf(r, S)[f] = live[f]
  <1>1. CASE f \in S
    <2>1. ~StillOwned(r, f) /\ live[f] # NoFile
      BY <1>1, EditIsNotOwned DEF NoFile
    <2>2. QED
      BY <1>1, <2>1 DEF RollbackOf, RolledBack
  <1>2. CASE f \notin S
    BY <1>2 DEF RollbackOf
  <1>3. QED
    BY <1>1, <1>2

(* A recovery leaves it, too, unless a committed publication replaces it.  *)
LEMMA RecoveryKeepsEdits ==
  ASSUME LibraryInv, NEW f \in Files, NEW order \in Listings, live[f].text = "edited",
         ~ \E r \in markers : f \in DOMAIN manifests[r] /\ Old(r, f) = "edited"
  PROVE  RecoveredFile(f, order) = live[f]
  <1>1. PICK n \in Nat : /\ Len(order) = n
                         /\ \A i \in 1..n : order[i] \in ListedJournals
    BY ListingIsFull
  <1> DEFINE Stage == [i \in 0..n |-> {live[f]}]
  <1>2. ASSUME NEW i \in 1..n, NEW file \in Stage[i - 1]
        PROVE  RecoveredBy(order[i], f, file) \in Stage[i]
    <2> DEFINE r == order[i]
    <2>1. r \in Requests /\ file = live[f] /\ i \in 0..n
      BY <1>1, <1>2 DEF ListedJournals
    <2> HIDE DEF r
    <2>2. RecoveredBy(r, f, file) = live[f]
      <3>1. CASE f \notin DOMAIN manifests[r]
        BY <2>1, <3>1 DEF RecoveredBy
      <3>2. CASE f \in DOMAIN manifests[r] /\ Committed(r)
        <4>1. r \in markers /\ Old(r, f) # "edited"
          BY <3>2 DEF Committed
        <4>2. QED
          BY <2>1, <3>2, <4>1 DEF RecoveredBy, RolledForward, Old
      <3>3. CASE f \in DOMAIN manifests[r] /\ ~Committed(r)
        <4>1. ~StillOwned(r, f) /\ file # NoFile
          BY <2>1, <3>3, EditIsNotOwned DEF NoFile
        <4>2. QED
          BY <2>1, <3>3, <4>1 DEF RecoveredBy, RolledBack
      <3>4. QED
        BY <3>1, <3>2, <3>3
    <2>3. QED
      BY <2>1, <2>2 DEF r
  <1>3. live[f] \in Stage[0]
    OBVIOUS
  <1> HIDE DEF Stage
  <1>4. RecoveredFile(f, order) \in Stage[n]
    BY <1>1, <1>2, <1>3, RecoveredAlong
  <1>5. QED
    BY <1>4 DEF Stage

(* EditsSurvive: a text the operator saved gives way only to a publication *)
(* that was prepared from it and is at work or has committed, in every     *)
(* interleaving of publications, reconciles, crashes and edits.            *)
THEOREM EditsAreKept == LibrarySpec => EditsSurvive
  <1>1. ASSUME LibraryInv, [LibraryNext]_libraryVars, NEW f \in Files,
               live[f].text = "edited", live'[f].text # "edited"
        PROVE  \E r \in Requests : /\ holder.by = r \/ r \in markers
                                   /\ f \in DOMAIN manifests[r]
                                   /\ manifests[r][f].expected = "edited"
    <2> USE TypeParts DEF AllTyped
    <2>0. LiveTyped /\ HolderInStep /\ markers \subseteq Requests
      BY <1>1 DEF LibraryInv
    <2>1. ASSUME NEW r \in Requests, NEW g \in Files, MoveAside(r, g)
          PROVE  holder.by = r /\ f \in DOMAIN manifests[r] /\ Old(r, f) = "edited"
      <3>1. f = g
        BY <1>1, <2>0, <2>1 DEF MoveAside, LiveTyped
      <3>2. QED
        BY <1>1, <2>1, <3>1 DEF MoveAside, Publishing, NextEntry, Unplaced, StillExpected, Old
    <2>2. ASSUME NEW r \in Requests, NEW g \in Files, Place(r, g)
          PROVE  FALSE
      <3>1. f = g
        BY <1>1, <2>0, <2>2 DEF Place, LiveTyped
      <3>2. live[g] = NoFile
        BY <2>0, <2>2 DEF Place, NextEntry, Unplaced, HolderInStep
      <3>3. QED
        BY <1>1, <3>1, <3>2 DEF NoFile
    <2>3. ASSUME NEW r \in Requests, NEW g \in Files, PublishFails(r, g)
          PROVE  FALSE
      <3>1. holder.aside \cup holder.placed \subseteq DOMAIN manifests[r]
        BY <2>0, <2>3 DEF PublishFails, Publishing, HolderInStep
      <3>2. QED
        BY <1>1, <2>3, <3>1, RollbackKeepsEdits DEF PublishFails
    <2>4. ASSUME NEW r \in Requests, CommitFails(r)
          PROVE  FALSE
      BY <1>1, <2>4, RollbackKeepsEdits DEF CommitFails
    <2>5. ASSUME Startup \/ \E r \in Requests : Sync(r)
          PROVE  \E r \in markers : f \in DOMAIN manifests[r] /\ Old(r, f) = "edited"
      <3>1. PICK order \in Listings : live'[f] = RecoveredFile(f, order)
        BY <2>5, RecoveringWritesLive
      <3>2. QED
        BY <1>1, <3>1, RecoveryKeepsEdits
    <2>6. ASSUME NEW g \in Files, Edit(g)
          PROVE  FALSE
      BY <1>1, <2>0, <2>6 DEF Edit, LiveTyped
    <2>7. LibraryNext
      BY <1>1 DEF libraryVars
    <2>8. \/ \E r \in Requests, g \in Files : MoveAside(r, g) \/ Place(r, g) \/ PublishFails(r, g)
          \/ \E r \in Requests : CommitFails(r) \/ Sync(r)
          \/ Startup \/ \E g \in Files : Edit(g)
      BY <1>1, <2>7, LiveWriters
    <2>9. QED
      BY <2>0, <2>1, <2>2, <2>3, <2>4, <2>5, <2>6, <2>8 DEF Old
  <1>2. LibraryInv /\ [LibraryNext]_libraryVars =>
          \A f \in Files :
            (live[f].text = "edited" /\ live'[f].text # "edited") =>
              \E r \in Requests : /\ holder.by = r \/ r \in markers
                                  /\ f \in DOMAIN manifests[r]
                                  /\ manifests[r][f].expected = "edited"
    BY <1>1
  <1>3. QED
    BY <1>2, LibraryInvariance, PTL DEF LibrarySpec, EditsSurvive


-----------------------------------------------------------------------------
(* What holds of a file while nothing met that recovery cannot undo. *)

(* The publications whose journal names the file, and those that can still *)
(* be undone.                                                              *)
Claims(f) == {r \in Requests : Held(r) /\ f \in DOMAIN manifests[r]}
Open(f) == Claims(f) \ markers

DraftOver == importDraft.status \in {"installed", "approved"}

(* A text somebody can have read while no publication was in the middle of *)
(* it: of no publication that has yet to commit.                           *)
Known(t) == /\ t \in Requests => t \in markers
            /\ t = "import" => DraftOver

(* A committed publication that has its journal: rolling it forward once   *)
(* more changes nothing, and nobody can bring back a text it would replace. *)
Replayable(q, f) ==
    /\ settled[f] # "absent"
    /\ Old(q, f) \in {settled[f], live[f].text} =>
         New(q, f) = Old(q, f) /\ Old(q, f) = settled[f]
    /\ Old(q, f) \in {"original", "absent"} \ {settled[f]} =>
         \A p \in Open(f) : Old(p, f) # settled[f]

(* Nobody is in the middle of the file: a rollback would leave it alone.   *)
AtRest(f) ==
    /\ live[f].text = settled[f]
    /\ \A r \in Open(f) : ~StillOwned(r, f) /\ (live[f] = NoFile => Old(r, f) = "absent")

(* The publication moved the file aside. *)
IsAside(r, f) ==
    /\ live[f] = NoFile /\ r \in Open(f)
    /\ Old(r, f) = settled[f] /\ settled[f] # "absent"

(* The publication placed the file. *)
IsPlaced(r, f) ==
    /\ r \in Open(f)
    /\ live[f] = [text |-> New(r, f), inode |-> r] /\ f \in journals[r].links
    /\ Old(r, f) = settled[f]
    /\ settled[f] = "absent" => \A q \in Open(f) : Old(q, f) = "absent"

(* The operator edited the file after it was placed. *)
IsEdited(f) ==
    /\ AtRest(f) /\ live[f].text = "edited"
    /\ \A q \in Claims(f) : Old(q, f) # "edited"

FileAtWork(f) ==
    /\ f \notin holder.aside \cup holder.placed => AtRest(f)
    /\ f \in holder.aside \ holder.placed => IsAside(holder.by, f)
    /\ f \in holder.placed => IsPlaced(holder.by, f) \/ IsEdited(f)

(* What a crash leaves for the startup to recover. *)
FileLeft(f) ==
    \/ AtRest(f)
    \/ \E r \in Requests : IsAside(r, f) /\ Claims(f) = {r}
    \/ \E r \in Requests : IsPlaced(r, f)

FileInStep(f) ==
    /\ Known(settled[f])
    /\ live[f].text = "absent" => live[f] = NoFile
    /\ \A r \in Claims(f) : Known(Old(r, f))
    /\ \A q \in Claims(f) \cap markers : Replayable(q, f)
    /\ IF server.up THEN FileAtWork(f) ELSE FileLeft(f)

(* An import installs every file, and once. *)
DraftInStep ==
    /\ DraftOver => \A f \in Files : settled[f] # "absent"
    /\ \A r \in Requests : (holder.by = r /\ request[r].kind = "install") => ~DraftOver

JournalsInStep ==
    \A r \in Requests : request[r].at \in {"prepared", "publishing"} => Held(r)

Sound == JournalsInStep /\ DraftInStep /\ \A f \in Files : FileInStep(f)

SoundUnlessOverlapped == ~overlapped => Sound

LEMMA NamesDiffer ==
  /\ Requests \cap Words = {}
  /\ \A r \in Requests : r \notin {"original", "import", "edited", "absent", "deprecated",
                                   "nobody"}
  BY LibraryBounds DEF Words

LEMMA SoundStarts == LibraryInit => Sound
  <1> SUFFICES ASSUME LibraryInit
               PROVE  Sound
    OBVIOUS
  <1> USE DEF LibraryInit
  <1>1. \A f \in Files : settled[f] \in {"original", "absent"}
                           /\ live[f] = [text |-> settled[f], inode |-> "nobody"]
    OBVIOUS
  <1>2. \A f \in Files : Claims(f) = {} /\ Open(f) = {}
    BY DEF Claims, Open, Held, NoJournal
  <1>3. \A f \in Files : FileInStep(f)
    BY <1>1, <1>2, NamesDiffer DEF FileInStep, Known, FileAtWork, AtRest, Free, NoFile
  <1>4. QED
    BY <1>3, NamesDiffer DEF Sound, JournalsInStep, DraftInStep, DraftOver, Free

(* A step that touches neither the file nor what its publications rely on  *)
(* keeps the file in step.                                                 *)
LEMMA FileIsKept ==
  ASSUME NEW f \in Files, FileInStep(f), server'.up = server.up,
         live'[f] = live[f], settled'[f] = settled[f],
         markers \subseteq markers', DraftOver => DraftOver',
         \A r \in Claims(f)' : /\ r \in Claims(f) /\ manifests'[r] = manifests[r]
                               /\ f \in journals'[r].links <=> f \in journals[r].links
                               /\ r \in markers' => r \in markers,
         \A r \in Claims(f) : holder.by = r \/ ~server.up => r \in Claims(f)',
         f \in holder.aside \cup holder.placed => holder'.by = holder.by,
         f \in holder'.aside <=> f \in holder.aside,
         f \in holder'.placed <=> f \in holder.placed
  PROVE  FileInStep(f)'
  <1>1. \A r \in Open(f)' : r \in Open(f)
    BY DEF Open
  <1>2. \A r \in Claims(f)' : Old(r, f)' = Old(r, f) /\ New(r, f)' = New(r, f)
    BY DEF Old, New
  <1>3. \A t : Known(t) => Known(t)'
    BY DEF Known
  <1>4. \A r \in Open(f)' : StillOwned(r, f)' => StillOwned(r, f)
    BY <1>1 DEF StillOwned, Open, Claims
  <1>5. AtRest(f) => AtRest(f)'
    BY <1>1, <1>2, <1>4 DEF AtRest, Open
  <1>6. ASSUME NEW r \in Requests, r \in Claims(f)'
        PROVE  /\ IsAside(r, f) => IsAside(r, f)'
               /\ IsPlaced(r, f) => IsPlaced(r, f)'
    <2>1. r \in Open(f) => r \in Open(f)'
      BY <1>6 DEF Open
    <2>2. QED
      BY <1>1, <1>2, <1>6, <2>1 DEF IsAside, IsPlaced, Open
  <1>7. IsEdited(f) => IsEdited(f)'
    BY <1>2, <1>5 DEF IsEdited
  <1>8. \A q \in Claims(f)' \cap markers' : Replayable(q, f)'
    <2>1. ASSUME NEW q \in Claims(f)' \cap markers'
          PROVE  Replayable(q, f)'
      <3>1. q \in Claims(f) \cap markers /\ Replayable(q, f)
        BY <2>1 DEF FileInStep
      <3>2. QED
        BY <1>1, <1>2, <2>1, <3>1 DEF Replayable, Open
    <2>2. QED
      BY <2>1
  <1>9. server.up => FileAtWork(f)'
    <2>1. SUFFICES ASSUME server.up
                   PROVE  FileAtWork(f)'
      OBVIOUS
    <2>2. FileAtWork(f)
      BY <2>1 DEF FileInStep
    <2>3. \A r \in Requests : r \in Open(f) => r \in Claims(f)
      BY DEF Open
    <2>4. (IsAside(holder.by, f) \/ IsPlaced(holder.by, f)) =>
            holder.by \in Claims(f)' /\ holder.by \in Requests
      BY DEF IsAside, IsPlaced, Open, Claims
    <2>5. QED
      BY <1>5, <1>6, <1>7, <2>2, <2>4 DEF FileAtWork
  <1>10. ~server.up => FileLeft(f)'
    <2>1. SUFFICES ASSUME ~server.up
                   PROVE  FileLeft(f)'
      OBVIOUS
    <2>2. FileLeft(f)
      BY <2>1 DEF FileInStep
    <2>3. Claims(f)' = Claims(f)
      BY <2>1
    <2>4. CASE AtRest(f)
      BY <1>5, <2>4 DEF FileLeft
    <2>5. CASE \E r \in Requests : IsAside(r, f) /\ Claims(f) = {r}
      <3>1. PICK r \in Requests : IsAside(r, f) /\ Claims(f) = {r}
        BY <2>5
      <3>2. IsAside(r, f)' /\ Claims(f)' = {r}
        BY <1>6, <2>3, <3>1
      <3>3. QED
        BY <3>2 DEF FileLeft
    <2>6. CASE \E r \in Requests : IsPlaced(r, f)
      <3>1. PICK r \in Requests : IsPlaced(r, f)
        BY <2>6
      <3>2. r \in Claims(f)'
        BY <2>3, <3>1 DEF IsPlaced, Open
      <3>3. IsPlaced(r, f)'
        BY <1>6, <3>1, <3>2
      <3>4. QED
        BY <3>3 DEF FileLeft
    <2>7. QED
      BY <2>2, <2>4, <2>5, <2>6 DEF FileLeft
  <1>11. \A r \in Claims(f)' : Known(Old(r, f))'
    BY <1>2, <1>3 DEF FileInStep
  <1>12. QED
    BY <1>3, <1>8, <1>9, <1>10, <1>11 DEF FileInStep


(* A publication prepared from a file nobody is in the middle of. *)
LEMMA FileIsPrepared ==
  ASSUME LibraryInv, NEW r \in Requests, NEW kind, NEW files \in SUBSET Files, NEW text,
         Prepare(r, kind, files, text), UNCHANGED importDraft,
         request[r].at \in {"idle", "reserved"}, server.up,
         NEW f \in files, FileInStep(f), ~Unfinished(f)
  PROVE  FileInStep(f)'
  <1> USE TypeParts DEF AllTyped
  <1>0. /\ UNCHANGED <<live, settled, markers, holder, server, importDraft>>
        /\ journals'[r] = [state |-> "held", links |-> {}]
        /\ manifests'[r] = [g \in files |-> [expected |-> live[g].text, new |-> text]]
        /\ \A q \in Requests : q # r =>
             journals'[q] = journals[q] /\ manifests'[q] = manifests[q]
    BY DEF Prepare, LibraryInv, JournalsTyped, ManifestsTyped
  <1>1. AtRest(f) /\ f \notin holder.aside \cup holder.placed
    BY DEF Unfinished, FileInStep, FileAtWork
  <1>2. r \notin markers /\ Claims(f) \cap markers = {}
    BY DEF LibraryInv, RequestInStep, Unfinished, Claims
  <1>3. Old(r, f)' = settled[f] /\ f \notin journals'[r].links
    BY <1>0, <1>1 DEF Old, AtRest
  <1>4. ASSUME NEW q \in Claims(f)', q # r
        PROVE  /\ q \in Claims(f) /\ Old(q, f)' = Old(q, f)
               /\ StillOwned(q, f)' => StillOwned(q, f)
    BY <1>0, <1>4 DEF Claims, Held, Old, StillOwned
  <1>5. Claims(f)' \cap markers' = {}
    BY <1>0, <1>2, <1>4
  <1>6. AtRest(f)'
    <2>1. live'[f].text = settled'[f]
      BY <1>0, <1>1 DEF AtRest
    <2>2. ASSUME NEW q \in Open(f)'
          PROVE  ~StillOwned(q, f)' /\ (live'[f] = NoFile => Old(q, f)' = "absent")
      <3>1. CASE q = r
        BY <1>0, <1>1, <1>3, <3>1 DEF StillOwned, AtRest, NoFile
      <3>2. CASE q # r
        BY <1>0, <1>1, <1>4, <2>2, <3>2 DEF Open, AtRest
      <3>3. QED
        BY <3>1, <3>2
    <2>3. QED
      BY <2>1, <2>2 DEF AtRest
  <1>7. \A q \in Claims(f)' : Known(Old(q, f))'
    <2>1. \A t : Known(t)' <=> Known(t)
      BY <1>0 DEF Known, DraftOver
    <2>2. QED
      BY <1>3, <1>4, <2>1 DEF FileInStep
  <1>8. QED
    BY <1>0, <1>1, <1>5, <1>6, <1>7 DEF FileInStep, FileAtWork, Known, DraftOver

LEMMA FileIsMovedAside ==
  ASSUME LibraryInv, NEW r \in Requests, NEW f \in Files, MoveAside(r, f), Held(r),
         FileInStep(f)
  PROVE  FileInStep(f)'
  <1> USE TypeParts DEF AllTyped
  <1>0. /\ live'[f] = NoFile /\ holder'.by = r /\ holder.by = r
        /\ holder'.aside = holder.aside \cup {f} /\ holder'.placed = holder.placed
        /\ f \notin holder.aside \cup holder.placed /\ f \in DOMAIN manifests[r]
        /\ Old(r, f) # "absent" /\ live[f].text = Old(r, f)
        /\ UNCHANGED <<settled, markers, journals, manifests, server, importDraft>>
        /\ server.up
    BY DEF MoveAside, Publishing, NextEntry, Unplaced, Creates, StillExpected, Old,
       LibraryInv, LiveTyped, HolderTyped
  <1>1. AtRest(f) /\ r \in Open(f)
    BY <1>0 DEF FileInStep, FileAtWork, Open, Claims, LibraryInv, RequestInStep
  <1>2. /\ Old(r, f) = settled[f] /\ settled[f] # "absent"
        /\ Claims(f)' = Claims(f) /\ Open(f)' = Open(f)
        /\ \A q \in Requests : Old(q, f)' = Old(q, f) /\ New(q, f)' = New(q, f)
    BY <1>0, <1>1 DEF AtRest, Claims, Open, Held, Old, New
  <1>3. ASSUME NEW q \in Claims(f) \cap markers
        PROVE  Replayable(q, f)'
    <2>1. Replayable(q, f) /\ Old(q, f) # "absent"
      BY <1>1, <1>2 DEF FileInStep, Replayable
    <2>2. /\ q \in Requests /\ live'[f].text = "absent" /\ settled'[f] = settled[f]
          /\ \A p \in Open(f) : p \in Requests
      BY <1>0 DEF Claims, Open, NoFile
    <2>3. QED
      BY <1>2, <2>1, <2>2 DEF Replayable
  <1>4. IsAside(r, f)'
    BY <1>0, <1>1, <1>2 DEF IsAside
  <1>5. FileAtWork(f)'
    BY <1>0, <1>4 DEF FileAtWork
  <1>6. \A t : Known(t)' <=> Known(t)
    BY <1>0 DEF Known, DraftOver
  <1>7. \A q \in Claims(f)' : Known(Old(q, f))'
    BY <1>2, <1>6 DEF FileInStep, Claims
  <1>8. \A q \in Claims(f)' \cap markers' : Replayable(q, f)'
    BY <1>0, <1>2, <1>3
  <1>9. QED
    BY <1>0, <1>5, <1>6, <1>7, <1>8 DEF FileInStep

LEMMA FileIsPlaced ==
  ASSUME LibraryInv, NEW r \in Requests, NEW f \in Files, Place(r, f),
         FileInStep(f), DraftInStep
  PROVE  FileInStep(f)'
  <1> USE TypeParts DEF AllTyped
  <1>a. /\ live'[f] = [text |-> New(r, f), inode |-> r]
        /\ holder' = [holder EXCEPT !.placed = @ \cup {f}]
        /\ f \in holder.aside \/ (Old(r, f) = "absent" /\ live[f] = NoFile)
        /\ UNCHANGED <<settled, markers, manifests, server, importDraft>>
    BY DEF Place, Creates, Old, New, LibraryInv, LiveTyped
  <1>0. /\ holder'.by = r /\ holder.by = r
        /\ holder'.aside = holder.aside /\ holder'.placed = holder.placed \cup {f}
        /\ f \notin holder.placed /\ f \in DOMAIN manifests[r] /\ Held(r) /\ server.up
    BY <1>a DEF Place, Publishing, NextEntry, Unplaced, LibraryInv, HolderTyped
  <1>1. /\ \A q \in Requests : journals'[q].state = journals[q].state
        /\ f \in journals'[r].links
    BY DEF Place, LibraryInv, JournalsTyped
  <1>2. /\ Claims(f)' = Claims(f) /\ Open(f)' = Open(f)
        /\ \A q \in Requests : Old(q, f)' = Old(q, f) /\ New(q, f)' = New(q, f)
    BY <1>a, <1>0, <1>1 DEF Claims, Open, Held, Old, New
  <1>3. r \in Open(f) /\ New(r, f) \in {r, "original", "import"}
    BY <1>a, <1>0 DEF Open, Claims, LibraryInv, RequestInStep, EntryInStep
  <1>4. Old(r, f) = settled[f]
          /\ (settled[f] = "absent" => \A q \in Open(f) : Old(q, f) = "absent")
    <2>1. CASE f \in holder.aside
      BY <1>a, <1>0, <2>1 DEF FileInStep, FileAtWork, IsAside
    <2>2. CASE f \notin holder.aside
      BY <1>a, <1>0, <2>2 DEF FileInStep, FileAtWork, AtRest, NoFile
    <2>3. QED
      BY <2>1, <2>2
  <1>5. IsPlaced(r, f)'
    <2>1. \A q \in Open(f) : q \in Requests
      BY DEF Open, Claims
    <2>2. QED
      BY <1>a, <1>1, <1>2, <1>3, <1>4, <2>1 DEF IsPlaced
  <1>6. FileAtWork(f)'
    BY <1>a, <1>0, <1>5 DEF FileAtWork
  <1>7. ASSUME NEW q \in Claims(f) \cap markers
        PROVE  Replayable(q, f)'
    <2>1. Replayable(q, f)
      BY DEF FileInStep
    <2>2. ASSUME Old(q, f) = New(r, f)
          PROVE  New(q, f) = Old(q, f) /\ Old(q, f) = settled[f]
      <3>1. Known(Old(q, f)) /\ r \notin markers
        BY <1>3 DEF FileInStep, Open
      <3>2. CASE New(r, f) = r
        BY <2>2, <3>1, <3>2 DEF Known
      <3>3. CASE New(r, f) = "import"
        <4>1. DraftOver
          BY <2>2, <3>1, <3>3 DEF Known
        <4>2. request[r].kind \in {"install", "approve"}
          BY <1>a, <1>0, <3>3 DEF LibraryInv, RequestInStep, EntryInStep
        <4>3. settled[f] # "absent"
          BY <4>1 DEF DraftInStep
        <4>4. request[r].kind # "approve"
          BY <1>a, <1>0, <1>4, <4>3 DEF LibraryInv, RequestInStep, EntryInStep
        <4>5. QED
          BY <1>a, <1>0, <4>1, <4>2, <4>4 DEF DraftInStep
      <3>4. CASE New(r, f) = "original"
        BY <1>3, <1>4, <2>1, <2>2, <3>4 DEF Replayable
      <3>5. QED
        BY <1>3, <3>2, <3>3, <3>4
    <2>3. /\ live'[f].text = New(r, f) /\ settled'[f] = settled[f] /\ q \in Requests
          /\ \A p \in Open(f) : p \in Requests
      BY <1>a DEF Open, Claims
    <2>4. QED
      BY <1>2, <2>1, <2>2, <2>3 DEF Replayable
  <1>8. \A t : Known(t)' <=> Known(t)
    BY <1>a, <1>0 DEF Known, DraftOver
  <1>9. live'[f].text # "absent"
    BY <1>a, <1>0, <1>3, NamesDiffer
  <1>10. \A q \in Claims(f)' : Known(Old(q, f))'
    BY <1>2, <1>8 DEF FileInStep, Claims
  <1>11. \A q \in Claims(f)' \cap markers' : Replayable(q, f)'
    BY <1>a, <1>2, <1>7
  <1>12. QED
    BY <1>a, <1>0, <1>6, <1>8, <1>9, <1>10, <1>11 DEF FileInStep


LEMMA FileIsRolledBack ==
  ASSUME LibraryInv, NEW r \in Requests, holder.by = r, server.up, Held(r),
         NEW S, S \subseteq DOMAIN manifests[r], holder.aside \cup holder.placed \subseteq S,
         live' = RollbackOf(r, S), holder' = Free, DraftOver' <=> DraftOver,
         journals' \in {journals, [journals EXCEPT ![r] = NoJournal]},
         UNCHANGED <<settled, markers, manifests, server>>,
         NEW f \in Files, FileInStep(f)
  PROVE  FileInStep(f)'
  <1> USE TypeParts DEF AllTyped
  <1>1. r \notin markers /\ (f \in DOMAIN manifests[r] => r \in Open(f))
    BY DEF LibraryInv, RequestInStep, Open, Claims
  <1>2. ASSUME NEW q \in Claims(f)'
        PROVE  /\ q \in Claims(f) /\ q \in Requests /\ journals'[q] = journals[q]
               /\ Old(q, f)' = Old(q, f) /\ New(q, f)' = New(q, f)
    BY <1>2 DEF Claims, Held, NoJournal, LibraryInv, JournalsTyped, Old, New
  <1>3. \A q \in Open(f)' : q \in Open(f)
    BY <1>2 DEF Open
  <1>4. live'[f] = IF f \in S THEN RolledBack(r, f, live[f]) ELSE live[f]
    BY DEF RollbackOf
  <1>5. /\ live'[f].text = settled[f]
        /\ live'[f].text = "absent" => live'[f] = NoFile
        /\ live'[f] = live[f] \/ live'[f].inode = "nobody"
        /\ \A q \in Open(f) : /\ ~(live'[f] = live[f] /\ StillOwned(q, f))
                              /\ live'[f] = NoFile => Old(q, f) = "absent"
    <2>1. CASE AtRest(f)
      <3>1. f \in S => ~StillOwned(r, f) /\ (live[f] = NoFile => Old(r, f) = "absent")
        BY <1>1, <2>1 DEF AtRest
      <3>2. live'[f] = live[f]
        BY <1>4, <3>1 DEF RolledBack, Old
      <3>3. QED
        BY <2>1, <3>2 DEF AtRest, FileInStep
    <2>2. CASE f \in holder.aside \ holder.placed
      <3>1. IsAside(r, f) /\ f \in S
        BY <2>2 DEF FileInStep, FileAtWork
      <3>2. live'[f] = [text |-> Old(r, f), inode |-> "nobody"]
        BY <1>4, <3>1 DEF RolledBack, IsAside, Old
      <3>3. QED
        BY <3>1, <3>2, NamesDiffer DEF IsAside, NoFile
    <2>3. CASE IsPlaced(r, f) /\ f \in S
      <3>1. StillOwned(r, f)
        BY <2>3 DEF IsPlaced, StillOwned, New
      <3>2. live'[f] = IF Old(r, f) = "absent" THEN NoFile
                       ELSE [text |-> Old(r, f), inode |-> "nobody"]
        BY <1>4, <2>3, <3>1 DEF RolledBack, Old
      <3>3. live[f].inode = r /\ r # "nobody"
        BY <2>3, NamesDiffer DEF IsPlaced
      <3>4. QED
        BY <2>3, <3>2, <3>3 DEF IsPlaced, NoFile
    <2>4. QED
      BY <2>1, <2>2, <2>3 DEF FileInStep, FileAtWork, IsEdited
  <1>6. AtRest(f)'
    <2>1. ASSUME NEW q \in Open(f)'
          PROVE  ~StillOwned(q, f)' /\ (live'[f] = NoFile => Old(q, f)' = "absent")
      <3>1. q \in Open(f) /\ q \in Requests /\ journals'[q] = journals[q] /\ Old(q, f)' = Old(q, f)
        BY <1>2, <1>3, <2>1 DEF Open
      <3>2. live'[f] # live[f] => live'[f].inode # q
        BY <1>5, <3>1, NamesDiffer
      <3>3. StillOwned(q, f)' => live'[f].inode = q /\ (live'[f] = live[f] => StillOwned(q, f))
        BY <3>1 DEF StillOwned, Held
      <3>4. QED
        BY <1>5, <3>1, <3>2, <3>3
    <2>2. QED
      BY <1>5, <2>1 DEF AtRest
  <1>7. FileAtWork(f)'
    BY <1>6 DEF FileAtWork, Free
  <1>8. \A t : Known(t)' <=> Known(t)
    BY DEF Known
  <1>9. ASSUME NEW q \in Claims(f)' \cap markers'
        PROVE  Replayable(q, f)'
    <2>1. Replayable(q, f) /\ \A p \in Open(f)' : Old(p, f)' = Old(p, f) /\ p \in Open(f)
      BY <1>2, <1>3 DEF FileInStep, Open
    <2>2. QED
      BY <1>2, <1>5, <2>1 DEF Replayable
  <1>10. \A q \in Claims(f)' : Known(Old(q, f))'
    BY <1>2, <1>8 DEF FileInStep
  <1>11. QED
    BY <1>5, <1>7, <1>8, <1>9, <1>10 DEF FileInStep

LEMMA FileIsEdited ==
  ASSUME LibraryInv, NEW f \in Files, Edit(f), ~PutsBack(f), FileInStep(f)
  PROVE  FileInStep(f)'
  <1> USE TypeParts DEF AllTyped
  <1>1. /\ live[f] # NoFile /\ live'[f].text = "edited" /\ settled'[f] = "edited"
        /\ server'.up = server.up
        /\ UNCHANGED <<importDraft, markers, journals, manifests, holder>>
    BY DEF Edit, LibraryInv, LiveTyped, SettledTyped, ServerTyped
  <1>2. /\ Claims(f)' = Claims(f) /\ Open(f)' = Open(f) /\ Open(f) \subseteq Claims(f)
        /\ \A q \in Claims(f) : q \in Requests /\ f \in DOMAIN manifests[q] /\ Held(q)
        /\ \A q \in Requests : Old(q, f)' = Old(q, f) /\ New(q, f)' = New(q, f)
    BY <1>1 DEF Claims, Open, Held, Old, New
  <1>3. live[f].text # "edited" => \A q \in Claims(f) : Old(q, f) # "edited"
    BY <1>2 DEF PutsBack, Old
  <1>4. \A q \in Claims(f) : New(q, f) # "edited"
    <2>1. ASSUME NEW q \in Claims(f)
          PROVE  New(q, f) # "edited"
      <3>1. New(q, f) \in {q, "original", "import"} /\ q \in Requests
        BY <1>2 DEF LibraryInv, RequestInStep, EntryInStep
      <3>2. QED
        BY <3>1, NamesDiffer
    <2>2. QED
      BY <2>1
  <1>5. AtRest(f)'
    BY <1>1, <1>2, <1>4 DEF AtRest, StillOwned, New, NoFile
  <1>6. live[f].text = "edited" => AtRest(f) /\ (server.up /\ f \in holder.placed => IsEdited(f))
    <2>1. ASSUME NEW q, live[f].text = "edited"
          PROVE  ~IsAside(q, f) /\ ~IsPlaced(q, f)
      BY <1>1, <1>2, <1>4, <2>1 DEF IsAside, IsPlaced
    <2>2. QED
      BY <2>1 DEF FileInStep, FileAtWork, FileLeft, IsEdited
  <1>7. server.up => FileAtWork(f)'
    <2>1. server.up => f \notin holder.aside \ holder.placed
      BY <1>1 DEF FileInStep, FileAtWork, IsAside
    <2>2. server.up /\ f \in holder.placed => IsEdited(f)'
      BY <1>1, <1>2, <1>3, <1>5, <1>6 DEF IsEdited
    <2>3. QED
      BY <1>1, <1>5, <2>1, <2>2 DEF FileAtWork
  <1>8. ASSUME NEW q \in Claims(f) \cap markers
        PROVE  Replayable(q, f)'
    <2>1. Replayable(q, f) /\ q \in Requests /\ \A p \in Open(f) : p \in Claims(f) /\ p \in Requests
      BY <1>2 DEF FileInStep
    <2>2. Old(q, f) # "edited"
      BY <1>3, <1>4, <2>1 DEF Replayable
    <2>3. Old(q, f) \in {"original", "absent"} => \A p \in Open(f) : Old(p, f) # "edited"
      BY <1>3, <1>6, <2>1 DEF Replayable, AtRest
    <2>4. QED
      BY <1>1, <1>2, <2>1, <2>2, <2>3 DEF Replayable
  <1>9. \A t : Known(t)' <=> Known(t)
    BY <1>1 DEF Known, DraftOver
  <1>10. \A q \in Claims(f)' : Known(Old(q, f))'
    BY <1>2, <1>9 DEF FileInStep
  <1>11. \A q \in Claims(f)' \cap markers' : Replayable(q, f)'
    BY <1>1, <1>2, <1>8
  <1>12. Known("edited")'
    BY NamesDiffer DEF Known
  <1>13. QED
    BY <1>1, <1>5, <1>7, <1>10, <1>11, <1>12 DEF FileInStep, FileLeft

LEMMA FileIsLeft ==
  ASSUME LibraryInv, NEW f \in Files, LibraryCrash, ~Contested, FileInStep(f)
  PROVE  FileInStep(f)'
  <1> USE TypeParts DEF AllTyped
  <1>1. /\ server.up /\ ~server'.up
        /\ UNCHANGED <<live, settled, importDraft, markers, journals, manifests>>
    BY DEF LibraryCrash, LibraryInv, ServerTyped
  <1>2. /\ Claims(f)' = Claims(f) /\ Open(f)' = Open(f)
        /\ \A q : Old(q, f)' = Old(q, f) /\ New(q, f)' = New(q, f)
    BY <1>1 DEF Claims, Open, Held, Old, New
  <1>3. FileLeft(f)
    <2>1. ASSUME f \in holder.aside \ holder.placed
          PROVE  IsAside(holder.by, f) /\ Claims(f) = {holder.by} /\ holder.by \in Requests
      BY <1>1, <2>1 DEF FileInStep, FileAtWork, IsAside, Open, Claims, Contested
    <2>2. ASSUME IsPlaced(holder.by, f)
          PROVE  holder.by \in Requests
      BY <2>2 DEF IsPlaced, Open, Claims
    <2>3. QED
      BY <1>1, <2>1, <2>2 DEF FileInStep, FileAtWork, FileLeft, IsEdited
  <1>4. FileLeft(f)'
    <2>1. AtRest(f) => AtRest(f)'
      BY <1>1, <1>2 DEF AtRest, StillOwned, Held, Old, New
    <2>2. \A r \in Requests : /\ IsAside(r, f) => IsAside(r, f)'
                              /\ IsPlaced(r, f) => IsPlaced(r, f)'
      BY <1>1, <1>2 DEF IsAside, IsPlaced
    <2>3. QED
      BY <1>2, <1>3, <2>1, <2>2 DEF FileLeft
  <1>5. \A t : Known(t)' <=> Known(t)
    BY <1>1 DEF Known, DraftOver
  <1>6. \A q \in Claims(f)' \cap markers' : Replayable(q, f)'
    BY <1>1, <1>2 DEF FileInStep, Replayable
  <1>7. \A q \in Claims(f)' : Known(Old(q, f))'
    BY <1>2, <1>5 DEF FileInStep
  <1>8. QED
    BY <1>1, <1>4, <1>5, <1>6, <1>7 DEF FileInStep


LEMMA FileIsCommitted ==
  ASSUME LibraryInv, JournalsInStep, DraftInStep, NEW r \in Requests, Commit(r),
         NEW f \in DOMAIN manifests[r], FileInStep(f)
  PROVE  FileInStep(f)'
  <1> USE TypeParts DEF AllTyped
  <1>1. /\ f \in Files /\ holder.by = r /\ server.up /\ f \in holder.placed /\ Acceptable(r)
        /\ holder' = Free /\ markers' = markers \cup {r} /\ settled' = SettledBy(r)
        /\ UNCHANGED <<live, journals, manifests, server>>
    BY DEF Commit, Publishing, Unplaced, LibraryInv, ManifestsTyped, ManifestTyped
  <1>2. r \in Open(f) /\ New(r, f) \in {r, "original", "import"} /\ r \notin markers
    BY <1>1 DEF JournalsInStep, LibraryInv, RequestInStep, EntryInStep, Open, Claims
  <1>3. /\ Claims(f)' = Claims(f) /\ Open(f)' = Open(f) \ {r}
        /\ \A q \in Claims(f) : q \in Requests
        /\ \A q : Old(q, f)' = Old(q, f) /\ New(q, f)' = New(q, f)
    BY <1>1 DEF Claims, Open, Held, Old, New
  <1>4. New(r, f) = "import" => ~DraftOver /\ DraftOver'
    <2>1. SUFFICES ASSUME New(r, f) = "import"
                   PROVE  ~DraftOver /\ DraftOver'
      OBVIOUS
    <2>2. request[r].kind \in {"install", "approve"}
      BY <2>1 DEF LibraryInv, RequestInStep, EntryInStep
    <2>3. ~DraftOver
      BY <1>1, <2>2 DEF DraftInStep, Acceptable, HasLease, DraftOver
    <2>4. DraftOver'
      BY <2>2 DEF Commit, DraftOver, LibraryInv, DraftTyped
    <2>5. QED
      BY <2>3, <2>4
  <1>5. DraftOver => DraftOver'
    BY DEF Commit, DraftOver, LibraryInv, DraftTyped
  <1>6. IsPlaced(r, f) \/ IsEdited(f)
    BY <1>1 DEF FileInStep, FileAtWork
  <1>7. IsPlaced(r, f) => live[f].text = New(r, f) /\ New(r, f) \notin {"edited", "absent"}
    BY <1>2, NamesDiffer DEF IsPlaced
  <1>8. settled'[f] = live[f].text /\ settled'[f] # "absent"
    <2>1. settled'[f] = IF live[f].text # "edited" THEN New(r, f) ELSE settled[f]
      BY <1>1 DEF SettledBy, New
    <2>2. QED
      BY <1>6, <1>7, <2>1 DEF IsEdited, AtRest
  <1>9. ASSUME NEW p \in Open(f)', ~(IsPlaced(r, f) /\ New(r, f) = "original")
        PROVE  Old(p, f) # live[f].text
    <2>1. Known(Old(p, f)) /\ p \in Claims(f)
      BY <1>3 DEF FileInStep, Open
    <2>2. CASE IsEdited(f)
      BY <2>1, <2>2 DEF IsEdited
    <2>3. CASE IsPlaced(r, f)
      BY <1>2, <1>4, <1>7, <1>9, <2>1, <2>3 DEF Known
    <2>4. QED
      BY <1>6, <2>2, <2>3
  <1>10. ASSUME NEW q \in Claims(f) \cap markers
         PROVE  Replayable(q, f)'
    <2>1. Replayable(q, f)
      BY DEF FileInStep
    <2>2. Old(q, f) = live[f].text => New(q, f) = Old(q, f)
      BY <2>1 DEF Replayable
    <2>3. ASSUME Old(q, f) \in {"original", "absent"} \ {live[f].text}, NEW p \in Open(f)'
          PROVE  Old(p, f) # live[f].text
      <3>1. CASE IsPlaced(r, f) /\ New(r, f) = "original"
        <4>1. Old(q, f) = "absent" /\ Old(r, f) = settled[f]
          BY <1>7, <2>3, <3>1 DEF IsPlaced
        <4>2. QED
          BY <1>2, <2>1, <4>1 DEF Replayable
      <3>2. QED
        BY <1>9, <3>1
    <2>4. QED
      BY <1>1, <1>3, <1>8, <2>2, <2>3 DEF Replayable
  <1>11. Replayable(r, f)'
    <2>1. Old(r, f) = live[f].text => New(r, f) = Old(r, f)
      BY <1>2, <1>6, <1>7 DEF IsEdited, Open
    <2>2. ASSUME Old(r, f) \in {"original", "absent"} \ {live[f].text}, NEW p \in Open(f)'
          PROVE  Old(p, f) # live[f].text
      <3>1. CASE IsPlaced(r, f) /\ New(r, f) = "original"
        BY <1>3, <1>7, <2>2, <3>1 DEF IsPlaced
      <3>2. QED
        BY <1>9, <3>1
    <2>3. QED
      BY <1>1, <1>3, <1>8, <2>1, <2>2 DEF Replayable
  <1>12. \A t : Known(t) => Known(t)'
    BY <1>1, <1>5 DEF Known
  <1>13. ASSUME NEW t, t = live[f].text
         PROVE  Known(t)'
    <2>1. CASE IsPlaced(r, f)
      <3>1. t \in {r, "original", "import"} /\ (t = "import" => DraftOver') /\ r \in markers'
        BY <1>1, <1>2, <1>4, <1>7, <1>13, <2>1
      <3>2. QED
        BY <3>1, NamesDiffer DEF Known
    <2>2. CASE IsEdited(f)
      BY <1>13, <2>2, NamesDiffer DEF Known, IsEdited
    <2>3. QED
      BY <1>6, <2>1, <2>2
  <1>14. AtRest(f)'
    <2>1. ASSUME NEW p \in Open(f)'
          PROVE  ~StillOwned(p, f) /\ (live[f] = NoFile => Old(p, f) = "absent")
      <3>1. CASE IsPlaced(r, f)
        BY <1>3, <1>7, <3>1 DEF IsPlaced, StillOwned, NoFile
      <3>2. CASE IsEdited(f)
        BY <1>3, <3>2 DEF IsEdited, AtRest
      <3>3. QED
        BY <1>6, <3>1, <3>2
    <2>2. \A p \in Open(f)' : StillOwned(p, f)' <=> StillOwned(p, f)
      BY <1>1 DEF StillOwned, Held
    <2>3. QED
      BY <1>1, <1>3, <1>8, <2>1, <2>2 DEF AtRest
  <1>15. FileAtWork(f)'
    BY <1>1, <1>14 DEF FileAtWork, Free
  <1>16. \A q \in Claims(f)' : Known(Old(q, f))'
    BY <1>3, <1>12 DEF FileInStep
  <1>17. \A q \in Claims(f)' \cap markers' : Replayable(q, f)'
    BY <1>1, <1>3, <1>10, <1>11
  <1>18. Known(settled[f])'
    <2>1. \A t : t = live[f].text => Known(t)'
      BY <1>13
    <2>2. QED
      BY <1>8, <2>1 DEF Known
  <1>19. QED
    BY <1>1, <1>15, <1>16, <1>17, <1>18 DEF FileInStep


-----------------------------------------------------------------------------
(* Recovery of a file. *)

(* A committed publication changes neither the settled text nor the text   *)
(* that is there.                                                          *)
LEMMA RollingForwardChangesNothing ==
  ASSUME NEW f \in Files, FileInStep(f), NEW q \in Claims(f) \cap markers,
         NEW file, file.text \in {settled[f], live[f].text} \ {"absent"}
  PROVE  RolledForward(q, f, file) = file
  <1>1. Replayable(q, f)
    BY DEF FileInStep
  <1>2. QED
    BY <1>1 DEF RolledForward, Replayable, Old, New

LEMMA RecoveryLeaves ==
  ASSUME LibraryInv, NEW f \in Files, FileInStep(f), AtRest(f), NEW order \in Listings
  PROVE  RecoveredFile(f, order) = live[f]
  <1>1. PICK n \in Nat : /\ Len(order) = n
                         /\ \A i \in 1..n : order[i] \in ListedJournals
    BY ListingIsFull
  <1> DEFINE Stage == [i \in 0..n |-> {live[f]}]
  <1>2. ASSUME NEW i \in 1..n, NEW file \in Stage[i - 1]
        PROVE  RecoveredBy(order[i], f, file) \in Stage[i]
    <2> DEFINE r == order[i]
    <2>1. r \in Requests /\ Held(r) /\ file = live[f] /\ i \in 0..n
      BY <1>1, <1>2 DEF ListedJournals
    <2> HIDE DEF r
    <2>2. RecoveredBy(r, f, file) = live[f]
      <3>1. CASE r \notin Claims(f)
        BY <2>1, <3>1 DEF RecoveredBy, Claims
      <3>2. CASE r \in Claims(f) /\ r \in markers
        <4>1. live[f].text = settled[f] /\ settled[f] # "absent"
          BY <3>2 DEF AtRest, FileInStep, Replayable
        <4>2. QED
          BY <2>1, <3>2, <4>1, RollingForwardChangesNothing DEF RecoveredBy, Committed, Claims
      <3>3. CASE r \in Open(f)
        BY <2>1, <3>3 DEF RecoveredBy, RolledBack, Committed, AtRest, Open, Claims, Old
      <3>4. QED
        BY <3>1, <3>2, <3>3 DEF Open
    <2>3. QED
      BY <2>1, <2>2 DEF r
  <1>3. live[f] \in Stage[0]
    OBVIOUS
  <1> HIDE DEF Stage
  <1>4. RecoveredFile(f, order) \in Stage[n]
    BY <1>1, <1>2, <1>3, RecoveredAlong
  <1>5. QED
    BY <1>4 DEF Stage

(* The original of a publication's file. *)
Original(r, f) ==
    IF Old(r, f) = "absent" THEN NoFile ELSE [text |-> Old(r, f), inode |-> "nobody"]

(* From the turn of the publication on, the file is the original; until    *)
(* then, it is as the crash left it.                                       *)
LEMMA RecoveryUndoes ==
  ASSUME LibraryInv, NEW f \in Files, FileInStep(f), NEW order \in Listings,
         NEW r \in Requests, (IsAside(r, f) /\ Claims(f) = {r}) \/ IsPlaced(r, f)
  PROVE  RecoveredFile(f, order) = Original(r, f)
  <1>1. PICK n \in Nat : /\ Len(order) = n
                         /\ \A i \in 1..n : order[i] \in ListedJournals
                         /\ \A q \in ListedJournals : \E i \in 1..n : order[i] = q
    BY ListingIsFull
  <1> DEFINE Stage == [i \in 0..n |-> IF \E j \in 1..i : order[j] = r THEN {Original(r, f)}
                                      ELSE {live[f]}]
  <1>2. /\ r \in Open(f) /\ Held(r) /\ f \in DOMAIN manifests[r] /\ r \notin markers
        /\ Old(r, f) = settled[f] /\ r # "nobody"
    BY NamesDiffer DEF IsAside, IsPlaced, Open, Claims
  <1>3. Original(r, f) # live[f] /\ Original(r, f).text = settled[f]
    BY <1>2 DEF IsAside, IsPlaced, Original, NoFile
  <1>4. RolledBack(r, f, live[f]) = Original(r, f)
    BY <1>2 DEF IsAside, IsPlaced, RolledBack, StillOwned, Original, Old, New
  <1>5. RolledBack(r, f, Original(r, f)) = Original(r, f)
    BY <1>2, <1>3 DEF RolledBack, Original, Old, NoFile
  <1>6. ASSUME NEW q \in Claims(f), q # r, NEW file \in {live[f], Original(r, f)}
        PROVE  IF q \in markers THEN RolledForward(q, f, file) = file
                                ELSE RolledBack(q, f, file) = file
    <2>1. IsPlaced(r, f)
      BY <1>6
    <2>2. CASE q \in markers
      <3>1. settled[f] # "absent" /\ live[f].text # "absent"
        BY <2>1, <2>2, NamesDiffer DEF FileInStep, Replayable, IsPlaced, NoFile
      <3>2. file.text \in {settled[f], live[f].text} \ {"absent"}
        BY <1>3, <3>1
      <3>3. QED
        BY <2>2, <3>2, RollingForwardChangesNothing
    <2>3. CASE q \notin markers
      <3>1. ~StillOwned(q, f) /\ q \in Open(f)
        BY <1>6, <2>1, <2>3 DEF StillOwned, IsPlaced, Open
      <3>2. file = NoFile => Old(q, f) = "absent"
        BY <1>2, <2>1, <3>1, NamesDiffer DEF IsPlaced, Original, NoFile
      <3>3. QED
        BY <2>3, <3>1, <3>2 DEF RolledBack, Old
    <2>4. QED
      BY <2>2, <2>3
  <1>7. ASSUME NEW i \in 1..n, NEW file \in Stage[i - 1]
        PROVE  RecoveredBy(order[i], f, file) \in Stage[i]
    <2> DEFINE q == order[i]
               Later == \E j \in 1..i : order[j] = r
               Before == \E j \in 1..(i - 1) : order[j] = r
    <2>1. q \in Requests /\ Held(q) /\ i \in 0..n /\ i - 1 \in 0..n
      BY <1>1 DEF ListedJournals
    <2>2. /\ Stage[i] = IF Later THEN {Original(r, f)} ELSE {live[f]}
          /\ Stage[i - 1] = IF Before THEN {Original(r, f)} ELSE {live[f]}
      BY <2>1
    <2>3. Later <=> Before \/ q = r
      <3>1. \A j \in 1..i : j \in 1..(i - 1) \/ j = i
        OBVIOUS
      <3>2. 1..(i - 1) \subseteq 1..i /\ i \in 1..i
        OBVIOUS
      <3>3. QED
        BY <3>1, <3>2
    <2> HIDE DEF Stage, q, Later, Before
    <2>4. CASE q = r
      <3>1. RecoveredBy(q, f, file) = RolledBack(r, f, file)
        BY <1>2, <2>4 DEF RecoveredBy, Committed
      <3>2. RecoveredBy(q, f, file) = Original(r, f)
        BY <1>4, <1>5, <1>7, <2>2, <3>1
      <3>3. QED
        BY <2>2, <2>3, <2>4, <3>2 DEF q
    <2>5. CASE q # r
      <3>1. RecoveredBy(q, f, file) = file
        BY <1>6, <1>7, <2>1, <2>2, <2>5 DEF RecoveredBy, Committed, Claims
      <3>2. QED
        BY <1>7, <2>2, <2>3, <2>5, <3>1 DEF q
    <2>6. QED
      BY <2>4, <2>5
  <1>8. live[f] \in Stage[0]
    OBVIOUS
  <1>9. Stage[n] = {Original(r, f)}
    <2>1. \E j \in 1..n : order[j] = r
      BY <1>1, <1>2 DEF ListedJournals
    <2>2. QED
      BY <1>1, <2>1
  <1> HIDE DEF Stage
  <1>10. RecoveredFile(f, order) \in Stage[n]
    BY <1>1, <1>7, <1>8, RecoveredAlong
  <1>11. QED
    BY <1>9, <1>10

(* After a startup the file has its settled text. *)
LEMMA RecoverySettles ==
  ASSUME LibraryInv, NEW f \in Files, FileInStep(f), ~server.up, NEW order \in Listings
  PROVE  /\ RecoveredFile(f, order).text = settled[f]
         /\ RecoveredFile(f, order).text = "absent" => RecoveredFile(f, order) = NoFile
  <1>1. CASE AtRest(f)
    <2>1. RecoveredFile(f, order) = live[f]
      BY <1>1, RecoveryLeaves
    <2>2. QED
      BY <1>1, <2>1 DEF AtRest, FileInStep
  <1>2. ASSUME NEW r \in Requests, (IsAside(r, f) /\ Claims(f) = {r}) \/ IsPlaced(r, f)
        PROVE  /\ RecoveredFile(f, order).text = settled[f]
               /\ RecoveredFile(f, order).text = "absent" => RecoveredFile(f, order) = NoFile
    <2>1. RecoveredFile(f, order) = Original(r, f) /\ Old(r, f) = settled[f]
      BY <1>2, RecoveryUndoes DEF IsAside, IsPlaced
    <2>2. QED
      BY <2>1 DEF Original, NoFile
  <1>3. FileLeft(f)
    BY DEF FileInStep
  <1>4. QED
    BY <1>1, <1>2, <1>3 DEF FileLeft


-----------------------------------------------------------------------------
(* The steps keep journals, draft and files in step. *)

LEMMA JournalsAreKept ==
  ASSUME LibraryInv, JournalsInStep, LibraryNext, ~overlapped'
  PROVE  JournalsInStep'
  <1> USE TypeParts DEF AllTyped, LibraryInv
  <1> SUFFICES ASSUME NEW q \in Requests, request'[q].at \in {"prepared", "publishing"}
               PROVE  journals'[q].state = "held"
    BY DEF JournalsInStep, Held
  <1>0. request[q].at \in {"prepared", "publishing"} => journals[q].state = "held"
    BY DEF JournalsInStep, Held
  <1>d. ASSUME NEW r \in Requests, Done(r),
               journals' \in {journals, [journals EXCEPT ![r] = NoJournal]}
        PROVE  journals'[q].state = "held"
    BY <1>0, <1>d DEF Done, RequestTyped, JournalsTyped
  <1>p. ASSUME NEW r \in Requests, NEW kind, NEW files, NEW text, Prepare(r, kind, files, text)
        PROVE  journals'[q].state = "held"
    <2>1. q = r => journals'[q].state = "held"
      BY <1>p DEF Prepare, JournalsTyped
    <2>2. q # r => journals'[q] = journals[q] /\ request'[q] = request[q]
      BY <1>p DEF Prepare, RequestTyped, JournalsTyped
    <2>3. QED
      BY <1>0, <2>1, <2>2
  <1>1. ASSUME NEW r \in Requests, PreparePatch(r) \/ PrepareInstall(r)
        PROVE  journals'[q].state = "held"
    BY <1>1, <1>p DEF PreparePatch, PrepareInstall
  <1>2. ASSUME NEW r \in Requests, PrepareApproval(r)
        PROVE  journals'[q].state = "held"
    BY <1>d, <1>p, <1>2 DEF PrepareApproval
  <1>3. ASSUME NEW r \in Requests, Reserve(r) \/ Enter(r) \/ Sync(r) \/ Commit(r)
        PROVE  journals'[q].state = "held"
    <2>1. journals' = journals
      BY <1>3 DEF Reserve, Enter, Sync, Commit
    <2>2. request[q].at \in {"prepared", "publishing"}
      <3>1. CASE Reserve(r) \/ Sync(r)
        BY <3>1 DEF Reserve, Sync, RequestTyped
      <3>2. CASE Enter(r)
        BY <3>2 DEF Enter, Done, RequestTyped
      <3>3. CASE Commit(r)
        BY <3>3 DEF Commit, RequestTyped
      <3>4. QED
        BY <1>3, <3>1, <3>2, <3>3
    <2>3. QED
      BY <1>0, <2>1, <2>2
  <1>5. ASSUME NEW r \in Requests, GuardRejects(r) \/ Finalize(r) \/ CommitFails(r)
        PROVE  journals'[q].state = "held"
    BY <1>d, <1>5 DEF GuardRejects, Finalize, CommitFails
  <1>6. ASSUME NEW r \in Requests, NEW f \in Files, MoveAside(r, f) \/ Place(r, f)
        PROVE  journals'[q].state = "held"
    <2>1. Held(r)
      BY <1>6 DEF MoveAside, Place, Publishing, JournalsInStep, RequestInStep
    <2>2. journals'[q].state = journals[q].state /\ UNCHANGED request
      BY <1>6, <2>1 DEF MoveAside, Place, JournalsTyped
    <2>3. QED
      BY <1>0, <2>2
  <1>8. ASSUME NEW r \in Requests, NEW f \in Files, PublishFails(r, f)
        PROVE  journals'[q].state = "held"
    BY <1>d, <1>8 DEF PublishFails
  <1>12. ASSUME NEW r \in Requests, Discard(r)
         PROVE  journals'[q].state = "held"
    <2>1. q # r /\ request'[q] = request[q]
      BY <1>12 DEF Discard, Done, RequestTyped
    <2>2. q \notin request[r].found
      BY <1>12, <2>1 DEF Discard
    <2>3. QED
      BY <1>0, <1>12, <2>1, <2>2 DEF Discard
  <1>13. CASE LeaseExpires \/ \E f \in Files : Edit(f)
    BY <1>0, <1>13 DEF LeaseExpires, Edit
  <1>14. CASE Startup
    BY <1>14 DEF Startup, RequestInStep
  <1>15. CASE LibraryCrash
    <2>1. request'[q] = IF request[q].at = "idle" THEN request[q]
                        ELSE [request[q] EXCEPT !.at = "done", !.found = {}]
      BY <1>15 DEF LibraryCrash
    <2>2. QED
      BY <2>1 DEF RequestTyped
  <1>17. QED
    BY <1>1, <1>2, <1>3, <1>5, <1>6, <1>8, <1>12, <1>13, <1>14, <1>15 DEF LibraryNext

LEMMA FilesAreKept ==
  ASSUME LibraryInv, Sound, LibraryNext, ~overlapped', NEW f \in Files
  PROVE  FileInStep(f)'
  <1> USE TypeParts DEF AllTyped, LibraryInv
  <1>0. FileInStep(f) /\ DraftInStep /\ JournalsInStep /\ HolderInStep /\ "nobody" \notin Requests
    BY NamesDiffer DEF Sound
  <1> DEFINE Calm == /\ server'.up = server.up /\ UNCHANGED <<settled, markers>>
                     /\ live'[f] = live[f] /\ (DraftOver => DraftOver')
  <1>k. ASSUME Calm, NEW r \in Requests, holder.by # r, server.up,
               \A q \in Requests : q # r =>
                 journals'[q] = journals[q] /\ manifests'[q] = manifests[q],
               r \in Claims(f)' => r \in Claims(f) /\ UNCHANGED <<journals, manifests>>,
               UNCHANGED holder \/ (holder = Free /\ holder'.aside = {} /\ holder'.placed = {})
        PROVE  FileInStep(f)'
    <2>1. \A q \in Claims(f)' : /\ q \in Claims(f) /\ manifests'[q] = manifests[q]
                                /\ journals'[q] = journals[q]
      BY <1>k DEF Claims, Held
    <2>2. \A q \in Claims(f) : holder.by = q => q \in Claims(f)'
      BY <1>k DEF Claims, Held
    <2>3. \/ UNCHANGED holder
          \/ /\ holder.aside = {} /\ holder.placed = {}
             /\ holder'.aside = {} /\ holder'.placed = {}
      BY <1>k DEF Free
    <2> HIDE DEF LibraryInv, AllTyped
    <2>4. QED
      BY <1>0, <1>k, <2>1, <2>2, <2>3, FileIsKept
  <1>p. ASSUME NEW r \in Requests, NEW kind \in {"patch", "install", "approve"},
               NEW files \in SUBSET Files, NEW text, Prepare(r, kind, files, text),
               UNCHANGED importDraft, request[r].at \in {"idle", "reserved"}, server.up
        PROVE  FileInStep(f)'
    <2>1. CASE f \in files
      <3>1. ~Unfinished(f)
        BY <1>p, <2>1 DEF Prepare
      <3>2. QED
        BY <1>0, <1>p, <2>1, <3>1, FileIsPrepared
    <2>2. CASE f \notin files
      <3>1. Calm /\ UNCHANGED holder
        BY <1>p DEF Prepare, DraftOver
      <3>2. /\ \A q \in Requests : q # r =>
                 journals'[q] = journals[q] /\ manifests'[q] = manifests[q]
            /\ manifests'[r] = [g \in files |-> [expected |-> live[g].text, new |-> text]]
        BY <1>p DEF Prepare, JournalsTyped, ManifestsTyped
      <3>3. r \notin Claims(f)' /\ holder.by # r
        BY <1>p, <2>2, <3>2 DEF Claims, RequestInStep
      <3>4. QED
        BY <1>k, <1>p, <3>1, <3>2, <3>3
    <2>3. QED
      BY <2>1, <2>2
  <1>o. ASSUME NEW r \in Requests, importDraft' = DraftAfterFailure(r)
        PROVE  DraftOver' <=> DraftOver
    BY <1>o DEF DraftAfterFailure, HasLease, DraftOver, DraftTyped
  <1>1. ASSUME NEW r \in Requests, PreparePatch(r) \/ PrepareInstall(r)
        PROVE  FileInStep(f)'
    BY <1>1, <1>p DEF PreparePatch, PrepareInstall, Publishes, Unserved
  <1>2. ASSUME NEW r \in Requests, PrepareApproval(r)
        PROVE  FileInStep(f)'
    <2>1. CASE Prepare(r, "approve", Files, "import") /\ UNCHANGED importDraft
      BY <1>2, <1>p, <2>1 DEF PrepareApproval
    <2>2. CASE /\ importDraft' = DraftAfterFailure(r)
               /\ UNCHANGED <<live, settled, graph, markers, journals, manifests, holder,
                              server, overlapped>>
      <3>1. Calm /\ holder.by # r /\ (r \in Claims(f)' => r \in Claims(f))
        BY <1>2, <1>o, <2>2 DEF PrepareApproval, RequestInStep, Claims, Held
      <3>2. QED
        BY <1>2, <1>k, <2>2, <3>1 DEF PrepareApproval
    <2>3. QED
      BY <1>2, <2>1, <2>2 DEF PrepareApproval
  <1>3. ASSUME NEW r \in Requests, Reserve(r) \/ Enter(r)
        PROVE  FileInStep(f)'
    <2>1. Calm /\ holder.by # r /\ (r \in Claims(f)' => r \in Claims(f)) /\ server.up
      BY <1>3 DEF Reserve, Enter, Publishes, Unserved, RequestInStep, Claims, Held, DraftOver
    <2>2. UNCHANGED holder \/ (holder = Free /\ holder'.aside = {} /\ holder'.placed = {})
      BY <1>0, <1>3 DEF Reserve, Enter, LockFree, HolderInStep
    <2>3. QED
      BY <1>3, <1>k, <2>1, <2>2 DEF Reserve, Enter
  <1>5. ASSUME NEW r \in Requests, GuardRejects(r) \/ Finalize(r)
        PROVE  FileInStep(f)'
    <2>1. Calm /\ holder.by # r /\ server.up /\ UNCHANGED <<holder, manifests>>
      BY <1>5 DEF GuardRejects, Finalize, RequestInStep, DraftOver
    <2>2. r \notin Claims(f)' /\ \A q \in Requests : q # r => journals'[q] = journals[q]
      BY <1>5 DEF GuardRejects, Finalize, Claims, Held, NoJournal, JournalsTyped
    <2>3. QED
      BY <1>k, <2>1, <2>2
  <1>6. ASSUME NEW r \in Requests, NEW g \in Files, MoveAside(r, g) \/ Place(r, g)
        PROVE  FileInStep(f)'
    <2>1. Held(r)
      BY <1>0, <1>6 DEF MoveAside, Place, Publishing, JournalsInStep, RequestInStep
    <2>2. CASE f = g
      BY <1>0, <1>6, <2>1, <2>2, FileIsMovedAside, FileIsPlaced
    <2>3. CASE f # g
      <3>1. Calm /\ UNCHANGED manifests
        BY <1>6, <2>3 DEF MoveAside, Place, LiveTyped, DraftOver
      <3>2. \A q \in Requests : /\ journals'[q].state = journals[q].state
                                /\ f \in journals'[q].links <=> f \in journals[q].links
        BY <1>6, <2>1, <2>3 DEF MoveAside, Place, JournalsTyped
      <3>3. /\ holder'.by = holder.by
            /\ f \in holder'.aside <=> f \in holder.aside
            /\ f \in holder'.placed <=> f \in holder.placed
        BY <1>6, <2>3 DEF MoveAside, Place, HolderTyped
      <3>4. Claims(f)' = Claims(f) /\ \A q \in Claims(f) : q \in Requests
        BY <3>1, <3>2 DEF Claims, Held
      <3> HIDE DEF LibraryInv, AllTyped
      <3>5. QED
        BY <1>0, <3>1, <3>2, <3>3, <3>4, FileIsKept
    <2>4. QED
      BY <2>2, <2>3
  <1>8. ASSUME NEW r \in Requests, CommitFails(r) \/ \E g \in Files : PublishFails(r, g)
        PROVE  FileInStep(f)'
    <2>1. /\ holder.by = r /\ server.up /\ Held(r) /\ holder' = Free
          /\ holder.aside \cup holder.placed \subseteq DOMAIN manifests[r]
          /\ journals' \in {journals, [journals EXCEPT ![r] = NoJournal]}
          /\ UNCHANGED <<settled, markers, manifests, server>>
          /\ importDraft' = DraftAfterFailure(r)
      BY <1>0, <1>8 DEF CommitFails, PublishFails, Publishing, JournalsInStep, RequestInStep,
         HolderInStep
    <2>2. \E S : /\ S \subseteq DOMAIN manifests[r]
                 /\ holder.aside \cup holder.placed \subseteq S
                 /\ live' = RollbackOf(r, S)
      BY <1>8, <2>1 DEF CommitFails, PublishFails
    <2>3. DraftOver' <=> DraftOver
      BY <1>o, <2>1
    <2> HIDE DEF LibraryInv, AllTyped
    <2>4. QED
      BY <1>0, <2>1, <2>2, <2>3, FileIsRolledBack
  <1>9. ASSUME NEW r \in Requests, Commit(r)
        PROVE  FileInStep(f)'
    <2>1. CASE f \in DOMAIN manifests[r]
      BY <1>0, <1>9, <2>1, FileIsCommitted
    <2>2. CASE f \notin DOMAIN manifests[r]
      <3>1. /\ holder.by = r /\ holder' = Free /\ markers' = markers \cup {r}
            /\ UNCHANGED <<live, journals, manifests, server>> /\ settled'[f] = settled[f]
        BY <1>9, <2>2 DEF Commit, Publishing, SettledBy
      <3>2. /\ f \notin holder.aside \cup holder.placed
            /\ f \notin holder'.aside \cup holder'.placed
        BY <1>0, <2>2, <3>1 DEF HolderInStep, Free
      <3>3. Claims(f)' = Claims(f) /\ r \notin Claims(f)
        BY <2>2, <3>1 DEF Claims, Held
      <3>4. DraftOver => DraftOver'
        BY <1>9 DEF Commit, DraftOver, DraftTyped
      <3> HIDE DEF LibraryInv, AllTyped
      <3>5. QED
        BY <1>0, <3>1, <3>2, <3>3, <3>4, FileIsKept
    <2>3. QED
      BY <2>1, <2>2
  <1>11. ASSUME NEW r \in Requests, Sync(r)
         PROVE  FileInStep(f)'
    <2>1. PICK order \in Listings : live'[f] = RecoveredFile(f, order)
      BY <1>11, RecoveringWritesLive
    <2>2. /\ server.up /\ holder = Free /\ holder.by # r
          /\ UNCHANGED <<settled, importDraft, markers, journals, manifests, holder, server>>
      BY <1>0, <1>11 DEF Sync, Unserved, LockFree, HolderInStep, Free
    <2>3. AtRest(f)
      BY <1>0, <2>2 DEF FileInStep, FileAtWork, Free
    <2>4. live'[f] = live[f]
      BY <1>0, <2>1, <2>3, RecoveryLeaves
    <2>5. Calm /\ (r \in Claims(f)' => r \in Claims(f))
      BY <2>2, <2>4 DEF DraftOver, Claims, Held
    <2>6. QED
      BY <1>k, <2>2, <2>5
  <1>12. ASSUME NEW r \in Requests, Discard(r)
         PROVE  FileInStep(f)'
    <2>1. Calm /\ UNCHANGED <<manifests, holder>> /\ server.up
      BY <1>12 DEF Discard, DraftOver
    <2>2. \A q \in Requests : q \in request[r].found => ~(holder.by = q)
      BY <1>0, <1>12 DEF Discard, RequestInStep
    <2>3. \A q \in Requests : journals'[q] = IF q \in request[r].found THEN NoJournal ELSE journals[q]
      BY <1>12 DEF Discard
    <2>4. /\ \A q \in Claims(f)' : q \in Claims(f) /\ journals'[q] = journals[q]
          /\ \A q \in Claims(f) : holder.by = q => q \in Claims(f)'
      BY <2>1, <2>2, <2>3 DEF Claims, Held, NoJournal
    <2> HIDE DEF LibraryInv, AllTyped
    <2>5. QED
      BY <1>0, <2>1, <2>4, FileIsKept
  <1>13. CASE LeaseExpires
    <2>1. Calm /\ UNCHANGED <<manifests, journals, holder>>
      BY <1>13 DEF LeaseExpires, DraftOver, DraftTyped
    <2>2. Claims(f)' = Claims(f)
      BY <2>1 DEF Claims, Held
    <2> HIDE DEF LibraryInv, AllTyped
    <2>3. QED
      BY <1>0, <2>1, <2>2, FileIsKept
  <1>14. CASE Startup
    <2>1. /\ ~server.up /\ server'.up /\ holder' = Free
          /\ journals' = [r \in Requests |-> NoJournal]
          /\ UNCHANGED <<settled, importDraft, markers>>
      BY <1>0, <1>14 DEF Startup, HolderInStep, ServerTyped
    <2>2. PICK order \in Listings : live'[f] = RecoveredFile(f, order)
      BY <1>14, RecoveringWritesLive
    <2>3. live'[f].text = settled[f] /\ (live'[f].text = "absent" => live'[f] = NoFile)
      BY <1>0, <2>1, <2>2, RecoverySettles
    <2>4. Claims(f)' = {} /\ Open(f)' = {}
      BY <2>1 DEF Claims, Open, Held, NoJournal
    <2>5. AtRest(f)' /\ FileAtWork(f)'
      BY <2>1, <2>3, <2>4 DEF AtRest, FileAtWork, Free
    <2>6. Known(settled[f])'
      BY <1>0, <2>1 DEF FileInStep, Known, DraftOver
    <2>7. QED
      BY <2>1, <2>3, <2>4, <2>5, <2>6 DEF FileInStep
  <1>15. CASE LibraryCrash
    BY <1>0, <1>15, FileIsLeft DEF LibraryCrash
  <1>16. ASSUME NEW g \in Files, Edit(g)
         PROVE  FileInStep(f)'
    <2>1. CASE f = g
      BY <1>0, <1>16, <2>1, FileIsEdited DEF Edit
    <2>2. CASE f # g
      <3>1. /\ server'.up = server.up /\ live'[f] = live[f] /\ settled'[f] = settled[f]
            /\ UNCHANGED <<importDraft, markers, journals, manifests, holder>>
        BY <1>16, <2>2 DEF Edit, LiveTyped, SettledTyped, ServerTyped
      <3>2. Claims(f)' = Claims(f) /\ DraftOver' = DraftOver
        BY <3>1 DEF Claims, Held, DraftOver
      <3> HIDE DEF LibraryInv, AllTyped
      <3>3. QED
        BY <1>0, <3>1, <3>2, FileIsKept
    <2>3. QED
      BY <2>1, <2>2
  <1>17. QED
    BY <1>1, <1>2, <1>3, <1>5, <1>6, <1>8, <1>9, <1>11, <1>12, <1>13, <1>14, <1>15, <1>16
       DEF LibraryNext


LEMMA DraftIsKept ==
  ASSUME LibraryInv, Sound, LibraryNext, \A f \in Files : FileInStep(f)'
  PROVE  DraftInStep'
  <1> USE TypeParts DEF AllTyped, LibraryInv
  <1>0. DraftInStep /\ JournalsInStep /\ HolderInStep /\ "nobody" \notin Requests
    BY NamesDiffer DEF Sound
  (* A step that ends no draft. *)
  <1>k. ASSUME DraftOver' => DraftOver, \A f \in Files : settled'[f] \in {settled[f], "edited"},
               \A q \in Requests : holder'.by = q =>
                 holder.by = q /\ request'[q].kind = request[q].kind
        PROVE  DraftInStep'
    BY <1>0, <1>k DEF DraftInStep
  <1>o. ASSUME NEW r \in Requests, importDraft' = DraftAfterFailure(r)
        PROVE  DraftOver' => DraftOver
    BY <1>o DEF DraftAfterFailure, HasLease, DraftOver, DraftTyped
  <1>d. ASSUME NEW r \in Requests, Done(r)
        PROVE  \A q \in Requests : request'[q].kind = request[q].kind
    BY <1>d DEF Done, RequestTyped
  <1>q. ASSUME NEW r \in Requests, request[r].at \in {"idle", "reserved"}, UNCHANGED holder,
               \A q \in Requests : q # r => request'[q] = request[q]
        PROVE  \A q \in Requests : holder'.by = q =>
                 holder.by = q /\ request'[q].kind = request[q].kind
    BY <1>q DEF RequestInStep
  <1>p. ASSUME NEW r \in Requests, NEW kind, NEW files, NEW text, Prepare(r, kind, files, text),
               UNCHANGED importDraft, request[r].at \in {"idle", "reserved"}
        PROVE  DraftInStep'
    <2>1. UNCHANGED <<holder, settled>> /\ \A q \in Requests : q # r => request'[q] = request[q]
      BY <1>p DEF Prepare, RequestTyped
    <2>2. QED
      BY <1>k, <1>p, <1>q, <2>1 DEF DraftOver
  <1>1. ASSUME NEW r \in Requests, PreparePatch(r) \/ PrepareInstall(r)
        PROVE  DraftInStep'
    BY <1>1, <1>p DEF PreparePatch, PrepareInstall, Publishes, Unserved
  <1>2. ASSUME NEW r \in Requests, PrepareApproval(r)
        PROVE  DraftInStep'
    <2>1. CASE Prepare(r, "approve", Files, "import") /\ UNCHANGED importDraft
      BY <1>2, <1>p, <2>1 DEF PrepareApproval
    <2>2. CASE importDraft' = DraftAfterFailure(r) /\ Done(r) /\ UNCHANGED <<settled, holder>>
      BY <1>d, <1>k, <1>o, <2>2
    <2>3. QED
      BY <1>2, <2>1, <2>2 DEF PrepareApproval
  <1>3. ASSUME NEW r \in Requests, Reserve(r) \/ Sync(r)
        PROVE  DraftInStep'
    <2>1. /\ DraftOver' => DraftOver
          /\ request[r].at = "idle" /\ UNCHANGED <<settled, holder>>
      BY <1>3 DEF Reserve, Sync, Publishes, Unserved, DraftOver
    <2>2. \A q \in Requests : q # r => request'[q] = request[q]
      BY <1>3 DEF Reserve, Sync, RequestTyped
    <2>3. QED
      BY <1>k, <1>q, <2>1, <2>2
  <1>4. ASSUME NEW r \in Requests, Enter(r)
        PROVE  DraftInStep'
    <2>1. CASE Done(r) /\ UNCHANGED holder
      BY <1>4, <1>d, <1>k, <2>1 DEF Enter, DraftOver
    <2>2. CASE /\ request[r].kind = "install" => importDraft.status = "draft"
               /\ holder' = [by |-> r, aside |-> {}, placed |-> {}]
               /\ request' = [request EXCEPT ![r].at = "publishing"]
      BY <1>0, <1>4, <2>2 DEF Enter, DraftInStep, DraftOver, RequestTyped
    <2>3. QED
      BY <1>4, <2>1, <2>2 DEF Enter
  <1>5. ASSUME NEW r \in Requests, GuardRejects(r) \/ Finalize(r) \/ Discard(r)
        PROVE  DraftInStep'
    BY <1>5, <1>d, <1>k DEF GuardRejects, Finalize, Discard, DraftOver
  <1>6. ASSUME NEW r \in Requests, NEW f \in Files, MoveAside(r, f) \/ Place(r, f)
        PROVE  DraftInStep'
    BY <1>6, <1>k DEF MoveAside, Place, DraftOver, HolderTyped
  <1>8. ASSUME NEW r \in Requests, CommitFails(r) \/ \E f \in Files : PublishFails(r, f)
        PROVE  DraftInStep'
    <2>1. UNCHANGED settled /\ holder' = Free /\ importDraft' = DraftAfterFailure(r)
      BY <1>8 DEF CommitFails, PublishFails
    <2>2. QED
      BY <1>0, <1>k, <1>o, <2>1 DEF Free
  <1>9. ASSUME NEW r \in Requests, Commit(r)
        PROVE  DraftInStep'
    <2>1. /\ Held(r) /\ holder' = Free /\ UNCHANGED <<journals, manifests>>
          /\ markers' = markers \cup {r} /\ settled' = SettledBy(r)
      BY <1>0, <1>9 DEF Commit, Publishing, JournalsInStep, RequestInStep
    <2>2. ASSUME NEW f \in DOMAIN manifests[r]
          PROVE  settled'[f] # "absent"
      <3>1. f \in Files
        BY DEF ManifestsTyped, ManifestTyped
      <3>2. r \in Claims(f)' \cap markers'
        BY <2>1 DEF Claims, Held
      <3>3. QED
        BY <3>1, <3>2 DEF FileInStep, Replayable
    <2>3. \A f \in Files : f \notin DOMAIN manifests[r] => settled'[f] = settled[f]
      BY <2>1 DEF SettledBy
    <2>4. CASE request[r].kind = "patch"
      BY <1>0, <1>9, <2>1, <2>2, <2>3, <2>4 DEF Commit, DraftInStep, DraftOver, Free
    <2>5. CASE request[r].kind # "patch"
      <3>1. DOMAIN manifests[r] = Files
        BY <1>9, <2>5 DEF Commit, Publishing, RequestInStep
      <3>2. QED
        BY <1>0, <2>1, <2>2, <3>1 DEF DraftInStep, Free
    <2>6. QED
      BY <2>4, <2>5
  <1>13. CASE LeaseExpires
    BY <1>13, <1>k DEF LeaseExpires, DraftOver, DraftTyped
  <1>14. CASE Startup
    BY <1>14, <1>k DEF Startup, DraftOver
  <1>15. CASE LibraryCrash
    BY <1>0, <1>15, <1>k DEF LibraryCrash, DraftOver, Free
  <1>16. ASSUME NEW f \in Files, Edit(f)
         PROVE  DraftInStep'
    BY <1>16, <1>k DEF Edit, DraftOver, SettledTyped
  <1>17. QED
    BY <1>1, <1>2, <1>3, <1>4, <1>5, <1>6, <1>8, <1>9, <1>13, <1>14, <1>15, <1>16
       DEF LibraryNext

(* What requests met in is not forgotten. *)
LEMMA OverlapStays ==
  ASSUME [LibraryNext]_libraryVars, overlapped
  PROVE  overlapped'
  <1>1. ASSUME NEW r, PreparePatch(r) \/ PrepareInstall(r) \/ PrepareApproval(r)
        PROVE  overlapped'
    BY <1>1 DEF PreparePatch, PrepareInstall, PrepareApproval, Prepare
  <1>2. ASSUME NEW r, Reserve(r) \/ Enter(r) \/ GuardRejects(r) \/ Commit(r)
                        \/ CommitFails(r) \/ Finalize(r) \/ Sync(r) \/ Discard(r)
        PROVE  overlapped'
    BY <1>2 DEF Reserve, Enter, GuardRejects, Commit, CommitFails, Finalize, Sync, Discard
  <1>3. ASSUME NEW r, NEW f, MoveAside(r, f) \/ Place(r, f) \/ PublishFails(r, f)
        PROVE  overlapped'
    BY <1>3 DEF MoveAside, Place, PublishFails
  <1>4. CASE LeaseExpires \/ Startup \/ LibraryCrash \/ \E f \in Files : Edit(f)
    BY <1>4 DEF LeaseExpires, Startup, LibraryCrash, Edit
  <1>5. CASE UNCHANGED libraryVars
    BY <1>5 DEF libraryVars
  <1>6. QED
    BY <1>1, <1>2, <1>3, <1>4, <1>5 DEF LibraryNext

LEMMA SoundSteps ==
  LibraryInv /\ SoundUnlessOverlapped /\ [LibraryNext]_libraryVars => SoundUnlessOverlapped'
  <1> SUFFICES ASSUME LibraryInv, SoundUnlessOverlapped, [LibraryNext]_libraryVars,
                      ~overlapped'
               PROVE  Sound'
    BY DEF SoundUnlessOverlapped
  <1>1. Sound
    BY OverlapStays DEF SoundUnlessOverlapped
  <1>2. CASE LibraryNext
    <2>1. \A f \in Files : FileInStep(f)'
      BY <1>1, <1>2, FilesAreKept
    <2>2. JournalsInStep'
      BY <1>1, <1>2, JournalsAreKept DEF Sound
    <2>3. DraftInStep'
      BY <1>1, <1>2, <2>1, DraftIsKept
    <2>4. QED
      BY <2>1, <2>2, <2>3 DEF Sound
  <1>3. CASE UNCHANGED libraryVars
    <2> USE <1>3 DEF libraryVars
    <2>1. JournalsInStep' /\ DraftInStep'
      BY <1>1 DEF Sound, JournalsInStep, Held, DraftInStep, DraftOver
    <2>2. ASSUME NEW f \in Files
          PROVE  FileInStep(f)'
      <3>1. Claims(f)' = Claims(f)
        BY DEF Claims, Held
      <3>2. DraftOver' = DraftOver
        BY DEF DraftOver
      <3>3. QED
        BY <1>1, <3>1, <3>2, FileIsKept DEF Sound
    <2>3. QED
      BY <2>1, <2>2 DEF Sound
  <1>4. QED
    BY <1>2, <1>3

THEOREM LibraryStaysSound == LibrarySpec => []SoundUnlessOverlapped
  <1>1. LibraryInit => SoundUnlessOverlapped
    BY SoundStarts DEF SoundUnlessOverlapped
  <1>2. QED
    BY <1>1, SoundSteps, LibraryInvariance, PTL DEF LibrarySpec

(* LibraryConverges: whatever failed or crashed between the files and the  *)
(* commit of a publication, the files are those of the commits and edits   *)
(* once no publication is at work.                                         *)
THEOREM LibrarySettles == LibrarySpec => []LibraryConverges
  <1>1. LibraryInv /\ SoundUnlessOverlapped => LibraryConverges
    <2> SUFFICES ASSUME LibraryInv, SoundUnlessOverlapped, ~overlapped, server.up, LockFree,
                        NEW f \in Files
                 PROVE  live[f].text = settled[f]
      BY DEF LibraryConverges
    <2>1. FileInStep(f) /\ holder = Free
      BY DEF SoundUnlessOverlapped, Sound, LibraryInv, HolderInStep, LockFree
    <2>2. QED
      BY <2>1 DEF FileInStep, FileAtWork, AtRest, Free
  <1>2. QED
    BY <1>1, LibraryInvariance, LibraryStaysSound, PTL

(* GraphShowsTheSettled: no reconcile puts into the graph a text of a      *)
(* publication that is in the middle of its files, or was undone.          *)
THEOREM GraphIsOfTheCommits == LibrarySpec => GraphShowsTheSettled
  <1>1. ASSUME LibraryInv, SoundUnlessOverlapped, SoundUnlessOverlapped',
               [LibraryNext]_libraryVars, graph' # graph, ~overlapped, NEW f \in Files
        PROVE  IF settled'[f] = "absent" THEN graph'[f] \in {"absent", "deprecated"}
                                         ELSE graph'[f] = settled'[f]
    <2> USE TypeParts DEF AllTyped, LibraryInv
    <2>0. Sound /\ FileInStep(f) /\ HolderInStep
      BY <1>1 DEF SoundUnlessOverlapped, Sound
    <2>1. ASSUME NEW r \in Requests, Commit(r), request[r].kind # "patch"
          PROVE  graph' = Projected(live') /\ overlapped' = overlapped /\ holder' = Free
                   /\ server'.up /\ live' = live
      BY <2>1 DEF Commit, Publishing
    <2>2. ASSUME Startup \/ \E r \in Requests : Sync(r)
          PROVE  graph' = Projected(live') /\ overlapped' = overlapped /\ holder' = Free
                   /\ server'.up
      <3>1. graph' = Projected(live')
        BY <1>1, <2>2 DEF Startup, Sync, Recover
      <3>2. CASE Startup
        BY <2>0, <3>1, <3>2 DEF Startup, HolderInStep, ServerTyped
      <3>3. CASE \E r \in Requests : Sync(r)
        BY <2>0, <3>1, <3>3 DEF Sync, HolderInStep, LockFree, Unserved
      <3>4. QED
        BY <2>2, <3>2, <3>3
    <2>3. \/ \E r \in Requests : Commit(r) /\ request[r].kind # "patch"
          \/ Startup \/ \E r \in Requests : Sync(r)
      <3>1. ASSUME NEW r \in Requests,
                   \/ PreparePatch(r) \/ PrepareInstall(r) \/ Reserve(r) \/ PrepareApproval(r)
                   \/ Enter(r) \/ GuardRejects(r) \/ CommitFails(r) \/ Finalize(r) \/ Discard(r)
            PROVE  UNCHANGED graph
        BY <3>1 DEF PreparePatch, PrepareInstall, Reserve, PrepareApproval, Prepare, Enter,
           GuardRejects, CommitFails, Finalize, Discard
      <3>2. ASSUME NEW r \in Requests, NEW g \in Files,
                   MoveAside(r, g) \/ Place(r, g) \/ PublishFails(r, g)
            PROVE  UNCHANGED graph
        BY <3>2 DEF MoveAside, Place, PublishFails
      <3>3. ASSUME NEW r \in Requests, Commit(r), request[r].kind = "patch"
            PROVE  UNCHANGED graph
        BY <3>3 DEF Commit
      <3>4. ASSUME LeaseExpires \/ LibraryCrash \/ \E g \in Files : Edit(g)
            PROVE  UNCHANGED graph
        BY <3>4 DEF LeaseExpires, LibraryCrash, Edit
      <3>5. ASSUME UNCHANGED libraryVars
            PROVE  UNCHANGED graph
        BY <3>5 DEF libraryVars
      <3>6. QED
        BY <1>1, <3>1, <3>2, <3>3, <3>4, <3>5, Zenon DEF LibraryNext
    <2>4. graph' = Projected(live') /\ ~overlapped' /\ holder' = Free /\ server'.up
      BY <1>1, <2>1, <2>2, <2>3
    <2>5. FileInStep(f)'
      BY <1>1, <2>4 DEF SoundUnlessOverlapped, Sound
    <2>6. AtRest(f)' /\ (live'[f].text = "absent" => live'[f] = NoFile)
      BY <2>4, <2>5 DEF FileInStep, FileAtWork, Free
    <2>7. graph'[f] = IF live'[f] # NoFile THEN live'[f].text
                      ELSE IF graph[f] = "absent" THEN "absent" ELSE "deprecated"
      BY <2>4 DEF Projected
    <2>8. QED
      BY <2>6, <2>7 DEF AtRest, NoFile
  <1>2. LibraryInv /\ SoundUnlessOverlapped /\ SoundUnlessOverlapped'
          /\ [LibraryNext]_libraryVars =>
          ((graph' # graph /\ ~overlapped) =>
             \A f \in Files : IF settled'[f] = "absent"
                                THEN graph'[f] \in {"absent", "deprecated"}
                                ELSE graph'[f] = settled'[f])
    BY <1>1
  <1>3. QED
    BY <1>2, LibraryInvariance, LibraryStaysSound, PTL DEF LibrarySpec, GraphShowsTheSettled

=============================================================================
