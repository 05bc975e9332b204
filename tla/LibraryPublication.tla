-------------------------- MODULE LibraryPublication --------------------------
(***************************************************************************)
(* Publishing files of the design library (library-file-store.ts,          *)
(* library-reconcile-service.ts, library-import-draft-store.ts).  A        *)
(* publication belongs to two stores: it stages its files in a durable     *)
(* journal, moves them into the library one by one under the advisory lock *)
(* of Postgres, and commits a marker with the graph and the import draft.  *)
(* A reconcile, at startup or on request, settles the journals it finds:   *)
(* forward when the marker is there, back otherwise.                       *)
(*                                                                         *)
(* A file is its text and its inode, named by the publication that made    *)
(* it.  The reads of a request and the rename of its journal into place    *)
(* are one step, as are the check of a file and the rename that moves it   *)
(* aside, and the last file of a publication and its journal's new phase.  *)
(***************************************************************************)
EXTENDS Integers, Sequences, FiniteSets

CONSTANTS
    Files,            \* paths of the library
    FileOrder,        \* the files in the order of the proposal
    Requests,         \* requests to the server, each of which is made once
    MaxPublications,  \* bound: requests that publish
    MaxEdits,         \* bound: edits of the operator
    MaxLibCrashes     \* bound: crashes of the server

(* Names of texts and of the state of objects, which no request has. *)
Words == {"original", "import", "edited", "absent", "deprecated", "nobody"}

ASSUME LibraryBounds ==
    /\ IsFiniteSet(Requests) /\ Requests \cap Words = {}
    /\ FileOrder \in Seq(Files) /\ \A f \in Files : \E i \in DOMAIN FileOrder : FileOrder[i] = f
    /\ {MaxPublications, MaxEdits, MaxLibCrashes} \subseteq Nat

VARIABLES
    live,          \* the files of the library
    settled,       \* their texts by the commits and the edits so far
    graph,         \* the texts of the objects in Postgres
    importDraft,   \* the import draft, with the lease of its approval
    markers,       \* committed publications
    journals,      \* the journal of each request's publication, with its ownership links
    manifests,     \* its entries, in memory and in the journal: the expected text of each file
    request,       \* the requests
    holder,        \* who holds the lock, the files it has moved aside and placed
    server,        \* whether it runs, its crashes, the operator's edits
    overlapped     \* requests or an edit met in one of the ways recovery cannot undo: see
                   \* Unfinished, Contested, Discard and PutsBack

libraryVars == <<live, settled, graph, importDraft, markers, journals, manifests, request,
                 holder, server, overlapped>>

Texts == {"original", "import", "edited"} \cup Requests
NoFile == [text |-> "absent", inode |-> "nobody"]
Free == [by |-> "nobody", aside |-> {}, placed |-> {}]
NoJournal == [state |-> "none", links |-> {}]

LibraryTypeOK ==
    /\ live \in [Files -> [text : Texts \cup {"absent"}, inode : Requests \cup {"nobody"}]]
    /\ settled \in [Files -> Texts \cup {"absent"}]
    /\ graph \in [Files -> Texts \cup {"absent", "deprecated"}]
    /\ importDraft \in [status : {"draft", "applying", "installed", "approved"},
                        lease : Requests \cup {"nobody"}, expired : BOOLEAN]
    /\ markers \subseteq Requests
    /\ journals \in [Requests -> [state : {"none", "held", "torn"}, links : SUBSET Files]]
    /\ DOMAIN manifests = Requests
    /\ \A r \in Requests : /\ DOMAIN manifests[r] \subseteq Files
                           /\ \A f \in DOMAIN manifests[r] :
                                manifests[r][f] \in [expected : Texts \cup {"absent"},
                                                     new : Texts]
    /\ request \in [Requests -> [kind : {"none", "patch", "install", "approve", "sync"},
                                 at : {"idle", "reserved", "prepared", "publishing",
                                       "finalizing", "discarding", "done"},
                                 found : SUBSET Requests]]
    /\ holder \in [by : Requests \cup {"nobody"}, aside : SUBSET Files,
                   placed : SUBSET Files]
    /\ server \in [up : BOOLEAN, crashes : 0..MaxLibCrashes, edits : 0..MaxEdits]
    /\ overlapped \in BOOLEAN

(* A library in step with its graph, with or without the first file of the *)
(* import.                                                                 *)
LibraryInit ==
    /\ \E present \in SUBSET {FileOrder[1]} :
         /\ settled = [f \in Files |-> IF f \in present THEN "original" ELSE "absent"]
         /\ live = [f \in Files |-> [text |-> settled[f], inode |-> "nobody"]]
         /\ graph = settled
    /\ importDraft = [status |-> "draft", lease |-> "nobody", expired |-> FALSE]
    /\ markers = {}
    /\ journals = [r \in Requests |-> NoJournal]
    /\ manifests = [r \in Requests |-> << >>]
    /\ request = [r \in Requests |-> [kind |-> "none", at |-> "idle", found |-> {}]]
    /\ holder = Free
    /\ server = [up |-> TRUE, crashes |-> 0, edits |-> 0]
    /\ overlapped = FALSE

Held(r) == journals[r].state = "held"
LockFree == holder.by = "nobody"

-----------------------------------------------------------------------------
(* The files of a publication. *)

(* Mutant: ownership by the inode alone. *)
OwnsInode(r, f) == Held(r) /\ f \in journals[r].links /\ live[f].inode = r

(* stillOwned: the file has the text of the publication and is the inode   *)
(* it linked.                                                              *)
StillOwned(r, f) == /\ Held(r) /\ f \in journals[r].links
                    /\ live[f].inode = r
                    /\ live[f].text = manifests[r][f].new

(* rollbackEntries for one file: a file the publication created is removed *)
(* and one it replaced gets its original back, unless somebody changed it; *)
(* a replaced file that is missing gets it back in any case.               *)
RolledBack(r, f, file) ==
    LET replaced == manifests[r][f].expected # "absent"
        owned == file = live[f] /\ StillOwned(r, f)
    IN CASE ~replaced -> IF owned THEN NoFile ELSE file
         [] replaced /\ (owned \/ file = NoFile) /\ Held(r) ->
              [text |-> manifests[r][f].expected, inode |-> "nobody"]
         [] OTHER -> file

(* rollForwardCommitted: a file that is missing, or still the original,    *)
(* becomes the file of the publication; one that has its text stays.       *)
RolledForward(r, f, file) ==
    IF file.text \in {manifests[r][f].expected, "absent"} \ {manifests[r][f].new}
      THEN [text |-> manifests[r][f].new, inode |-> r]
      ELSE file

RollbackOf(r, files) ==
    [f \in Files |-> IF f \in files THEN RolledBack(r, f, live[f]) ELSE live[f]]

(* Mutant: a publication whose files are all in place counts as committed. *)
Published(r) == \A f \in DOMAIN manifests[r] : live[f].inode = r

(* libraryPublicationCommittedPg: the marker; the draft it was committed   *)
(* with names the publication.                                             *)
Committed(r) == r \in markers

(* recoverLibraryFilePublicationsLockedPg on one file, over the journals   *)
(* in the order of their random names.                                     *)
RecoveredFile(f, order) ==
    LET after[i \in 0..Len(order)] ==
          IF i = 0 THEN live[f]
          ELSE LET r == order[i]
               IN IF f \notin DOMAIN manifests[r] THEN after[i - 1]
                  ELSE IF Committed(r) THEN RolledForward(r, f, after[i - 1])
                  ELSE RolledBack(r, f, after[i - 1])
    IN after[Len(order)]

ListedJournals == {r \in Requests : Held(r)}

(* The orders in which the journals may be listed. *)
Listings == {order \in [1..Cardinality(ListedJournals) -> ListedJournals] :
               \A i, j \in DOMAIN order : order[i] = order[j] => i = j}

(* A directory without its journal.json fails every listing. *)
Listable == \A r \in Requests : journals[r].state # "torn"

(* Mutant: the catalog is read before the journals are recovered. *)
ProjectedBefore(files) ==
    [f \in Files |-> IF live[f] # NoFile THEN live[f].text
                     ELSE IF graph[f] = "absent" THEN "absent" ELSE "deprecated"]

(* reconcileLibraryCatalogLockedPg: the objects of the files; an object    *)
(* whose file is gone is deprecated.                                       *)
Projected(files) ==
    [f \in Files |-> IF files[f] # NoFile THEN files[f].text
                     ELSE IF graph[f] = "absent" THEN "absent" ELSE "deprecated"]

-----------------------------------------------------------------------------
(* A request reads the files and prepares a publication. *)

(* The publication in progress placed the file or moved it aside, or the   *)
(* journal of a committed one is not discarded yet.                        *)
Unfinished(f) ==
    \/ f \in holder.aside \cup holder.placed
    \/ \E r \in markers : Held(r) /\ f \in DOMAIN manifests[r]

(* prepareLibraryFilePublication: a file that exists is replaced when it   *)
(* still has the text that was read, another one is created.               *)
Prepare(r, kind, files, text) ==
    /\ manifests' = [manifests EXCEPT ![r] =
                       [f \in files |-> [expected |-> live[f].text, new |-> text]]]
    /\ journals' = [journals EXCEPT ![r] = [state |-> "held", links |-> {}]]
    /\ request' = [request EXCEPT ![r] = [kind |-> kind, at |-> "prepared", found |-> {}]]
    /\ overlapped' = (overlapped \/ \E f \in files : Unfinished(f))
    /\ UNCHANGED <<live, settled, graph, markers, holder, server>>

Unserved(r) == server.up /\ request[r].at = "idle"

(* A request to publish, within the bound. *)
Publishes(r) ==
    /\ Unserved(r)
    /\ Cardinality({q \in Requests : request[q].kind \notin {"none", "sync"}})
         < MaxPublications

(* PATCH of a file (writeLibraryFileWithLockPg), with a text of its own or *)
(* the one the library started with.                                       *)
PreparePatch(r) ==
    /\ Publishes(r)
    /\ \E f \in Files, text \in {r, "original"} : Prepare(r, "patch", {f}, text)
    /\ UNCHANGED importDraft

(* installLibraryImportCandidates up to its transaction. *)
PrepareInstall(r) ==
    /\ Publishes(r) /\ importDraft.status = "draft"
    /\ Prepare(r, "install", Files, "import")
    /\ UNCHANGED importDraft

(* reserveLibraryImportDraftApproval: the lease of an earlier attempt has  *)
(* to have expired.                                                        *)
Reserve(r) ==
    /\ Publishes(r)
    /\ \/ importDraft.status = "draft"
       \/ importDraft.status = "applying" /\ importDraft.expired
    /\ importDraft' = [status |-> "applying", lease |-> r, expired |-> FALSE]
    /\ request' = [request EXCEPT ![r] = [kind |-> "approve", at |-> "reserved",
                                          found |-> {}]]
    /\ UNCHANGED <<live, settled, graph, markers, journals, manifests, holder, server,
                   overlapped>>

LeaseExpires ==
    /\ importDraft.status = "applying" /\ ~importDraft.expired
    /\ importDraft' = [importDraft EXCEPT !.expired = TRUE]
    /\ UNCHANGED <<live, settled, graph, markers, journals, manifests, request, holder,
                   server, overlapped>>

HasLease(r) == importDraft.status = "applying" /\ importDraft.lease = r

(* markLibraryImportDraftApplyFailed: an approval that still has its lease *)
(* makes the draft a draft again.                                          *)
DraftAfterFailure(r) ==
    IF request[r].kind = "approve" /\ HasLease(r)
      THEN [importDraft EXCEPT !.status = "draft"] ELSE importDraft

Done(r) == request' = [request EXCEPT ![r].at = "done", ![r].found = {}]

(* preflightLibraryImportProposal: an approval creates every file, and     *)
(* objects that never existed.                                             *)
PrepareApproval(r) ==
    /\ server.up /\ request[r].at = "reserved"
    /\ \/ /\ \A f \in Files : live[f] = NoFile /\ graph[f] = "absent"
          /\ Prepare(r, "approve", Files, "import")
          /\ UNCHANGED importDraft
       \/ /\ \E f \in Files : live[f] # NoFile \/ graph[f] # "absent"
          /\ importDraft' = DraftAfterFailure(r)
          /\ Done(r)
          /\ UNCHANGED <<live, settled, graph, markers, journals, manifests, holder,
                         server, overlapped>>

-----------------------------------------------------------------------------
(* The transaction. *)

(* The advisory lock.  An install first locks its draft, which must still  *)
(* be one; otherwise it leaves its journal behind.                         *)
Enter(r) ==
    /\ server.up /\ request[r].at = "prepared"
    /\ \/ /\ LockFree
          /\ request[r].kind = "install" => importDraft.status = "draft"
          /\ holder' = [by |-> r, aside |-> {}, placed |-> {}]
          /\ request' = [request EXCEPT ![r].at = "publishing"]
       \/ /\ request[r].kind = "install" /\ importDraft.status # "draft"
          /\ Done(r)
          /\ UNCHANGED holder
    /\ UNCHANGED <<live, settled, graph, importDraft, markers, journals, manifests, server,
                   overlapped>>

(* The guard of an install finds its Goal import superseded. *)
GuardRejects(r) ==
    /\ server.up /\ request[r].at = "prepared" /\ request[r].kind = "install"
    /\ journals' = [journals EXCEPT ![r] = NoJournal]
    /\ Done(r)
    /\ UNCHANGED <<live, settled, graph, importDraft, markers, manifests, holder, server,
                   overlapped>>

Publishing(r) == server.up /\ holder.by = r
Unplaced(r) == DOMAIN manifests[r] \ holder.placed

(* The entry whose turn it is. *)
NextEntry(r, f) ==
    /\ f \in Unplaced(r)
    /\ \E i \in DOMAIN FileOrder :
         FileOrder[i] = f /\ \A j \in 1..(i - 1) : FileOrder[j] \notin Unplaced(r)

Creates(r, f) == manifests[r][f].expected = "absent"

(* The text a replacement was prepared against. *)
StillExpected(r, f) == live[f].text = manifests[r][f].expected

(* A file to be replaced goes into the backups of the journal, which this  *)
(* makes anew, without a journal.json, when somebody discarded it.         *)
MoveAside(r, f) ==
    /\ Publishing(r) /\ NextEntry(r, f)
    /\ ~Creates(r, f) /\ f \notin holder.aside /\ StillExpected(r, f)
    /\ live' = [live EXCEPT ![f] = NoFile]
    /\ holder' = [holder EXCEPT !.aside = @ \cup {f}]
    /\ journals' = IF Held(r) THEN journals ELSE [journals EXCEPT ![r].state = "torn"]
    /\ UNCHANGED <<settled, graph, importDraft, markers, manifests, request, server,
                   overlapped>>

(* replaceTargetFromRef and createTargetFromRef: the staged file, linked   *)
(* as the publication's own; a file that exists is not created.            *)
Place(r, f) ==
    /\ Publishing(r) /\ NextEntry(r, f) /\ Held(r)
    /\ f \in holder.aside \/ (Creates(r, f) /\ live[f] = NoFile)
    /\ live' = [live EXCEPT ![f] = [text |-> manifests[r][f].new, inode |-> r]]
    /\ journals' = [journals EXCEPT ![r].links = @ \cup {f}]
    /\ holder' = [holder EXCEPT !.placed = @ \cup {f}]
    /\ UNCHANGED <<settled, graph, importDraft, markers, manifests, request, server,
                   overlapped>>

(* A publish that cannot go on rolls back what it touched.  Only a PATCH   *)
(* rolls back all its entries and discards its journal, unless it has lost *)
(* what the rollback reads.                                                *)
PublishFails(r, f) ==
    /\ Publishing(r) /\ NextEntry(r, f)
    /\ IF f \in holder.aside THEN ~Held(r)
       ELSE IF Creates(r, f) THEN live[f] # NoFile \/ ~Held(r)
       ELSE ~StillExpected(r, f)
    /\ live' = RollbackOf(r, IF request[r].kind = "patch" THEN DOMAIN manifests[r]
                             ELSE holder.aside \cup holder.placed)
    /\ journals' = IF request[r].kind = "patch" /\ Held(r)
                     THEN [journals EXCEPT ![r] = NoJournal] ELSE journals
    /\ holder' = Free
    /\ importDraft' = DraftAfterFailure(r)
    /\ Done(r)
    /\ UNCHANGED <<settled, graph, markers, manifests, server, overlapped>>

(* The texts the library has by the commit of r: an edit made since the    *)
(* file was placed stays.                                                  *)
SettledBy(r) ==
    [f \in Files |-> IF f \in DOMAIN manifests[r] /\ live[f].text # "edited"
                       THEN manifests[r][f].new ELSE settled[f]]

(* An approval finds no object of its own, and has its lease. *)
Acceptable(r) ==
    request[r].kind = "approve" => HasLease(r) /\ \A f \in Files : graph[f] = "absent"

(* The rest of the transaction: an import reconciles the graph and ends    *)
(* its draft; the marker is part of the same commit.                       *)
Commit(r) ==
    /\ Publishing(r) /\ Unplaced(r) = {} /\ Acceptable(r)
    /\ IF request[r].kind = "patch" THEN UNCHANGED <<graph, importDraft>>
       ELSE /\ graph' = Projected(live)
            /\ importDraft' = [importDraft EXCEPT
                                 !.status = IF request[r].kind = "install" THEN "installed"
                                            ELSE "approved"]
    /\ settled' = SettledBy(r)
    /\ markers' = markers \cup {r}
    /\ holder' = Free
    /\ request' = [request EXCEPT ![r].at = "finalizing"]
    /\ UNCHANGED <<live, journals, manifests, server, overlapped>>

(* An import whose catalog does not reconcile, or that is not acceptable,  *)
(* is rolled back before the lock is released.                             *)
CommitFails(r) ==
    /\ Publishing(r) /\ Unplaced(r) = {} /\ request[r].kind # "patch"
    /\ live' = RollbackOf(r, DOMAIN manifests[r])
    /\ journals' = [journals EXCEPT ![r] = NoJournal]
    /\ holder' = Free
    /\ importDraft' = DraftAfterFailure(r)
    /\ Done(r)
    /\ UNCHANGED <<settled, graph, markers, manifests, server, overlapped>>

(* finalizeCommittedLibraryPublication. *)
Finalize(r) ==
    /\ server.up /\ request[r].at = "finalizing"
    /\ journals' = [journals EXCEPT ![r] = NoJournal]
    /\ Done(r)
    /\ UNCHANGED <<live, settled, graph, importDraft, markers, manifests, holder, server,
                   overlapped>>

-----------------------------------------------------------------------------
(* Reconciling. *)

(* The files and the graph after the journals are recovered in some order. *)
Recover ==
    \E order \in Listings :
      LET recovered == [f \in Files |-> RecoveredFile(f, order)]
      IN live' = recovered /\ graph' = Projected(recovered)

(* POST .../sync: a catalog that does not reconcile undoes the graph, not  *)
(* the files, and leaves the journals.                                     *)
Sync(r) ==
    /\ Unserved(r) /\ LockFree /\ Listable
    /\ \/ /\ Recover
          /\ request' = [request EXCEPT ![r] = [kind |-> "sync", at |-> "discarding",
                                                found |-> ListedJournals]]
       \/ /\ \E order \in Listings : live' = [f \in Files |-> RecoveredFile(f, order)]
          /\ request' = [request EXCEPT ![r] = [kind |-> "sync", at |-> "done",
                                                found |-> {}]]
          /\ UNCHANGED graph
    /\ UNCHANGED <<settled, importDraft, markers, journals, manifests, holder, server,
                   overlapped>>

(* The journals it found are discarded after its transaction, those of     *)
(* requests that are still at work among them.                             *)
Discard(r) ==
    /\ server.up /\ request[r].at = "discarding"
    /\ journals' = [q \in Requests |-> IF q \in request[r].found THEN NoJournal
                                       ELSE journals[q]]
    /\ overlapped' = (overlapped \/ \E q \in request[r].found :
                                      request[q].at \in {"prepared", "publishing"})
    /\ Done(r)
    /\ UNCHANGED <<live, settled, graph, importDraft, markers, manifests, holder, server>>

(* prepareRuntimeLibraryPg, before the server takes requests. *)
Startup ==
    /\ ~server.up /\ Listable
    /\ Recover
    /\ journals' = [r \in Requests |-> NoJournal]
    /\ server' = [server EXCEPT !.up = TRUE]
    /\ UNCHANGED <<settled, importDraft, markers, manifests, request, holder, overlapped>>

-----------------------------------------------------------------------------
(* A file that is aside is also in the journal of another request, whose   *)
(* rollback gives a missing file its own original back.                    *)
Contested ==
    \E f \in holder.aside \ holder.placed, r \in Requests \ {holder.by} :
      Held(r) /\ f \in DOMAIN manifests[r]

(* The server stops; Postgres drops the transaction and its lock. *)
LibraryCrash ==
    /\ server.up /\ server.crashes < MaxLibCrashes
    /\ server' = [server EXCEPT !.up = FALSE, !.crashes = @ + 1]
    /\ holder' = Free
    /\ request' = [r \in Requests |-> IF request[r].at = "idle" THEN request[r]
                                      ELSE [request[r] EXCEPT !.at = "done", !.found = {}]]
    /\ overlapped' = (overlapped \/ Contested)
    /\ UNCHANGED <<live, settled, graph, importDraft, markers, journals, manifests>>

(* An edit that puts back the text which a publication that still has its  *)
(* journal replaced: recovery takes it for the replaced file.              *)
PutsBack(f) ==
    /\ live[f].text # "edited"
    /\ \E r \in Requests : /\ Held(r) /\ f \in DOMAIN manifests[r]
                           /\ manifests[r][f].expected = "edited"

(* The operator saves a file, in place or through a new one. *)
Edit(f) ==
    /\ server.edits < MaxEdits /\ live[f] # NoFile
    /\ \E inode \in {live[f].inode, "nobody"} :
         live' = [live EXCEPT ![f] = [text |-> "edited", inode |-> inode]]
    /\ settled' = [settled EXCEPT ![f] = "edited"]
    /\ server' = [server EXCEPT !.edits = @ + 1]
    /\ overlapped' = (overlapped \/ PutsBack(f))
    /\ UNCHANGED <<graph, importDraft, markers, journals, manifests, request, holder>>

LibraryNext ==
    \/ \E r \in Requests :
         \/ PreparePatch(r) \/ PrepareInstall(r) \/ Reserve(r) \/ PrepareApproval(r)
         \/ Enter(r) \/ GuardRejects(r)
         \/ \E f \in Files : MoveAside(r, f) \/ Place(r, f) \/ PublishFails(r, f)
         \/ Commit(r) \/ CommitFails(r) \/ Finalize(r)
         \/ Sync(r) \/ Discard(r)
    \/ LeaseExpires \/ Startup \/ LibraryCrash
    \/ \E f \in Files : Edit(f)

LibrarySpec == LibraryInit /\ [][LibraryNext]_libraryVars

-----------------------------------------------------------------------------
(* Once nobody holds the lock and no journal is left, the library is what  *)
(* the commits and the edits made it: a publication that committed left    *)
(* all its files, one that did not left none, whatever failed or crashed   *)
(* in between (memory.md: publication and reconciliation stay recoverable  *)
(* when a process fails between file publication and database commit).     *)
LibraryConverges ==
    (/\ ~overlapped /\ server.up /\ LockFree
     /\ \A r \in Requests : ~Held(r)) => \A f \in Files : live[f].text = settled[f]

(* A reconcile shows the graph the committed and edited texts only: the    *)
(* files of a publication in progress never reach it.                      *)
GraphShowsTheSettled ==
    [][(graph' # graph /\ ~overlapped) =>
         \A f \in Files : IF settled'[f] = "absent"
                            THEN graph'[f] \in {"absent", "deprecated"}
                            ELSE graph'[f] = settled'[f]]_libraryVars

(* A text the operator saved gives way only to a publication prepared from *)
(* it, which is at work or has committed: neither a stale publication, nor *)
(* a rollback, nor the recovery of one that failed overwrites it.          *)
EditsSurvive ==
    [][\A f \in Files :
         (live[f].text = "edited" /\ live'[f].text # "edited") =>
           \E r \in Requests : /\ holder.by = r \/ r \in markers
                               /\ f \in DOMAIN manifests[r]
                               /\ manifests[r][f].expected = "edited"]_libraryVars

=============================================================================
