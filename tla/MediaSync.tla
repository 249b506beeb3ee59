----------------------------- MODULE MediaSync -----------------------------
(***************************************************************************)
(* The sync of media files between several devices and the media server    *)
(* (rslib/src/sync/media, media/mod.rs, sync/http_server/media_manager).   *)
(*                                                                         *)
(* A device has a folder and a database of what it knows of the folder;    *)
(* the server has rows with update sequence numbers and a folder of its    *)
(* own.  A pass runs on a background thread, one request at a time, while  *)
(* the user, other programs and other devices go on changing files.        *)
(*                                                                         *)
(* Abstractions: a file is its checksum; names are normalized and files    *)
(* neither empty nor too large; a modification time is only compared with  *)
(* the recorded one, so the model keeps whether the two are equal (folder: *)
(* noticed, in milliseconds; files: exact, in seconds).                    *)
(***************************************************************************)
EXTENDS Integers, FiniteSets, Functions

CONSTANTS
    Clients,   \* devices
    Files,     \* file names
    Contents,  \* checksums
    Absent,    \* no such file, a null checksum
    NoEntry,   \* no row in a database
    ChunkSize, \* rows of one answer to media_changes, 1000 in the code
    ZipSize,   \* MAX_MEDIA_FILES_IN_ZIP, 25 in the code
    InPlace,   \* do programs rewrite files without touching the folder?
    Seeded,    \* files that everybody has at first
    MaxEvents, \* bound: changes to the folders, failed requests, lost answers, crashes
    MaxUsn     \* bound: uploads that change the server

Sums == Contents \union {Absent}
Entry == [sum : Sums, dirty : BOOLEAN] \union {NoEntry}
Row == [sum : Sums, usn : Nat] \union {NoEntry}

ASSUME FilesAssumption == IsFiniteSet(Files) /\ IsFiniteSet(Clients)
ASSUME ContentsAssumption == Contents # {} /\ Absent \notin Contents
ASSUME NoEntryAssumption ==
    /\ \A s \in Sums, d \in BOOLEAN : NoEntry # [sum |-> s, dirty |-> d]
    /\ NoEntry \notin [sum : Sums, usn : Nat]
ASSUME SizesAssumption == {ChunkSize, ZipSize} \subseteq Nat \ {0}
ASSUME BoundsAssumption ==
    /\ {MaxEvents, MaxUsn} \subseteq Nat
    /\ InPlace \in BOOLEAN
    /\ Seeded \subseteq Files /\ Cardinality(Seeded) <= MaxUsn

VARIABLES
    folder,  \* folder[c][f]: the file on the disk of c
    db,      \* db[c][f]: the entry of c's media database
    usn,     \* usn[c]: meta.last_sync_usn
    noticed, \* devices whose folder has the recorded modification time
    exact,   \* exact[c]: files that have, to the second, the recorded modification time
    pass,    \* pass[c]: where the sync of c stands
    srv,     \* the rows of the server
    disk,    \* the files of the server
    last,    \* the server's last_usn
    held,    \* history: what the server has held of each file
    blind,   \* history: files hit by one of the windows in which a change goes unnoticed
    events   \* changes and faults so far

deviceVars == <<folder, db, usn, noticed, exact>>
serverVars == <<srv, disk, last, held>>
vars == <<deviceVars, serverVars, pass, blind, events>>

LocalSum(c, f) == IF db[c][f] = NoEntry THEN Absent ELSE db[c][f].sum
RemoteSum(f) == IF srv[f] = NoEntry THEN Absent ELSE srv[f].sum

Idle == [stage |-> "idle", last |-> 0, todo |-> {}, got |-> {}, del |-> {}, clean |-> {},
         sent |-> {}, reply |-> 0]

Event == events < MaxEvents /\ events' = events + 1
GoTo(c, p) == pass' = [pass EXCEPT ![c] = p]
Stop(c) == GoTo(c, Idle)

-----------------------------------------------------------------------------
(* The media database of a device.                                         *)

Names(holdings) == {h.file : h \in holdings}
Holdings(c, X) == {[file |-> f, sum |-> LocalSum(c, f)] : f \in X}

Pending(entries) == {f \in Files : entries[f] # NoEntry /\ entries[f].dirty}

RecordAllClean(entries, X) ==
    [f \in Files |-> IF f \in Pending(entries) THEN [entries[f] EXCEPT !.dirty = FALSE] ELSE entries[f]]

RecordClean(entries, X) ==
    [f \in Files |-> IF f \in X \intersect Pending(entries) THEN [entries[f] EXCEPT !.dirty = FALSE]
                     ELSE entries[f]]

RecordRemovals(entries, X) == [f \in Files |-> IF f \in X THEN NoEntry ELSE entries[f]]

RecordAdditions(entries, got) ==
    [f \in Files |-> IF f \in Names(got)
                     THEN [sum |-> (CHOOSE g \in got : g.file = f).sum, dirty |-> FALSE]
                     ELSE entries[f]]

MarkRemoved(entries, X) ==
    [f \in Files |-> IF f \in X /\ entries[f] # NoEntry THEN [sum |-> Absent, dirty |-> TRUE]
                     ELSE entries[f]]

Count(entries) == Cardinality({f \in Files : entries[f] # NoEntry /\ entries[f].sum # Absent})

\* media_folder_changes, add_updated_entries, remove_deleted_files
Scanned(c) ==
    [f \in Files |->
        LET known == LocalSum(c, f) # Absent
            now == folder[c][f]
        IN  IF now = Absent
            THEN IF known THEN [sum |-> Absent, dirty |-> TRUE] ELSE db[c][f]
            ELSE IF known /\ f \in exact[c] THEN db[c][f]
            ELSE [sum |-> now, dirty |-> IF known /\ now = LocalSum(c, f) THEN db[c][f].dirty ELSE TRUE]]

\* register_changes looks at the files only when the folder's modification time is new.
Registered(c) == IF c \in noticed THEN db[c] ELSE Scanned(c)

-----------------------------------------------------------------------------
(* The server.                                                             *)

NonemptyEntry(rows, f) == rows[f] # NoEntry /\ rows[f].sum # Absent

\* register_uploaded_change: a deletion of what is not there and an identical file
\* change nothing.
RegisterUploadedChange(f, sum) ==
    IF NonemptyEntry(srv, f) THEN srv[f].sum # sum ELSE sum # Absent

NextUsnsSkipping(n) == (last + 2)..(last + n + 1)

\* The sequence numbers that n changes take one after another.
NextUsns(n) == (last + 1)..(last + n)

Changed(sent) == {f \in DOMAIN sent : RegisterUploadedChange(f, sent[f])}

\* The files of a zip, in the order they have in it.
ProcessUploadedChanges(sent) ==
    LET changed == Changed(sent)
    IN  /\ \E number \in Bijection(changed, NextUsns(Cardinality(changed))) :
            srv' = [f \in Files |-> IF f \in changed THEN [sum |-> sent[f], usn |-> number[f]]
                                    ELSE srv[f]]
        /\ last' = last + Cardinality(changed)
        /\ disk' = [f \in Files |-> IF f \in changed THEN sent[f] ELSE disk[f]]
        /\ held' = [f \in Files |-> held[f] \union ({RemoteSum(f)'} \ {Absent})]

ChunkFrom(after) ==
    LET newer == {f \in Files : srv[f] # NoEntry /\ srv[f].usn >= after}
    IN  {f \in newer : Cardinality({g \in newer : srv[g].usn < srv[f].usn}) < ChunkSize}

\* The rows after a sequence number, in order, at most ChunkSize of them.
MediaChangesChunk(after) ==
    LET newer == {f \in Files : srv[f] # NoEntry /\ srv[f].usn > after}
    IN  {f \in newer : Cardinality({g \in newer : srv[g].usn < srv[f].usn}) < ChunkSize}

NonemptyFileCount == Cardinality({f \in Files : NonemptyEntry(srv, f)})

-----------------------------------------------------------------------------
(* A pass of device c.                                                     *)

ServerRemovals(localSum, remoteSum, known, pending) ==
    IF remoteSum = Absent THEN IF localSum = Absent /\ ~known THEN "none" ELSE "delete"
    ELSE IF localSum = remoteSum THEN IF pending THEN "remove_pending" ELSE "none"
         ELSE "download"

RequiredChange(localSum, remoteSum, known, pending) ==
    IF remoteSum = Absent
    THEN IF localSum = Absent THEN IF known THEN "delete" ELSE "none"
         ELSE IF pending THEN "none" ELSE "delete"
    ELSE IF localSum = remoteSum THEN IF pending THEN "remove_pending" ELSE "none"
         ELSE "download"

\* remove_files moves files to the trash, in the order of the batch, and stops at the
\* first one that is not there.
Trashed(c, X) == {f \in X : \A g \in X : srv[g].usn <= srv[f].usn => folder[c][g] # Absent}

\* What follows the fetching: uploads if any are pending, else the sanity check.
AfterFetch(entries) == [Idle EXCEPT !.stage = IF Pending(entries) # {} THEN "send" ELSE "sanity"]

Begin(c) ==
    LET entries == Registered(c)
    IN  /\ pass[c].stage = "idle"
        /\ db' = [db EXCEPT ![c] = entries]
        /\ noticed' = noticed \union {c}
        /\ exact' = IF c \in noticed THEN exact
                    ELSE [exact EXCEPT ![c] = {f \in Files : folder[c][f] # Absent}]
        /\ GoTo(c, IF usn[c] # last THEN [Idle EXCEPT !.stage = "fetch", !.last = usn[c]]
                   ELSE IF Pending(entries) # {} THEN [Idle EXCEPT !.stage = "send"]
                   ELSE Idle)
        /\ UNCHANGED <<folder, usn, serverVars, blind, events>>

Fetch(c) ==
    LET batch == MediaChangesChunk(pass[c].last)
        Required(f) == RequiredChange(LocalSum(c, f), srv[f].sum, db[c][f] # NoEntry, f \in Pending(db[c]))
        del == {f \in batch : Required(f) = "delete"}
    IN  /\ pass[c].stage = "fetch"
        /\ IF batch = {}
           THEN GoTo(c, AfterFetch(db[c])) /\ UNCHANGED <<folder, db>>
           ELSE /\ folder' = [folder EXCEPT ![c] = [f \in Files |-> IF f \in Trashed(c, del) THEN Absent ELSE @[f]]]
                /\ db' = [db EXCEPT ![c] = MarkRemoved(@, del)]
                /\ GoTo(c, [Idle EXCEPT !.stage = "download", !.del = del,
                               !.last = CHOOSE u \in {srv[f].usn : f \in batch} : \A f \in batch : srv[f].usn <= u,
                               !.todo = {f \in batch : Required(f) = "download"},
                               !.clean = Holdings(c, {f \in batch : Required(f) = "remove_pending"})])
        /\ UNCHANGED <<usn, noticed, exact, serverVars, blind, events>>

\* One zip: files that are no longer there end the pass with a conflict, and a row
\* without its file is forgotten.
Download(c) ==
    /\ pass[c].stage = "download"
    /\ \E X \in SUBSET pass[c].todo :
        /\ X # {} /\ Cardinality(X) <= ZipSize
        /\ IF \E f \in X : ~NonemptyEntry(srv, f)
           THEN Stop(c) /\ UNCHANGED <<folder, noticed, exact, serverVars>>
           ELSE IF \E f \in X : disk[f] = Absent
           THEN /\ \E f \in X : disk[f] = Absent /\ srv' = [srv EXCEPT ![f] = NoEntry]
                /\ Stop(c) /\ UNCHANGED <<folder, noticed, exact, disk, last, held>>
           ELSE /\ folder' = [folder EXCEPT ![c] = [f \in Files |-> IF f \in X THEN disk[f] ELSE @[f]]]
                /\ exact' = [exact EXCEPT ![c] = @ \ X]
                /\ noticed' = IF \E f \in X : folder[c][f] = Absent THEN noticed \ {c} ELSE noticed
                /\ GoTo(c, [pass[c] EXCEPT !.todo = @ \ X,
                                !.got = @ \union {[file |-> f, sum |-> disk[f]] : f \in X}])
                /\ UNCHANGED serverVars
    /\ UNCHANGED <<db, usn, blind, events>>

\* Names whose entry is no longer what it was when the pass read it.
Outdated(c, holdings) == {h.file : h \in {h \in holdings : LocalSum(c, h.file) # h.sum}}

\* The transaction after a batch.  The folder's modification time is read now: whatever
\* changed in the folder since the batch began counts as known.
Record(c) ==
    LET p == pass[c]
        entries == RecordAdditions(RecordRemovals(RecordClean(db[c], Names(p.clean)), p.del), p.got)
        Sum(f) == IF entries[f] = NoEntry THEN Absent ELSE entries[f].sum
    IN  /\ p.stage = "download" /\ p.todo = {}
        /\ db' = [db EXCEPT ![c] = entries]
        /\ usn' = [usn EXCEPT ![c] = p.last]
        /\ noticed' = noticed \union {c}
        /\ blind' = blind \union {f \in Files : folder[c][f] # Sum(f)}
                          \union Outdated(c, p.clean)
        /\ GoTo(c, [Idle EXCEPT !.stage = "fetch", !.last = p.last])
        /\ UNCHANGED <<folder, exact, serverVars, events>>

\* gather_zip_data_for_upload and upload_changes: what is sent is what the folder holds.
Upload(c) ==
    \E X \in SUBSET Pending(db[c]) :
        LET sent == [f \in X |-> IF LocalSum(c, f) = Absent THEN Absent ELSE folder[c][f]]
        IN  /\ pass[c].stage = "send" /\ X # {} /\ Cardinality(X) <= ZipSize
            /\ X = Pending(db[c]) \/ Cardinality(X) = ZipSize
            /\ last + Cardinality(Changed(sent)) <= MaxUsn
            /\ \/ /\ ProcessUploadedChanges(sent)
                  /\ UNCHANGED blind
                  /\ \/ GoTo(c, [pass[c] EXCEPT !.stage = "reply", !.reply = last',
                                      !.sent = {[file |-> f, sum |-> sent[f]] : f \in X}])
                        /\ UNCHANGED events
                     \/ Stop(c) /\ Event                       \* the answer is lost
               \/ /\ \E torn \in SUBSET Changed(sent) :         \* a crash before the commit
                        /\ torn # {}
                        /\ disk' = [f \in Files |-> IF f \in torn THEN sent[f] ELSE disk[f]]
                        /\ blind' = blind \union torn
                  /\ Stop(c) /\ Event /\ UNCHANGED <<srv, last, held>>
            /\ UNCHANGED deviceVars

\* record_clean marks the names that were sent, whatever became of the files meanwhile.
\* The sequence number advances by the count of names only if that is the server's.
Reply(c) ==
    LET p == pass[c]
        advanced == usn[c] + Cardinality(p.sent) = p.reply
    IN  /\ p.stage = "reply"
        /\ db' = [db EXCEPT ![c] = RecordClean(@, Names(p.sent))]
        /\ usn' = [usn EXCEPT ![c] = IF advanced THEN p.reply ELSE @]
        /\ blind' = blind \union Outdated(c, p.sent)
                          \union {f \in Files \ Names(p.sent) : advanced /\ srv[f] # NoEntry
                                                /\ srv[f].usn \in (usn[c] + 1)..p.reply}
        /\ GoTo(c, [Idle EXCEPT !.stage = IF Pending(db'[c]) # {} THEN "send" ELSE "sanity"])
        /\ UNCHANGED <<folder, noticed, exact, serverVars, events>>

\* finalize_sync; on a mismatch force_resync empties the database.
Sanity(c) ==
    /\ pass[c].stage = "sanity"
    /\ IF Count(db[c]) = NonemptyFileCount
       THEN UNCHANGED <<db, usn, noticed, exact>>
       ELSE /\ db' = [db EXCEPT ![c] = [f \in Files |-> NoEntry]]
            /\ usn' = [usn EXCEPT ![c] = 0]
            /\ noticed' = noticed \ {c}
            /\ exact' = [exact EXCEPT ![c] = {}]
    /\ Stop(c)
    /\ UNCHANGED <<folder, serverVars, blind, events>>

\* A request is lost or the user aborts: what is in folder and database stays.
Fail(c) ==
    /\ pass[c].stage # "idle"
    /\ Stop(c) /\ Event
    /\ UNCHANGED <<deviceVars, serverVars, blind>>

-----------------------------------------------------------------------------
(* Changes of the folder, at any moment of a pass.                         *)

\* MediaManager::add_file under a name that is free or holds the same data; the
\* recorded modification time of the folder follows if it was up to date.
AddFile(c, f, s) ==
    /\ folder[c][f] \in {Absent, s}
    /\ Event
    /\ folder' = [folder EXCEPT ![c][f] = s]
    /\ IF db[c][f] = NoEntry \/ LocalSum(c, f) # s
       THEN db' = [db EXCEPT ![c][f] = [sum |-> s, dirty |-> TRUE]] /\ exact' = [exact EXCEPT ![c] = @ \ {f}]
       ELSE UNCHANGED <<db, exact>>
    /\ UNCHANGED <<usn, noticed, serverVars, pass, blind>>

\* MediaManager::remove_files
RemoveFile(c, f) ==
    /\ folder[c][f] # Absent
    /\ Event
    /\ folder' = [folder EXCEPT ![c][f] = Absent]
    /\ db' = [db EXCEPT ![c] = MarkRemoved(@, {f})]
    /\ UNCHANGED <<usn, noticed, exact, serverVars, pass, blind>>

\* Another program writes or deletes a file.  Rewriting one in place leaves the folder's
\* modification time alone, and the file's too within a second.
OutsideChange(c, f, s) ==
    /\ folder[c][f] # s
    /\ Event
    /\ folder' = [folder EXCEPT ![c][f] = s]
    /\ \/ /\ noticed' = noticed \ {c}
          /\ exact' = [exact EXCEPT ![c] = @ \ {f}]
          /\ UNCHANGED blind
       \/ /\ InPlace /\ folder[c][f] # Absent /\ s # Absent
          /\ \/ UNCHANGED exact
             \/ exact' = [exact EXCEPT ![c] = @ \ {f}]
          /\ blind' = IF c \in noticed \/ f \in exact'[c] THEN blind \union {f} ELSE blind
          /\ UNCHANGED noticed
    /\ UNCHANGED <<db, usn, serverVars, pass>>

-----------------------------------------------------------------------------
\* The seeded files have been synced everywhere.
Seed == CHOOSE s \in Contents : TRUE

Init ==
    /\ disk = [f \in Files |-> IF f \in Seeded THEN Seed ELSE Absent]
    /\ last = Cardinality(Seeded)
    /\ \E number \in Bijection(Seeded, 1..last) :
        srv = [f \in Files |-> IF f \in Seeded THEN [sum |-> Seed, usn |-> number[f]] ELSE NoEntry]
    /\ folder = [c \in Clients |-> disk]
    /\ db = [c \in Clients |-> [f \in Files |->
                IF f \in Seeded THEN [sum |-> Seed, dirty |-> FALSE] ELSE NoEntry]]
    /\ usn = [c \in Clients |-> last]
    /\ noticed = Clients
    /\ exact = [c \in Clients |-> {}]
    /\ pass = [c \in Clients |-> Idle]
    /\ held = [f \in Files |-> {disk[f]} \ {Absent}]
    /\ blind = {}
    /\ events = 0

SyncStep(c) ==
    \/ Begin(c)
    \/ Fetch(c)
    \/ Download(c)
    \/ Record(c)
    \/ Upload(c)
    \/ Reply(c)
    \/ Sanity(c)

FolderStep(c) ==
    \E f \in Files :
        \/ \E s \in Contents : AddFile(c, f, s)
        \/ RemoveFile(c, f)
        \/ \E s \in Sums : OutsideChange(c, f, s)

Next == \E c \in Clients : SyncStep(c) \/ Fail(c) \/ FolderStep(c)

Spec == Init /\ [][Next]_vars

\* The media sync is started again and again, and its thread runs.
FairSpec == Spec /\ \A c \in Clients : WF_vars(SyncStep(c))

-----------------------------------------------------------------------------
TypeOK ==
    /\ folder \in [Clients -> [Files -> Sums]] /\ db \in [Clients -> [Files -> Entry]]
    /\ usn \in [Clients -> 0..last] /\ noticed \subseteq Clients /\ exact \in [Clients -> SUBSET Files]
    /\ srv \in [Files -> Row] /\ disk \in [Files -> Sums] /\ last \in 0..MaxUsn
    /\ held \in [Files -> SUBSET Contents] /\ blind \subseteq Files
    /\ events \in 0..MaxEvents
    /\ \A f \in Files : srv[f] # NoEntry => srv[f].usn \in 1..last

\* What the next pass of c will come across.
Noticed(c, f) ==
    \/ f \in Pending(db[c])
    \/ srv[f] # NoEntry /\ srv[f].usn > usn[c]
    \/ c \notin noticed /\ folder[c][f] # LocalSum(c, f) /\ (folder[c][f] # Absent => f \notin exact[c])

\* No difference between a folder and the server is overlooked by the passes to come,
\* save for files hit by a window in which the code cannot see a change.
NothingMissed ==
    \A c \in Clients, f \in Files :
        folder[c][f] # RemoteSum(f) => Noticed(c, f) \/ f \in blind

\* A deletion from the server takes away only what the server has held at some time, save
\* for what another program wrote since the pass looked at the folder.
DeletionsSpareUnsent ==
    [][\A c \in Clients, f \in Files :
        (Fetch(c) /\ folder'[c][f] # folder[c][f] /\ folder[c][f] = LocalSum(c, f))
            => folder[c][f] \in held[f] \/ f \in blind]_vars

Agreed == \A c \in Clients, f \in Files \ blind : folder[c][f] = RemoteSum(f)

\* Once changes and faults stop, the folders hold what the server holds.
EventuallyAgreed == <>[]Agreed
=============================================================================
