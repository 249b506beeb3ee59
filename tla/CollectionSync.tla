--------------------------- MODULE CollectionSync ---------------------------
(***************************************************************************)
(* The normal sync of a collection between several clients and the self-   *)
(* hosted sync server (rslib/src/sync/collection, sync/http_server).       *)
(*                                                                         *)
(* Every site keeps a committed collection (col) and the copy its open     *)
(* transaction works on (work); the two are equal outside a sync.  The     *)
(* client drives the protocol one HTTP request at a time.  A request may   *)
(* be lost, or be processed and have its answer lost; the client then      *)
(* rolls back and sends an abort.  The server serves the requests of one   *)
(* user one at a time (a mutex) and remembers one session.                 *)
(*                                                                         *)
(* Abstractions: an object's content is its modification time, so two      *)
(* edits of one object never carry the same second; a collection's         *)
(* modification and schema times are tokens, of which the code only tests  *)
(* equality (and which is later: left open, clocks differ); cards and      *)
(* notes are "chunked" objects, decks, presets and notetypes "unchunked"   *)
(* ones; review log entries, which are only ever added, names, tags and    *)
(* the creation stamp are left out.                                        *)
(*                                                                         *)
(* The server knows of no sync between a client's meta and its start:      *)
(* whatever other devices do in between is served, and the client goes on  *)
(* with the number it was told.  Three marks that no code reads record     *)
(* what comes of that: late, blind and doubtful.                           *)
(***************************************************************************)
EXTENDS Integers, FiniteSets

CONSTANTS
    Clients,    \* devices of one user
    Server,     \* the sync server
    None,       \* no session
    Chunked,    \* objects sent in chunks: notes and cards
    Unchunked,  \* objects sent all at once: decks, presets, notetypes
    Starts,     \* sets of objects that all sites may hold at the start
    ChunkSize,  \* CHUNK_SIZE, 250 in the code
    MaxStamp,   \* bound: modification times of objects are 1..MaxStamp
    MaxEdits,   \* bound: local changes, and uploads chosen over downloads
    MaxFaults,  \* bound: lost requests or answers, restarts, aborts, interfering syncs
    LastEditUsn,\* bound: local changes happen while the server's usn is at most this
    MaxUsn      \* bound: from this server usn on, nobody syncs when nobody has anything to send or fetch

Objects == Chunked \union Unchunked
Sites == Clients \union {Server}

ASSUME SitesAssumption == Server \notin Clients /\ None \notin Sites /\ IsFiniteSet(Clients)
ASSUME ObjectsAssumption == Chunked \intersect Unchunked = {} /\ IsFiniteSet(Objects)
ASSUME StartsAssumption == Starts \subseteq SUBSET Objects
ASSUME BoundsAssumption ==
    /\ {ChunkSize, MaxStamp} \subseteq Nat \ {0}
    /\ {MaxEdits, MaxFaults, LastEditUsn, MaxUsn} \subseteq Nat

VARIABLES
    col,      \* col[s]: the committed collection of site s
    work,     \* work[s]: what the open transaction of s sees
    sync,     \* sync[c]: where client c's sync stands
    session,  \* the server's ServerSyncState
    aborts,   \* clients whose abort request is on its way
    blind,    \* history: blind[c], what a sync that c overtook has sent since
    doubtful, \* history: objects whose rows and graves no longer fit each other
    edits,    \* local changes and chosen uploads so far
    faults    \* faults that happened so far

history == <<blind, doubtful>>
vars == <<col, work, sync, session, aborts, history, edits, faults>>

Absent == [mtime |-> 0, usn |-> 0]
NoGrave == -2
Unsynced == -1

Usns == {n \in Int : n >= NoGrave}
Version == [mtime : 0..MaxStamp, usn : Usns]
Collection == [obj : [Objects -> Version], grave : [Objects -> Usns],
               usn : Nat, mod : Nat, own : BOOLEAN, scm : Nat, conf : 0..1]

Holds(C, x) == C.obj[x].mtime # 0

\* mod is the modification stamp; own says that this site's clock set it, not the server's.
\* Two sites never share a token they did not copy from one another.
Fresh(used) == CHOOSE t \in 0..Cardinality(Sites) : t \notin used
NewMod == Fresh({col[s].mod : s \in Sites})
NewScm == Fresh({col[s].scm : s \in Sites})

-----------------------------------------------------------------------------
(* What both sides do with a collection.                                   *)

IsPendingAfter(usn, pending) == IF pending = Unsynced THEN usn = Unsynced ELSE usn > pending

IsPendingSync(usn, pending) == IF pending = Unsynced THEN usn = Unsynced ELSE usn >= pending

ObjectsPendingSync(C, X, pending) == {x \in X : Holds(C, x) /\ IsPendingSync(C.obj[x].usn, pending)}

PendingGraves(C, pending) == {x \in Objects : IsPendingSync(C.grave[x], pending)}

UpdateObjectUsns(C, X, usn) ==
    [C EXCEPT !.obj = [x \in Objects |-> IF x \in X THEN [@[x] EXCEPT !.usn = usn] ELSE @[x]]]

UpdatePendingGraveUsns(C, usn) ==
    [C EXCEPT !.grave = [x \in Objects |-> IF @[x] = Unsynced THEN usn ELSE @[x]]]

\* "insert or ignore": a grave that is there keeps its usn.
AddGraves(grave, X, usn) ==
    [x \in Objects |-> IF x \in X /\ grave[x] = NoGrave THEN usn ELSE grave[x]]

ApplyGravesSilently(C, X, usn) ==
    [C EXCEPT !.obj = [x \in Objects |-> IF x \in X THEN Absent ELSE @[x]]]

ApplyGraves(C, X, usn) ==
    [C EXCEPT !.obj = [x \in Objects |-> IF x \in X THEN Absent ELSE @[x]],
              !.grave = AddGraves(@, X, usn)]

Fetch(C, X) == [x \in X |-> C.obj[x]]

\* merge_notetypes, merge_decks, merge_deck_config
ApplyChanges(C, changes) ==
    [C EXCEPT !.obj = [x \in Objects |->
        IF x \in DOMAIN changes /\ @[x].mtime <= changes[x].mtime THEN changes[x] ELSE @[x]]]

ApplyChunkBlindly(C, chunk, pending) ==
    [C EXCEPT !.obj = [x \in Objects |-> IF x \in DOMAIN chunk THEN chunk[x] ELSE @[x]]]

\* merge_cards, merge_notes
ApplyChunk(C, chunk, pending) ==
    LET Proceed(x) == \/ ~Holds(C, x)
                      \/ ~IsPendingSync(C.obj[x].usn, pending)
                      \/ C.obj[x].mtime < chunk[x].mtime
    IN  [C EXCEPT !.obj = [x \in Objects |->
            IF x \in DOMAIN chunk /\ Proceed(x) THEN chunk[x] ELSE @[x]]]

\* The ids get_chunk takes from a list, and whether the list ends with them.
ChunkOf(ids) == {T \in SUBSET ids : Cardinality(T) = ChunkSize \/ (T = ids /\ Cardinality(T) < ChunkSize)}
Done(chunk) == Cardinality(chunk) < ChunkSize

\* sanity_check_info: fails on a pending row, else the counts that are compared.
SanityCheckInfo(C) ==
    [failed |-> ObjectsPendingSync(C, Objects, Unsynced) # {} \/ PendingGraves(C, Unsynced) # {},
     counts |-> <<Cardinality({x \in Chunked : Holds(C, x)}), Cardinality({x \in Unchunked : Holds(C, x)})>>]

IsEmpty(C) == \A x \in Chunked : ~Holds(C, x)

-----------------------------------------------------------------------------
(* Sessions, transactions and the network.                                 *)

\* late is history: another device has finished a sync since this one's meta.
Idle == [stage |-> "idle", clientUsn |-> 0, serverUsn |-> 0, newer |-> FALSE,
         graves |-> {}, ids |-> {}, full |-> {}, late |-> FALSE]
NoSession == [skey |-> None, serverUsn |-> 0, clientUsn |-> 0, clientIsNewer |-> FALSE,
              listed |-> FALSE, ids |-> {}]

Stages == {"idle", "start", "graves", "unchunked", "pull", "push", "sanity", "finish"}
Syncing(c) == sync[c].stage # "idle"

Fault == faults < MaxFaults /\ faults' = faults + 1
NoFault == UNCHANGED faults

\* abort_stateful_sync_if_active: the collection is closed, so its transaction is lost.
DropSession == session' = NoSession

RollBackStuck(c) ==
    /\ sync' = [sync EXCEPT ![c] = [Idle EXCEPT !.stage = "aborted"]]
    /\ aborts' = aborts \union {c}

\* The client rolls its transaction back and asks the server to abort.
RollBack(c) ==
    /\ sync' = [sync EXCEPT ![c] = Idle]
    /\ aborts' = aborts \union {c}

\* One request of the session: what the server's and the client's transactions become,
\* and where session and client stand after it.  A server that knows no session or one
\* with another key answers with a conflict.
Request(c, stage, serverWork, newSession, clientWork, newSync) ==
    /\ sync[c].stage = stage
    /\ \/ /\ session.skey = c
          /\ work' = [work EXCEPT ![Server] = serverWork, ![c] = clientWork]
          /\ session' = newSession
          /\ sync' = [sync EXCEPT ![c] = newSync]
          /\ NoFault /\ UNCHANGED aborts
       \/ /\ session.skey = c                       \* processed, the answer is lost
          /\ work' = [work EXCEPT ![Server] = serverWork, ![c] = col[c]]
          /\ session' = newSession
          /\ Fault /\ RollBack(c)
       \/ /\ session.skey # c                       \* conflict
          /\ work' = [work EXCEPT ![c] = col[c]]
          /\ NoFault /\ RollBack(c) /\ UNCHANGED session
    /\ UNCHANGED <<col, history, edits>>

\* The request is lost, the operation fails on the server or the user aborts.
RequestFails(c) ==
    /\ Syncing(c)
    /\ Fault /\ RollBack(c)
    /\ \/ work' = [work EXCEPT ![c] = col[c]] /\ UNCHANGED session
       \/ /\ session.skey = c                       \* with_sync_state drops the session on an error
          /\ work' = [work EXCEPT ![c] = col[c], ![Server] = col[Server]]
          /\ DropSession
    /\ UNCHANGED <<col, history, edits>>

\* Requests that end the session of a sync in progress count as faults.
KillsSome == session.skey # None /\ Syncing(session.skey)
KillsAnother(c) == \E d \in Clients \ {c} : session.skey = d /\ Syncing(d)

\* The abort carries a key the server does not look at: it ends whatever session there is.
DeliverAbort(c) ==
    /\ c \in aborts
    /\ aborts' = aborts \ {c}
    /\ IF KillsSome THEN Fault ELSE NoFault
    /\ DropSession
    /\ work' = [work EXCEPT ![Server] = col[Server]]
    /\ UNCHANGED <<col, sync, history, edits>>

ServerRestart ==
    /\ session # NoSession
    /\ Fault
    /\ DropSession
    /\ work' = [work EXCEPT ![Server] = col[Server]]
    /\ UNCHANGED <<col, sync, aborts, history, edits>>

-----------------------------------------------------------------------------
(* The stages of a sync.                                                   *)

\* What the clients are at when c's sync is over on the server: those between their meta
\* and their start are late.
Overtaken(c, next) ==
    [d \in Clients |-> IF d # c /\ next[d].stage = "start" THEN [next[d] EXCEPT !.late = TRUE] ELSE next[d]]

FullSyncChoicesStrict(local, remote) ==
    {d \in {"upload", "download"} :
        \/ d = "upload" /\ ~IsEmpty(local)
        \/ d = "download" /\ ~IsEmpty(remote)}

\* upload_ok, download_ok
FullSyncChoices(local, remote) ==
    {d \in {"upload", "download"} :
        \/ d = "upload" /\ (~IsEmpty(local) \/ IsEmpty(remote))
        \/ d = "download" /\ (~IsEmpty(remote) \/ IsEmpty(local))}

\* What c has to send, and what the server has that c has not had.
Unsent(c) == {x \in Objects : (Holds(col[c], x) /\ col[c].obj[x].usn = Unsynced)
                                \/ col[c].grave[x] = Unsynced}

News(c) == {x \in Objects : (Holds(col[Server], x) /\ col[Server].obj[x].usn >= col[c].usn)
                              \/ col[Server].grave[x] >= col[c].usn}

Outstanding(c) ==
    \/ Unsent(c) \union News(c) # {}
    \/ col[c].conf # col[Server].conf \/ col[c].scm # col[Server].scm

\* sync_meta, meta_with_redirect, compared_to_remote.  Asking for the meta data aborts
\* the session there is, whatever comes of it.
SyncMeta(c) ==
    LET local == col[c]
        remote == col[Server]
    IN  /\ ~Syncing(c) /\ sync[c].full = {}
        /\ remote.usn < MaxUsn \/ \E d \in Clients : Outstanding(d)
        /\ IF KillsAnother(c) THEN Fault ELSE NoFault
        /\ DropSession
        /\ work' = [work EXCEPT ![Server] = col[Server]]
        /\ \/ /\ local.mod = remote.mod
              /\ UNCHANGED sync
           \/ /\ local.mod # remote.mod /\ local.scm # remote.scm
              /\ sync' = [sync EXCEPT ![c].full = FullSyncChoices(local, remote)]
           \/ /\ local.mod # remote.mod /\ local.scm = remote.scm
              /\ \E newer \in {FALSE, local.own} :
                    sync' = [sync EXCEPT ![c] = [Idle EXCEPT !.stage = "start", !.newer = newer,
                                                   !.clientUsn = local.usn, !.serverUsn = remote.usn]]
        /\ UNCHANGED <<col, aborts, history, edits>>

\* server_start gathers its graves; the client marks its own as sent and, when it has
\* none to send, goes on to apply the server's.
Start(c) ==
    LET s == sync[c]
        remote == PendingGraves(col[Server], s.clientUsn)
        local == PendingGraves(work[c], Unsynced)
        marked == UpdatePendingGraveUsns(work[c], s.serverUsn)
        opened == [NoSession EXCEPT !.skey = c, !.serverUsn = col[Server].usn,
                                    !.clientUsn = s.clientUsn, !.clientIsNewer = s.newer]
        next == IF local = {} THEN [s EXCEPT !.stage = "unchunked"]
                ELSE [s EXCEPT !.stage = "graves", !.graves = remote, !.ids = local]
    IN  /\ s.stage = "start"
        /\ session' = opened
        /\ \/ /\ work' = [work EXCEPT ![Server] = col[Server],
                  ![c] = IF local = {} THEN ApplyGraves(marked, remote, s.serverUsn) ELSE marked]
              /\ sync' = [sync EXCEPT ![c] = next]
              /\ (IF KillsAnother(c) THEN Fault ELSE NoFault) /\ UNCHANGED aborts
           \/ /\ work' = [work EXCEPT ![Server] = col[Server], ![c] = col[c]]
              /\ Fault /\ RollBack(c)
        /\ UNCHANGED <<col, history, edits>>

SendGraves(c) ==
    LET s == sync[c] IN
    Request(c, "graves",
        ApplyGraves(work[Server], s.ids, session.serverUsn), session,
        ApplyGraves(work[c], s.graves, s.serverUsn),
        [s EXCEPT !.stage = "unchunked", !.graves = {}, !.ids = {}])

\* process_unchunked_changes, server_apply_changes: the server gathers before it merges.
UnchunkedChanges(c) ==
    LET s == sync[c]
        ids == ObjectsPendingSync(work[c], Unchunked, Unsynced)
        marked == UpdateObjectUsns(work[c], ids, s.serverUsn)
        mine == Fetch(marked, ids)
        theirs == Fetch(work[Server], ObjectsPendingSync(work[Server], Unchunked, session.clientUsn))
        WithConf(C, sent, conf) == IF sent THEN [C EXCEPT !.conf = conf] ELSE C
    IN  Request(c, "unchunked",
            WithConf(ApplyChanges(work[Server], mine), s.newer, work[c].conf), session,
            WithConf(ApplyChanges(marked, theirs), ~session.clientIsNewer, work[Server].conf),
            [s EXCEPT !.stage = "pull"])

\* server_chunk, process_chunks_from_server
PullChunk(c) ==
    LET s == sync[c]
        ids == IF session.listed THEN session.ids
               ELSE ObjectsPendingSync(work[Server], Chunked, session.clientUsn)
    IN  \E chunk \in ChunkOf(ids) :
            LET merged == ApplyChunk(work[c], Fetch(work[Server], chunk), Unsynced) IN
            Request(c, "pull",
                work[Server], [session EXCEPT !.listed = TRUE, !.ids = ids \ chunk],
                merged,
                IF Done(chunk)
                THEN [s EXCEPT !.stage = "push", !.ids = ObjectsPendingSync(merged, Chunked, Unsynced)]
                ELSE s)

\* send_chunks_to_server, server_apply_chunk
PushChunk(c) ==
    LET s == sync[c] IN
    \E chunk \in ChunkOf(s.ids) :
        LET marked == UpdateObjectUsns(work[c], chunk, s.serverUsn) IN
        Request(c, "push",
            ApplyChunk(work[Server], Fetch(marked, chunk), session.clientUsn), session,
            marked,
            [s EXCEPT !.ids = @ \ chunk, !.stage = IF Done(chunk) THEN "sanity" ELSE "push"])

SanityOk(c) ==
    LET mine == SanityCheckInfo(work[c])
        theirs == SanityCheckInfo(work[Server])
    IN  ~mine.failed /\ ~theirs.failed /\ mine.counts = theirs.counts

\* The server has closed its collection but keeps the session; the client rolls back,
\* aborts and forces a one-way sync.
ForceOneWay(c) ==
    /\ NoFault /\ RollBack(c)
    /\ col' = [col EXCEPT ![c].scm = NewScm]
    /\ work' = [work EXCEPT ![Server] = col[Server], ![c] = col'[c]]
    /\ UNCHANGED <<session, history, edits>>

SanityFails(c) == sync[c].stage = "sanity" /\ session.skey = c /\ ~SanityOk(c)

SanityCheck(c) ==
    IF SanityFails(c) THEN ForceOneWay(c)
    ELSE Request(c, "sanity", work[Server], session, work[c], [sync[c] EXCEPT !.stage = "finish"])

\* The rows that c's sync changed on the server, those of them that it sent, and the objects
\* that the server now holds and has a grave of.
Taken == {x \in Objects : work[Server].obj[x] # col[Server].obj[x]}
Arrived == {x \in Taken : Holds(work[Server], x)}
Unburied == {x \in Objects : Holds(work[Server], x) /\ work[Server].grave[x] # NoGrave}

\* Every device hears of what c's sync changed, unless a sync between c's meta and start took
\* the device past the number with which it arrived.  A client that missed a full upload sends
\* to a server whose graves it has never seen.
Recorded(c) ==
    /\ blind' = [d \in Clients |-> (blind[d] \ Taken) \union
           (IF d # c /\ sync[c].late /\ sync[c].serverUsn < col[d].usn THEN Arrived ELSE {})]
    /\ doubtful' = doubtful \union
           (IF col[c].scm = col[Server].scm THEN {} ELSE Arrived \union Unburied)

\* server_finish commits and then stamps the collection; finalize_sync and the client's commit.
Finish(c) ==
    LET s == sync[c]
        committed == [work[Server] EXCEPT !.usn = @ + 1]
        stamped == [committed EXCEPT !.mod = NewMod, !.own = FALSE]
        mine == [work[c] EXCEPT !.usn = s.serverUsn + 1, !.mod = NewMod, !.own = FALSE]
    IN  /\ s.stage = "finish" /\ session.skey = c
        /\ DropSession
        /\ \/ /\ col' = [col EXCEPT ![Server] = stamped, ![c] = mine]
              /\ NoFault /\ UNCHANGED aborts
           \/ /\ col' \in {[col EXCEPT ![Server] = stamped],    \* the answer is lost
                          [col EXCEPT ![Server] = committed]}  \* killed before set_modified_time
              /\ Fault /\ aborts' = aborts \union {c}
        /\ sync' = Overtaken(c, [sync EXCEPT ![c] = Idle])
        /\ Recorded(c)
        /\ work' = [work EXCEPT ![Server] = col'[Server], ![c] = col'[c]]
        /\ UNCHANGED edits

FinishConflict(c) ==
    /\ session.skey # c
    /\ Request(c, "finish", work[Server], session, work[c], sync[c])

-----------------------------------------------------------------------------
(* Full syncs: before_upload is committed before anything is sent.         *)

\* What a user decides, a change or to overwrite the server, is bounded.
Decide == edits < MaxEdits /\ edits' = edits + 1

BeforeUpload(C) ==
    [C EXCEPT !.obj = [x \in Objects |-> [mtime |-> C.obj[x].mtime,
                          usn |-> IF x \in Unchunked \/ C.obj[x].usn = Unsynced THEN 0 ELSE C.obj[x].usn]],
              !.grave = [x \in Objects |-> NoGrave],
              !.usn = @ + 1, !.mod = NewMod, !.own = TRUE, !.scm = NewScm]

FullUpload(c) ==
    LET mine == BeforeUpload(col[c]) IN
    /\ "upload" \in sync[c].full
    /\ IF "download" \in sync[c].full THEN Decide ELSE UNCHANGED edits
    /\ \/ /\ col' = [col EXCEPT ![c] = mine, ![Server] = mine]
          /\ sync' = Overtaken(c, [sync EXCEPT ![c].full = {}])
          /\ blind' = [d \in Clients |-> {}] /\ doubtful' = {}
          /\ DropSession
          /\ IF KillsAnother(c) THEN Fault ELSE NoFault
       \/ /\ col' = [col EXCEPT ![c] = mine]
          /\ sync' = [sync EXCEPT ![c].full = {}]
          /\ Fault /\ UNCHANGED <<session, history>>
    /\ work' = [work EXCEPT ![c] = mine,
                            ![Server] = IF session' = NoSession THEN col'[Server] ELSE @]
    /\ UNCHANGED aborts

FullDownload(c) ==
    LET theirs == [col[Server] EXCEPT !.usn = @ + 1, !.mod = NewMod, !.own = FALSE] IN
    /\ "download" \in sync[c].full
    /\ sync' = Overtaken(c, [sync EXCEPT ![c].full = {}])
    /\ DropSession
    /\ \/ /\ col' = [col EXCEPT ![c] = theirs, ![Server] = theirs]
          /\ blind' = [blind EXCEPT ![c] = {}]
          /\ IF KillsAnother(c) THEN Fault ELSE NoFault
       \/ /\ col' = [col EXCEPT ![Server] = theirs]
          /\ Fault /\ UNCHANGED blind
    /\ work' = [work EXCEPT ![c] = col'[c], ![Server] = theirs]
    /\ UNCHANGED <<aborts, doubtful, edits>>

-----------------------------------------------------------------------------
(* Local changes, outside a sync (the collection is locked during one).    *)

Change(c, changed) ==
    /\ ~Syncing(c) /\ sync[c].full = {}
    /\ Decide /\ col[Server].usn <= LastEditUsn
    /\ col' = [col EXCEPT ![c] = [changed EXCEPT !.mod = NewMod, !.own = TRUE]]
    /\ work' = [work EXCEPT ![c] = col'[c]]
    /\ UNCHANGED <<sync, session, aborts, blind, faults>>

\* Add or edit.  The clock of a device may be behind another's, but an object sent
\* unchunked is stamped later than the version it replaces.  An import of a package may bring
\* back an id that has a grave; the grave stays, is never replaced, and its next deletion may
\* go unsent.
Put(c, x) ==
    /\ doubtful' = doubtful \union (IF col[c].grave[x] = NoGrave THEN {} ELSE {x})
    /\ \E m \in 1..MaxStamp :
        /\ \A s \in Sites : col[s].obj[x].mtime # m
        /\ x \in Unchunked => m > col[c].obj[x].mtime
        /\ Change(c, [col[c] EXCEPT !.obj[x] = [mtime |-> m, usn |-> Unsynced]])

Remove(c, x) ==
    /\ Holds(col[c], x)
    /\ Change(c, ApplyGraves(col[c], {x}, Unsynced)) /\ UNCHANGED doubtful

SetConfig(c) == Change(c, [col[c] EXCEPT !.conf = 1 - @]) /\ UNCHANGED doubtful

ModifySchema(c) == Change(c, [col[c] EXCEPT !.scm = NewScm]) /\ UNCHANGED doubtful

-----------------------------------------------------------------------------
(* Before the first sync the devices and the server hold the same objects. *)

Seed(held) ==
    [obj |-> [x \in Objects |-> IF x \in held THEN [mtime |-> 1, usn |-> 0] ELSE Absent],
     grave |-> [x \in Objects |-> NoGrave], usn |-> 1, mod |-> 0, own |-> FALSE,
     scm |-> 0, conf |-> 0]

Init ==
    /\ \E held \in Starts : col = [s \in Sites |-> Seed(held)]
    /\ work = col
    /\ sync = [c \in Clients |-> Idle]
    /\ session = NoSession
    /\ aborts = {}
    /\ blind = [c \in Clients |-> {}] /\ doubtful = {}
    /\ edits = 0 /\ faults = 0

SyncStep(c) ==
    \/ SyncMeta(c)
    \/ Start(c)
    \/ SendGraves(c)
    \/ UnchunkedChanges(c)
    \/ PullChunk(c)
    \/ PushChunk(c)
    \/ SanityCheck(c)
    \/ Finish(c)
    \/ FinishConflict(c)
    \/ FullUpload(c)
    \/ FullDownload(c)

LocalStep(c) ==
    \/ \E x \in Objects : Put(c, x) \/ Remove(c, x)
    \/ SetConfig(c)
    \/ ModifySchema(c)

Next ==
    \/ \E c \in Clients : SyncStep(c) \/ LocalStep(c) \/ RequestFails(c)
                          \/ DeliverAbort(c)
    \/ ServerRestart

Spec == Init /\ [][Next]_vars

\* A device keeps syncing while its stamp differs from the server's.  An abort that was
\* sent may never arrive.
Fairness == \A c \in Clients : WF_vars(SyncStep(c))
FairSpec == Spec /\ Fairness

-----------------------------------------------------------------------------
TypeOK ==
    /\ col \in [Sites -> Collection] /\ work \in [Sites -> Collection]
    /\ sync \in [Clients -> [stage : Stages, clientUsn : Nat, serverUsn : Nat, newer : BOOLEAN,
                             graves : SUBSET Objects, ids : SUBSET Objects,
                             full : SUBSET {"upload", "download"}, late : BOOLEAN]]
    /\ session \in [skey : Clients \union {None}, serverUsn : Nat, clientUsn : Nat,
                    clientIsNewer : BOOLEAN, listed : BOOLEAN, ids : SUBSET Objects]
    /\ aborts \subseteq Clients
    /\ blind \in [Clients -> SUBSET Objects] /\ doubtful \subseteq Objects
    /\ edits \in 0..MaxEdits /\ faults \in 0..MaxFaults

\* What c's update sequence number does not tell it.
Uncertain(c) == blind[c] \union doubtful

\* What the next normal sync of c will notice: an object that differs is pending on the
\* client or recent on the server.
Noticed(c, x) ==
    \/ col[c].obj[x].usn = Unsynced /\ Holds(col[c], x)
    \/ col[c].grave[x] = Unsynced
    \/ Holds(col[Server], x) /\ col[Server].obj[x].usn >= col[c].usn
    \/ ~Holds(col[Server], x) /\ col[Server].grave[x] >= col[c].usn

\* The update sequence numbers miss nothing: as long as no full sync is due, whatever
\* object differs between a device and the server is sent by the device's next sync.
NothingMissed ==
    \A c \in Clients, x \in Objects :
        (col[c].scm = col[Server].scm /\ col[c].obj[x].mtime # col[Server].obj[x].mtime)
            => Noticed(c, x) \/ x \in Uncertain(c)

-----------------------------------------------------------------------------
(* The protocol implements ReplicatedCollection: numbers stand for sets.   *)

Apart == {c \in Clients : col[c].scm # col[Server].scm}

Promise == INSTANCE ReplicatedCollection WITH
    Stamps <- 0..MaxStamp,
    content <- [s \in Sites |-> [x \in Objects |-> col[s].obj[x].mtime]],
    unsent <- [c \in Clients |-> IF c \in Apart THEN {} ELSE Unsent(c)],
    news <- [c \in Clients |-> IF c \in Apart THEN {} ELSE News(c)],
    apart <- Apart,
    doubt <- [c \in Clients |-> Uncertain(c)]

\* Whatever requests are lost, sessions dropped and answers late, the committed collections
\* change as if every sync were one atomic merge, done on both sides or on the server only.
SyncsAreAtomic == Promise!Spec

\* The counts agree whenever a sync reaches the sanity check, unless the device is in doubt or
\* another one has replaced the server's collection since its meta: otherwise no device is
\* ever forced into a one-way sync that overwrites one side.
SanityNeverFails ==
    [][\A c \in Clients : (sync[c].stage = "sanity" /\ c \notin Apart /\ Uncertain(c) = {})
                              => col'[c].scm = col[c].scm]_vars

Agreed ==
    \A c \in Clients : /\ col[c].conf = col[Server].conf
                       /\ \A x \in Objects \ Uncertain(c) : col[c].obj[x].mtime = col[Server].obj[x].mtime

\* Once changes and faults stop, all devices and the server end with the same settings and,
\* where they are not in doubt, the same objects.
EventuallyAgreed == <>[]Agreed
=============================================================================
