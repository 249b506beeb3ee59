# KelmaDesktop: TLA+ models, model checks and proofs

KelmaDesktop is Anki with a bundled add-on, KelmaSync, that keeps a collection in
sync with a Kelma server and, optionally, with AnkiWeb. This directory holds TLA+
models of the add-on's sync core and of the parts of Anki it stands on (collection
and media sync, study queue, collection with undo), the TLC runs that check them on
small instances, and TLAPS proofs of what the add-on's core shows for every instance.

Paths without a leading `src/` are relative to
`src/qt/aqt/data/bundled_addons/kelma/kelma/` when they end in `.py` (`v2/` stands for
`kelma_sync_v2/`) and to `src/rslib/src/` when they end in `.rs`.

Contents: [the system](#1-the-system) · [the models](#2-the-models) ·
[runs and bounds](#3-runs-and-bounds) · [fairness](#4-fairness) · [proofs](#5-proofs) ·
[disagreements with the source](#6-where-the-source-disagrees-with-itself) ·
[assumptions and limits](#7-assumptions-and-limits) · [plan](#8-plan)

## 1. The system

Most of the repository is Anki (Rust core in `src/rslib`, Python and Qt around it,
TypeScript pages); the fork's own logic is the add-on.

| component | state it keeps | operations | correct means | module |
|---|---|---|---|---|
| **Content pass** `v2/content_sync.py`, `sync_state.py`, `tombstone_sync.py` | the snapshot file (scope and keys known at the end of the last pass), the approval flag | one pass: fetch the manifest, apply tombstones, detect and push local deletes, run the phases, save the snapshot | only what a user removed is deleted elsewhere; what a user removed does not come back; mass deletes need approval; everyone ends with the same notes | `ContentSync` |
| **Note phase** `v2/note_sync.py` | the pass's manifest | plan by checksum, hydrate mismatches, pull, push with base checksum, accept or force one side | no edit is silently lost; clients converge | `NoteSync` |
| **Card phase** `v2/card_sync.py` | the same, and the cards that appeared in this pass | plan by checksum and time, pull, push | later work wins; a card that Anki generated never outranks studied work | `CardSync` |
| **Conflict policy** `v2/conflict_policy.py` | none | `newest_side`, `modified_timestamp` | ties and unreadable times decide nothing; a future time cannot win | `ConflictPolicy` |
| **Applying and reading** `v2/anki_apply.py`, `anki_local.py` | the local collection | write server records, list local ones | the stored time makes the next comparison a tie | in the three above |
| **Review phase** `v2/review_sync.py` | review log, day counters of decks | compare, pull, push, merge of counters | every review arrives and stays what it was; the day's counters are not lowered | `HistorySync` |
| **Deck, notetype, media phases** `v2/*_sync.py` | structure, media folder | plan, pull, push | content never refers to missing structure | - |
| **Canonical push** `v2/canonical_sync.py`, `full_diff.py` | pending marks | publish the client's state to either service | nothing of the decided state is left out | - |
| **Dual sync** `shadowsync.py`, `reconcile.py`, `state.py`, `deletions.py`, `scheduling.py`, `engine.py` | a shadow collection per service, fingerprints, converged guids | push, native sync, pull, propagate deletions | a deletion is propagated once, in one direction, never by un-routing; all sides converge | `ShadowSync` |
| **User interface** `gui.py` | routing, approval, staged-workflow flags | starts passes, resets, resolves conflicts | what the user confirmed is what happens | parts in `ContentSync`, `NoteSync` |
| **Collection sync and sync server** `sync/collection`, `sync/http_server` | usn, modification and schema stamps, graves, one session per user | meta, start, graves, changes, chunks, sanity check, finish, full upload and download, abort | a sync is atomic; nothing that differs is overlooked; devices agree in the end | `CollectionSync`, `ReplicatedCollection` |
| **Media sync and server** `sync/media`, `media`, `sync/http_server/media_manager` | a folder and a database per device, rows with usns | scan, fetch changes, download, upload in batches | no difference is overlooked; no deletion of what was never sent | `MediaSync` |
| **Collection, undo and storage** `decks`, `card`, `tags`, `notes`, `notetype`, `undo`, `collection` | tables, graves, remembered ids, undo and redo stacks | the user's operations, each a transaction | tables agree; undo restores; sync is told | `Tables`, `Cards`, `Decks`, `Tags`, `Notes`, `Notetypes`, `Collection` |
| **Database check** `dbcheck.rs` | none | repairs the tables in one transaction | a damaged collection is whole afterwards | `DbCheck` |
| **Study session** `scheduler/queue`, `scheduler/answering`, `scheduler/bury_and_suspend.rs` | the queue in memory, the day's counters, undo steps | build, show, answer, bury, flag, undo, redo, end of day | the queue stays true of the cards; counts and limits are honest | `Study` |
| **States of a card** `scheduler/states`, `scheduler/answering` | none | next states, their application, review log entry | an answer leads to what its button said; better answers come back later | `States`, `Answering` |
| **Limits and gathering** `decks/limits.rs`, `decks/tree.rs`, `decks/stats.rs`, `scheduler/queue/builder` | the limits left while a queue is built; what was studied of each deck | gather, count for the deck list, order, extend limits | no deck of the tree above its limits; the list counts what studying gathers | `DeckLimits`, `Gathering` |
| **Kelma and AnkiWeb servers** (not in the repository) | canonical records, tombstones | manifest, batch pull, push, delete | external | in the clients' modules |
| **Text, templates, search, import of files, interface, bindings, build** | | | | - |

**How they interact.** A Kelma pass is one background task
(`mw.taskman.run_in_background(..., uses_collection=True)`): while it runs its user
does not edit, but every other client may change the server between any two of its
requests. The phases share the manifest fetched at the start; a phase that meets a
conflict raises, and the pass ends where it is: what earlier phases wrote stays
written on both sides, and no snapshot is saved. Anki's collection sync runs in one
transaction on each side, with one session on the server; the media sync runs beside
it on a thread of its own, while the user works. The dual sync puts a shadow
collection between the desktop and each service and uses the native collection sync
for the shadow's side. In the add-on's own fork of Anki `kelmasync_only()` leaves the
Kelma service alone; both services are what the add-on does in a standard Anki. In
the collection every operation of the interface is a transaction that records its
changes for undo; those that touch cards drop the study queue, except an answer,
which changes it in place.

**What is hard here.** (1) Interrupted passes: the baseline is older than both
sides. (2) Stale manifests: a plan made from a manifest acts on a server that has
moved. (3) Time as the arbiter: whole-second ties, fast clocks, the time Anki
gives to generated cards. (4) Deletion by absence: what is missing from a list
is read as deleted, so every way in which something can be missing counts.
(5) Convergence: what one client normalizes another may undo. (6) Update sequence
numbers: one off and an object is skipped for ever. (7) Copies that must be kept in
step by hand: queue and cards, counts and queue, registry and tags, names and tree,
undo steps and tables. `PROJECT.json` ("hazards") lists each at its line with the
properties that watch it.

## 2. The models

The sync modules share one shape: the server's records, one copy per client, the locals
of the client's running pass, and history variables that the program does not have
and that only properties read. One action is one request to the server with
everything the code does until the next one.

### ContentSync: existence and place of notes

User actions are possible in phase `"idle"` only, which is what `uses_collection` tasks
give; actions of different clients interleave freely. `StopPass` ends a pass at any
point; it stands for a failed request, an answer that never came, a conflict about
a resource the module does not have, and a crash. (So in `NoteSync` and `CardSync`.)

`v2/content_sync.py` with `sync_state.py`, `tombstone_sync.py` and the
note/card phases reduced to what they do to existence and decks. A note is absent,
in a routed deck, or in another one; on the server it may also be `"bare"`, when
the note has been pushed and its card has not.

| variable | in the program |
|---|---|
| `server`, `tombstones` | the server's note and card rows, its tombstone list |
| `local`, `routing` | the collection; `deck_names` (`None` = `"all"`, a list = `"routed"`) |
| `snapshot` | the state file; scope `"none"` for a missing or unreadable one |
| `approved` | `v2_allow_large_deletes` in the add-on's config |
| `phase`, `manifest`, `doomed`, `deletes`, `settled`, `fresh` | the locals of `sync_content_once`: step, scoped manifest, scoped tombstones, `local_deletes`, `server_authoritative_card_keys`, `fresh_restore` |
| `touch` | history: the note was last placed or removed here by its user (`"user"`, or `"stale"` once another client has written it on the server since), by a pass, or by a reset |
| `dirty` | history: a pass or a reset stopped halfway since the last snapshot |

| action | code |
|---|---|
| `Place` | the user adds, brings back, moves or deletes a note |
| `Reroute`, `Approve` | the two settings dialogs |
| `ResetNotes`, `ResetFiles` | `reset_work`: notes first, then the media folder with the state file |
| `FetchManifest` | manifest, scope filter, snapshot, scoped tombstones |
| `PlanPass` | apply tombstones, local manifests, fresh restore, local deletes, approval (`DeletionSafetyError` ends the pass) |
| `PushDeletes`, `RefetchManifest` | `batch_delete`, second manifest |
| `PullNotes`, `PushNotes`, `PullCards`, `PushCards` | the two phases, with skipped records |
| `SaveSnapshot`, `FinishTask`, `TornSave` | `save_state`, the main-thread callback that clears the approval, a crash in the middle of the write |

Comparisons of contents are free choices here (`Contested`); `NoteSync` and
`CardSync` have the rules.

Properties: `TypeOK`; `BaselineKnown`, a baseline lists only notes whose fate the
client can still learn; `BaselineHonest` and `DeletesByUser`, only users delete, as
long as nothing stopped halfway (`~dirty`; what happens otherwise is
[below](#6-where-the-source-disagrees-with-itself)); `NoResurrection`;
`LargeDeletesApproved`; `Converges`.

### NoteSync: the contents of one note

`v2/note_sync.py` and the two resolution actions, over `ConflictPolicy`. A content
is a text number, as history the time of the edit that made it, and a Unicode form
(`"raw"` or `"nfc"`): Anki normalizes what it stores, the server keeps the bytes,
and checksums tell the two apart. Clients differ in `newest_wins` (`Desktop`), in
`normalize_note_text` (`Normalizing`) and in their clocks (`Fast`, `Lead`).
`Plan` is the planning loop; `Hydrate`, `PullNote`, `PushNote` the three request
stages; `AcceptServer`, `ForceLocal` the dialog. `overlap` is history: the clients
whose pass was running when a text was forced on the server.

Properties: `TypeOK`; `NoLostEdit`, a pass replaces a text only by one that was
written later; `Converges`.

`NoLostEdit` leaves the clients of `overlap` out because the code cannot do better
for them: `Hydrate` compares with the record the server has by then, and pushes
with the checksum of its older manifest as base (note_sync.py:158-166). If a user
meanwhile forces the manifest's old text back, the base agrees again and the push
takes that text away.

### CardSync: the deck and scheduling of one card

`v2/card_sync.py`, and the parts of the pass that create its trouble: `PullNote`
makes Anki generate the card in Default with the current time; the pass may stop
before the card phase; card pushes have no base checksum and the server keeps the
newer of two. A card is its deck, whether it was ever studied, and as history the
time of the user's last action on it (0 for a generated one). `Plan` has the
branches of `sync_cards_once` in their order: fresh restore, server-authoritative,
one-sided, structure differs, scheduling.

Properties: `TypeOK`; `NewestWins`; `InterruptedPullYields`, the heuristic
`_looks_like_interrupted_server_pull` does its work for cards in users' decks;
`Converges`.

### ConflictPolicy

`newest_side`, `modified_timestamp` and `_source_modified_seconds` as operators on
whole seconds, extended by the two modules above; 0 is a missing or unreadable
time.

### HistorySync: the review logs and the counters of the day

`v2/review_sync.py`, the last phase but one of a pass, for cards of one deck.

| variable | in the program |
|---|---|
| `log`, `cards`, `today`, `crt` | the review log with its pending marks, the cards that reviews can belong to, the deck's counters with their day, the day the collection begins |
| `undo` | what the next undo would take back; writes from Python clear it |
| `known` | the cards in the snapshot file |
| `pass` | the stage of the pass with the locals of `sync_reviews_once` |
| `reviews`, `days`, `dead` | the server's reviews, study days and tombstones |
| `given` | history: every answer that was ever given |

`Begin` is the manifest with what the earlier phases do to the existence of cards, `Compare`
the conflicts, `Pull`, `Push`, `PushDay` and `ApplyDay` the requests in their order; in
`Push` the answer may be lost, and `Fail` ends a pass anywhere. `Answer`, `DeleteCard`,
their undoing and `Reset` (`reset_work`) wait for the client's own pass, as the tasks of the
collection do, and interleave with the other client's. A review's record has its card's
guid only while the client has the card: deleting, restoring and pulling cards changes what
a client says of a review that the server has had for long.

Properties: `TypeOK`; `HistoryHonest`, a review is the one that was given, and what is no
longer pending is on the server; `CountersKept`, a pass lowers no counter of the day;
`Converges`.

### CollectionSync and ReplicatedCollection: the sync of Anki's collection

`sync/collection/*.rs` on both sides, and the session handling of `sync/http_server`.
Every site has a committed collection `col` and the copy its open transaction works
on, `work`. A collection is a version (modification time and usn) and a grave usn per
object, and its own usn, modification stamp, schema stamp and a setting.

| variable | in the program |
|---|---|
| `col`, `work` | the database as committed, and inside the sync's transaction |
| `sync` | the client's `ClientSyncState` and the next request |
| `session` | the server's `ServerSyncState`: the key of the client it belongs to, the usns, what is left to be sent |
| `aborts` | abort requests still on their way |

One action is one request, served as the server's mutex serves it: `SyncMeta` (with the
choice between no change, normal and full sync), `Start` with the server's graves,
`SendGraves`, `UnchunkedChanges`, `PullChunk`, `PushChunk`, `SanityCheck`, `Finish` with the
commits of both sides; `FullUpload` and `FullDownload`. Between syncs `Put`, `Remove`,
`SetConfig` and `ModifySchema` change a device. `RequestFails` is a request that fails
before or after the server has done it, `DeliverAbort` the abort that follows at some
time or never, `ServerRestart` forgets the session and rolls back. A second device's
`Start` takes the session over; each later request of the first then meets a conflict.

The server knows of no sync before `Start`: a whole sync of another device, or a full one, may
be served between a client's `SyncMeta` and its `Start`, and the client goes on with the number
it was told. Nothing in the model prevents it. Three marks that no action reads are history:

| mark | set when |
|---|---|
| `late` (in `sync[c]`) | another sync was over on the server between `c`'s meta and its start |
| `blind[c]` | a late sync has sent the object with a number that `c` has already passed, so `c` is never told; cleared when the object changes on the server again or a full sync brings it |
| `doubtful` | an id that has a grave was put back (a package import does), or a device sent to a server whose collection was replaced after its meta, so that rows and graves no longer fit; cleared by a full upload |

The properties except exactly the objects a device is in doubt about (`Uncertain(c)`, that is
`blind[c]` and `doubtful`) and hold for all the others, whatever is served in between.

`ReplicatedCollection` is the promise: sites hold contents, a device remembers what it
has changed, the server owes each device what it has not had, and a sync is one step:
`Sync`, `SyncUnanswered` (only the server's half happens), `Upload`, `Download`. It has no
usn, no session and no request. `SyncsAreAtomic == Promise!Spec` maps committed
contents to `content`, pending usns to `unsent`, "usn not below the device's" to `news`,
devices with another schema stamp to `apart`, and `Uncertain` to `doubt`. The promise limits
doubt too: a normal sync brings doubt to other devices only, and only about what it sends;
beyond that only a put-back or a replaced collection does; of an object in doubt each side
still ends with one of the two versions or none.

Properties: `TypeOK`; `NothingMissed`, whatever differs between a device and the server is
pending on one of them, or the device is in doubt about it; `SyncsAreAtomic`;
`SanityNeverFails`, for a device in no doubt; `EventuallyAgreed`, on all but objects in doubt.

### MediaSync: the sync of media files

`sync/media`, `media/mod.rs` and the media server. A device has a folder and a database
with checksum and pending mark per file and the folder's modification time; the server
has rows with usns and a folder of its own. A file is its checksum. The pass is one
request at a time (`Begin`, `Fetch` of a page of changes, `Download` and `Record` of a batch,
`Upload` and its `Reply`, `Sanity`), while the user (`AddFile`, `RemoveFile`) and other
programs (`OutsideChange`) change the folder at any moment, the latter with or without
touching its modification time (`InPlace`). `Fail` is an error, a lost answer or a crash of
the server between writing files and committing rows.

`held` (what the server ever had of a file) and `blind` (files hit by a window in which
the code cannot see a change: a write between the scan and the recording of the
folder's time, a rewrite within the same second, a file being written when the server
crashed) are history. The changed files of one upload get their usns in any order (`NextUsns`
is a bijection), as the query for pending uploads asks for no order. Properties: `TypeOK`; `NothingMissed`; `DeletionsSpareUnsent`;
`EventuallyAgreed`, all for files outside `blind`.

### Study: a session on one deck

The queue kept in memory (`scheduler/queue`), the cards, the day's counters and the undo
stacks (`undo/mod.rs`), through answers, burying of siblings, suspending, flags set from
another window, undo, redo and the end of the day. `queues` is `CardQueues` with its main
and intraday lists, its counts and its cutoff; `undoSteps` and `redoSteps` hold the
changes an operation recorded, queue updates among them; `shown` is the card on the
screen with the state it was shown in; `fault` how the program failed. A step's `before`
is history: the cards, the counter and the queue there were before it, which no action reads.
`gather_cards` and the sorting are stated by what they yield (the candidates that their
earlier ones let in, `Added`; the members in the order of a key, `InOrder`), so that they
can be reasoned about; TLC evaluates them as they stand.

Properties: `TypeOK`; `EntriesCurrent` (the "bug: card modified without updating queue" of
the source never happens, outside the case in section 6); `QueueHonest` (the
order of the queue and its counts); `NewLimitKept`; `UndoRestores`.

### States and Answering: the buttons of a card

Pure functions. `States` computes from a state and a preset the states the four answers
lead to: steps, intervals, fuzz, leeches, learning, review, relearning and the two filters
(`scheduler/states`). `Answering` reads the state from the columns of the card, refuses an
answer whose state is no longer the card's, writes the chosen state back and makes the
entry of the review log (`scheduler/answering`). A preset is a record `ctx`, as
`StateContext`; `u` is the `CardStateUpdater`. Intervals are fixed-point numbers of days,
multipliers are in thousandths, the fuzz factor in hundredths; what FSRS says is part of
the preset.

`StatesTests` states the expectations of the repository's unit tests (the `ASSUME`s named
for them), and three facts about the 1126 situations up to three answers lead to, for presets at the
edges (no steps, steps of days, a small maximum, FSRS with and without short terms) in
normal and filtered decks: what is written reads back as the state that was chosen
(`StateReadsBack`), so that the next answer is not refused; intervals stay within the
maximum and better answers do not come back earlier (`AnswersAreOrdered`); a card is
suspended and tagged the moment it becomes a leech (`LeechesLeave`). TLC evaluates them at
the start of the study run; `SchedulerProofs` proves the order of the buttons for all presets.

### DeckLimits and Gathering: how a queue is made

Pure functions again. `DeckLimits` is `decks/limits.rs`: what is left of a deck's limits for
the day (its own or its preset's, less what was studied), the tree of decks built from their
list, the cap of each deck to the decks above it, and what a card that is taken uses up.
`Gathering` is `scheduler/queue/builder`: learning cards, then reviews, then new cards, each
kind in its order, past buried siblings and full decks; then the mixing of the lists. Beside
it stand the counts of the deck list (`decks/tree.rs`), which come to the same numbers by
another way, and the counters behind the limits (`decks/stats.rs`). A deck is a record with
its preset in it; `q` is the `QueueBuilder`.

`GatheringTests` states what the unit tests of these files expect, and for 528 small trees
of three decks with their limits and cards: no deck shows more than it has left, buried
siblings or not (`NoDeckAboveItsLimits`); without burying, the deck list counts what studying
gathers (`DeckListAgrees`); whatever levels the names have, the tree built is one
(`TreeIsRooted`). TLC evaluates them at the start of the study run. `SchedulerProofs` proves
for all trees that one look at the card's own deck is enough.

### Tables, Cards, Decks, Tags, Notes, Notetypes, DbCheck and Collection

The collection is a record of tables (functions from ids to rows), with the log of the
running operation. Operations are operators from a collection to a collection, named
as in the source and layered as there: `Tables` (rows, graves, the log of changes and its
reversal), `Cards` (forget, set due date, reposition, bury, suspend, lend and take back,
delete), `Decks` (the tree that exists only in names, filtered decks), `Tags` (registry
and notes), `Notes` (which cards a note needs and where they go), `Notetypes` (changes
of fields and templates, change of notetype), `DbCheck` (the repairs in their order).

`Collection` makes them actions: `Transact` runs an operator, rolls everything back if it
failed, records a step otherwise, coalesces note edits within a minute, merges steps
into a custom one, cuts the stack at its limit; `Undo` and `Redo` run the log backwards
and record the step for the other stack, as `undo_inner` does. A damaged collection is
checked before anything else happens.

Properties: `TypeOK`; `TablesAgree`, a conjunction of named parts (cards have notes, decks,
homes and templates that exist and are of the right kind, notes have the fields of their
notetype, the names of decks form a tree, tags are registered, nothing that exists has a
grave, a card's queue is that of its type, the remembered deck and notetype are usable);
`UndoRestores`; `DueKeptWhileAway`; `SyncIsTold`.

`CollectionTests` asks the operators what the unit tests of the repository ask the code
(renaming of decks, dragging of tags, field and template changes, change of notetype,
repairs): each `ASSUME` carries the inputs and the expected results of the tests named
beside it, and TLC evaluates them at the start of the collection run. They test the
translation: a misread operator fails its assumption.

### ShadowSync: the dual sync

`engine.py`, `shadowsync.py`, `reconcile.py`, `scheduling.py`, `deletions.py`, `state.py`.

| variable | in the program |
|---|---|
| `master`, `present`, `shadow`, `server`, `known` | the desktop's notes and decks, the shadow collection of each service (`NoFile` before its first sync), the service, and what it and the shadow agreed on last |
| `full` | services whose next native sync is a full download |
| `state`, `route` | the state file (fingerprints of both sides, converged guids), the routed decks |
| `run`, `queue`, `at`, `pull` | the passes of `dual_sync`, the services still to come in the pass (a set, of which `First` is the next), the stage of that service, the locals of `sync_service` |

`dual_sync` starts a run and goes on to its second pass only if a service changed the
master in the first; `sync_service` is one stage of the service whose turn it is: push
of changed decks into the shadow, native sync, plan of the pull and straggler check,
import, deletions on both sides, save. `SyncFails`, `SaveFails` and `Crash` end it at
any stage; users edit, study, move, delete and re-add notes on the desktop and on other
clients of each server; `Reroute` changes the routing.

`moved` has the notes that a user has moved to another deck, and from the start those that are
in different decks on the sides a run begins with: where a deck is left out of a service, such
a note may be taken away (section 6).

Properties: `TypeOK`; `NothingLost`; `Converges`; `EditsArrive`, which the code violates.

### MC modules, proofs, mutants

`MC...` modules extend the models for TLC; the `.cfg` files give the constants.
`ContentSyncProofs`, `NoteSyncProofs` (with the newest-wins policy), `CardSyncProofs`,
`HistorySyncProofs`, `ShadowSyncProofs`, `CollectionSyncProofs`, `MediaSyncProofs` and
`SchedulerProofs` hold the theorems. Each model has a few operators marked "Mutant of ...": a plausible mistake in the
code it names (a dropped guard, a tie decided, a reset forgotten). They are used by no
definition; `PROJECT.json` pairs each with the property that notices it.

## 3. Runs and bounds

Names as in `PROJECT.json`; run one with
`tlc -config MCContentSyncSafe.cfg MCContentSync`.

| run | instance | question |
|---|---|---|
| `content_safe` | 2 clients, 1 note, both scopes, floor 0, 2 user actions, 1 fault | is the baseline sound when scopes change and a pass stops; are only user deletes pushed; do removals stay; can a large delete get through unapproved? |
| `content_live` | the same in one scope, with fairness | do clients end with the server's notes? |
| `content_echo` | 2 clients, 3 user actions | violation: an applied tombstone comes back as a delete |
| `note_sync` | 3 clients (one with conflicts instead of newest-wins), clock 3, 3 user actions, 1 fault, fairness | is an edit ever lost; do texts and bytes converge? |
| `card_sync` | 2 clients, clock 2, 2 user actions, 1 fault, fairness | does later work stay; do generated cards yield; do cards converge? |
| `history_sync` | 2 clients (one with newest-wins and picked decks) that begin on different days, 1 card, 2 reviews, 2 days, 4 events, fairness | is a review changed, lost or taken for sent; does a pass lower a counter; do logs and counters converge? |
| `collection_sync` | 2 devices, a deck that all have and a note yet to be added, chunks of 1, 2 changes, 1 fault, fairness | does the request-by-request sync implement the atomic one; is anything missed; does the sanity check ever fire; do devices agree? |
| `media_sync` | 2 devices, 2 files (one that all have at first), 2 contents, pages and batches of 2, 3 events | is a difference overlooked; does a deletion take what was never sent; do folders agree? |
| `study` | 3 cards, 2 of them siblings, 1 new card a day, 3 operations, undo limit 2, a day's end inside | do queue, counts, limit and undo stay honest? |
| `collection` | 12 sessions of 2 operations each (see below), undo limit 2 | do the tables agree after any operations, undos and redos; what does a check leave? |
| `shadow_sync` | 2 services, 2 notes, 2 decks, cap 1, 2 changes, 1 failure or crash, fairness | is a note or an edit lost; do desktop and servers converge? |
| `shadow_edits` | 1 service, 1 note | violation: an edit pushed before a full download stays behind |

**Why these bounds are enough to be interesting.**

*Kelma.* A pass interacts with another client through the server only, so two clients
already give every interleaving of two passes and one user each; `NoteSync` uses three so
that two can disagree behind the back of a third. Notes interact through the approval
limits only; with a floor of 0 and a single note any delete is a large one, so the run
asks of each whether it was approved, and the arithmetic of floor, share and total is
in the operator alone. `MaxEdits` and `MaxFaults` bound user actions and failures in a
behaviour, never the number of passes: clients sync for ever. One fault is enough for
"a stopped pass, then a whole one"; two or three actions fit a delete, a re-creation
elsewhere and a further one. The clock has resolution 1 and skew 1 in place of 1 and 300
seconds: the rules compare differences with these two numbers, so ties, earlier, later,
credible and incredible times all occur.

*History.* An event is an answer, a deletion, the undoing of either, a reset, the end of a day,
a failed request or a lost answer. Four of them give a deletion, the push of the orphan, the
return of the card and a lost answer in any order; two ids let two clients answer in the
same millisecond. The two clients have a rule each: one sees the rows of all cards and
never clears pending marks, the other sees those of picked decks and does.

*Collection sync.* The two kinds of object are the two ways of sending; a chunk of one
makes every transfer end in a full chunk followed by an empty one. All sites begin with the deck
(`Starts`), the note is added in the run, by one device or by both, and two changes are an
addition on each side, an addition and its edit, or a deletion against an edit; two stamps
order them. Two devices that have something to send are also what the gap between meta and
start takes: one syncs inside the other's, the other sends on its old number, and the first
becomes blind to it. After changes have stopped (`LastEditUsn`), and from a server usn of
`MaxUsn` on, a device begins a sync only while some device has something to send or to
fetch, or differs in schema or settings (`Outstanding`): further syncs would only count.

*Media sync.* Three events give a change on each side and a fault between. With two
files a batch is full, and a pass has a second one; `MaxUsn` is beyond what three events
can make of the server.

*Study.* Siblings and a third card make burying, the new card limit and the order of the
queue interact; the session starts two seconds before the end of a day of four, with a
learning step of one, so that a learning card can be shown early, come due, or be left
over to the next day. Presets that bury some kinds of siblings and not others are excluded
(`Uniform`; section 6); the theorems take in those that are graded. The queue in `before` is
left out of the states TLC tells apart (`StudyView`): no action and no property of the run
reads it.

*Collection.* A session is a start and a number of operations of each group: two decks,
two cards, two tags, two notes, two notetypes operations, the pairs of groups that share
rows, and checks of three damaged collections followed by operations. `Start` has a deck
tree with a filtered deck holding a loaned card, a normal and a cloze notetype, cards of
every type and queue, and remembered decks and notetypes. All undos, redos and merges are
between and after the operations, without bound. An undo limit of 2 is reached by two
operations and a custom step.

*Dual sync.* Two services are what makes the second pass necessary; a second deck is what
routing is about; a second note is what lets counts match while notes differ. `CapMin` 1
has deletions on either side of the cap. Two changes by anyone, one failure at any stage,
any number of runs.

Symmetry is used on clients and notes in the safety runs of `ContentSync`, where they are
interchangeable; never with liveness, nor where clients differ. Deadlock is checked in the
Kelma and media runs, where a client can always start another pass. The others switch it off
because they really may stop: devices that agree have nothing to sync below `MaxUsn`, a
session ends when its operations are used up, a program that failed (`fault`) is gone.

## 4. Fairness

`ContentSync`, `NoteSync`, `CardSync`: weak fairness of `FetchManifest(c)` and `PassStep(c)`
(and, in `ContentSync`, `ResetFiles(c)`) for every client. The first says that users go on
syncing, by hand or at start and exit as the add-on does; it is an assumption on
users. The others say that a background task that is not interrupted goes on,
which the executor gives: once started, nothing but an exception ends it.

`HistorySync`: of `PassStep(c)`, the same two assumptions in one. `CollectionSync`: weak
fairness of `SyncStep(c)`, the next request of a device that differs
from the server; not of aborts, which may never arrive. `MediaSync`: of `SyncStep(c)`, the
next request of the media thread, which is started again after every collection sync.
`ShadowSync`: of the dual sync as a whole, that is of `dual_sync` or `sync_service(s)` for
any service: users begin another one some time, and the task that runs it goes on.

No fairness is asked anywhere of edits, of faults or of clocks; liveness therefore covers
users who stop editing at any point, failures that stop for good after the bounded
number, and clocks that stand still. The convergence properties are stated as `<>[]`, as the
code cannot do more than reach the server's state once users stop changing it. In
`NoteSync` and `CardSync` `Converges` allows a tie within a second between different
contents: the code leaves those to the users on purpose. In `ShadowSync` it leaves out
moved cards and decks whose pushes a full download replaced: with equal counts on both
sides the code never notices that the notes differ (section 6).

`Study` and `Collection` have no liveness: nothing in them must happen.

## 5. Proofs

| theorem | says | rests on |
|---|---|---|
| `ContentSyncProofs!TypeCorrect` | `Spec => []TypeOK` | - |
| `ContentSyncProofs!BaselineIsKnown` | `Spec => []BaselineKnown` | `KnownInv` |
| `ContentSyncProofs!BaselineIsHonest`, `DeletesAreByUser` | `Spec => []BaselineHonest`, `[]DeletesByUser` | `HonestInv` |
| `ContentSyncProofs!RemovalsStay` | `Spec => NoResurrection` | `RemovalInv` |
| `ContentSyncProofs!LargeDeletesAreApproved` | `Spec => LargeDeletesApproved` | `ApprovalInv` |
| `NoteSyncProofs!TypeCorrect` | `Spec => []TypeOK` | `PlanInv` |
| `NoteSyncProofs!EditsSurvive` | `Fast = {}` implies `Spec => NoLostEdit` | `EditInv` |
| `CardSyncProofs!TypeCorrect` | `Spec => []TypeOK` | `TypeInv` |
| `CardSyncProofs!LaterWorkStays` | `Fast = {}` implies `Spec => NewestWins` | `WorkInv` |
| `CardSyncProofs!GeneratedCardYields` | `Fast = {}` implies `Spec => []InterruptedPullYields` | `WorkInv` |
| `NoteSyncProofs!FutureLocalNeverWins`, `TiesStayOpen`, `OneWinner`, `SettledAfterPull` | what the policy promises, for all times | arithmetic |
| `HistorySyncProofs!TypeCorrect`, `CountersAreKept` | `Spec => []TypeOK`, `CountersKept` | `Types`, `CountInv` |
| `HistorySyncProofs!HistoryIsHonest` | `Spec => []HistoryHonest` | `ReviewInv` |
| `ShadowSyncProofs!TypeCorrect` | `Spec => []TypeOK` | `Types` |
| `ShadowSyncProofs!NothingIsLost` | `Spec => NothingLost` | `Housed`, `Remembered`, `Routed`, `Staged` |
| `CollectionSyncProofs!TypeCorrect` | `Spec => []TypeOK` | - |
| `CollectionSyncProofs!NothingIsMissed`, `SanityHolds` | `Spec => []NothingMissed`, `SanityNeverFails` | `Stands`, `RowsInv` |
| `CollectionSyncProofs!SyncIsAtomicMerge` | `Spec => SyncsAreAtomic` | the same |
| `MediaSyncProofs!TypeCorrect` | `Spec => []TypeOK` | `Types` |
| `MediaSyncProofs!NothingIsMissed`, `DeletionsSpare` | `Spec => []NothingMissed`, `DeletionsSpareUnsent` | `ServerHonest`, `DevicesHonest` |
| `SchedulerProofs!FuzzWithinLimits` | a fuzzed interval is between its limits | `ConstrainedBounds` |
| `SchedulerProofs!PassingIntervalsOrdered` | the intervals of a review that is not early are in 1..maximum and in order | `WithinMinimum`, `AboveUnlessMaximal` |
| `SchedulerProofs!TreeStartsWithinLimits` | limits as built are within each deck's own, and used up below what is used up | `CapTo` |
| `SchedulerProofs!CardStaysWithinLimits` | taking a card keeps both, for the card's deck and all above it | `CapTo`, `Decrement` |
| `SchedulerProofs!StudyTypes`, `QueueAlwaysHonest`, `NewLimitAlwaysKept` | `Spec => []TypeOK`, `[]QueueHonest`, `[]NewLimitKept` | `StudyInv` (`StudyAgrees`) |
| `SchedulerProofs!EntriesAlwaysCurrent`, `NoStaleEntry` | with graded burying options `Spec => []EntriesCurrent`, and no request fails on a stale entry | `StudyInv` |
| `SchedulerProofs!UndoAlwaysRestores`, `UndoRestoresQueue` | `Spec => UndoRestores`; an answer taken back on its own queue brings the queue back | `StudyInv` |
| `SchedulerProofs!RedoFindsEntry` | a redo on its own queue finds its entry on top | `StudyInv` |

They hold for any set of clients and notes, any limits and any bounds, from the
assumptions named in the modules (`BoundsAssumption`, `NotesAssumption`, `ScopesAssumption`,
`PolicyAssumption`, `NoteAssumption`, `NoNoteAssumption`, `CardAssumption`,
`NoCardAssumption`, `HistoryAssumption`, `SitesAssumption`, `ObjectsAssumption`,
`FilesAssumption`, `ContentsAssumption`, `NoEntryAssumption`, `SizesAssumption`,
`ServicesAssumption`, `StartsAssumption`, `StudyAssumption`, `DaysBelowEpoch`: constants
have their types, the resolution and the sizes of chunks, batches and zips are not 0, devices,
objects and notes are finitely many, "no note" is not a note, "no card" not a card, "absent" not a
checksum, "no entry" not a row and "no file" not a collection, there is a deck, no service is
listed twice, no row at the start bears a time to come, the cards are finitely many numbers, the
length of a day, the learning step, the undo limit and the deck's limit are not 0, a study session
is shorter than the seconds from 1970 to its start, so that a day number is never taken for a
time, and the bounds leave room for the initial state).

*Why the invariants need strengthening.* `BaselineKnown` speaks of snapshots only;
what makes a new snapshot safe is that, from the push of the notes on, everything in
scope of the collection is on the server or has a tombstone there, and that a
manifest shows only such notes (`KnownInv`). It holds although other clients
delete meanwhile, because a delete leaves a tombstone.

`BaselineHonest` is about idle clients whose scope is the snapshot's. `HonestInv`
says it under the snapshot's own scope, so that re-routing cannot break it, and
carries it from the end of one pass to the plan of the next: between the two only
the user places notes. The deletes are computed from exactly that difference, and
live for one phase, which gives `DeletesByUser`.

`NoResurrection` needs the most (`RemovalInv`): what a user removed since the
baseline is, if the manifest shows it, among the deletes until they are pushed;
after the push the server does not have it in scope; so the manifest from which
pulls are planned does not show it. Each clause survives the other clients' steps,
because any of them that puts the note back turns `touch` from `"user"` to
`"stale"`.

`LargeDeletesApproved` is decided in one step and matters in a later one. `ApprovalInv` keeps
the verdict in between: deletes about to be pushed without an approval are not large against
the snapshot, as neither changes before the request; the rule itself errs on the safe side,
as it counts cards too and rounds the share down (`SmallEnough`).

`NoLostEdit` rests on two facts (`EditInv`): a record's time is the time of the
edit that made its text (`Dated`; false for fast clocks, hence `Fast = {}`), and
while no text is forced the server only moves to later texts than the manifest
showed (`Ordered`). A pull then brings a later text; a push either has a later text
than the manifest, or the same, or was decided on after hydrating a later record,
and then its base no longer agrees and the server refuses it.

`NewestWins` and `InterruptedPullYields` share `WorkInv`. A card with a user's work on
it bears the time of that work, one without is in Default and was never studied
(`Dated`); the server's card only gets newer than the one in a manifest, as the server
keeps the newer of two; and while a pass has its plan before it, its local card is no
newer than the manifest and no studied card is marked fresh or server-authoritative.
So what a plan prefers to a studied card is later work, and what the server has by
then is no earlier. `LooksInterrupted` knows generated cards by their age; the ones
that are not of their note's age are copies of generated cards that were on the
server, hence no newer than the manifest (`Copied`), and lose by time.

`CountersKept` compares one step of `ApplyDay` with the counter it replaces, so the invariant
has to know where the merged counter comes from (`CountInv`): it is of the client's day or of
a later one, not below the client's own if it is of the same, and later only if the server
has that day, which is the one case the property excepts.

`HistoryHonest` says that what is no longer pending is on the server as the client has it.
The marks are cleared from `shared`, computed stages before, so `ReviewInv` follows it:
what a pass holds to be shared is in the log and, while the client has its card, on the
server with the card's guid; what it compares with is still there; what it pushes is what
its log says. The hard part is the card: a record loses its guid while the card is deleted,
so the invariant must be about cards the client has, and for a card that an undo would
restore it must say already what holds after the undo (`UndoHonest`).

`NothingLost` of the dual sync is about a set difference: a guid that was converged and is not
in a routed deck of one side is deleted on the other. That is right if the note is gone, so
the invariant says what is still there. `Remembered`: of the guids in the state file, and of
what the shadow had after its last native sync, all but those that a user has deleted are in
the shadow and on its server, and the guids in the state file in the master too; this is what
lets the native sync, a merge that takes away what one side has lost, take away nothing else.
A note may be there and in another deck. `Housed`: each note has one home, a deck that
it has wherever it is unless it was moved (a note that is added finds its home then, which is
why the home is existential); so a note that is in a routed deck on one side is on the other.
Where nobody left a deck out this holds for moved notes as well, as all decks that the
desktop or the shadow has are in the plan (`Routed`, `Staged`). Failures and crashes at any stage
are in the theorem: they leave a state file that says less than there is, never more. A shadow
whose file has just been created knows of nothing (`Kept`). That nothing gets older is
a property of the import, the scheduling and the merge each (`Reconciled`, `Scheduled`,
`MergedRows`), and of the clock: no row bears a time to come (`Sound`).

*The collection sync* treats objects one at a time, and so does its proof. `RowsInv` is about
the committed collections: a row that differs is either due on the device or recent on the
server, unless the device is blind to it; an old grave of either side is known to the other,
and of an object sent unchunked the side that would win already has the later version
(`RowsLinked`). `Stands` is about the open transactions: a client whose session it is knows, at
each stage and for each object, what its transaction and the server's make of it: graves
applied (`Unmerged`), the server's row applied (`Pulled`), both sides with the winner
(`Settled`), where the winner is a function of what was committed (`Won`). Each request takes
the objects it carries from one stage to the next. The numbers of the meta request still hold
or the client is late (`Numbered`); a late client's session is described by the same stages, as
only the number it gives to what it sends is old. Of doubtful objects, and of all objects when
the server's collection was replaced since the meta, the stages say less: each side has one of
the two versions or none (`Mixed`). What a commit may do with the result is the same for both
sides and for the server only, when the answer of `Finish` is lost: the device's own row is
linked again (`SettledKept`), and of what changed on the server every other device either
hears, or has passed its number and is blind to it (`OutcomeRows`). From this `NothingMissed`
is a reading of `RowsLinked`; the counts of `SanityCheck` agree because both sides hold the
winners (`SanityPasses`); and `SyncsAreAtomic` follows step by step: all requests stutter but
the commits (`FinishMaps`, `UploadMaps`, `DownloadMaps`), the edits (`LocalMaps`) and losing
touch with the server (`PartMaps`).

The theorems have no hypotheses beyond the assumptions on constants. Faults, lost answers, aborts
at any time, restarts, sessions that take each other over, syncs inside another client's gap
between meta and start, and ids that come back after their deletion are all inside them.

*The media sync*, too, is about one file of one device. `FolderHonest`: what the folder has
beyond the database will be noticed, or the server is ahead and the next pass fetches it.
`EntryHonest`: what the database says is what the server has, unless it is marked for sending
or the server's number is above the device's. `PassHonest` carries this through a batch: for a
file no longer to do, what was downloaded, deleted or found clean is what the server has,
or the server has moved beyond the batch's last number; what was sent is what the server
has, or the server has moved beyond the reply. `ServerHonest` says that row and file of the
server agree and have been held. All are for files outside `blind`, and the windows of
`blind` are just where a step of the proof fails without it.

`PassingIntervalsOrdered` holds for every preset with fuzz and every review. Each button's interval
has one more than the button's before as its minimum, so all rests on fuzz respecting a
minimum: the interval is first brought between the limits, so the range around it meets
them, and the bounds that are cut to them are in order; the upper one is raised only where
the maximum leaves room. A factor below 1 picks a day from the bounds. The theorem is about
fixed-point numbers. In f32 a factor next to 1 and a range of hundreds of days can round to
the day above the range.

The two theorems about limits are the base and the step of an induction over the cards taken.
Gathering looks at the card's own deck alone, so the invariant has to say that a limit used
up above is used up below (`Exhausted`): then each deck above has one to give, and what was
shown and what is left stay within what there was (`WithinLimits`). They assume a tree in
which the way to a deck contains the ways to the decks on it (`Rooted`). That `Tree` builds
one is TLC's part, as a recursive definition computes it; so is the common limit of new
cards and reviews, which rests on reviews being gathered first.

*The study session.* `QueueHonest` is not inductive: undo and redo restore counts and a cutoff
that were recorded, and put back entries into a queue that other answers have changed since;
and `UndoRestores` relates a step to a state long gone. So `StudyInv` says of every moment
the stacks remember what it says of the present. A moment is the cards, the counter and the queue
at one time; `Moment` says that they fit: the queue in order with right counts (`QueueFits`),
its entries of the kinds their cards have, no more new cards in it than the counter leaves
for the day (`RoomLeft`), no day with too many (`CounterFits`). From the top of each stack
down, `Link` says how a step leads from the moment before it to the one before the step above
(or to the present): the cards it did not touch are as they were or unburied since, and
the queue after it is the queue before it without its top entry and with the requeued one,
with the counts the step recorded (`Moved`). Undo and redo are then two readings of one link,
which is why `TakeBack` serves both. The exception is a queue that has been built anew or
dropped: then no step from there down has its build time (`Forgotten`), and none will touch it,
as the code checks that time and `FreshBuild` gives a new one (`FreshExists` counts the kept
steps). Time passing, flags and unburying in between keep the links (`ChainLater`, `ChainFollows`).

That the queue is built in order with right counts rests on three facts about gathering that need no
recursion: the candidates are finitely many and in a strict order, so each is kept or left
out in turn (`GatherExists`); the last new card kept found room (`NewKept`); and of two siblings
the later one was let in by the options (`SiblingsKept`). From the last comes `EntriesCurrent`: an
answer buries siblings of kinds its options bury, and none of these is in the queue. That needs
`Graded`: a user who has cards of one kind buried has those of the kinds gathered later buried
too (interday learning, reviews, new cards). The code does not ask for it, and without it the
property is false (section 6); the other theorems do not assume it.

The theorems are for any finite set of cards, any notes, limits, delays and day length. A session
lasts less than `Epoch` seconds, so that no due that is a day is taken for a time
(`DaysBelowEpoch`), as in the code days are below 1_000_000_000 and times above.

*Checked by TLC only:* `Collection`, whose operators go through folds over a log of
changes, so that what they compute is known by induction over data; what the recursive definitions
of `Gathering` and `Answering` compute; and all liveness (`Converges`, `EventuallyAgreed`), which is out of the prover's reach, as is
anything about `ENABLED`.

## 6. Where the source disagrees with itself

Two are runs whose property is the quoted sentence; `PROJECT.json` ("findings") has the
quotes.

- `content_echo` (content_sync.py:398): a tombstone applied by a pass that then
  stops is echoed as a local delete if another client re-creates the note.
- `shadow_edits` (shadowsync.py:113-114): an edit pushed into the shadow in the sync that
  turns out to be a full download never reaches the server, as the baseline is recorded
  with the fingerprint the desktop had.

The rest are behaviours met while modelling, in the models or just outside of them, that
have no run of their own.

*Kelma pass.*

- A reset that stops between the notes and the state file is published as deletes by
  the next pass, up to the approval limits, although "Native graves describe the
  reset, not deletions to publish elsewhere" (gui.py:4114). `ResetNotes`, `StopPass`,
  `FetchManifest`, `PlanPass` do it; `DeletesByUser` excludes it by `dirty`.
- Moving a note out of the routed decks deletes it on the server though it is still in
  the collection, against sync_state.py:3-5 ("present in the snapshot but absent
  locally"): `LocalDeletes` works on scoped manifests.
- A fresh restore takes a card that its user only moved for "an untouched partial
  server pull" (content_sync.py:92) and overwrites it: `FreshRestore` looks at
  scheduling, not at decks.
- In Default, an interrupted pull's generated card overwrites the upstream scheduling,
  and a note pushed without its card makes another client's generated card outrank the
  author's (card_sync.py:113); hence "cards in users' decks" in `InterruptedPullYields`.
- A clamped time makes an applied card look old, and later passes pull it again
  (anki_apply.py:126): the models have `Fast` for clocks that run ahead, and the runs
  and the theorems about edits leave it empty.
- A forced text keeps its old time and is taken back by a later edit that lost the user's
  decision (note_sync.py:227).
- A raw and a normalizing client relay their forms of a note to each other on every pass
  (note_sync.py:148); `note_sync` has normalizing clients only.

*Review phase.*

- A card is answered and deleted, the pass pushes its review as an orphan, and the user
  undoes the deletion: now the client has a guid for the review and the server has none,
  the checksums differ, and every later pass ends with a review-history conflict about
  the client's own review. The exemption of review_sync.py:296-299 covers the opposite
  case only, and the dialog for conflicts shows no reviews. `Stuck` in `Converges`.
- Custom study extends a limit by lowering the day's counter (decks/stats.rs:48), and undo
  lowers it too; the merge by maximum ("monotonic snapshots", review_sync.py:353) takes
  the old value from the server back, and the extension is gone after the next pass.
- A study day is counted from the day on which the collection begins, in UTC
  (review_sync.py:183). Collections that began on different days give one day of study
  two numbers, and the higher one overwrites the other's counters (`Overtaken`).
- With AnkiWeb beside Kelma, pulled reviews are inserted as already synced
  (review_sync.py:150): they are never sent to AnkiWeb, and the native sync, which counts
  the rows of the review log on both sides (storage/sync_check.rs:49), fails its check.
- An orphan whose id another review has on the server counts as shared, and is never sent.

*Collection sync.*

- An object that is deleted, comes back by a package import and is deleted again keeps its
  old grave, written with "insert or ignore" (storage/graves/mod.rs:78); the second deletion
  is not sent, although "deletions should sync too" (sync/collection/tests.rs:733), and the
  sanity check stops the next sync. `Put` does it; such ids are `doubtful`.
- An abort is not checked against the session's key (http_server/handlers.rs:162), though a
  test says that a wrong key is ignored (sync/collection/tests.rs:203): the abort of one
  device ends the sync of another, and two devices can do so to each other in turn.
- Another sync may be served between a client's meta and its start, as no session exists
  before start (http_server/handlers.rs:61-81). The client then sends with the number it was
  told at its meta, and the device that synced in between has passed that number: it never
  fetches these objects (`blind`), and differs until they change again or, where an object was
  added, its next sanity check fails on the counts and forces a full sync. If what happened in
  between was a full upload, the client sends to a collection whose graves it has not seen
  (`doubtful`).
- The merges of decks, presets and notetypes have no test for pending local changes
  beyond their time; two edits of one object in the same second stay different for ever.
- A deletion whose finish answer was lost, and whose object an import brings back, destroys
  the object again at the next sync.

*Media.* The windows of `blind`: see `MediaSync`. `remove_files` returns at the first file
that is already gone (media/files.rs:349), so that the rest of a deletion stays in the
folder and is uploaded again, against "Parallel deletions should work too"
(sync/media/tests.rs:261).

*Study.*

- With the burying of reviews on and that of new cards off, a new card and its sibling, a
  review, are both in the queue. The new card is answered "again", comes back as a learning
  card, and its next answer buries the review, as reviews are gathered after learning cards
  (`exclude_earlier_gathered_queues`); the entry stays in the queue, and every later request
  fails on it: "bug: card modified without updating queue" (scheduler/queue/mod.rs:105). With
  `BuryModes <- OnlyReviews` and two new cards a day TLC has it in eight states. `Graded`
  excludes it; the undo of a flag can bury again.
- Undoing an answer after the day has ended drops the step being recorded, and
  `op_changes` panics on its absence (undo/mod.rs:120, 124); `fault` records it.

*Answers.*

- After "hard" on the first step the delay is between two steps, and FSRS may give one of its
  own; what is read back is the delay of the step (answering/current.rs:97). The seconds a
  card has waited are then reckoned from the wrong delay, and as the difference is converted
  to u32 (answering/current.rs:78) a card answered early can have waited 136 years.
- Without fuzz, which only tests ask for, "easy" on a learning card under FSRS passes
  `clamp` a minimum above the maximum when "good" is at the maximum (states/learning.rs:180),
  and panics.

*Collection.*

- Check database leaves undo steps: recovering a notetype or a missing parent deck
  (dbcheck.rs:417, 433) calls the user's operation with a transaction of its own inside
  the one that records nothing, against "any action that doesn't support undoing will
  clear both queues" (undo/mod.rs:415). Undoing such a step removes the notetype from
  under the notes. `nested` has these steps; the damaged sessions that make them have no
  undo.
- Check database puts the next position to 0 when no new card is at home; drops the
  home due of a card it takes out of a deck that is not filtered, and does not restore its
  queue; does not look at the home decks of lent cards; fails as a whole if the parent
  that is missing is below a filtered deck.
- Renaming the deck "A" to "A::x::y" leaves an empty "A::x::y::x" (decks/addupdate.rs:66).
- Making room for positions does not move new cards that are in filtered decks (new.rs:292).
- Clozes from 500 on share one card (cardgen.rs:158).
- Removing a template can leave notes without any card (schemachange.rs:138), which nothing
  finds again.
- Dragging two tags of which one does not move panics (tags/reparent.rs:70); the action's
  guard excludes it. Renames can leave a tag twice in the text of a note.
- The deck and notetype caches are not cleared when a transaction is rolled back
  (collection/transact.rs:46), so a failed operation can leave rows in them.
- A redo that coalesces with a step before it drops an undo step.

*Limits and gathering.* A deck whose parent is missing hangs below the deck listed before it
and takes that deck's limits (limits.rs:292, tree.rs:57), or below none: then the deck list
leaves it out, and building the queue of a deck above fails at it (limits.rs:350,
gathering.rs:96), for every order deck by deck even when it has no cards; `MissingParents`
has both. More new cards by custom study are as many more reviews, as new cards that were
studied count for both limits (limits.rs:106-108, `ExtendedLimits`). The deck list counts
learning cards due before its cutoff (due_counts.sql), the queue those due at it as well
(builder/mod.rs:194).

*Dual sync.* A fingerprint is a maximum (state.py:6), so an edit that arrives late and is
older than the newest in its deck is never carried over. Moves of cards never cross, as the
import skips notes that exist. Equal counts defeat the search for stragglers
(shadowsync.py:224-231). A note that another client moves into a deck that is on the
desktop and not routed is deleted from the desktop and then from the other service.
Taking a deck out of the routing deletes nothing by itself.

## 7. Assumptions and limits

**The Kelma server** is not in the repository. The models take from the client's requests
and from what it does with the answers: a manifest is one consistent view; a batch is
applied as a whole; a note push with a base checksum that is not the server's is
reported as a conflict and changes nothing, a forced push has no base; of two cards
the one with the later `client_modified_at` stays; a delete leaves a tombstone, and
pushing the note again removes it. AnkiWeb is taken to behave as the server in `sync`.

**Anki**, in the models of the add-on, is taken at its word: a user's action sets `mod` to
the wall clock, `add_note` generates the card at once, and text is normalized when
`normalize_note_text` is on.

**Abstractions.** In the Kelma models and in `ShadowSync` a note has one card. A batch of
several chunks is one action there: a stop between two chunks leaves a mixture of "done"
and "not done" notes, and notes do not interact. Checksums are equality of contents.
In `CollectionSync` an object's content is its modification time, so two edits of one
object never carry the same second; rows of the review log, which are only ever added, are
left out. In the collection's modules a field is the set of the
clozes in it, a name the sequence of its components, a search the set of cards it
matches; times, usns, intervals and memory state of rows are left out. The native sync
is one step of `ShadowSync`, and its failures those of `CollectionSync`.

**Left out of modelled parts.** Deck and notetype rows of the Kelma pass, the removal of a
routed deck (gui.py:1303), duplicate-card repair; account handling, HTTP framing and old
schema versions of the sync protocol; file-name normalization, sizes and zips of the
media sync; the weights of the load balancer, which picks a day from the range fuzz would
pick from, and the numbers of FSRS; f32 rounding in `States`; the orders of reviews by retrievability; the review limit and several
decks of `Study`; deck options, the configuration store beyond the remembered ids, operations
that skip undo, caches; in `ShadowSync` media, revlog, options and notetypes of the
packages, day shifts, filtered and nested decks, the automatic database check, and syncs
of one service alone, whose effect a crash between the two has.

**Not modelled.** The add-on's media phase is a pool of independent transfers,
each repeated by the next pass. Deck and notetype phases follow the note phase one row
per request; changing a notetype under its notes is in `Notetypes`. The canonical push and
the staged workflow go over a chosen set of rows in one direction, behind dialogs.
Packages and CSV files are read and written in one transaction without other actors.
Parsing, escaping, rendering and search are text processing; the Python library is
bindings; accounts, badges, diagnostics and web pages are presentation.

## 8. Plan

Done: the Kelma pass (`ContentSync`, `ConflictPolicy`, `CardSync`, `NoteSync`, `HistorySync`)
and the sync of collection and media, with their proofs and the refinement; the dual sync and its
proofs; the study queue and its proofs; the collection with undo.

Worth proving next, in this order: `Collection!TablesAgree` part by part, from lemmas on what each
operator leaves of the rows and graves (`Tables` has no recursion).

Worth modelling next: deck options; import of packages as an operation of
`Collection`; the removal of a route as an action of `ContentSync`; the staged workflow
of the interface.
