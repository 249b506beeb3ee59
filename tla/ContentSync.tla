----------------------------- MODULE ContentSync -----------------------------
(***************************************************************************)
(* One content pass of the KelmaSync add-on (sync_content_once), run by    *)
(* several clients of one server, and what it does to the EXISTENCE and    *)
(* the PLACE of notes.  The contents of a note and the schedule of a card  *)
(* are the subject of NoteSync and CardSync; here a checksum or timestamp  *)
(* comparison is a free choice of winner.                                  *)
(*                                                                         *)
(* A pass is one background task on the client's collection: its user does *)
(* not edit while it runs, but the other clients change the server between *)
(* any two of its requests, and it may stop after any of them (network     *)
(* failure, unresolved conflict, crash).  The snapshot that the next pass  *)
(* compares with is written by the last step only.                         *)
(*                                                                         *)
(* Every note has one card.  The server is external: it is modelled from   *)
(* the requests the client makes and the answers it expects.               *)
(***************************************************************************)
EXTENDS Naturals, FiniteSets

CONSTANTS
    Clients,        \* collections that sync with the server
    Notes,          \* note guids
    Scopes,         \* deck_names in use: "all" (None) and/or "routed" (a list)
    DeleteFloor,    \* content deletes that never need approval (10)
    DeletePercent,  \* share of the known content that needs none (10)
    DeleteTotal,    \* deletes of any kind that need none (100)
    MaxEdits,       \* bound: user actions in a behaviour
    MaxFaults       \* bound: stopped passes, pulls with skipped records

ASSUME BoundsAssumption ==
    /\ DeleteFloor \in Nat /\ DeletePercent \in Nat /\ DeleteTotal \in Nat
    /\ MaxEdits \in Nat /\ MaxFaults \in Nat

ASSUME NotesAssumption == IsFiniteSet(Notes)

ASSUME ScopesAssumption == Scopes # {} /\ Scopes \subseteq {"all", "routed"}

VARIABLES
    server,      \* [Notes -> ServerPlace]: where the server has the note's card
    tombstones,  \* notes the server remembers as deleted
    local,       \* [Clients -> [Notes -> LocalPlace]]
    routing,     \* [Clients -> Scopes]: the decks this client syncs
    snapshot,    \* kelma_sync_v2_state.json of each client
    approved,    \* v2_allow_large_deletes of each client
    phase,       \* where the client's pass is, or "idle"
    manifest,    \* the pass's server manifest: as last fetched, scoped
    doomed,      \* the pass's tombstones to apply
    deletes,     \* the pass's local deletes to push
    settled,     \* the pass's cards whose server copy rules
    fresh,       \* the pass's fresh_restore
    touch,       \* history: who last placed or removed the client's note
    dirty,       \* history: a pass or reset stopped halfway since the snapshot
    edits,       \* user actions so far
    faults       \* stopped passes and pulls with skipped records so far

passVars == <<phase, manifest, doomed, deletes, settled, fresh>>

vars == <<server, tombstones, local, routing, snapshot, approved, passVars,
          touch, dirty, edits, faults>>

-----------------------------------------------------------------------------
\* A note is absent, or its card is in a deck the user routes to KelmaSync
\* or in another one (Default is another one).  On the server a note may also
\* have no card yet: notes and cards are pushed by separate requests.
LocalPlace == {"absent", "other", "routed"}
ServerPlace == LocalPlace \union {"bare"}

\* Scope "all" (deck_names = None) syncs everything, "routed" the routed decks.
InScope(place, scope) ==
    \/ place = "routed"
    \/ scope = "all" /\ place # "absent"

\* The notes of a collection within a scope (note_manifest).
Scoped(places, scope) == {n \in Notes : InScope(places[n], scope)}

\* client.manifest() filtered by _scope_server_manifest_to_decks.
ScopedManifest(scope) ==
    [n \in Notes |-> IF InScope(server[n], scope) THEN server[n] ELSE "absent"]

\* Mutant of HasCard: a note that is there counts as having its card.
AnyCard(places) == {n \in Notes : places[n] # "absent"}

HasCard(places) == {n \in Notes : places[n] \in {"other", "routed"}}
HasNote(places) == {n \in Notes : places[n] # "absent"}

\* The state file: scope "none" is a missing, unreadable or older file.
Snapshots == [scope : Scopes \union {"none"}, notes : SUBSET Notes]
NoSnapshot == [scope |-> "none", notes |-> {}]

ScopeMatches(c) == snapshot[c].scope = routing[c]

Phases == {"idle", "plan", "push_deletes", "refetch", "pull_notes",
           "push_notes", "pull_cards", "push_cards", "save", "reset", "finish"}

NoManifest == [n \in Notes |-> "absent"]

\* Types: every reachable state is built of notes, phases and files.
TypeOK ==
    /\ server \in [Notes -> ServerPlace]
    /\ tombstones \in SUBSET Notes
    /\ local \in [Clients -> [Notes -> LocalPlace]]
    /\ routing \in [Clients -> Scopes]
    /\ snapshot \in [Clients -> Snapshots]
    /\ approved \in [Clients -> BOOLEAN]
    /\ phase \in [Clients -> Phases]
    /\ manifest \in [Clients -> [Notes -> ServerPlace]]
    /\ doomed \in [Clients -> SUBSET Notes]
    /\ deletes \in [Clients -> SUBSET Notes]
    /\ settled \in [Clients -> SUBSET Notes]
    /\ fresh \in [Clients -> BOOLEAN]
    /\ touch \in [Clients -> [Notes -> {"user", "stale", "sync", "reset"}]]
    /\ dirty \in [Clients -> BOOLEAN]
    /\ edits \in Nat
    /\ faults \in Nat

\* Some notes are already shared; a client has synced them in full, or is new.
Shared(shared, joined, scope) ==
    LET places == [n \in Notes |-> IF n \in shared THEN "routed" ELSE "absent"]
    IN  /\ server = places
        /\ local = [c \in Clients |-> IF c \in joined THEN places
                                      ELSE [n \in Notes |-> "absent"]]
        /\ routing = scope
        /\ snapshot = [c \in Clients |->
                         IF c \in joined
                         THEN [scope |-> scope[c], notes |-> shared]
                         ELSE NoSnapshot]

Init ==
    /\ \E shared \in SUBSET Notes, joined \in SUBSET Clients,
          scope \in [Clients -> Scopes] : Shared(shared, joined, scope)
    /\ tombstones = {}
    /\ approved = [c \in Clients |-> FALSE]
    /\ phase = [c \in Clients |-> "idle"]
    /\ manifest = [c \in Clients |-> NoManifest]
    /\ doomed = [c \in Clients |-> {}]
    /\ deletes = [c \in Clients |-> {}]
    /\ settled = [c \in Clients |-> {}]
    /\ fresh = [c \in Clients |-> FALSE]
    /\ touch = [c \in Clients |-> [n \in Notes |-> "sync"]]
    /\ dirty = [c \in Clients |-> FALSE]
    /\ edits = 0
    /\ faults = 0

-----------------------------------------------------------------------------
(***************************************************************************)
(* The user between two passes.                                            *)
(***************************************************************************)
Idle(c) == phase[c] = "idle"

\* A new note, or an old guid brought back by undo or import; deleting it;
\* moving its card to another deck.
Place(c, n, place) ==
    /\ Idle(c) /\ edits < MaxEdits
    /\ local[c][n] # place
    /\ local' = [local EXCEPT ![c][n] = place]
    /\ touch' = [touch EXCEPT ![c][n] = "user"]
    /\ edits' = edits + 1
    /\ UNCHANGED <<server, tombstones, routing, snapshot, approved, passVars,
                   dirty, faults>>

\* The deck routing dialog.
Reroute(c) ==
    /\ Idle(c) /\ edits < MaxEdits
    /\ \E scope \in Scopes \ {routing[c]} :
           routing' = [routing EXCEPT ![c] = scope]
    /\ edits' = edits + 1
    /\ UNCHANGED <<server, tombstones, local, snapshot, approved, passVars, touch,
                   dirty, faults>>

\* "Approve large deletions for one sync" in the account dialog.
Approve(c) ==
    /\ Idle(c) /\ edits < MaxEdits
    /\ ~approved[c]
    /\ approved' = [approved EXCEPT ![c] = TRUE]
    /\ edits' = edits + 1
    /\ UNCHANGED <<server, tombstones, local, routing, snapshot, passVars, touch,
                   dirty, faults>>

\* "Delete local data and restore": every note goes, then the media folder
\* and with it the state file.  The restore is the next pass.
ResetNotes(c) ==
    /\ Idle(c) /\ edits < MaxEdits
    /\ local' = [local EXCEPT ![c] = [n \in Notes |-> "absent"]]
    /\ touch' = [touch EXCEPT ![c] = [n \in Notes |-> "reset"]]
    /\ phase' = [phase EXCEPT ![c] = "reset"]
    /\ edits' = edits + 1
    /\ UNCHANGED <<server, tombstones, routing, snapshot, approved, manifest,
                   doomed, deletes, settled, fresh, dirty, faults>>

\* Mutant of ResetFiles: the state file survives.
KeepStateFile(c) ==
    /\ phase[c] = "reset"
    /\ phase' = [phase EXCEPT ![c] = "finish"]
    /\ dirty' = [dirty EXCEPT ![c] = FALSE]
    /\ UNCHANGED <<server, tombstones, local, routing, snapshot, approved,
                   manifest, doomed, deletes, settled, fresh, touch, edits,
                   faults>>

ResetFiles(c) ==
    /\ phase[c] = "reset"
    /\ snapshot' = [snapshot EXCEPT ![c] = NoSnapshot]
    /\ phase' = [phase EXCEPT ![c] = "finish"]
    /\ dirty' = [dirty EXCEPT ![c] = FALSE]
    /\ UNCHANGED <<server, tombstones, local, routing, approved, manifest,
                   doomed, deletes, settled, fresh, touch, edits, faults>>

-----------------------------------------------------------------------------
(***************************************************************************)
(* What a pass decides.                                                    *)
(***************************************************************************)
\* _tombstones_for_snapshot: only deletions of what this client knew, and
\* none when the snapshot was taken under another scope.
ScopedTombstones(c) ==
    IF ScopeMatches(c) THEN tombstones \intersect snapshot[c].notes ELSE {}

\* Mutant of LocalDeletes: misses the notes whose card the server never got.
CardedDeletes(c, here, applied) ==
    IF ScopeMatches(c)
    THEN ((snapshot[c].notes \ here) \ applied)
            \intersect HasCard(manifest[c])
    ELSE {}

\* compute_local_deletes, without what tombstones removed in this pass and
\* without what the server is not seen to have (_limit_deletes_to_scoped_server).
LocalDeletes(c, here, applied) ==
    IF ScopeMatches(c)
    THEN ((snapshot[c].notes \ here) \ applied)
            \intersect HasNote(manifest[c])
    ELSE {}

\* Mutants of NeedsApproval: few deletes from few notes need one too; the total
\* and the share must both be exceeded.
NoFloor(lost, cards, known) ==
    LET content == Cardinality(lost) + cards
    IN  \/ content > DeleteTotal
        \/ content > (2 * Cardinality(known) * DeletePercent) \div 100

BothLimits(lost, cards, known) ==
    LET content == Cardinality(lost) + cards
    IN  /\ content > DeleteTotal
        /\ content > DeleteFloor
        /\ content > (2 * Cardinality(known) * DeletePercent) \div 100

\* The approval rule.  cards: how many of the deleted notes' cards the server
\* knows under this client's card ids (those are deletes too).
NeedsApproval(lost, cards, known) ==
    LET content == Cardinality(lost) + cards
    IN  \/ content > DeleteTotal
        \/ /\ content > DeleteFloor
           /\ content > (2 * Cardinality(known) * DeletePercent) \div 100

\* fresh_restore, as far as places tell: nothing here that is not on the
\* server with its card.  Contents and schedules decide the rest, except that
\* an empty collection always qualifies.
FreshChoices(c, here) ==
    IF /\ routing[c] = "all" /\ snapshot[c] = NoSnapshot
       /\ HasNote(manifest[c]) # {}
       /\ here \subseteq HasCard(manifest[c])
    THEN IF here = {} THEN {TRUE} ELSE BOOLEAN
    ELSE {FALSE}

\* Another client put these notes on the server, or moved their cards: for
\* the rest, the user's own removal is no longer the last word.
Supersede(c, notes) ==
    [d \in Clients |-> [n \in Notes |->
        IF d # c /\ n \in notes /\ touch[d][n] = "user" THEN "stale"
        ELSE touch[d][n]]]

\* The pass is over, or gone: nothing of it outlives the task.
EndPass(c) ==
    /\ phase' = [phase EXCEPT ![c] = "idle"]
    /\ manifest' = [manifest EXCEPT ![c] = NoManifest]
    /\ doomed' = [doomed EXCEPT ![c] = {}]
    /\ deletes' = [deletes EXCEPT ![c] = {}]
    /\ settled' = [settled EXCEPT ![c] = {}]
    /\ fresh' = [fresh EXCEPT ![c] = FALSE]

-----------------------------------------------------------------------------
(***************************************************************************)
(* The pass, one action per request to the server.                         *)
(***************************************************************************)
\* GET manifest, scoped; load the snapshot.
FetchManifest(c) ==
    /\ Idle(c)
    /\ phase' = [phase EXCEPT ![c] = "plan"]
    /\ manifest' = [manifest EXCEPT ![c] = ScopedManifest(routing[c])]
    /\ doomed' = [doomed EXCEPT ![c] = ScopedTombstones(c)]
    /\ UNCHANGED <<server, tombstones, local, routing, snapshot, approved,
                   deletes, settled, fresh, touch, dirty, edits, faults>>

\* Apply the tombstones, read the collection, detect local deletes and stop
\* with DeletionSafetyError when they need an approval that is not there.
PlanPass(c) ==
    LET applied == {n \in doomed[c] : local[c][n] # "absent"}
        kept    == [n \in Notes |-> IF n \in doomed[c] THEN "absent"
                                    ELSE local[c][n]]
        here    == Scoped(kept, routing[c])
        lost    == LocalDeletes(c, here, applied)
    IN
    /\ phase[c] = "plan"
    /\ local' = [local EXCEPT ![c] = kept]
    /\ touch' = [touch EXCEPT ![c] =
                   [n \in Notes |-> IF n \in applied THEN "sync"
                                    ELSE touch[c][n]]]
    /\ \E cards \in 0..Cardinality(lost), restore \in FreshChoices(c, here) :
         IF NeedsApproval(lost, cards, snapshot[c].notes) /\ ~approved[c]
         THEN /\ EndPass(c)
              /\ dirty' = [dirty EXCEPT ![c] = TRUE]
         ELSE /\ phase' = [phase EXCEPT ![c] = IF lost = {} THEN "pull_notes"
                                               ELSE "push_deletes"]
              /\ doomed' = [doomed EXCEPT ![c] = {}]
              /\ deletes' = [deletes EXCEPT ![c] = lost]
              /\ settled' = [settled EXCEPT ![c] = HasCard(manifest[c]) \ here]
              /\ fresh' = [fresh EXCEPT ![c] = restore]
              /\ UNCHANGED <<manifest, dirty>>
    /\ UNCHANGED <<server, tombstones, routing, snapshot, approved, edits,
                   faults>>

\* POST batch/delete: the server forgets the notes and remembers the deletion.
PushDeletes(c) ==
    /\ phase[c] = "push_deletes"
    /\ server' = [n \in Notes |-> IF n \in deletes[c] THEN "absent"
                                  ELSE server[n]]
    /\ tombstones' = tombstones \union (deletes[c] \intersect HasNote(server))
    /\ phase' = [phase EXCEPT ![c] = "refetch"]
    /\ deletes' = [deletes EXCEPT ![c] = {}]
    /\ UNCHANGED <<local, routing, snapshot, approved, manifest, doomed,
                   settled, fresh, touch, dirty, edits, faults>>

RefetchManifest(c) ==
    /\ phase[c] = "refetch"
    /\ phase' = [phase EXCEPT ![c] = "pull_notes"]
    /\ manifest' = [manifest EXCEPT ![c] = ScopedManifest(routing[c])]
    /\ UNCHANGED <<server, tombstones, local, routing, snapshot, approved,
                   doomed, deletes, settled, fresh, touch, dirty, edits,
                   faults>>

\* POST batch/pull of the notes missing here: those the server still has are
\* added to the Default deck; a record that cannot be applied is skipped.
PullNotes(c) ==
    LET here  == Scoped(local[c], routing[c])
        pulls == (HasNote(manifest[c]) \ here) \intersect HasNote(server)
        new   == {n \in pulls : local[c][n] = "absent"}
    IN
    /\ phase[c] = "pull_notes"
    /\ \E skipped \in SUBSET new :
         /\ skipped # {} => faults < MaxFaults
         /\ faults' = IF skipped = {} THEN faults ELSE faults + 1
         /\ local' = [local EXCEPT ![c] =
                        [n \in Notes |-> IF n \in new \ skipped THEN "other"
                                         ELSE local[c][n]]]
         /\ touch' = [touch EXCEPT ![c] =
                        [n \in Notes |-> IF n \in new \ skipped THEN "sync"
                                         ELSE touch[c][n]]]
    /\ phase' = [phase EXCEPT ![c] = "push_notes"]
    /\ UNCHANGED <<server, tombstones, routing, snapshot, approved, manifest,
                   doomed, deletes, settled, fresh, dirty, edits>>

\* POST batch/push of the notes the server was not seen to have; a note that
\* is there by now is a conflict and stays.
PushNotes(c) ==
    LET here   == Scoped(local[c], routing[c])
        pushes == here \ HasNote(manifest[c])
        new    == pushes \ HasNote(server)
    IN
    /\ phase[c] = "push_notes"
    /\ server' = [n \in Notes |-> IF n \in new THEN "bare" ELSE server[n]]
    /\ tombstones' = tombstones \ new
    /\ touch' = Supersede(c, new)
    /\ phase' = [phase EXCEPT ![c] = "pull_cards"]
    /\ UNCHANGED <<local, routing, snapshot, approved, manifest, doomed,
                   deletes, settled, fresh, dirty, edits, faults>>

\* The cards both sides have, whose newer side is not known here.
Contested(c) ==
    (Scoped(local[c], routing[c]) \intersect HasCard(manifest[c])) \ settled[c]

\* POST batch/pull of cards: the server's deck wins for cards that appeared
\* here in this pass, for those out of scope here, for all of them in a fresh
\* restore, and for the contested ones that are newer there.
PullCards(c) ==
    /\ phase[c] = "pull_cards"
    /\ \E newer \in SUBSET Contested(c) :
         LET pulls   == (HasCard(manifest[c]) \ Contested(c)) \union
                        (IF fresh[c] THEN Contested(c) ELSE newer)
             applied == {n \in pulls \intersect HasCard(server) :
                            local[c][n] \notin {"absent", server[n]}}
         IN  /\ local' = [local EXCEPT ![c] =
                            [n \in Notes |-> IF n \in applied THEN server[n]
                                             ELSE local[c][n]]]
             /\ touch' = [touch EXCEPT ![c] =
                            [n \in Notes |-> IF n \in applied THEN "sync"
                                             ELSE touch[c][n]]]
             /\ settled' = [settled EXCEPT ![c] = settled[c] \union pulls]
    /\ phase' = [phase EXCEPT ![c] = "push_cards"]
    /\ UNCHANGED <<server, tombstones, routing, snapshot, approved, manifest,
                   doomed, deletes, fresh, dirty, edits, faults>>

\* POST batch/push of the cards the server was not seen to have, unless its copy
\* rules (it was gone when the notes were refetched), and of the contested ones
\* that are newer here; the server keeps the newer of two.
PushCards(c) ==
    LET missing == (Scoped(local[c], routing[c]) \ HasCard(manifest[c])) \ settled[c]
        rivals  == (Contested(c) \intersect HasNote(server))
                      \union (missing \intersect HasCard(server))
    IN
    /\ phase[c] = "push_cards"
    /\ \E newer \in SUBSET rivals :
         LET bare  == {n \in missing : server[n] = "bare"}
             moved == IF fresh[c] THEN {}
                      ELSE {n \in bare \union newer : server[n] # local[c][n]}
         IN  /\ server' = [n \in Notes |-> IF n \in moved THEN local[c][n]
                                           ELSE server[n]]
             /\ touch' = Supersede(c, moved)
    /\ phase' = [phase EXCEPT ![c] = "save"]
    /\ UNCHANGED <<tombstones, local, routing, snapshot, approved, manifest,
                   doomed, deletes, settled, fresh, dirty, edits, faults>>

\* Mutants of Baseline: the whole collection under the name of the scope; what
\* the server was seen to have, pulled or not.
WholeBaseline(c) == [scope |-> routing[c], notes |-> HasNote(local[c])]

SeenBaseline(c) ==
    [scope |-> routing[c],
     notes |-> Scoped(local[c], routing[c]) \union HasNote(manifest[c])]

\* The snapshot of the collection as it is now.
Baseline(c) == [scope |-> routing[c], notes |-> Scoped(local[c], routing[c])]

SaveSnapshot(c) ==
    /\ phase[c] = "save"
    /\ snapshot' = [snapshot EXCEPT ![c] = Baseline(c)]
    /\ phase' = [phase EXCEPT ![c] = "finish"]
    /\ dirty' = [dirty EXCEPT ![c] = FALSE]
    /\ UNCHANGED <<server, tombstones, local, routing, approved, manifest,
                   doomed, deletes, settled, fresh, touch, edits, faults>>

\* Back on the main thread, after a pass or a reset: the approval is used up.
FinishTask(c) ==
    /\ phase[c] = "finish"
    /\ approved' = [approved EXCEPT ![c] = FALSE]
    /\ EndPass(c)
    /\ UNCHANGED <<server, tombstones, local, routing, snapshot, touch, dirty,
                   edits, faults>>

\* An unresolved conflict, a failed or unanswered request, a crash: what was
\* done stays done, the snapshot stays the old one.
StopPass(c) ==
    /\ ~Idle(c) /\ faults < MaxFaults
    /\ EndPass(c)
    /\ dirty' = [dirty EXCEPT ![c] = dirty[c] \/ phase[c] # "finish"]
    /\ faults' = faults + 1
    /\ UNCHANGED <<server, tombstones, local, routing, snapshot, approved,
                   touch, edits>>

\* save_state overwrites the file in place: a crash there leaves no snapshot.
TornSave(c) ==
    /\ phase[c] = "save" /\ faults < MaxFaults
    /\ snapshot' = [snapshot EXCEPT ![c] = NoSnapshot]
    /\ EndPass(c)
    /\ dirty' = [dirty EXCEPT ![c] = FALSE]
    /\ faults' = faults + 1
    /\ UNCHANGED <<server, tombstones, local, routing, approved, touch, edits>>

PassStep(c) ==
    \/ PlanPass(c) \/ PushDeletes(c) \/ RefetchManifest(c)
    \/ PullNotes(c) \/ PushNotes(c) \/ PullCards(c) \/ PushCards(c)
    \/ SaveSnapshot(c) \/ FinishTask(c)

Step(c) ==
    \/ \E n \in Notes, place \in LocalPlace : Place(c, n, place)
    \/ Reroute(c)
    \/ Approve(c)
    \/ ResetNotes(c)
    \/ ResetFiles(c)
    \/ FetchManifest(c)
    \/ PassStep(c)
    \/ StopPass(c)
    \/ TornSave(c)

Next == \E c \in Clients : Step(c)

Spec == Init /\ [][Next]_vars

\* A user who keeps syncing: each client starts passes again and again, and a
\* pass or reset that is not stopped goes on.  Faults and edits are bounded.
FairSpec ==
    /\ Spec
    /\ \A c \in Clients : /\ WF_vars(FetchManifest(c))
                          /\ WF_vars(PassStep(c))
                          /\ WF_vars(ResetFiles(c))

-----------------------------------------------------------------------------
(***************************************************************************)
(* Properties.                                                             *)
(***************************************************************************)
\* What the server has, or had and remembers deleting.
Known == HasNote(server) \union tombstones

\* A baseline lists only notes whose fate the client can still learn: each is
\* on the server or has a tombstone there (sync_state: "which server-known
\* resources exist locally").
BaselineKnown == \A c \in Clients : snapshot[c].notes \subseteq Known

\* As long as no pass or reset stopped halfway, a note that the baseline lists
\* and the scoped collection lacks was taken away by the user: only then may
\* the next pass read it as a local delete.
ByUser(c, n) == touch[c][n] \in {"user", "stale"}

BaselineHonest ==
    \A c \in Clients :
        (Idle(c) /\ ScopeMatches(c) /\ ~dirty[c]) =>
            \A n \in snapshot[c].notes \ Scoped(local[c], routing[c]) :
                ByUser(c, n)

\* The same at the point of no return: the deletes about to be pushed.
DeletesByUser ==
    \A c \in Clients : ~dirty[c] => \A n \in deletes[c] : ByUser(c, n)

\* A pass does not bring back a note that its user removed after the baseline
\* was taken, unless another client has put it on the server again since.
KeepsRemovals ==
    \A c \in Clients, n \in Notes :
        (/\ phase[c] = "pull_notes"
         /\ local[c][n] = "absent" /\ local'[c][n] # "absent"
         /\ ScopeMatches(c) /\ n \in snapshot[c].notes)
            => touch[c][n] # "user"

NoResurrection == [][KeepsRemovals]_vars

\* A request that takes more from the server than the total, or more than both
\* the floor and the share of what the client knows, is one that the user
\* approved: a collection that lost its notes cannot empty the server.
Large(gone, known) ==
    \/ gone > DeleteTotal
    \/ gone > DeleteFloor /\ 100 * gone > 2 * DeletePercent * known

LargeDeletesApproved ==
    [][\A c \in Clients :
          (/\ phase[c] = "push_deletes" /\ phase'[c] = "refetch"
           /\ Large(Cardinality(HasNote(server) \ HasNote(server')),
                    Cardinality(snapshot[c].notes)))
             => approved[c]]_vars

\* Clients that keep syncing everything end with the notes of the server.
Converged == \A c \in Clients : Scoped(local[c], routing[c]) = HasNote(server)
Converges == <>[]Converged

-----------------------------------------------------------------------------
(***************************************************************************)
(* The inductive invariants the proofs of these properties rest on.        *)
(***************************************************************************)
\* BaselineKnown: what a manifest shows is known; from the push of notes on,
\* so is everything in scope of the collection, which becomes the baseline.
KnownInv ==
    /\ TypeOK
    /\ BaselineKnown
    /\ \A c \in Clients :
         /\ HasNote(manifest[c]) \subseteq Known
         /\ phase[c] \in {"pull_cards", "push_cards", "save"}
               => Scoped(local[c], routing[c]) \subseteq Known

\* BaselineHonest and DeletesByUser: from the end of one pass to the plan of
\* the next one only the user places notes, whatever is routed meanwhile;
\* deletes live for one phase.
HonestInv ==
    /\ TypeOK
    /\ \A c \in Clients :
         /\ deletes[c] # {} => phase[c] = "push_deletes"
         /\ ~dirty[c] => \A n \in deletes[c] : ByUser(c, n)
         /\ (phase[c] \in {"idle", "plan", "finish"} /\ ~dirty[c]) =>
               \A n \in snapshot[c].notes
                          \ Scoped(local[c], snapshot[c].scope) : ByUser(c, n)

\* NoResurrection: what the user removed since the baseline and nobody put
\* back is, if the manifest shows it, among the deletes until they are pushed,
\* and is not shown by the manifest that the pulls are planned from.
Withdrawn(c) ==
    {n \in Notes : /\ ScopeMatches(c) /\ n \in snapshot[c].notes
                   /\ ~InScope(local[c][n], routing[c])
                   /\ touch[c][n] = "user"}

RemovalInv ==
    /\ TypeOK
    /\ \A c \in Clients : \A n \in Notes :
         /\ (/\ phase[c] \in {"plan", "push_deletes"}
             /\ touch[c][n] = "user" /\ manifest[c][n] = "absent")
               => ~InScope(server[n], routing[c])
         /\ n \in Withdrawn(c) =>
              /\ (phase[c] = "push_deletes" /\ manifest[c][n] # "absent")
                    => n \in deletes[c]
              /\ phase[c] = "refetch" => ~InScope(server[n], routing[c])
              /\ phase[c] = "pull_notes" => manifest[c][n] = "absent"

\* LargeDeletesApproved: from the plan to the request nobody changes what was
\* decided, what it was compared with, or the approval.
ApprovalInv ==
    /\ TypeOK
    /\ \A c \in Clients :
         (phase[c] = "push_deletes" /\ ~approved[c]) =>
             ~Large(Cardinality(deletes[c]), Cardinality(snapshot[c].notes))

-----------------------------------------------------------------------------
(***************************************************************************)
(* What comments in the source say, and the code does not keep.            *)
(***************************************************************************)
\* content_sync: "Never echo an incoming server deletion back as a newly
\* detected local deletion."
NoEcho == \A c \in Clients : \A n \in deletes[c] : touch[c][n] # "sync"
=============================================================================
