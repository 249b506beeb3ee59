------------------------------- MODULE CardSync -------------------------------
(***************************************************************************)
(* The deck and the scheduling of one card, synced by several clients with *)
(* the newest-wins rule (sync_cards_once), through passes that may stop    *)
(* between their note phase and their card phase.  What is hard about it:  *)
(* pulling a note makes Anki generate its card with the current time, so   *)
(* that a card nobody ever touched looks newer than the reviewed one that  *)
(* the server has.                                                         *)
(*                                                                         *)
(* ContentSync has the rest of a pass; here nothing is deleted, the note's *)
(* fields never change, and every client syncs all its decks.              *)
(***************************************************************************)
EXTENDS ConflictPolicy, FiniteSets

CONSTANTS
    Clients,      \* collections that sync with the server
    Desktop,      \* those that run with newest_wins (KelmaDesktop)
    Fast, Lead,   \* those whose wall clock is ahead, and by how much
    UserDecks,    \* decks that users put cards in
    NoCard,       \* no such card
    MaxClock,     \* bound: the server's clock
    MaxEdits,     \* bound: user actions in a behaviour
    MaxFaults     \* bound: stopped passes, skipped records

ASSUME CardAssumption ==
    /\ Desktop \subseteq Clients /\ Fast \subseteq Clients /\ Lead \in Nat
    /\ MaxClock \in Nat \ {0} /\ MaxEdits \in Nat /\ MaxFaults \in Nat

VARIABLES
    clock,      \* the server's clock
    note,       \* whether the server has the note
    server,     \* the server's card
    local,      \* [Clients -> the client's card]; a note here has its card
    baseline,   \* [Clients -> whether the client has saved a snapshot]
    phase,      \* where the client's pass is, or "idle"
    seenNote,   \* the pass's manifest: whether the server had the note,
    seen,       \* ... its card,
    seenAt,     \* ... and the server's time
    settled,    \* the pass's server_authoritative_keys has the card
    fresh,      \* the pass's fresh_restore
    edits,      \* user actions so far
    faults      \* stopped passes and skipped records so far

passVars == <<phase, seenNote, seen, seenAt, settled, fresh>>
vars == <<clock, note, server, local, baseline, passVars, edits, faults>>

-----------------------------------------------------------------------------
Decks == UserDecks \union {"Default"}

\* What a card is: its deck, whether it was ever studied (reviewed: type,
\* queue, ivl, reps or lapses not 0); and, as history, the time of the user's
\* last action on it (at, 0 for a card that Anki generated for a pulled note).
Contents == [deck : Decks, reviewed : BOOLEAN, at : Nat]

\* A server record has the writer's time and the time of receipt; a local card
\* has its mod and the time its note and card ids were made from.
ServerCards == [card : Contents, times : Times]
LocalCards == [card : Contents, mod : Nat, born : Nat]

ASSUME NoCardAssumption == NoCard \notin ServerCards \union LocalCards

Phases == {"idle", "pull_note", "push_note", "cards", "save"}

\* Types: cards are whole records wherever they are.
TypeOK ==
    /\ clock \in Nat
    /\ note \in BOOLEAN
    /\ server \in ServerCards \union {NoCard}
    /\ local \in [Clients -> LocalCards \union {NoCard}]
    /\ baseline \in [Clients -> BOOLEAN]
    /\ phase \in [Clients -> Phases]
    /\ seenNote \in [Clients -> BOOLEAN]
    /\ seen \in [Clients -> ServerCards \union {NoCard}]
    /\ seenAt \in [Clients -> Nat]
    /\ settled \in [Clients -> BOOLEAN]
    /\ fresh \in [Clients -> BOOLEAN]
    /\ edits \in Nat
    /\ faults \in Nat

\* A client's wall clock.
WallClock(c) == IF c \in Fast THEN clock + Lead ELSE clock

\* One client has just made the note; the others may have synced before.
Init ==
    /\ clock = 1
    /\ note = FALSE
    /\ server = NoCard
    /\ \E author \in Clients, deck \in UserDecks :
         local = [c \in Clients |->
                    IF c # author THEN NoCard
                    ELSE [card |-> [deck |-> deck, reviewed |-> FALSE,
                                    at |-> 1],
                          mod |-> WallClock(c), born |-> WallClock(c)]]
    /\ baseline \in [Clients -> BOOLEAN]
    /\ phase = [c \in Clients |-> "idle"]
    /\ seenNote = [c \in Clients |-> FALSE]
    /\ seen = [c \in Clients |-> NoCard]
    /\ seenAt = [c \in Clients |-> 0]
    /\ settled = [c \in Clients |-> FALSE]
    /\ fresh = [c \in Clients |-> FALSE]
    /\ edits = 0
    /\ faults = 0

-----------------------------------------------------------------------------
Tick ==
    /\ clock < MaxClock
    /\ clock' = clock + 1
    /\ UNCHANGED <<note, server, local, baseline, passVars, edits, faults>>

Idle(c) == phase[c] = "idle"

\* The user changes the card: its mod is the client's wall clock.
Edit(c, deck, reviewed) ==
    /\ Idle(c) /\ edits < MaxEdits
    /\ local[c] # NoCard
    /\ local' = [local EXCEPT ![c] =
                   [card |-> [deck |-> deck, reviewed |-> reviewed,
                              at |-> clock],
                    mod |-> WallClock(c), born |-> local[c].born]]
    /\ edits' = edits + 1
    /\ UNCHANGED <<clock, note, server, baseline, passVars, faults>>

Review(c) == local[c] # NoCard /\ Edit(c, local[c].card.deck, TRUE)

Move(c) ==
    /\ local[c] # NoCard
    /\ \E deck \in UserDecks \ {local[c].card.deck} :
           Edit(c, deck, local[c].card.reviewed)

-----------------------------------------------------------------------------
(***************************************************************************)
(* A pass.                                                                 *)
(***************************************************************************)
\* fresh_restore: a desktop client without baseline, whose card if any is on
\* the server too and was never studied.
FreshRestore(c) ==
    /\ c \in Desktop /\ ~baseline[c]
    /\ note
    /\ \/ local[c] = NoCard
       \/ server # NoCard /\ ~local[c].card.reviewed

FetchManifest(c) ==
    /\ Idle(c)
    /\ phase' = [phase EXCEPT ![c] = "pull_note"]
    /\ seenNote' = [seenNote EXCEPT ![c] = note]
    /\ seen' = [seen EXCEPT ![c] = server]
    /\ seenAt' = [seenAt EXCEPT ![c] = clock]
    /\ settled' = [settled EXCEPT ![c] = server # NoCard /\ local[c] = NoCard]
    /\ fresh' = [fresh EXCEPT ![c] = FreshRestore(c)]
    /\ UNCHANGED <<clock, note, server, local, baseline, edits, faults>>

\* Mutant of Generated: apply_note adds the note to a deck that is not here.
Stray(c) ==
    [card |-> [deck |-> "[no deck]", reviewed |-> FALSE, at |-> 0],
     mod |-> WallClock(c), born |-> WallClock(c)]

\* apply_note: Anki generates the card, in Default, now.
Generated(c) ==
    [card |-> [deck |-> "Default", reviewed |-> FALSE, at |-> 0],
     mod |-> WallClock(c), born |-> WallClock(c)]

PullNote(c) ==
    /\ phase[c] = "pull_note"
    /\ \/ /\ seenNote[c] /\ local[c] = NoCard
          /\ local' = [local EXCEPT ![c] = Generated(c)]
          /\ UNCHANGED faults
       \/ /\ seenNote[c] /\ local[c] = NoCard /\ faults < MaxFaults
          /\ faults' = faults + 1
          /\ UNCHANGED local
       \/ /\ ~seenNote[c] \/ local[c] # NoCard
          /\ UNCHANGED <<local, faults>>
    /\ phase' = [phase EXCEPT ![c] = "push_note"]
    /\ UNCHANGED <<clock, note, server, baseline, seenNote, seen, seenAt,
                   settled, fresh, edits>>

PushNote(c) ==
    /\ phase[c] = "push_note"
    /\ note' = (note \/ local[c] # NoCard)
    /\ phase' = [phase EXCEPT ![c] = "cards"]
    /\ UNCHANGED <<clock, server, local, baseline, seenNote, seen, seenAt,
                   settled, fresh, edits, faults>>

\* Mutants of LooksInterrupted: a studied card may look interrupted too; the
\* two sides are swapped.
StudiedToo(mine, theirs) ==
    /\ mine.card.deck = "Default" /\ theirs.card.deck # "Default"
    /\ mine.mod - mine.born \in -1..1

Swapped(mine, theirs) ==
    /\ mine.card.deck # "Default" /\ theirs.card.deck = "Default"
    /\ ~theirs.card.reviewed
    /\ mine.mod - mine.born \in -1..1

\* _looks_like_interrupted_server_pull
LooksInterrupted(mine, theirs) ==
    /\ mine.card.deck = "Default" /\ theirs.card.deck # "Default"
    /\ ~mine.card.reviewed
    /\ mine.mod - mine.born \in -1..1

\* What sync_cards_once plans for the card: "pull", "push", "skip" or, for a
\* pass that ends with an error, "conflict".
Plan(c, mine, theirs) ==
    LET newest == NewestSide(LocalTimes(mine.mod), theirs.times, seenAt[c])
        Follow(tie) == CASE newest = "local"  -> "push"
                         [] newest = "server" -> "pull"
                         [] newest = "none"   -> tie
    IN  CASE fresh[c] \/ settled[c] ->
               IF theirs = NoCard THEN "skip" ELSE "pull"
          [] ~(fresh[c] \/ settled[c]) /\ (mine = NoCard \/ theirs = NoCard) ->
               IF theirs # NoCard THEN "pull"
               ELSE IF mine # NoCard THEN "push" ELSE "skip"
          [] OTHER ->
               IF mine.card.deck = theirs.card.deck THEN Follow("skip")
               ELSE IF c \notin Desktop THEN "conflict"
               ELSE IF LooksInterrupted(mine, theirs) THEN "pull"
               ELSE Follow("conflict")

\* apply_card: nothing happens where the note has no card.
PullCard(c) ==
    /\ phase[c] = "cards" /\ Plan(c, local[c], seen[c]) = "pull"
    /\ \/ /\ local[c] # NoCard
          /\ local' = [local EXCEPT ![c] =
                [card |-> server.card, born |-> local[c].born,
                 mod |-> SourceModified(server.times, WallClock(c))]]
       \/ local[c] = NoCard /\ UNCHANGED local
    /\ phase' = [phase EXCEPT ![c] = "save"]
    /\ UNCHANGED <<clock, note, server, baseline, seenNote, seen, seenAt,
                   settled, fresh, edits, faults>>

\* Card pushes carry no base: of two writes the server keeps the newer, and of
\* two with the same time either.
PushCard(c) ==
    /\ phase[c] = "cards" /\ Plan(c, local[c], seen[c]) = "push"
    /\ \/ /\ server # NoCard => server.times.source <= local[c].mod
          /\ server' = [card |-> local[c].card,
                        times |-> [source |-> local[c].mod, receipt |-> clock]]
       \/ /\ server # NoCard /\ server.times.source >= local[c].mod
          /\ UNCHANGED server
    /\ phase' = [phase EXCEPT ![c] = "save"]
    /\ UNCHANGED <<clock, note, local, baseline, seenNote, seen, seenAt,
                   settled, fresh, edits, faults>>

SkipCard(c) ==
    /\ phase[c] = "cards" /\ Plan(c, local[c], seen[c]) = "skip"
    /\ phase' = [phase EXCEPT ![c] = "save"]
    /\ UNCHANGED <<clock, note, server, local, baseline, seenNote, seen,
                   seenAt, settled, fresh, edits, faults>>

\* The pass is over: nothing of it outlives the task.
EndPass(c) ==
    /\ phase' = [phase EXCEPT ![c] = "idle"]
    /\ seenNote' = [seenNote EXCEPT ![c] = FALSE]
    /\ seen' = [seen EXCEPT ![c] = NoCard]
    /\ seenAt' = [seenAt EXCEPT ![c] = 0]
    /\ settled' = [settled EXCEPT ![c] = FALSE]
    /\ fresh' = [fresh EXCEPT ![c] = FALSE]

\* CardSyncConflict: the pass ends without a snapshot.
ConflictCard(c) ==
    /\ phase[c] = "cards" /\ Plan(c, local[c], seen[c]) = "conflict"
    /\ EndPass(c)
    /\ UNCHANGED <<clock, note, server, local, baseline, edits, faults>>

SaveSnapshot(c) ==
    /\ phase[c] = "save"
    /\ baseline' = [baseline EXCEPT ![c] = TRUE]
    /\ EndPass(c)
    /\ UNCHANGED <<clock, note, server, local, edits, faults>>

\* A conflict about another resource, a failed request, a crash.
StopPass(c) ==
    /\ ~Idle(c) /\ faults < MaxFaults
    /\ EndPass(c)
    /\ faults' = faults + 1
    /\ UNCHANGED <<clock, note, server, local, baseline, edits>>

PassStep(c) ==
    \/ PullNote(c) \/ PushNote(c)
    \/ PullCard(c) \/ PushCard(c) \/ SkipCard(c) \/ ConflictCard(c)
    \/ SaveSnapshot(c)

Step(c) == Review(c) \/ Move(c) \/ FetchManifest(c) \/ PassStep(c) \/ StopPass(c)

Next == Tick \/ \E c \in Clients : Step(c)

Spec == Init /\ [][Next]_vars

\* Users keep syncing, and a pass that is not stopped goes on.
FairSpec ==
    Spec /\ \A c \in Clients : WF_vars(FetchManifest(c)) /\ WF_vars(PassStep(c))

-----------------------------------------------------------------------------
(***************************************************************************)
(* Properties.                                                             *)
(***************************************************************************)
\* A card that Anki generated for a pulled note is never planned to be pushed
\* over a user's card out of Default that the pass sees on the server, even if
\* it was generated by an earlier pass that was interrupted.
Pristine(c) == local[c] # NoCard /\ local[c].card.at = 0

InterruptedPullYields ==
    \A c \in Clients :
        (/\ phase[c] = "cards" /\ Pristine(c)
         /\ seen[c] # NoCard /\ seen[c].card.at > 0
         /\ seen[c].card.deck # "Default")
           => Plan(c, local[c], seen[c]) # "push"

\* Of two users' work the later one stays: on the server whatever they did, and
\* on a client what was studied there.
LaterWins ==
    /\ (server # NoCard /\ server' # NoCard /\ server'.card.at > 0)
         => server'.card.at >= server.card.at
    /\ \A c \in Clients :
         (/\ local[c] # NoCard /\ local[c].card.reviewed
          /\ local'[c] # NoCard /\ local'[c].card.at > 0)
            => local'[c].card.at >= local[c].card.at

NewestWins == [][LaterWins]_vars

\* Clients that keep syncing end with the server's card, or with one of the
\* same second that the rule leaves to the users.
Level(c) ==
    /\ local[c] # NoCard /\ server # NoCard
    /\ \/ local[c].card = server.card
       \/ ~Apart(local[c].mod, server.times.source)

Converges == <>[](\A c \in Clients : Level(c))

-----------------------------------------------------------------------------
(***************************************************************************)
(* The inductive invariant the proofs of these properties rest on.         *)
(***************************************************************************)
\* For clients whose clocks are right.  A card that a user acted on bears the
\* time of that action; one that nobody did is in Default.  While a pass has
\* its plan before it, a card with work on it is no newer than the manifest,
\* and none is overwritten unseen (fresh, settled).  The server's card only
\* gets newer than the manifest's, and a pristine card that is not of its
\* note's age is a copy of an older one of the server.
Dated(card, time) ==
    /\ time \in 1..clock
    /\ card.at > 0 => card.at = time
    /\ card.at = 0 => card.deck = "Default" /\ ~card.reviewed

OnServer(record) ==
    record # NoCard => /\ Dated(record.card, record.times.source)
                       /\ record.times.receipt \in record.times.source..clock

Planning(c) == phase[c] \in {"pull_note", "push_note", "cards"}

Copied(c, record) ==
    (Pristine(c) /\ local[c].mod # local[c].born) =>
        record # NoCard /\ local[c].mod <= record.times.source

WorkHere(c) ==
    /\ local[c] # NoCard => Dated(local[c].card, local[c].mod)
    /\ Copied(c, server)
    /\ OnServer(seen[c])
    /\ seen[c] # NoCard => /\ server # NoCard
                           /\ seen[c].times.source <= server.times.source
                           /\ seen[c].times.source <= seenAt[c]
    /\ Planning(c) =>
         /\ Copied(c, seen[c])
         /\ (local[c] # NoCard /\ ~Pristine(c)) => local[c].mod <= seenAt[c]
         /\ (fresh[c] \/ settled[c]) =>
                local[c] = NoCard \/ ~local[c].card.reviewed

WorkInv ==
    /\ TypeOK
    /\ clock > 0
    /\ OnServer(server)
    /\ \A c \in Clients : WorkHere(c)

=============================================================================
