------------------------------- MODULE NoteSync -------------------------------
(***************************************************************************)
(* The fields and tags of one note, written by several clients under the   *)
(* newest-wins rule with the observed checksum as the base of every push   *)
(* (sync_notes_once), and the dialog in which the user picks a side.       *)
(*                                                                         *)
(* Anki normalizes Unicode when it stores a note, the server keeps the     *)
(* bytes it was sent: one text has more than one checksum.  Existence and  *)
(* decks are the subject of ContentSync; here nothing is deleted and every *)
(* client syncs all its decks.                                             *)
(***************************************************************************)
EXTENDS ConflictPolicy, FiniteSets

CONSTANTS
    Clients,      \* collections that sync with the server
    Desktop,      \* those that run with newest_wins (KelmaDesktop)
    Normalizing,  \* those with normalize_note_text on (the default)
    Fast, Lead,   \* those whose wall clock is ahead, and by how much
    NoNote,       \* no such note
    MaxClock,     \* bound: the server's clock
    MaxEdits,     \* bound: user actions in a behaviour
    MaxFaults     \* bound: stopped passes, skipped records

ASSUME NoteAssumption ==
    /\ Desktop \subseteq Clients /\ Normalizing \subseteq Clients
    /\ Fast \subseteq Clients /\ Lead \in Nat
    /\ MaxClock \in Nat \ {0} /\ MaxEdits \in Nat /\ MaxFaults \in Nat

VARIABLES
    clock,   \* the server's clock
    server,  \* the server's note
    local,   \* [Clients -> the client's note]
    phase,   \* what the client's pass is about to request, or "idle"
    seen,    \* the pass's manifest row of the note
    overlap, \* history: clients in whose pass a user forced a text (see Forced)
    edits,   \* user actions so far
    faults   \* stopped passes and skipped records so far

vars == <<clock, server, local, phase, seen, overlap, edits, faults>>

-----------------------------------------------------------------------------
\* A text is told apart by its number, and has, as history, the time of the
\* edit that made it; its form is "raw" until a client normalizes it.  The
\* checksum is that of the whole content: two contents are equal or not.
Contents == [text : Nat, at : Nat, form : {"raw", "nfc"}]

\* forced: as history, when the server's note was forced on it, or 0.
ServerNotes == [content : Contents, times : Times, forced : Nat]
LocalNotes == [content : Contents, mod : Nat]

ASSUME NoNoteAssumption == NoNote \notin ServerNotes \union LocalNotes

Phases == {"idle", "hydrate", "pull", "push"}

\* Types: notes are whole records wherever they are.
TypeOK ==
    /\ clock \in Nat
    /\ server \in ServerNotes \union {NoNote}
    /\ local \in [Clients -> LocalNotes \union {NoNote}]
    /\ phase \in [Clients -> Phases]
    /\ seen \in [Clients -> ServerNotes \union {NoNote}]
    /\ overlap \in SUBSET Clients
    /\ edits \in Nat
    /\ faults \in Nat

\* A client's wall clock.
WallClock(c) == IF c \in Fast THEN clock + Lead ELSE clock

\* Mutant of Stored: the decomposed form.
Decomposed(c, content) ==
    IF c \in Normalizing THEN [content EXCEPT !.form = "nfd"] ELSE content

\* What a client stores when it is given a content.
Stored(c, content) ==
    IF c \in Normalizing THEN [content EXCEPT !.form = "nfc"] ELSE content

\* A note from a shared package is here and there, or another writer has put
\* it on the server.
Init ==
    /\ clock = 1
    /\ \E content \in [text : {0}, at : {1}, form : {"raw", "nfc"}],
          here \in SUBSET Clients, there \in BOOLEAN :
         /\ local = [c \in Clients |->
                       IF c \in here THEN [content |-> Stored(c, content),
                                           mod |-> 1]
                       ELSE NoNote]
         /\ server = IF there THEN [content |-> content, forced |-> 0,
                                    times |-> [source |-> 1, receipt |-> 1]]
                     ELSE NoNote
    /\ phase = [c \in Clients |-> "idle"]
    /\ seen = [c \in Clients |-> NoNote]
    /\ overlap = {}
    /\ edits = 0
    /\ faults = 0

-----------------------------------------------------------------------------
Tick ==
    /\ clock < MaxClock
    /\ clock' = clock + 1
    /\ UNCHANGED <<server, local, phase, seen, overlap, edits, faults>>

Idle(c) == phase[c] = "idle"

Edit(c) ==
    /\ Idle(c) /\ edits < MaxEdits
    /\ local[c] # NoNote
    /\ \E form \in {"raw", "nfc"} :
         local' = [local EXCEPT ![c] =
            [content |-> Stored(c, [text |-> edits + 1, at |-> clock,
                                    form |-> form]),
             mod |-> WallClock(c)]]
    /\ edits' = edits + 1
    /\ UNCHANGED <<clock, server, phase, seen, overlap, faults>>

\* apply_note
Applied(c, record) ==
    [content |-> Stored(c, record.content),
     mod |-> SourceModified(record.times, WallClock(c))]

\* The passes that go on while a text is forced on the server, by a user or by
\* a pass that has itself met a forced one.
Forced == {d \in Clients : ~Idle(d)}

\* The server's record of a note that client c pushes.
Written(c, forced) ==
    [content |-> local[c].content, forced |-> forced,
     times |-> [source |-> local[c].mod, receipt |-> clock]]

\* The dialog: the server's note, whatever it is by now, replaces the local
\* one; or the local note replaces the server's, whatever it is by now.
AcceptServer(c) ==
    /\ Idle(c) /\ edits < MaxEdits
    /\ server # NoNote
    /\ local' = [local EXCEPT ![c] = Applied(c, server)]
    /\ edits' = edits + 1
    /\ UNCHANGED <<clock, server, phase, seen, overlap, faults>>

ForceLocal(c) ==
    /\ Idle(c) /\ edits < MaxEdits
    /\ local[c] # NoNote
    /\ server' = Written(c, clock)
    /\ overlap' = Forced
    /\ edits' = edits + 1
    /\ UNCHANGED <<clock, local, phase, seen, faults>>

-----------------------------------------------------------------------------
(***************************************************************************)
(* A pass.                                                                 *)
(***************************************************************************)
\* The newer side of two contents, for a client that runs with newest_wins.
NewestOf(mine, theirs, now) ==
    NewestSide(LocalTimes(mine.mod), theirs.times, now)

\* Mutant of Winner: a tie goes to the local side.
TiesAreMine(c, mine, theirs, now) ==
    IF NewestOf(mine, theirs, now) = "server" THEN "server" ELSE "local"

Winner(c, mine, theirs, now) ==
    IF c \in Desktop THEN NewestOf(mine, theirs, now) ELSE "none"

\* What sync_notes_once plans for the note, given the manifest's row and time.
Plan(c, mine, theirs, now) ==
    IF theirs = NoNote THEN IF mine = NoNote THEN "idle" ELSE "push"
    ELSE IF mine = NoNote THEN "pull"
    ELSE IF mine.content = theirs.content THEN "idle"
    ELSE IF Winner(c, mine, theirs, now) = "none" THEN "hydrate"
    ELSE IF Winner(c, mine, theirs, now) = "server" THEN "pull" ELSE "push"

\* GET manifest, and the plan.
FetchManifest(c) ==
    LET plan == Plan(c, local[c], server, clock)
    IN
    /\ Idle(c)
    /\ phase' = [phase EXCEPT ![c] = plan]
    /\ seen' = [seen EXCEPT ![c] = IF plan = "idle" THEN NoNote ELSE server]
    /\ UNCHANGED <<clock, server, local, overlap, edits, faults>>

EndPass(c) ==
    /\ phase' = [phase EXCEPT ![c] = "idle"]
    /\ seen' = [seen EXCEPT ![c] = NoNote]

\* Mutant of Equivalent: the bytes are compared.
SameChecksum(mine, theirs) == mine.content = theirs.content

\* _canonically_equivalent_notes: the same but for the form.
Equivalent(mine, theirs) ==
    /\ mine.content.text = theirs.content.text
    /\ mine.content.at = theirs.content.at

\* Pull the server's note just to compare: if the texts are the same the local
\* form is pushed, with the manifest's checksum as base; if not it is a
\* conflict, and the pass ends with an error.
Hydrate(c) ==
    /\ phase[c] = "hydrate"
    /\ \/ /\ Equivalent(local[c], server)
          /\ phase' = [phase EXCEPT ![c] = "push"]
          /\ UNCHANGED <<seen, overlap>>
       \/ /\ ~Equivalent(local[c], server)
          /\ EndPass(c) /\ overlap' = overlap \ {c}
    /\ UNCHANGED <<clock, server, local, edits, faults>>

\* A record that cannot be applied is skipped, and the pass goes on.
PullNote(c) ==
    /\ phase[c] = "pull"
    /\ \/ /\ local' = [local EXCEPT ![c] = Applied(c, server)]
          /\ UNCHANGED faults
       \/ /\ faults < MaxFaults
          /\ faults' = faults + 1
          /\ UNCHANGED local
    /\ EndPass(c) /\ overlap' = overlap \ {c}
    /\ UNCHANGED <<clock, server, edits>>

\* The server takes a push whose base_checksum is that of its note, and what
\* it has already; anything else is a conflict and changes nothing.
BaseAgrees(c) ==
    IF server = NoNote \/ seen[c] = NoNote THEN server = seen[c]
    ELSE server.content = seen[c].content

PushNote(c) ==
    /\ phase[c] = "push"
    /\ \/ BaseAgrees(c) /\ server' = Written(c, 0)
       \/ ~BaseAgrees(c) /\ UNCHANGED server
    /\ EndPass(c)
    /\ overlap' = (IF c \in overlap THEN Forced ELSE overlap) \ {c}
    /\ UNCHANGED <<clock, local, edits, faults>>

\* A failed request, a conflict about something else, a crash.  (After a push
\* this is the lost answer: the pass has no state left to lose.)
StopPass(c) ==
    /\ ~Idle(c) /\ faults < MaxFaults
    /\ EndPass(c) /\ overlap' = overlap \ {c}
    /\ faults' = faults + 1
    /\ UNCHANGED <<clock, server, local, edits>>

PassStep(c) == Hydrate(c) \/ PullNote(c) \/ PushNote(c)

Step(c) ==
    \/ Edit(c) \/ AcceptServer(c) \/ ForceLocal(c)
    \/ FetchManifest(c) \/ PassStep(c) \/ StopPass(c)

Next == Tick \/ \E c \in Clients : Step(c)

Spec == Init /\ [][Next]_vars

\* Users keep syncing, and a pass that is not stopped goes on.
FairSpec ==
    Spec /\ \A c \in Clients : WF_vars(FetchManifest(c)) /\ WF_vars(PassStep(c))

-----------------------------------------------------------------------------
(***************************************************************************)
(* Properties.                                                             *)
(***************************************************************************)
Text(record) == [text |-> record.content.text, at |-> record.content.at]

\* A pass replaces a text by a later one only: no push overwrites what its
\* writer did not see, no pull what is newer here, and of two edits of the same
\* second neither goes without the user's word.  The exception is a pass in
\* which a user forces an earlier text back on the server.
LaterReplaces ==
    edits' = edits => \A c \in Clients \ overlap :
      /\ (/\ phase[c] = "push" /\ phase'[c] = "idle"
          /\ server # NoNote /\ Text(server') # Text(server))
           => server'.content.at > server.content.at
      /\ (/\ local[c] # NoNote /\ local'[c] # NoNote
          /\ Text(local'[c]) # Text(local[c]))
           => local'[c].content.at > local[c].content.at

NoLostEdit == [][LaterReplaces]_vars

\* Clients that keep syncing end with the server's bytes, or with another text
\* that is left to the users: one of the same second, and any for a client that
\* runs without newest_wins.
Level(c) ==
    /\ local[c] # NoNote <=> server # NoNote
    /\ local[c] # NoNote =>
         \/ local[c].content = server.content
         \/ /\ Text(local[c]) # Text(server)
            /\ c \in Desktop => ~Apart(local[c].mod, server.times.source)

Converges == <>[](\A c \in Clients : Level(c))

-----------------------------------------------------------------------------
(***************************************************************************)
(* The inductive invariants the proofs of these properties rest on.        *)
(***************************************************************************)
\* TypeOK: a pass plans only what there is something to do with.
PlanInv ==
    /\ TypeOK
    /\ \A c \in Clients :
         /\ phase[c] \in {"hydrate", "pull"} => seen[c] # NoNote
         /\ seen[c] # NoNote => ~Idle(c) /\ server # NoNote
         /\ phase[c] \in {"hydrate", "push"} => local[c] # NoNote

\* NoLostEdit, for clients whose clocks are right: every record bears the time
\* of its edit, and while no text is forced the server only gets later than
\* the manifest.  A pull has an older text here than the manifest shows; a
\* push a newer one, or the same text, or the one the server had when the push
\* was decided on, and then the manifest's checksum is no longer the server's.
Dated(record, time) ==
    record # NoNote => record.content.at = time /\ time \in 1..clock

Ordered(c) ==
    /\ seen[c] # NoNote =>
         /\ server.content.at >= seen[c].content.at
         /\ server.content.at = seen[c].content.at => Text(server) = Text(seen[c])
    /\ (phase[c] = "pull" /\ local[c] # NoNote) =>
          local[c].content.at < seen[c].content.at
    /\ (phase[c] = "push" /\ seen[c] # NoNote) =>
          \/ local[c].content.at > seen[c].content.at
          \/ Text(local[c]) = Text(seen[c])
          \/ server.content.at > seen[c].content.at

EditInv ==
    /\ PlanInv
    /\ clock > 0
    /\ Dated(server, server.times.source)
    /\ server # NoNote => server.times.receipt \in server.times.source..clock
    /\ \A c \in Clients : Dated(local[c], local[c].mod)
    /\ \A c \in Clients \ overlap : Ordered(c)

=============================================================================
