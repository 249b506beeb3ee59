---------------------------- MODULE Collection ----------------------------
(***************************************************************************)
(* The collection as its user sees it: every operation is a transaction    *)
(* that either happens as a whole or not at all, and that can be undone    *)
(* and redone.  Edits of a note in quick succession become one step, and   *)
(* several steps can be merged into one.                                   *)
(*                                                                         *)
(* A step keeps, besides its changes, the tables as they were before it:   *)
(* what undoing it has to bring back.  A session is a collection to start  *)
(* from and how many operations of which groups its user will make; a      *)
(* damaged collection is first checked.                                    *)
(***************************************************************************)
EXTENDS DbCheck

CONSTANTS
    Sessions,       \* records [start, budget, damaged]
    DeckNames,      \* names the user gives to decks
    FilteredDecks,  \* filtered decks as the user leaves the dialog
    TagNames,       \* tags the user types
    Written,        \* the fields and tags of notes the user writes
    Picks,          \* what the user selects: sets of ids
    Edits,          \* notetypes as the user leaves the dialog: [nt, fords, tords]
    UndoLimit,      \* undo steps kept (30 in the code)
    MaxMinutes      \* bound: minutes that pass

ASSUME CollectionAssumption ==
    /\ UndoLimit \in Nat \ {0}
    /\ MaxMinutes \in Nat

VARIABLES
    col,        \* the collection
    undoSteps,  \* undo steps, the latest first
    redoSteps,  \* redo steps, the latest last
    minute,     \* time, in minutes
    budget,     \* bound: the operations left, for each group in this session
    damaged,    \* the database has to be checked first
    last,       \* the latest operation, and whether it failed
    lent        \* the due each card had when a filtered deck took it

vars == <<col, undoSteps, redoSteps, minute, budget, damaged, last, lent>>

Selected(S) == {S \intersect P : P \in Picks} \ {{}}
FilteredIn(c) == {did \in DOMAIN c.decks : c.decks[did].filtered}

----------------------------------------------------------------------------
(* Transactions and the undo steps they leave. *)

Committed(d) == [d EXCEPT !.log = <<>>, !.nested = <<>>]
has_changes(step) == step.changes # <<>> \/ step.op = "Custom"
Step(op, d) == [op |-> op, before |-> Content(col), at |-> minute, changes |-> d.log]
\* Mutant: the limit is compared before the new step is counted.
CappedTooLate(steps) ==
    SubSeq(steps, 1, IF Len(steps) <= UndoLimit + 1 THEN Len(steps) ELSE UndoLimit + 1)

Capped(steps) == SubSeq(steps, 1, IF Len(steps) < UndoLimit THEN Len(steps) ELSE UndoLimit)
begin_step_none == undoSteps' = <<>> /\ redoSteps' = <<>>

\* Two edits of nothing but the same note, within a minute.
maybe_coalesce_note_undo_entry(step) ==
    LET OnlyEdits(s, nid) ==
            /\ s.op = "UpdateNote" /\ Len(s.changes) = 1
            /\ s.changes[1].kind = "updated" /\ s.changes[1].table = "notes" /\ s.changes[1].id = nid
    IN /\ undoSteps # <<>> /\ undoSteps[1].at = minute
       /\ \E nid \in DOMAIN col.notes : OnlyEdits(step, nid) /\ OnlyEdits(undoSteps[1], nid)

end_step(steps, step) ==
    IF has_changes(step) /\ ~maybe_coalesce_note_undo_entry(step)
    THEN Capped(<<step>> \o steps) ELSE steps

\* A failure is rolled back, and forgets both stacks.
Rolled(op) ==
    /\ begin_step_none
    /\ last' = [op |-> op, failed |-> TRUE]
    /\ UNCHANGED <<col, lent>>

\* Undoing, redoing and repositioning change the due a card will come home with.
Lent(op, d) ==
    [i \in DOMAIN d.cards |->
        IF d.cards[i].odid = 0 THEN 0
        ELSE IF \/ i \notin DOMAIN col.cards
                \/ op \in {"Undo", "Redo", "SortCards", "CheckDatabase"}
        THEN d.cards[i].odue
        ELSE IF col.cards[i].odid = 0 THEN col.cards[i].due ELSE lent[i]]

Done(op, d) ==
    /\ col' = Committed(d)
    /\ last' = [op |-> op, failed |-> FALSE]
    /\ lent' = Lent(op, d)

transact(op, d) ==
    IF d.failed THEN Rolled(op)
    ELSE /\ Done(op, d)
         /\ undoSteps' = end_step(undoSteps, Step(op, d))
         /\ redoSteps' = <<>>

Spends(group) ==
    /\ group \in DOMAIN budget /\ budget[group] > 0
    /\ budget' = [budget EXCEPT ![group] = @ - 1]

Operation(group, op, d) ==
    /\ Spends(group) /\ ~damaged
    /\ transact(op, d)
    /\ UNCHANGED <<minute, damaged>>

----------------------------------------------------------------------------
(* Undo, redo and merging. *)

\* While undoing, the change of the collection's time comes first, so that a
\* step is never taken for an edit that continues the one before.
Undo ==
    /\ "undo" \in DOMAIN budget /\ undoSteps # <<>>
    /\ LET step == undoSteps[1]
           d == UndoChanges(col, step.changes)
           taken == Step(step.op, d)
       IN IF d.failed THEN Rolled("Undo")
          ELSE /\ Done("Undo", d)
               /\ undoSteps' = Tail(undoSteps)
               /\ redoSteps' = IF has_changes(taken) THEN Append(redoSteps, taken) ELSE redoSteps
    /\ UNCHANGED <<minute, budget, damaged>>

Redo ==
    /\ "undo" \in DOMAIN budget /\ redoSteps # <<>>
    /\ LET step == redoSteps[Len(redoSteps)]
           d == UndoChanges(col, step.changes)
       IN IF d.failed THEN Rolled("Redo")
          ELSE /\ Done("Redo", d)
               /\ undoSteps' = end_step(undoSteps, Step(step.op, d))
               /\ redoSteps' = Front(redoSteps)
    /\ UNCHANGED <<minute, budget, damaged>>

\* A step without changes, for others to be merged into.
AddCustomStep == Operation("merge", "Custom", col)

\* Mutant: the changes of the later steps are put before the earlier ones.
merged_backwards(steps, n) ==
    LET above == FoldLeft(LAMBDA all, step : step.changes \o all, <<>>, SubSeq(steps, 1, n - 1))
    IN <<[steps[n] EXCEPT !.changes = above \o @]>> \o SubSeq(steps, n + 1, Len(steps))

\* The steps above the n-th are added to it, the oldest of them first.
merged(steps, n) ==
    LET above == FoldLeft(LAMBDA all, step : step.changes \o all, <<>>, SubSeq(steps, 1, n - 1))
    IN <<[steps[n] EXCEPT !.changes = @ \o above]>> \o SubSeq(steps, n + 1, Len(steps))

MergeUndoableOps ==
    /\ "merge" \in DOMAIN budget
    /\ \E n \in 2..Len(undoSteps) : undoSteps' = merged(undoSteps, n)
    /\ last' = [op |-> "Merge", failed |-> FALSE]
    /\ UNCHANGED <<col, redoSteps, minute, budget, damaged, lent>>

----------------------------------------------------------------------------
(* Decks. *)

AddDeck ==
    \E name \in DeckNames : Operation("decks", "AddDeck", add_deck_inner(col, Normal(name)))
RenameDeck ==
    \E did \in DOMAIN col.decks, name \in DeckNames :
        Operation("decks", "RenameDeck", rename_deck(col, did, name))
ReparentDecks ==
    \E did \in DOMAIN col.decks, target \in DOMAIN col.decks \union {0} :
        Operation("decks", "ReparentDeck", reparent_decks(col, {did}, target))
RemoveDecks ==
    \E did \in DOMAIN col.decks :
        Operation("decks", "RemoveDeck", remove_decks_and_child_decks(col, {did}))
SetCurrentDeck ==
    \E did \in DOMAIN col.decks :
        Operation("decks", "SetCurrentDeck", SetConfig(col, CurrentDeck, did))
RebuildFilteredDeck ==
    \E did \in FilteredIn(col) :
        Operation("decks", "RebuildFilteredDeck", rebuild_filtered_deck(col, did))
EmptyFilteredDeck ==
    \E did \in FilteredIn(col) :
        Operation("decks", "EmptyFilteredDeck", empty_filtered_deck(col, did))
AddOrUpdateFilteredDeck ==
    \E did \in FilteredIn(col) \union {0}, deck \in FilteredDecks, allow_empty \in BOOLEAN :
        Operation("decks", "BuildFilteredDeck", add_or_update_filtered_deck(col, did, deck, allow_empty))

----------------------------------------------------------------------------
(* Cards. *)

SetDeck ==
    \E cids \in Selected(DOMAIN col.cards), did \in DOMAIN col.decks \ FilteredIn(col) :
        Operation("cards", "SetCardDeck", set_deck(col, cids, did))
ScheduleCardsAsNew ==
    \E cids \in Selected(DOMAIN col.cards), restore \in BOOLEAN :
        Operation("cards", "ScheduleAsNew", reschedule_cards_as_new(col, cids, restore))
SetDueDate ==
    \E cids \in Selected(DOMAIN col.cards) : Operation("cards", "SetDueDate", set_due_date(col, cids, 1))
SortCards ==
    \E cids \in Selected(DOMAIN col.cards), shift \in BOOLEAN :
        Operation("cards", "SortCards", sort_cards(col, cids, 1, 1, shift))
BuryOrSuspend ==
    \E cids \in Selected(DOMAIN col.cards), queue \in Hidden :
        Operation("cards", "Suspend", bury_or_suspend_cards(col, cids, queue))
UnburyOrUnsuspend ==
    \E cids \in Selected(DOMAIN col.cards) :
        Operation("cards", "UnburyUnsuspend", unbury_or_unsuspend_cards(col, cids))
RemoveCards ==
    \E cids \in Selected(DOMAIN col.cards) :
        Operation("cards", "RemoveCards", remove_cards_and_orphaned_notes(col, cids))

----------------------------------------------------------------------------
(* Tags. *)

AddTags ==
    \E nids \in Selected(DOMAIN col.notes), tag \in TagNames :
        Operation("tags", "AddTags", add_tags_to_notes(col, nids, {tag}))
RemoveTagsFromNotes ==
    \E nids \in Selected(DOMAIN col.notes), tag \in TagNames :
        Operation("tags", "RemoveTagsFromNotes", remove_tags_from_notes(col, nids, <<tag>>))
RemoveTagsEverywhere ==
    \E tag \in TagNames : Operation("tags", "RemoveTag", remove_tags(col, <<tag>>))
ClearUnusedTags == Operation("tags", "ClearUnusedTags", clear_unused_tags(col))
RenameTag ==
    \E old, new \in TagNames :
        /\ old # new
        /\ Operation("tags", "RenameTag", rename_tag(col, old, new))
ReparentTags ==
    \E first, second \in TagNames, target \in TagNames \union {<<>>} :
        /\ ~reparent_unwraps_none(col, <<first, second>>, target)
        /\ Operation("tags", "ReparentTag", reparent_tags(col, <<first, second>>, target))
FindAndReplaceTag ==
    \E nids \in Selected(DOMAIN col.notes), search, replacement \in {tag[1] : tag \in TagNames} :
        /\ search # replacement
        /\ Operation("tags", "FindAndReplace", find_and_replace_tag(col, nids, search, replacement))

----------------------------------------------------------------------------
(* Notes. *)

AddNote ==
    \E ntid \in DOMAIN col.notetypes, note \in Written, did \in DOMAIN col.decks :
        Operation("notes", "AddNote", add_note(col, [nt |-> ntid] @@ note, did))
UpdateNote ==
    \E nid \in DOMAIN col.notes, note \in Written :
        Operation("notes", "UpdateNote", update_note(col, nid, [nt |-> col.notes[nid].nt] @@ note))
RemoveNotes ==
    \E nids \in Selected(DOMAIN col.notes) : Operation("notes", "RemoveNote", remove_notes(col, nids))
AfterNoteUpdates ==
    Operation("notes", "UpdateNotes", after_note_updates(col, DOMAIN col.notes))
RemoveEmptyCards ==
    Operation("notes", "EmptyCards", remove_cards_and_orphaned_notes(col, empty_cards(col)))

----------------------------------------------------------------------------
(* Notetypes. *)

UpdateNotetype ==
    \E ntid \in DOMAIN col.notetypes, edit \in Edits :
        /\ \A n \in DOMAIN edit.fords : edit.fords[n] <= Len(col.notetypes[ntid].fields)
        /\ \A n \in DOMAIN edit.tords : edit.tords[n] <= Len(col.notetypes[ntid].tmpls)
        /\ edit.nt.kind = col.notetypes[ntid].kind
        /\ Operation("notetypes", "UpdateNotetype",
                     update_notetype(col, ntid, edit.nt, edit.fords, edit.tords))
AddNotetype ==
    Operation("notetypes", "AddNotetype", add_notetype(col, StockNotetype, FALSE))
RemoveNotetype ==
    \E ntid \in DOMAIN col.notetypes :
        Operation("notetypes", "RemoveNotetype", remove_notetype(col, ntid))
\* With the maps the dialog proposes.
ChangeNotetype ==
    \E old, new \in DOMAIN col.notetypes :
        \E nids \in Selected(NotesOf(col, old)) :
            /\ old # new
            /\ Operation("notetypes", "ChangeNotetype",
                   change_notetype_of_notes(col, nids, old, new,
                       default_field_map(col.notetypes[old], col.notetypes[new]),
                       default_template_map(col.notetypes[old], col.notetypes[new]),
                       col.config[Schema]))

----------------------------------------------------------------------------
(* The check of the database, which forgets both stacks. *)

CheckDatabase ==
    /\ Spends("check")
    /\ LET d == check_database(col)
       IN IF d.failed THEN Rolled("CheckDatabase") /\ UNCHANGED damaged
          ELSE /\ Done("CheckDatabase", d)
               /\ undoSteps' = Capped(Reverse([n \in DOMAIN d.nested |-> d.nested[n] @@ [at |-> minute]]))
               /\ redoSteps' = <<>>
               /\ damaged' = FALSE
    /\ UNCHANGED minute

MinutePasses ==
    /\ "time" \in DOMAIN budget /\ minute < MaxMinutes
    /\ minute' = minute + 1
    /\ UNCHANGED <<col, undoSteps, redoSteps, budget, damaged, last, lent>>

----------------------------------------------------------------------------
(* The specification. *)

Init ==
    /\ \E session \in Sessions :
           /\ col = session.start
           /\ budget = session.budget
           /\ damaged = session.damaged
    /\ undoSteps = <<>> /\ redoSteps = <<>>
    /\ minute = 0
    /\ last = [op |-> "Open", failed |-> FALSE]
    /\ lent = [i \in DOMAIN col.cards |-> IF col.cards[i].odid = 0 THEN 0 ELSE col.cards[i].odue]

Next ==
    \/ AddDeck \/ RenameDeck \/ ReparentDecks \/ RemoveDecks \/ SetCurrentDeck
    \/ RebuildFilteredDeck \/ EmptyFilteredDeck \/ AddOrUpdateFilteredDeck
    \/ SetDeck \/ ScheduleCardsAsNew \/ SetDueDate \/ SortCards
    \/ BuryOrSuspend \/ UnburyOrUnsuspend \/ RemoveCards
    \/ AddTags \/ RemoveTagsFromNotes \/ RemoveTagsEverywhere \/ ClearUnusedTags
    \/ RenameTag \/ ReparentTags \/ FindAndReplaceTag
    \/ AddNote \/ UpdateNote \/ RemoveNotes \/ AfterNoteUpdates \/ RemoveEmptyCards
    \/ UpdateNotetype \/ AddNotetype \/ RemoveNotetype \/ ChangeNotetype
    \/ CheckDatabase \/ AddCustomStep \/ MergeUndoableOps
    \/ Undo \/ Redo \/ MinutePasses

Spec == Init /\ [][Next]_vars

----------------------------------------------------------------------------
(* Properties. *)

CardRow == [nid : Int, ord : 0..LastOrdinal, did : Int, odid : Int, type : CardType,
            queue : CardQueue, due : Int, odue : Int, opos : Int]

\* Type correctness: rows have the shape the operations rely on.
TypeOK ==
    /\ \A i \in DOMAIN col.cards : col.cards[i] \in CardRow
    /\ \A n \in DOMAIN col.notes : col.notes[n].tags \subseteq Seq(STRING) /\ col.notes[n].fields \in Seq(SUBSET Nat)
    /\ \A t \in DOMAIN col.notetypes : col.notetypes[t].kind \in {"normal", "cloze"}
    /\ \A d \in DOMAIN col.decks : col.decks[d].name \in Seq(STRING) /\ col.decks[d].filtered \in BOOLEAN
    /\ col.log = <<>> /\ col.nested = <<>> /\ ~col.failed
    /\ Len(undoSteps) <= UndoLimit /\ minute \in 0..MaxMinutes
    /\ DOMAIN lent = DOMAIN col.cards /\ damaged \in BOOLEAN

\* Part of TablesAgree. The tree that exists only in names is one, after any sequence of renames,
\* moves, removals and their undoing: every parent exists and is a normal deck,
\* and no two decks have the same name (decks/addupdate.rs, name.rs, reparent.rs).
TreeWhole ==
    /\ \A did \in DOMAIN col.decks : \A parent \in parents(col.decks[did].name) :
           \E e \in DeckNamed(col, parent) : ~col.decks[e].filtered
    /\ \A d, e \in DOMAIN col.decks : d # e => col.decks[d].name # col.decks[e].name
    /\ Has(col, "decks", DefaultDeck)

\* Part of TablesAgree. Every card belongs to a note, is the only one of its template, and is in a
\* deck; it is in a filtered deck exactly while it has a home deck, which exists
\* and is a normal one, so that emptying the filtered deck can send it there.
CardsWellPlaced ==
    \A i \in DOMAIN col.cards :
        LET card == col.cards[i]
        IN /\ Has(col, "notes", card.nid)
           /\ Has(col, "decks", card.did)
           /\ col.decks[card.did].filtered <=> card.odid # 0
           /\ card.odid # 0 => Has(col, "decks", card.odid) /\ ~col.decks[card.odid].filtered
           /\ \A j \in DOMAIN col.cards \ {i} : <<col.cards[j].nid, col.cards[j].ord>> # <<card.nid, card.ord>>

\* Part of TablesAgree. A note has exactly the fields of its notetype, and a normal note no card
\* without a template: changing the notetype rewrites every note and card of it.
NotesFit ==
    \A nid \in DOMAIN col.notes :
        LET note == col.notes[nid]
            nt == col.notetypes[note.nt]
        IN /\ Has(col, "notetypes", note.nt)
           /\ Len(note.fields) = Len(nt.fields)
           /\ nt.kind = "normal" => ExistingOrds(col, CardsOf(col, nid)) \subseteq 0..(Len(nt.tmpls) - 1)

\* Part of TablesAgree. The tags of every note are in the registry, which renaming, moving and
\* removing tags change first and the notes only afterwards.
TagsRegistered ==
    \A nid \in DOMAIN col.notes : NoteTags(col, nid) \subseteq DOMAIN col.tags

\* Part of TablesAgree. Nothing that exists has a grave: a grave tells the server to delete it, and
\* undoing a removal must take the grave back with it.
GravesAreDead ==
    \A grave \in DOMAIN col.graves : ~Has(col, grave[1], grave[2])

\* Part of TablesAgree. A card outside of filtered decks is queued for what it is, however it was
\* suspended, buried, lent, taken back or rescheduled before: the queue is a copy
\* of the type that every operation has to keep in step.
QueueFitsType ==
    \A i \in DOMAIN col.cards :
        LET card == col.cards[i]
        IN card.odid = 0 => card.queue \in Hidden \union {queue_from_type(card)}

\* Part of TablesAgree. The window for adding notes always opens with a normal deck and a notetype
\* that exist, although the ids it remembers in the configuration are not
\* forgotten when what they name is removed.
DefaultsUsable ==
    \A home \in {0} \union {original_or_current_deck_id(col.cards[i]) : i \in DOMAIN col.cards}, by_deck \in BOOLEAN :
        LET defaults == defaults_for_adding(col, home, by_deck)
        IN /\ Has(col, "decks", defaults.deck) /\ ~col.decks[defaults.deck].filtered
           /\ Has(col, "notetypes", defaults.notetype)

\* The tables agree after any mixture of operations and their undoing: each row
\* refers to rows that exist and are of the right kind, although an operation on
\* one table has to find and rewrite the rows of the others that refer to it.
TablesAgree ==
    /\ GravesAreDead /\ QueueFitsType
    /\ damaged \/ (CardsWellPlaced /\ NotesFit /\ TagsRegistered /\ TreeWhole /\ DefaultsUsable)

\* Undoing a step brings back the tables as they were before it, and redoing
\* likewise, whatever was undone, redone, merged or coalesced in between; and it
\* never fails, since no operation changes the tables without a step.
UndoRestores ==
    [][/\ last'.op = "Undo" /\ undoSteps' # undoSteps =>
              ~last'.failed /\ Content(col') = undoSteps[1].before
       /\ last'.op = "Redo" /\ redoSteps' # redoSteps =>
              ~last'.failed /\ Content(col') = redoSteps[Len(redoSteps)].before]_vars

\* A card comes home from a filtered deck with the due it had, whether the deck
\* was emptied, rebuilt or removed or the card moved elsewhere.
DueKeptWhileAway ==
    [][\A i \in DOMAIN col.cards \intersect DOMAIN col'.cards :
          col.cards[i].odid # 0 /\ col'.cards[i].odid = 0
          => \/ last'.op \in {"ScheduleAsNew", "SetDueDate", "Undo", "Redo", "CheckDatabase"}
             \/ col'.cards[i].due = lent[i]]_vars

\* The next sync will know: what has gone left a grave, and where none was left,
\* or the layout of notes or cards has changed, the schema was marked.
SyncIsTold ==
    [][LET Gone2(t) == {id \in DOMAIN col[t] \ DOMAIN col'[t] : <<t, id>> \notin DOMAIN col'.graves}
           kept == DOMAIN col.notes \intersect DOMAIN col'.notes
           Shape(note) == <<note.nt, Len(note.fields)>>
           moved == \E i \in DOMAIN col.cards \intersect DOMAIN col'.cards : col.cards[i].ord # col'.cards[i].ord
       IN last'.op \in {"Undo", "Redo"} \/ col'.config[Schema] # col.config[Schema]
          \/ /\ \A t \in {"cards", "notes", "decks", "notetypes"} : Gone2(t) = {}
             /\ \A n \in kept : Shape(col.notes[n]) = Shape(col'.notes[n])
             /\ ~moved]_vars

=============================================================================
