---------------------------- MODULE Cards ----------------------------
(***************************************************************************)
(* The operations on cards other than answering them: forgetting, giving a *)
(* due date, repositioning, burying, suspending, lending to a filtered     *)
(* deck and taking back, and deletion together with the notes left without *)
(* a card.                                                                 *)
(*                                                                         *)
(* A card is [nid, ord, did, odid, type, queue, due, odue, opos]: its note *)
(* and template, its deck and, while a filtered deck has it, its home deck *)
(* and due (0 otherwise), and the position it had when it was new.         *)
(* Intervals, ease, steps and memory state are left out, and so are the    *)
(* review log and the preferences some of these operations store.          *)
(***************************************************************************)
EXTENDS Tables

CardType == {"new", "learn", "review", "relearn"}
CardQueue == {"new", "learn", "daylearn", "review", "suspended", "schedburied", "userburied"}
Hidden == {"suspended", "schedburied", "userburied"}
NoPosition == -1

\* Seconds count from Epoch, above every day number and position.
Epoch == 1000
is_unix_epoch_timestamp(due) == due > Epoch
Today == 100

NextPosition == <<"nextPos">>

UpdateCard(c, cid, card) == UpdateRow(c, "cards", cid, card)

----------------------------------------------------------------------------
(* A card on its own. *)

new_card(nid, ord, did, due) ==
    [nid |-> nid, ord |-> ord, did |-> did, odid |-> 0, type |-> "new",
     queue |-> "new", due |-> due, odue |-> 0, opos |-> NoPosition]

queue_from_type(card) ==
    CASE card.type \in {"learn", "relearn"} ->
           IF is_unix_epoch_timestamp(card.due) THEN "learn" ELSE "daylearn"
      [] OTHER -> card.type

\* An odue that is set already would be a bug; the card is left where it is.
move_into_filtered_deck(card, did, resched, position) ==
    IF card.odue # 0 THEN card
    ELSE [card EXCEPT !.odid = card.did, !.did = did, !.odue = card.due,
                      !.queue = IF resched THEN @ ELSE "review",
                      !.due = IF @ > 0 THEN position ELSE @]

remove_before_reschedule(card) ==
    IF card.odid = 0 THEN card
    ELSE [card EXCEPT !.did = card.odid, !.odid = 0, !.odue = 0]

remove_restoring_queue(card) ==
    IF card.odid = 0 THEN card
    ELSE LET home == [card EXCEPT !.did = card.odid, !.odid = 0,
                                  !.due = IF card.odue # 0 THEN card.odue ELSE @]
         IN [home EXCEPT !.queue = IF @ \in Hidden THEN @ ELSE queue_from_type(home),
                         !.odue = 0]

original_or_current_deck_id(card) == IF card.odid # 0 THEN card.odid ELSE card.did
original_or_current_due(card) == IF card.odid # 0 THEN card.odue ELSE card.due

last_position(card) ==
    IF card.type = "new" THEN original_or_current_due(card) ELSE card.opos

schedule_as_new(card, position, restore) ==
    LET last == IF restore THEN last_position(card) ELSE NoPosition
    IN [remove_before_reschedule(card) EXCEPT
            !.due = IF last = NoPosition THEN position ELSE last,
            !.type = "new", !.queue = "new", !.opos = NoPosition]

schedule_as_review(card, due) ==
    [remove_before_reschedule(card) EXCEPT
        !.opos = last_position(card), !.due = due, !.type = "review", !.queue = "review"]

repositioned(card) == card.type = "new" \/ card.queue = "new"
set_new_position(card, position) ==
    IF card.type = "new" /\ card.odid # 0 THEN [card EXCEPT !.odue = position]
    ELSE [card EXCEPT !.due = position]

----------------------------------------------------------------------------
(* Cards in the collection. *)

CardsOf(c, nid) == {i \in DOMAIN c.cards : c.cards[i].nid = nid}
Live(c, cids) == cids \intersect DOMAIN c.cards

remove_note_only(c, nid) ==
    IF Has(c, "notes", nid) THEN RemoveWithGrave(c, "notes", nid) ELSE c

remove_cards_and_orphaned_notes(c, cids) ==
    LET live == Live(c, cids)
        d == ForEach(LAMBDA e, i : RemoveWithGrave(e, "cards", i), c, live)
        orphans == {n \in {c.cards[i].nid : i \in live} : CardsOf(d, n) = {}}
    IN ForEach(remove_note_only, d, orphans)

\* One position per card that has none to go back to.
reschedule_cards_as_new(c, cids, restore) ==
    LET Forget(acc, i) ==
            LET card == c.cards[i]
                takes == ~restore \/ last_position(card) = NoPosition
            IN <<UpdateCard(acc[1], i, schedule_as_new(card, acc[2], restore)),
                 IF takes THEN acc[2] + 1 ELSE acc[2]>>
        done == ForEach(Forget, <<c, c.config[NextPosition]>>, Live(c, cids))
    IN SetConfig(done[1], NextPosition, done[2])

\* A card whose home deck is gone or filtered makes the operation fail.
set_due_date(c, cids, days) ==
    LET HomeOf(i) == original_or_current_deck_id(c.cards[i])
        live == Live(c, cids)
    IN IF \E i \in live : ~Has(c, "decks", HomeOf(i)) \/ c.decks[HomeOf(i)].filtered
       THEN Fail(c)
       ELSE ForEach(LAMBDA e, i : UpdateCard(e, i, schedule_as_review(c.cards[i], Today + days)),
                    c, live)

\* Cards away in a filtered deck keep a due below `start`: they are not shifted.
shift_existing_cards(c, start, by) ==
    ForEach(LAMBDA e, i : UpdateCard(e, i, set_new_position(c.cards[i], c.cards[i].due + by)),
            c, {i \in DOMAIN c.cards : c.cards[i].type = "new" /\ c.cards[i].due >= start})

\* The cards of a note get one position, notes in the order of their ids.
sort_cards(c, cids, start, step, shift) ==
    LET d == IF shift THEN shift_existing_cards(c, start, step * Cardinality(cids)) ELSE c
        live == Live(c, cids)
        nids == {c.cards[i].nid : i \in live}
        Place(i) == start + step * Cardinality({n \in nids : n < c.cards[i].nid})
    IN ForEach(LAMBDA e, i : UpdateCard(e, i, set_new_position(e.cards[i], Place(i))),
               d, {i \in live : repositioned(d.cards[i])})

bury_or_suspend_cards(c, cids, queue) ==
    ForEach(LAMBDA e, i : UpdateCard(e, i, [e.cards[i] EXCEPT !.queue = queue]),
            c, {i \in Live(c, cids) : c.cards[i].queue \notin {queue, "suspended"}})

unbury_or_unsuspend_cards(c, cids) ==
    ForEach(LAMBDA e, i : UpdateCard(e, i, [e.cards[i] EXCEPT !.queue = queue_from_type(e.cards[i])]),
            c, {i \in Live(c, cids) : c.cards[i].queue \in Hidden})
=============================================================================
