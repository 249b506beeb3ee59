---------------------------- MODULE DbCheck ----------------------------
(***************************************************************************)
(* "Check database": repairs whatever a crash, an add-on or another client *)
(* left in the tables, in one transaction that cannot be undone.           *)
(*                                                                         *)
(* Two of the repairs, a notetype and a deck that are missing, call the    *)
(* operation the user would call, which has a transaction of its own and   *)
(* therefore leaves a step to undo: these steps are kept in `nested`.      *)
(*                                                                         *)
(* The repairs of values the model leaves out are left out with them: the  *)
(* review log, text that is not valid, ids and times in the future, and    *)
(* numbers out of range.                                                   *)
(***************************************************************************)
EXTENDS Notetypes

\* d was reached from c by an operation with a transaction of its own.
Nested(c, op, d) ==
    [d EXCEPT !.nested = Append(@, [op |-> op, before |-> Content(c),
                                    changes |-> SubSeq(d.log, Len(c.log) + 1, Len(d.log))])]
SetSchemaModifiedIf(c, wrong) == IF wrong THEN SetSchemaModified(c) ELSE c

----------------------------------------------------------------------------
(* Cards and their decks. *)

fix_odue(c) ==
    LET Wrong(card) == /\ card.odue > 0 /\ card.odid = 0
                       /\ card.type = "learn" \/ card.queue = "review"
    IN ForEach(LAMBDA d, i : UpdateCard(d, i, [d.cards[i] EXCEPT !.odue = 0]),
               c, {i \in DOMAIN c.cards : Wrong(c.cards[i])})

check_orphaned_cards(c) ==
    LET orphaned == {i \in DOMAIN c.cards : ~Has(c, "notes", c.cards[i].nid)}
    IN SetSchemaModifiedIf(ForEach(LAMBDA d, i : RemoveRow(d, "cards", i), c, orphaned),
                           orphaned # {})

\* The home decks of cards that are away are not looked at.
check_missing_deck_ids(c) ==
    ForEach(recover_missing_deck, c, {c.cards[i].did : i \in DOMAIN c.cards} \ DOMAIN c.decks)

check_filtered_cards(c) ==
    LET wrong == {i \in DOMAIN c.cards : c.cards[i].odid > 0 /\ ~c.decks[c.cards[i].did].filtered}
    IN SetSchemaModifiedIf(
           ForEach(LAMBDA d, i : UpdateCard(d, i, [d.cards[i] EXCEPT !.odid = 0, !.odue = 0]), c, wrong),
           wrong # {})

----------------------------------------------------------------------------
(* Notes and their notetypes. *)

\* A field for each of the note and a template for each of the cards.
recover_notetype(c, field_count, ntid) ==
    LET ords == {c.cards[i].ord : i \in CardsOfNotes(c, NotesOf(c, ntid))}
        highest == IF ords = {} THEN 0 ELSE CHOOSE o \in ords : \A p \in ords : p <= o
        fields == StockNotetype.fields \o [n \in 1..(field_count - 2) |-> ToString(n + 2)]
        tmpls == [n \in 1..(highest + 1) |->
                     [StockNotetype.tmpls[1] EXCEPT !.name = "Card " \o ToString(n)]]
    IN Nested(c, "AddNotetype",
              add_notetype(c, [StockNotetype EXCEPT !.fields = fields, !.tmpls = tmpls], TRUE))

\* The fields too many end up in the last one, after a semicolon.
fix_field_count(fields, count) ==
    IF Len(fields) <= count THEN fields \o [n \in 1..(count - Len(fields)) |-> {}]
    ELSE SubSeq(fields, 1, count - 1) \o <<{0} \union UNION {fields[n] : n \in count..Len(fields)}>>
DbCheckTag == <<"db-check">>

Duplicated(c, cids) == {i \in cids : \E j \in cids : j < i /\ c.cards[j].ord = c.cards[i].ord}
WithoutTemplate(c, cids, nt) ==
    {i \in cids : nt.kind = "normal" /\ c.cards[i].ord >= Len(nt.tmpls)}

\* The note has notetype ntid from now on; its tags are registered again.
check_note(c, nid, ntid) ==
    LET note == c.notes[nid]
        nt == c.notetypes[ntid]
        cids == CardsOf(c, nid)
        d == ForEach(LAMBDA e, i : RemoveRow(e, "cards", i),
                     c, Duplicated(c, cids) \union WithoutTemplate(c, cids, nt))
        miscounted == Len(note.fields) # Len(nt.fields)
        fixed == [note EXCEPT !.nt = ntid,
                              !.fields = fix_field_count(@, Len(nt.fields)),
                              !.tags = IF miscounted THEN @ \union {DbCheckTag} ELSE @]
    IN generate_cards_for_existing_note(update_note_without_cards(d, nid, fixed), nid)

NoteIsWrong(c, nid) ==
    LET note == c.notes[nid]
        nt == c.notetypes[note.nt]
        cids == CardsOf(c, nid)
    IN \/ ~Has(c, "notetypes", note.nt)
       \/ Len(note.fields) # Len(nt.fields)
       \/ Duplicated(c, cids) \union WithoutTemplate(c, cids, nt) # {}

check_notetypes(c) ==
    LET CheckGroup(d, ntid) ==
            LET group == NotesOf(c, ntid)
                count == Len(c.notes[Min(group)].fields)
                known == Has(c, "notetypes", ntid)
                e == IF known THEN d ELSE recover_notetype(d, count, ntid)
            IN ForEach(LAMBDA f, n : check_note(f, n, IF known THEN ntid ELSE d.nextId), e, group)
        checked == ForEach(CheckGroup, [c EXCEPT !.tags = <<>>], {c.notes[n].nt : n \in DOMAIN c.notes})
        stocked == IF DOMAIN checked.notetypes = {} THEN add_notetype(checked, StockNotetype, TRUE)
                   ELSE checked
    IN SetSchemaModifiedIf(stocked, \E n \in DOMAIN c.notes : NoteIsWrong(c, n))

----------------------------------------------------------------------------
(* Names and positions. *)

check_missing_deck_names(c) ==
    LET Complete(d, did) ==
            LET parent == immediate_parent_name(d.decks[did].name)
            IN IF parent = <<>> \/ DeckNamed(d, parent) # {} THEN d
               ELSE Nested(d, "AddDeck", add_deck_inner(d, Normal(parent)))
    IN ForEach(Complete, c, DOMAIN c.decks)

\* With no new card, or none but those away in filtered decks, it starts over.
update_next_new_position(c) ==
    LET dues == {c.cards[i].due : i \in {j \in DOMAIN c.cards : c.cards[j].type = "new"}}
        last == {d \in dues : d >= -1 /\ \A e \in dues : e <= d}
    IN SetConfig(c, NextPosition, IF last = {} THEN 0 ELSE 1 + CHOOSE d \in last : TRUE)

check_database(c) ==
    update_next_new_position(
        check_missing_deck_names(
            check_notetypes(
                check_filtered_cards(
                    check_missing_deck_ids(
                        check_orphaned_cards(fix_odue(c)))))))
=============================================================================
