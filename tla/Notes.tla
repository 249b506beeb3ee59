---------------------------- MODULE Notes ----------------------------
(***************************************************************************)
(* Adding, changing and removing notes, and the cards that follow: a note  *)
(* has a card for every template that renders something from its fields,   *)
(* or for every cloze in them, and one card if there would be none.  Cards *)
(* no longer needed stay until the user removes the empty ones.            *)
(*                                                                         *)
(* A note is [nt, fields, tags].  A field is a set of numbers: empty if    *)
(* the field is, 0 for text, and the numbers of the clozes in it.          *)
(* A notetype is [kind, fields, tmpls]: the names of its fields, and for   *)
(* each template [name, front, deck]: the places on the front where a      *)
(* field is shown, and the deck for its cards (0 for none).  A place is    *)
(* [field, if, unless, cloze]: the field shown, the fields that must and   *)
(* must not be filled around it, and whether it is shown as a cloze.       *)
(***************************************************************************)
EXTENDS Tags

LastDeck(ntid) == <<"lastDeck", ntid>>
CurrentNotetype == <<"curNotetype">>
TagsField == "Tags"
\* Higher clozes share the last ordinal (cloze_ord.saturating_sub(1).min(499)).
LastOrdinal == 499

nonempty_fields(note, nt) ==
    {nt.fields[n] : n \in {m \in DOMAIN note.fields : note.fields[m] # {}}}
renders_with_fields(front, nonempty) ==
    \E p \in front : /\ p.field \in nonempty
                     /\ p.if \subseteq nonempty
                     /\ p.unless \intersect nonempty = {}

----------------------------------------------------------------------------
(* Which cards a note needs, and where they go. *)

new_cards_required_normal(note, nt) ==
    LET nonempty == nonempty_fields(note, nt) \union (IF note.tags = {} THEN {} ELSE {TagsField})
    IN {n - 1 : n \in {m \in DOMAIN nt.tmpls : renders_with_fields(nt.tmpls[m].front, nonempty)}}

new_cards_required_cloze(note) ==
    {IF n - 1 < LastOrdinal THEN n - 1 ELSE LastOrdinal : n \in (UNION Range(note.fields)) \ {0}}

RequiredOrds(note, nt) ==
    IF nt.kind = "cloze" THEN new_cards_required_cloze(note) ELSE new_cards_required_normal(note, nt)

ExistingOrds(c, cids) == {c.cards[i].ord : i \in cids}

\* A note without cards gets its first one even if it would be empty.
new_cards_required(c, note, nt, cids) ==
    LET needed == RequiredOrds(note, nt) \ ExistingOrds(c, cids)
    IN IF cids = {} /\ needed = {} THEN {0} ELSE needed

\* The position of the first new card among them, or NoPosition.
ExtractedDue(c, cids) ==
    LET Position(i) == LET card == c.cards[i]
                           due == IF card.odue = 0 THEN card.due ELSE card.odue
                       IN IF due > 0 THEN due ELSE 0
        new == {i \in cids : c.cards[i].type = "new"}
    IN IF new = {} THEN NoPosition ELSE Position(CHOOSE i \in new : \A j \in new : i <= j)

\* The one home deck they share, or 0.
ExtractedDeck(c, cids) ==
    LET decks == {original_or_current_deck_id(c.cards[i]) : i \in cids}
    IN IF Cardinality(decks) = 1 THEN CHOOSE d \in decks : TRUE ELSE 0

deck_for_adding(c, did) ==
    IF Has(c, "decks", did) /\ ~c.decks[did].filtered THEN did ELSE DefaultDeck

FirstOf(a, b) == IF a # 0 THEN a ELSE b

\* Cards without an inherited position take one new position between them.
generate_cards_for_note(c, nt, nid, cids, target) ==
    LET note == c.notes[nid]
        ords == new_cards_required(c, note, nt, cids)
        due == ExtractedDue(c, cids)
        next == c.config[NextPosition]
        Template(ord) == IF nt.kind = "normal" /\ ord \in RequiredOrds(note, nt)
                         THEN nt.tmpls[ord + 1].deck ELSE 0
        Deck(d, ord) == deck_for_adding(d, FirstOf(Template(ord), FirstOf(ExtractedDeck(c, cids), target)))
        Add(d, ord) == AddNext(d, "cards", new_card(nid, ord, Deck(d, ord),
                                                    IF due = NoPosition THEN next ELSE due))
        positioned == IF due = NoPosition THEN SetConfig(c, NextPosition, next + 1) ELSE c
    IN IF ords = {} THEN c ELSE ForEach(Add, positioned, ords)

last_deck(c, ntid) == ConfigOr(c, LastDeck(ntid), 0)
generate_cards_for_existing_note(c, nid) ==
    LET ntid == c.notes[nid].nt
    IN generate_cards_for_note(c, c.notetypes[ntid], nid, CardsOf(c, nid), last_deck(c, ntid))

\* For a notetype about to become nt.  Notes without a card are not found; full
\* ones are skipped by their number of cards.
generate_cards_for_notetype(c, ntid, nt) ==
    LET nids == {n \in DOMAIN c.notes : c.notes[n].nt = ntid /\ CardsOf(c, n) # {}}
        full == {n \in nids : nt.kind = "normal" /\ Cardinality(CardsOf(c, n)) = Len(nt.tmpls)}
    IN ForEach(LAMBDA d, n : generate_cards_for_note(d, nt, n, CardsOf(d, n), 0), c, nids \ full)

----------------------------------------------------------------------------
(* The operations. *)

fits_notetype(c, note) ==
    Has(c, "notetypes", note.nt) /\ Len(note.fields) = Len(c.notetypes[note.nt].fields)

add_note(c, note, did) ==
    LET nid == c.nextId
        added == AddNext(canonify_tags(c, note.tags), "notes", note)
        carded == generate_cards_for_note(added, c.notetypes[note.nt], nid, {}, did)
    IN IF ~fits_notetype(c, note) THEN Fail(c)
       ELSE SetConfig(SetConfig(SetConfig(carded, LastDeck(note.nt), did),
                                LastNotetype(did), note.nt),
                      CurrentNotetype, note.nt)

update_note_without_cards(c, nid, note) ==
    UpdateRow(canonify_tags(c, note.tags), "notes", nid, note)

update_note_generating_cards(c, nid, note) ==
    IF fits_notetype(c, note)
    THEN generate_cards_for_existing_note(update_note_without_cards(c, nid, note), nid)
    ELSE Fail(c)

update_note(c, nid, note) ==
    IF ~Has(c, "notes", nid) THEN Fail(c)
    ELSE IF note = c.notes[nid] THEN c
    ELSE update_note_generating_cards(c, nid, note)

remove_notes(c, nids) ==
    LET RemoveNote(d, n) ==
            remove_note_only(ForEach(LAMBDA e, i : RemoveWithGrave(e, "cards", i), d, CardsOf(d, n)), n)
    IN ForEach(RemoveNote, c, nids \intersect DOMAIN c.notes)

\* After changes made elsewhere: every note is written again, and checked.
after_note_updates(c, nids) ==
    ForEach(LAMBDA d, n : update_note_generating_cards(d, n, d.notes[n]),
            c, nids \intersect DOMAIN c.notes)

\* What the empty cards dialog offers to remove.
empty_cards(c) ==
    {i \in DOMAIN c.cards :
        LET note == c.notes[c.cards[i].nid]
        IN c.cards[i].ord \notin RequiredOrds(note, c.notetypes[note.nt])}
=============================================================================
