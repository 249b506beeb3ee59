---------------------------- MODULE Notetypes ----------------------------
(***************************************************************************)
(* Changing what notes are made of.  When the fields or the templates of a *)
(* notetype are added, removed or moved, every note and every card of the  *)
(* notetype is rewritten to match, and the templates are rewritten for the *)
(* fields that went away or got another name; likewise when notes are      *)
(* given another notetype.  These are the operations that no merge could   *)
(* follow, so they force the next sync to be one-way.                      *)
(*                                                                         *)
(* Answer sides, browser templates, the sort field, styling and the names  *)
(* of notetypes are left out: the first notetype by name is the first id.  *)
(***************************************************************************)
EXTENDS Notes

\* Names are made unique from left to right.
ensure_names_unique(names) ==
    LET Unused(name, used) ==
            LET suffixed[n \in 0..Cardinality(used)] ==
                    IF n = 0 THEN name ELSE suffixed[n - 1] \o "+"
                free == {n \in DOMAIN suffixed : suffixed[n] \notin used}
            IN suffixed[CHOOSE n \in free : \A m \in free : n <= m]
    IN FoldLeft(LAMBDA done, name : Append(done, Unused(name, ToSet(done))), <<>>, names)

NamesOf(nt) == [n \in DOMAIN nt.tmpls |-> nt.tmpls[n].name]
Fronts(nt) == [n \in DOMAIN nt.tmpls |-> nt.tmpls[n].front]
NotesOf(c, ntid) == {n \in DOMAIN c.notes : c.notes[n].nt = ntid}
CardsOfNotes(c, nids) == {i \in DOMAIN c.cards : c.cards[i].nid \in nids}

----------------------------------------------------------------------------
(* Templates that follow the fields.  The change of a notetype comes with  *)
(* the old position of each new field and template, 0 for a new one.       *)

Gone == ""
renamed_and_removed_fields(old, fields, fords) ==
    LET NewName(i) == IF i \in ToSet(fords) THEN fields[CHOOSE n \in DOMAIN fords : fords[n] = i]
                      ELSE Gone
        changed == {i \in DOMAIN old : NewName(i) # old[i]}
    IN [name \in {old[i] : i \in changed} |-> NewName(CHOOSE i \in changed : old[i] = name)]

\* What is shown only when a field that goes away is filled is then always shown.
rename_and_remove_fields(front, renames) ==
    LET New(name) == IF name \in DOMAIN renames THEN renames[name] ELSE name
        Around(names) == {New(name) : name \in names} \ {Gone}
    IN {[p EXCEPT !.field = New(@), !.if = Around(@), !.unless = Around(@)] :
            p \in {q \in front : New(q.field) # Gone}}

contains_cloze_replacement(front) == \E p \in front : p.cloze
add_missing_field_replacement(front, field, is_cloze) ==
    front \union {[field |-> field, if |-> {}, unless |-> {}, cloze |-> is_cloze]}

update_templates_for_renamed_and_removed_fields(nt, renames) ==
    LET is_cloze == nt.kind = "cloze"
        Rewritten(front) ==
            LET left == rename_and_remove_fields(front, renames)
            IN IF left = {} \/ (is_cloze /\ ~contains_cloze_replacement(left))
               THEN add_missing_field_replacement(left, nt.fields[1], is_cloze)
               ELSE left
    IN [nt EXCEPT !.tmpls = [n \in DOMAIN @ |-> [@[n] EXCEPT !.front = Rewritten(@)]]]

check_templates(nt) ==
    LET Referenced(front) == UNION {{p.field} \union p.if \union p.unless : p \in front}
    IN /\ \A m, n \in DOMAIN nt.tmpls : m # n => nt.tmpls[m].front # nt.tmpls[n].front
       /\ \A n \in DOMAIN nt.tmpls :
              /\ nt.tmpls[n].front # {}
              /\ Referenced(nt.tmpls[n].front) \subseteq ToSet(nt.fields) \union {TagsField}
       /\ nt.kind = "cloze" => contains_cloze_replacement(nt.tmpls[1].front)

\* The notetype as it will be stored.
prepare_for_update(nt, renames) ==
    LET names == ensure_names_unique(NamesOf(nt))
        named == [nt EXCEPT !.tmpls = [n \in DOMAIN @ |-> [@[n] EXCEPT !.name = names[n]]]]
    IN IF DOMAIN renames = {} THEN named
       ELSE update_templates_for_renamed_and_removed_fields(named, renames)

----------------------------------------------------------------------------
(* Notes and cards that follow the notetype. *)

ords_changed(ords, previous_len) == ords # [n \in 1..previous_len |-> n]

\* A field for each new position, taken from the old one, or empty.
reorder_fields(fields, ords) ==
    [n \in DOMAIN ords |-> IF ords[n] \in DOMAIN fields THEN fields[ords[n]] ELSE {}]

update_notes_for_changed_fields(c, ntid, fords, previous_len) ==
    IF ~ords_changed(fords, previous_len) THEN c
    ELSE ForEach(LAMBDA d, n : UpdateRow(d, "notes", n, [d.notes[n] EXCEPT !.fields = reorder_fields(@, fords)]),
                 SetSchemaModified(c), NotesOf(c, ntid))

\* Mutant: only the positions that are left are looked at.
RemovedOrdsOfThoseLeft(ords, previous_len) == {n - 1 : n \in DOMAIN ords \ ToSet(ords)}

RemovedOrds(ords, previous_len) == {n - 1 : n \in (1..previous_len) \ ToSet(ords)}

\* Cards of the notes whose template is gone are removed, and then those whose
\* template has moved follow it.  Notes left without a card stay.
MoveCards(c, nids, tords, previous_len) ==
    LET removed == RemovedOrds(tords, previous_len)
        moved == {n \in DOMAIN tords : tords[n] \notin {0, n}}
        NewOrd(ord) == (CHOOSE n \in moved : tords[n] = ord + 1) - 1
        Cards(d, ords) == {i \in CardsOfNotes(d, nids) : d.cards[i].ord \in ords}
        left == ForEach(LAMBDA d, i : RemoveWithGrave(d, "cards", i), c, Cards(c, removed))
    IN ForEach(LAMBDA d, i : UpdateCard(d, i, [d.cards[i] EXCEPT !.ord = NewOrd(@)]),
               left, Cards(left, {tords[n] - 1 : n \in moved}))

\* Mutant: the schema is marked only if the number of templates has changed.
update_cards_for_counted_templates(c, ntid, nt, tords) ==
    LET old == c.notetypes[ntid]
        marked == IF Len(tords) # Len(old.tmpls) THEN SetSchemaModified(c) ELSE c
        moved == MoveCards(marked, NotesOf(c, ntid), tords, Len(old.tmpls))
    IN IF 0 \in ToSet(tords) \/ Fronts(nt) # Fronts(old)
       THEN generate_cards_for_notetype(moved, ntid, nt) ELSE moved

update_cards_for_changed_templates(c, ntid, nt, tords) ==
    LET old == c.notetypes[ntid]
        marked == IF ords_changed(tords, Len(old.tmpls)) THEN SetSchemaModified(c) ELSE c
        moved == MoveCards(marked, NotesOf(c, ntid), tords, Len(old.tmpls))
    IN IF 0 \in ToSet(tords) \/ Fronts(nt) # Fronts(old)
       THEN generate_cards_for_notetype(moved, ntid, nt) ELSE moved

----------------------------------------------------------------------------
(* The operations on notetypes. *)

\* nt is the notetype as the user left it, its templates still naming the old fields.
update_notetype(c, ntid, nt, fords, tords) ==
    LET old == c.notetypes[ntid]
        unique == [nt EXCEPT !.fields = ensure_names_unique(@)]
        new == prepare_for_update(unique, renamed_and_removed_fields(old.fields, unique.fields, fords))
    IN IF ~Has(c, "notetypes", ntid) \/ nt.fields = <<>> \/ nt.tmpls = <<>> \/ ~check_templates(new)
       THEN Fail(c)
       ELSE UpdateRow(update_cards_for_changed_templates(
                          update_notes_for_changed_fields(c, ntid, fords, Len(old.fields)), ntid, new, tords),
                      "notetypes", ntid, new)

add_notetype(c, nt, skip_checks) ==
    LET new == prepare_for_update([nt EXCEPT !.fields = ensure_names_unique(@)], <<>>)
        added == AddNext(c, "notetypes", new)
    IN IF ~skip_checks /\ ~check_templates(new) THEN Fail(c)
       ELSE SetConfig(added, CurrentNotetype, c.nextId)

Place(field) == [field |-> field, if |-> {}, unless |-> {}, cloze |-> FALSE]
StockNotetype ==
    [kind |-> "normal", fields |-> <<"Front", "Back">>,
     tmpls |-> <<[name |-> "Card 1", front |-> {Place("Front")}, deck |-> 0]>>]

\* There is always a notetype, and one of those left becomes the current one.
remove_notetype(c, ntid) ==
    LET emptied == SetSchemaModified(remove_notes(c, NotesOf(c, ntid)))
        d == RemoveRow(ClearConfig(emptied, LastDeck(ntid)), "notetypes", ntid)
    IN IF ~Has(c, "notetypes", ntid) THEN c
       ELSE IF DOMAIN d.notetypes = {} THEN add_notetype(d, StockNotetype, TRUE)
       ELSE SetConfig(d, CurrentNotetype, Min(DOMAIN d.notetypes))

----------------------------------------------------------------------------
(* Giving notes another notetype. *)

\* By name first; what is left over is matched in order.
default_map(old, new) ==
    LET ByName(n) == {m \in DOMAIN old : old[m] = new[n]}
        unused == SetToSortSeq({m \in DOMAIN old : old[m] \notin ToSet(new)}, <)
        Gap(n) == Cardinality({k \in 1..n : ByName(k) = {}})
    IN [n \in DOMAIN new |->
            IF ByName(n) # {} THEN CHOOSE m \in ByName(n) : TRUE
            ELSE IF Gap(n) \in DOMAIN unused THEN unused[Gap(n)] ELSE 0]
default_field_map(old, new) == default_map(old.fields, new.fields)
\* Clozes cannot be mapped: there is no map then.
default_template_map(old, new) ==
    IF "cloze" \in {old.kind, new.kind} THEN <<>> ELSE default_map(NamesOf(old), NamesOf(new))

maybe_remove_cards_with_missing_template(c, nids, nt) ==
    IF nt.kind # "normal" THEN c
    ELSE ForEach(LAMBDA d, i : RemoveWithGrave(d, "cards", i),
                 c, {i \in CardsOfNotes(c, nids) : c.cards[i].ord > Len(nt.tmpls) - 1})

\* `schema` is the time the dialog saw: a change in between is refused.
change_notetype_of_notes(c, nids, old, new, fmap, tmap, schema) ==
    LET nt == c.notetypes[new]
        marked == SetSchemaModified(c)
        carded == IF tmap # <<>> THEN MoveCards(marked, nids, tmap, Len(c.notetypes[old].tmpls))
                  ELSE maybe_remove_cards_with_missing_template(marked, nids, nt)
        Rewrite(d, n) ==
            generate_cards_for_existing_note(
                UpdateRow(d, "notes", n, [d.notes[n] EXCEPT !.fields = reorder_fields(@, fmap), !.nt = new]), n)
    IN IF \/ schema # c.config[Schema]
          \/ ~({old, new} \subseteq DOMAIN c.notetypes)
          \/ ~(nids \subseteq DOMAIN c.notes)
          \/ Len(fmap) # Len(nt.fields)
       THEN Fail(c) ELSE ForEach(Rewrite, carded, nids)

----------------------------------------------------------------------------
(* What the window for adding notes opens with. *)

\* `home` is the home deck of the card being reviewed, 0 outside of a review.
get_current_deck_for_adding(c, home) ==
    LET current == ConfigOr(c, CurrentDeck, DefaultDeck)
    IN IF Has(c, "decks", current) /\ ~c.decks[current].filtered THEN current
       ELSE IF Has(c, "decks", home) THEN home ELSE DefaultDeck

get_current_notetype_for_adding(c) ==
    LET current == ConfigOr(c, CurrentNotetype, 0)
    IN IF Has(c, "notetypes", current) THEN current ELSE Min(DOMAIN c.notetypes)

default_notetype_for_deck(c, did) ==
    LET last == ConfigOr(c, LastNotetype(did), 0)
    IN IF Has(c, "notetypes", last) THEN last ELSE get_current_notetype_for_adding(c)

default_deck_for_notetype(c, ntid) ==
    LET last == last_deck(c, ntid)
    IN IF Has(c, "decks", last) /\ ~c.decks[last].filtered THEN last ELSE 0

\* A preference chooses between starting from the deck and from the notetype.
defaults_for_adding(c, home, by_deck) ==
    LET did == get_current_deck_for_adding(c, home)
        ntid == get_current_notetype_for_adding(c)
    IN IF by_deck THEN [deck |-> did, notetype |-> default_notetype_for_deck(c, did)]
       ELSE [deck |-> FirstOf(default_deck_for_notetype(c, ntid), did), notetype |-> ntid]
=============================================================================
