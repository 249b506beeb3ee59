---------------------------- MODULE CollectionTests ----------------------------
(***************************************************************************)
(* What the unit tests of the repository expect of the operations, asked   *)
(* of the operators that model them: the inputs and the expected results   *)
(* are those of the tests named beside each assumption.                    *)
(***************************************************************************)
EXTENDS Collection

Template(name, front) == [name |-> name, front |-> front, deck |-> 0]
TwoSided == [kind |-> "normal", fields |-> <<"Front", "Back">>,
             tmpls |-> <<Template("Card 1", {Place("Front")}), Template("Card 2", {Place("Back")})>>]
ClozeType == [kind |-> "cloze", fields |-> <<"Text", "Back Extra">>,
              tmpls |-> <<Template("Cloze", {[Place("Text") EXCEPT !.cloze = TRUE]})>>]

New == [decks |-> 1 :> Normal(DefaultName), cards |-> <<>>, notes |-> <<>>,
        notetypes |-> (2 :> StockNotetype @@ 3 :> TwoSided @@ 4 :> ClozeType),
        tags |-> <<>>, config |-> (Schema :> 0 @@ NextPosition :> 1), graves |-> <<>>,
        log |-> <<>>, nested |-> <<>>, nextId |-> 10, failed |-> FALSE]

Names(c) == {c.decks[did].name : did \in DOMAIN c.decks} \ {DefaultName}
Deck(c, name) == CHOOSE did \in DeckNamed(c, name) : TRUE
WithDeck(c, name) == add_deck_inner(c, Normal(name))

\* A note with the given fields and tags, whose id is the one that was next.
Noted(c, ntid, fields, tags) == add_note(c, [nt |-> ntid, fields |-> fields, tags |-> tags], 1)
Ords(c, nid) == ExistingOrds(c, CardsOf(c, nid))

----------------------------------------------------------------------------
\* Renaming takes the children along, and makes the parents that are missing
\* (decks/mod.rs, renaming).
ASSUME Renaming ==
    LET c1 == WithDeck(New, <<"foo", "bar", "baz">>)
        c2 == rename_deck(c1, Deck(c1, <<"foo">>), <<"other">>)
        middle == Deck(c2, <<"other", "bar">>)
        c3 == rename_deck(c2, middle, <<"quux", "foo">>)
        c4 == rename_deck(WithDeck(c3, <<"quux", "foo", "baz2">>), middle, <<"quux", "foo", "baz", "four">>)
        c5 == rename_deck(c4, middle, <<"other">>)
        c6 == rename_deck(c5, middle, <<"one", "two">>)
        Below(top, rest) == {top \o name : name \in rest}
    IN /\ Names(c2) = Below(<<"other">>, {<<>>, <<"bar">>, <<"bar", "baz">>})
       /\ Names(c3) = {<<"other">>} \union Below(<<"quux">>, {<<>>, <<"foo">>, <<"foo", "baz">>})
       /\ Names(c4) = {<<"other">>, <<"quux">>} \union Below(<<"quux", "foo">>,
              {<<>>, <<"baz">>, <<"baz", "four">>, <<"baz", "four", "baz">>, <<"baz", "four", "baz2">>})
       /\ c5.decks[middle].name = <<"other+">>
       /\ Names(c6) = {<<"other">>} \union Below(<<"one">>, {<<>>, <<"two">>, <<"two", "baz">>, <<"two", "baz2">>})
              \union Below(<<"quux">>, {<<>>, <<"foo">>, <<"foo", "baz">>})

\* Tags are moved with the tags below them (tags/reparent.rs, dragdrop).
ASSUME DragDrop ==
    LET child == <<"parent1", "child1">>
        first == {<<"a">>, <<"ab">>, <<"another">>, Append(child, "grandchild1"), child,
                  <<"parent1">>, <<"parent2">>, <<"yet", "another">>}
        c0 == FoldSet(LAMBDA tag, c : Noted(c, 2, <<{}, {}>>, {tag}), New, first)
        c1 == reparent_tags(c0, <<<<"another">>, <<"yet", "another">>>>, <<"parent1">>)
        c2 == reparent_tags(c1, <<child>>, <<"parent2">>)
        c3 == reparent_tags(c2, <<<<"parent1", "another">>>>, <<>>)
        c4 == reparent_tags(c3, <<<<"parent1">>>>, child)
        c5 == reparent_tags(c4, <<<<"a">>>>, <<"ab">>)
        c6 == reparent_tags(c5, <<<<"parent2", "child1", "grandchild1">>>>, <<"parent2">>)
        kept == {<<"parent1">>, <<"parent2">>}
        moved == {<<"parent2", "child1">>, <<"parent2", "child1", "grandchild1">>}
    IN /\ DOMAIN c1.tags = kept \union {<<"a">>, <<"ab">>, <<"parent1", "another">>, child, Append(child, "grandchild1")}
       /\ DOMAIN c2.tags = kept \union moved \union {<<"a">>, <<"ab">>, <<"parent1", "another">>}
       /\ DOMAIN c3.tags = kept \union moved \union {<<"a">>, <<"ab">>, <<"another">>}
       /\ c4 = c3
       /\ DOMAIN c5.tags = kept \union moved \union {<<"ab">>, <<"ab", "a">>, <<"another">>}
       /\ DOMAIN c6.tags = kept \union {<<"ab">>, <<"ab", "a">>, <<"another">>, <<"parent2", "child1">>,
                                        <<"parent2", "grandchild1">>}

\* Fields are moved in the notes and renamed in the templates, and a new template
\* gives notes a card (notetype/schemachange.rs, ord_changes, fields,
\* field_renaming_and_deleting, cards).
ASSUME SchemaChange ==
    LET c1 == Noted(New, 2, <<{1}, {2}>>, {})
        c2 == update_notetype(c1, 2, [StockNotetype EXCEPT !.fields = @ \o <<"three">>], <<1, 2, 0>>, <<1>>)
        c3 == update_notetype(c2, 2, [StockNotetype EXCEPT !.fields = <<"Front", "three">>], <<1, 3>>, <<1>>)
        inFront == [Place("Back") EXCEPT !.if = {"Front"}]
        renamed == update_notetype(New, 2, [StockNotetype EXCEPT !.fields = <<"Test", "Back">>,
                        !.tmpls[1].front = @ \union {inFront}], <<1, 2>>, <<1>>)
        deleted == update_notetype(renamed, 2, [renamed.notetypes[2] EXCEPT !.fields = <<"Back">>], <<2>>, <<1>>)
        carded == update_notetype(c1, 2, [StockNotetype EXCEPT
                        !.tmpls = Append(@, Template("card 2", {Place("Front"), Place("Back")}))], <<1, 2>>, <<1, 0>>)
    IN /\ ~ords_changed(<<1, 2>>, 2) /\ ords_changed(<<1, 2>>, 1) /\ ords_changed(<<2, 1>>, 2)
       /\ ords_changed(<<0, 2>>, 2) /\ ords_changed(<<1, 2, 0>>, 2)
       /\ c2.notes[10].fields = <<{1}, {2}, {}>>
       /\ c3.notes[10].fields = <<{1}, {}>>
       /\ renamed.notetypes[2].tmpls[1].front = {Place("Test"), [Place("Back") EXCEPT !.if = {"Test"}]}
       /\ deleted.notetypes[2].tmpls[1].front = {Place("Back")}
       /\ Cardinality(CardsOf(c1, 10)) = 1 /\ Cardinality(CardsOf(carded, 10)) = 2

\* The proposed maps, and the cards after a change there and back
\* (notetype/notetypechange.rs, field_map, basic, cloze).
ASSUME NotetypeChange ==
    LET wide == [StockNotetype EXCEPT !.fields = @ \o <<"idx2", "idx3", "Text", "idx5">>]
        Changed(c, old, new) ==
            change_notetype_of_notes(c, {10}, old, new,
                default_field_map(c.notetypes[old], c.notetypes[new]),
                default_template_map(c.notetypes[old], c.notetypes[new]), c.config[Schema])
        c1 == Noted(New, 2, <<{0}, {0}>>, {})
        swapped == change_notetype_of_notes(c1, {10}, 2, 3, <<1, 2>>, <<0, 1>>, 0)
        c2 == Changed(Noted(New, 3, <<{0}, {0}>>, {}), 3, 4)
        c3 == Changed(c2, 4, 3)
        c4 == Changed(Changed(c3, 3, 4), 4, 2)
    IN /\ default_field_map(StockNotetype, ClozeType) = <<1, 2>>
       /\ default_field_map(wide, ClozeType) = <<5, 1>>
       /\ default_field_map(ClozeType, wide) = <<2, 0, 0, 0, 1, 0>>
       /\ swapped.cards[11].ord = 1 /\ Ords(swapped, 10) = {0, 1}
       /\ Ords(c2, 10) = {0, 1} /\ Ords(c3, 10) = {0, 1} /\ Ords(c4, 10) = {0}

\* What the check repairs, and what it leaves (dbcheck.rs, cards, note_card_link,
\* note_fields, deck_names).
ASSUME Repairs ==
    LET c1 == Noted(New, 2, <<{}, {}>>, {})
        missing == check_database([c1 EXCEPT !.cards[11].did = 123])
        orphaned == check_database([missing EXCEPT !.notes = <<>>])
        doubled == check_database([c1 EXCEPT !.cards = (12 :> [@[11] EXCEPT !.ord = 0]) @@ @])
        extra == check_database([c1 EXCEPT !.cards = (12 :> [@[11] EXCEPT !.ord = 10]) @@ @])
        many == check_database([c1 EXCEPT !.notes[10].fields = <<{0}, {0}, {0}, {0}>>])
        few == check_database([c1 EXCEPT !.notes[10].fields = <<{0}>>])
        c2 == WithDeck(New, <<"foo", "bar", "baz">>)
        left == {1, Deck(c2, <<"foo", "bar", "baz">>)}
    IN /\ missing.decks[123].name = <<"recovered123">> /\ missing.cards[11].did = 123
       /\ orphaned.cards = <<>>
       /\ DOMAIN doubled.cards = {11} /\ DOMAIN extra.cards = {11}
       /\ many.notes[10].fields = <<{0}, {0}>> /\ few.notes[10].fields = <<{0}, {}>>
       /\ Names(check_database([c2 EXCEPT !.decks = [did \in left |-> @[did]]])) = Names(c2)
=============================================================================
