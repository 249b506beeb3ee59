---------------------------- MODULE MCCollection ----------------------------
(***************************************************************************)
(* A collection with a tree of decks, a filtered deck that has a card on   *)
(* loan, notes of a normal and of a cloze notetype, cards of every type,   *)
(* and remembered decks and notetypes; and collections damaged in the ways *)
(* a check repairs.                                                        *)
(***************************************************************************)
EXTENDS CollectionTests

InPlace(field, if) == [Place(field) EXCEPT !.if = if]
ClozePlace(field) == [Place(field) EXCEPT !.cloze = TRUE]
Tmpl(name, front) == [name |-> name, front |-> front, deck |-> 0]

Basic == [kind |-> "normal", fields |-> <<"Front", "Back">>,
          tmpls |-> <<Tmpl("Card 1", {Place("Front")}),
                      Tmpl("Card 2", {InPlace("Back", {"Front"})})>>]
Cloze == [kind |-> "cloze", fields |-> <<"Text", "Extra">>,
          tmpls |-> <<Tmpl("Cloze", {ClozePlace("Text")})>>]

Card(nid, ord, did, type, queue, due) ==
    [new_card(nid, ord, did, due) EXCEPT !.type = type, !.queue = queue]
Lend(card, home, odue) == [card EXCEPT !.odid = home, !.odue = odue]

Start ==
    [decks |-> (1 :> Normal(DefaultName) @@ 2 :> Normal(<<"A">>) @@ 3 :> Normal(<<"A", "B">>)
                @@ 4 :> [name |-> <<"F">>, filtered |-> TRUE, resched |-> FALSE, pick |-> {1, 2, 3, 5}]),
     notetypes |-> (1 :> Basic @@ 2 :> Cloze),
     notes |-> (1 :> [nt |-> 1, fields |-> <<{0}, {0}>>, tags |-> {<<"a", "b">>}]
                @@ 2 :> [nt |-> 2, fields |-> <<{1, 2}, {}>>, tags |-> {<<"c">>}]
                @@ 3 :> [nt |-> 1, fields |-> <<{0}, {}>>, tags |-> {}]),
     cards |-> (1 :> Card(1, 0, 2, "review", "review", 90)
                @@ 2 :> Lend(Card(1, 1, 4, "new", "review", -100), 3, 5)
                @@ 3 :> Card(2, 0, 1, "learn", "learn", Epoch + 5)
                @@ 4 :> Card(2, 1, 2, "new", "suspended", 6)
                @@ 5 :> Card(3, 0, 3, "new", "new", 0)),
     tags |-> (<<"a">> :> TRUE @@ <<"a", "b">> :> TRUE @@ <<"c">> :> TRUE),
     config |-> (Schema :> 0 @@ NextPosition :> 7 @@ CurrentDeck :> 3 @@ CurrentNotetype :> 1
                 @@ LastDeck(1) :> 3 @@ LastNotetype(2) :> 1),
     graves |-> <<>>, log |-> <<>>, nested |-> <<>>, nextId |-> 10, failed |-> FALSE]

\* Cards whose note, deck, home or template is gone or taken twice; a note with a
\* field too few; tags that are not registered; a position too low.
Damaged ==
    [Start EXCEPT
        !.cards = (6 :> Card(1, 0, 2, "new", "new", 8) @@ 7 :> Card(1, 5, 9, "new", "new", 8)
                   @@ 8 :> Card(7, 0, 2, "review", "review", 80)
                   @@ 9 :> Lend(Card(3, 1, 2, "review", "review", 80), 3, 70)) @@ @,
        !.notes[3].fields = <<{0}>>,
        !.notes[1].tags = {<<"d">>},
        !.config[NextPosition] = 1]
MissingNotetype == [Start EXCEPT !.notetypes = 2 :> Cloze]
MissingParent == [Start EXCEPT !.decks = [did \in DOMAIN @ \ {2} |-> @[did]],
                               !.cards = [i \in {2, 3, 5} |-> @[i]]]

Session(left) == [start |-> Start, damaged |-> FALSE, budget |-> ("undo" :> 0) @@ left]
Check(start, left) == [start |-> start, damaged |-> TRUE, budget |-> ("check" :> 1) @@ left]

MCSessions ==
    {Session("decks" :> 2), Session("cards" :> 2), Session("tags" :> 2),
     Session("notes" :> 2 @@ "time" :> 0), Session("notetypes" :> 2 @@ "merge" :> 1),
     Session("decks" :> 1 @@ "cards" :> 1), Session("decks" :> 1 @@ "notes" :> 1),
     Session("cards" :> 1 @@ "notetypes" :> 1), Session("notes" :> 1 @@ "notetypes" :> 1),
     Check(Damaged, "undo" :> 0 @@ "notes" :> 1), Check(MissingNotetype, "notes" :> 1),
     Check(MissingParent, "decks" :> 1)}

MCDeckNames == {<<"A">>, <<"A", "B", "C">>, <<"F", "X", "Y">>, <<"N", "M">>}
MCFilteredDecks ==
    {[name |-> <<"A", "F">>, filtered |-> TRUE, resched |-> TRUE, pick |-> {1, 3, 5}],
     [name |-> <<"F">>, filtered |-> TRUE, resched |-> FALSE, pick |-> {4}]}
MCTagNames == {<<"a">>, <<"c">>, <<"a", "b">>}
Write(fields, tags) == [fields |-> fields, tags |-> tags]
MCWritten ==
    {Write(<<{0}, {}>>, {<<"c">>}), Write(<<{1, 3}, {0}>>, {}), Write(<<{1, 2}, {}>>, {}),
     Write(<<{}, {0}>>, {<<"a", "b">>, <<"d">>})}
MCPicks == {{1}, {2}, {5}, 1..30}

Edit(nt, fords, tords) == [nt |-> nt, fords |-> fords, tords |-> tords]
MCEdits ==
    {Edit(Basic, <<1, 2>>, <<1, 2>>),
     Edit([Basic EXCEPT !.fields = <<"Back", "Front">>], <<2, 1>>, <<1, 2>>),
     Edit([Basic EXCEPT !.fields = <<"Back">>], <<2>>, <<1, 2>>),
     Edit([Basic EXCEPT !.fields = <<"Front", "Front", "Back">>], <<1, 0, 2>>, <<1, 2>>),
     Edit([Basic EXCEPT !.tmpls = <<Basic.tmpls[2]>>], <<1, 2>>, <<2>>),
     Edit([Basic EXCEPT !.tmpls = <<Basic.tmpls[2], Basic.tmpls[1], Tmpl("Card 2", {Place("Back")})>>],
          <<1, 2>>, <<2, 1, 0>>),
     Edit([Cloze EXCEPT !.fields = <<"Extra">>], <<2>>, <<1>>)}
=============================================================================
