---------------------------- MODULE Decks ----------------------------
(***************************************************************************)
(* The deck tree, which exists only in the names of decks: a deck is a     *)
(* child of another when its name continues the other's.  Adding, renaming *)
(* and moving decks must therefore create the parents that are missing and *)
(* rename the children; removing one takes its children, its cards and the *)
(* notes left without a card.  Filtered decks are leaves that borrow their *)
(* cards from others.                                                      *)
(*                                                                         *)
(* A deck is [name, filtered, resched, pick]; a name is the sequence of    *)
(* its components, and pick stands for the searches of a filtered deck:    *)
(* the cards they would match, in the order of their ids.  Presets, counts *)
(* and descriptions are left out, as is the difference between two names   *)
(* that differ only in case.                                               *)
(***************************************************************************)
EXTENDS Cards

DefaultDeck == 1
CurrentDeck == <<"curDeck">>
LastNotetype(did) == <<"lastNotetype", did>>

Normal(name) == [name |-> name, filtered |-> FALSE, resched |-> TRUE, pick |-> {}]
UpdateDeck(c, did, deck) == UpdateRow(c, "decks", did, deck)
AddNext(c, t, row) == [AddRow(c, t, c.nextId, row) EXCEPT !.nextId = @ + 1]

----------------------------------------------------------------------------
(* Names. *)

immediate_parent_name(name) == SubSeq(name, 1, Len(name) - 1)
parents(name) == {SubSeq(name, 1, n) : n \in 1..(Len(name) - 1)}
DeckNamed(c, name) == {d \in DOMAIN c.decks : c.decks[d].name = name}
child_decks(c, name) ==
    {d \in DOMAIN c.decks : IsStrictPrefix(name, c.decks[d].name)}

add_suffix(name) == [name EXCEPT ![Len(name)] = @ \o "+"]

\* Suffixes are added until no other deck has the name.
ensure_deck_name_unique(c, did, name) ==
    LET suffixed[n \in 0..Cardinality(DOMAIN c.decks)] ==
            IF n = 0 THEN name ELSE add_suffix(suffixed[n - 1])
        free == {n \in DOMAIN suffixed : DeckNamed(c, suffixed[n]) \subseteq {did}}
    IN suffixed[CHOOSE n \in free : \A m \in free : n <= m]

first_existing_parent(c, name) ==
    LET above == {d \in DOMAIN c.decks : c.decks[d].name \in parents(name)}
    IN {d \in above : \A e \in above : Len(c.decks[e].name) <= Len(c.decks[d].name)}

\* The nearest parent is created first.
create_missing_parents(c, name) ==
    LET Create(d, above) ==
            LET parent == SubSeq(name, 1, Len(name) - above)
            IN IF DeckNamed(d, parent) = {} THEN AddNext(d, "decks", Normal(parent)) ELSE d
    IN ForEach(Create, c, 1..(Len(name) - 1))

match_or_create_parents(c, name) ==
    LET parent == first_existing_parent(c, name)
    IN IF \E d \in parent : c.decks[d].filtered THEN Fail(c)
       ELSE IF \E d \in parent : Len(c.decks[d].name) = Len(name) - 1 THEN c
       ELSE create_missing_parents(c, name)

reparent(name, old, new) == new \o SubSeq(name, Len(old) + 1, Len(name))
rename_child_decks(c, old, new) ==
    ForEach(LAMBDA d, i : UpdateDeck(d, i, [d.decks[i] EXCEPT !.name = reparent(@, old, new)]),
            c, child_decks(c, old))

\* The test on the last component is one of text: a deck cannot be moved to a
\* sibling whose name continues its own either.
reparented_name(name, target) ==
    LET StartsWith(s, t) == Len(t) <= Len(s) /\ SubSeq(s, 1, Len(t)) = t
        n == Len(name)
        inside == /\ Len(target) >= n
                  /\ SubSeq(target, 1, n - 1) = SubSeq(name, 1, n - 1)
                  /\ target[1] = name[1]
                  /\ StartsWith(target[n], name[n])
    IN IF inside THEN name ELSE Append(target, name[n])

----------------------------------------------------------------------------
(* Adding, renaming and moving decks. *)

add_deck_inner(c, deck) ==
    LET name == ensure_deck_name_unique(c, 0, deck.name)
        d == match_or_create_parents(c, name)
    IN AddNext(d, "decks", [deck EXCEPT !.name = name])

\* The children are looked for after the parents were created, so that a deck
\* moved two levels under itself counts its new parent among its children.
update_deck_inner(c, did, deck) ==
    LET name == ensure_deck_name_unique(c, did, deck.name)
        new == [deck EXCEPT !.name = name]
        old == c.decks[did]
        made == match_or_create_parents(c, name)
    IN IF new = old THEN c
       ELSE IF name = old.name THEN UpdateDeck(c, did, new)
       ELSE create_missing_parents(
                UpdateDeck(rename_child_decks(made, old.name, name), did, new), name)

rename_deck(c, did, name) ==
    IF Has(c, "decks", did) THEN update_deck_inner(c, did, [c.decks[did] EXCEPT !.name = name])
    ELSE Fail(c)

\* A target that is gone counts as the top level.
reparent_decks(c, dids, target) ==
    LET into == IF Has(c, "decks", target) THEN c.decks[target].name ELSE <<>>
        Move(d, did) ==
            LET old == d.decks[did].name
                new == reparented_name(old, into)
                name == ensure_deck_name_unique(d, did, new)
            IN IF ~Has(d, "decks", did) \/ new = old THEN d
               ELSE UpdateDeck(rename_child_decks(d, old, name), did,
                               [d.decks[did] EXCEPT !.name = name])
    IN IF into # <<>> /\ c.decks[target].filtered THEN Fail(c) ELSE ForEach(Move, c, dids)

----------------------------------------------------------------------------
(* Filtered decks. *)

all_cards_in_single_deck(c, did) ==
    {i \in DOMAIN c.cards : did \in {c.cards[i].did, c.cards[i].odid}}

return_all_cards_in_filtered_deck(c, did) ==
    IF ~c.decks[did].filtered THEN Fail(c)
    ELSE ForEach(LAMBDA d, i : UpdateCard(d, i, remove_restoring_queue(d.cards[i])),
                 c, all_cards_in_single_deck(c, did))

\* Positions count up from far below every other due.
FirstFilteredPosition == -100
Matching(c, did) ==
    {i \in c.decks[did].pick \intersect DOMAIN c.cards :
        c.cards[i].queue \notin Hidden /\ c.cards[i].odid = 0}
build_filtered_deck(c, did) ==
    LET cids == Matching(c, did)
        Position(i) == FirstFilteredPosition + Cardinality({j \in cids : j < i})
    IN ForEach(LAMBDA d, i : UpdateCard(d, i, move_into_filtered_deck(
                   d.cards[i], did, c.decks[did].resched, Position(i))), c, cids)

rebuild_filtered_deck(c, did) ==
    IF ~Has(c, "decks", did) \/ ~c.decks[did].filtered THEN Fail(c)
    ELSE build_filtered_deck(return_all_cards_in_filtered_deck(c, did), did)

empty_filtered_deck(c, did) ==
    IF Has(c, "decks", did) THEN return_all_cards_in_filtered_deck(c, did) ELSE Fail(c)

\* did = 0 adds a deck; an empty result is refused unless allowed.
add_or_update_filtered_deck(c, did, deck, allow_empty) ==
    LET d == IF did = 0 THEN add_deck_inner(c, deck) ELSE update_deck_inner(c, did, deck)
        id == IF did = 0 THEN d.nextId - 1 ELSE did
        built == rebuild_filtered_deck(d, id)
    IN IF d.failed \/ built.failed \/ (~allow_empty /\ \A i \in DOMAIN built.cards : built.cards[i].did # id)
       THEN Fail(c)
       ELSE SetConfig(built, CurrentDeck, id)

----------------------------------------------------------------------------
(* Moving cards and removing decks. *)

\* Mutant: a card on loan comes home with the due of the filtered deck.
set_deck_as_rescheduled(c, cids, did) ==
    IF ~Has(c, "decks", did) \/ c.decks[did].filtered THEN Fail(c)
    ELSE ForEach(LAMBDA d, i : UpdateCard(d, i, [remove_before_reschedule(d.cards[i]) EXCEPT
                     !.did = did, !.queue = queue_from_type(d.cards[i])]),
                 c, {i \in Live(c, cids) : c.cards[i].did # did})

\* Cards already shown in the deck are left alone, those lent to others come home.
set_deck(c, cids, did) ==
    IF ~Has(c, "decks", did) \/ c.decks[did].filtered THEN Fail(c)
    ELSE ForEach(LAMBDA d, i : UpdateCard(d, i, [remove_restoring_queue(d.cards[i]) EXCEPT !.did = did]),
                 c, {i \in Live(c, cids) : c.cards[i].did # did})

DefaultName == <<"Default">>

\* The default deck is only renamed.
remove_single_deck(c, did) ==
    LET emptied == IF c.decks[did].filtered THEN return_all_cards_in_filtered_deck(c, did)
                   ELSE remove_cards_and_orphaned_notes(c, all_cards_in_single_deck(c, did))
        d == ClearConfig(emptied, LastNotetype(did))
    IN IF did # DefaultDeck THEN RemoveWithGrave(d, "decks", did)
       ELSE UpdateDeck(d, did, [d.decks[did] EXCEPT !.name =
                ensure_deck_name_unique(d, did, DefaultName)])

remove_decks_and_child_decks(c, dids) ==
    LET RemoveTree(d, did) ==
            IF ~Has(d, "decks", did) THEN d
            ELSE ForEach(remove_single_deck, remove_single_deck(d, did),
                         child_decks(d, d.decks[did].name))
    IN ForEach(RemoveTree, c, dids)

recover_missing_deck(c, did) ==
    AddRow(c, "decks", did, Normal(ensure_deck_name_unique(c, did, <<"recovered" \o ToString(did)>>)))
=============================================================================
