----------------------------- MODULE Gathering -----------------------------
(***************************************************************************)
(* How the queue of a deck and its subdecks is gathered and ordered        *)
(* (rslib/src/scheduler/queue/builder), how the deck list counts the same  *)
(* cards (decks/tree.rs), and how the counters behind the limits move      *)
(* (decks/stats.rs, scheduler/filtered/custom_study.rs).                   *)
(*                                                                         *)
(* A card names its deck, and the deck it was lent from (home).  Random     *)
(* orders go by a hash of the card or of the note with a salt; here the     *)
(* card carries one of each.  Decks are listed by name, which is the order  *)
(* their places give.  Cards that an order does not tell apart come by id.  *)
(***************************************************************************)
EXTENDS DeckLimits, FiniteSets, FiniteSetsExt, SequencesExt, TLC

\* x before y by the first place in which their keys differ.
KeyBefore(x, y) ==
    \E i \in DOMAIN x : x[i] < y[i] /\ \A j \in 1..(i - 1) : x[j] = y[j]
SortedBy(cards, Key(_)) ==
    SortSeq(cards, LAMBDA a, b : KeyBefore(Append(Key(a), a.id), Append(Key(b), b.id)))

----------------------------------------------------------------------------
(* The orders of gathering: storage/card/mod.rs. *)

\* Overdue days by interval: reviews that are the most overdue come first.
LOCAL Overdueness(c, today) == (((today - c.due) * 1000 + 1) * 1000) \div c.interval

\* FSRS keeps a difficulty where the older scheduler keeps an ease.
review_order_sql(order, fsrs, today, place, c) ==
    CASE order = "day" -> <<c.due, c.hash>>
      [] order = "dayThenDeck" -> <<c.due, place, c.hash>>
      [] order = "deckThenDay" -> <<place, c.due, c.hash>>
      [] order = "intervalsAscending" -> <<c.interval, c.hash>>
      [] order = "intervalsDescending" -> <<-c.interval, c.hash>>
      [] order = "easeAscending" -> <<IF fsrs THEN -c.difficulty ELSE c.ease, c.hash>>
      [] order = "easeDescending" -> <<IF fsrs THEN c.difficulty ELSE -c.ease, c.hash>>
      [] order = "relativeOverdueness" -> <<-Overdueness(c, today), c.hash>>
      [] order = "random" -> <<c.hash>>
      [] order = "added" -> <<c.note, c.ord, c.hash>>
      [] order = "reverseAdded" -> <<-c.note, c.ord, c.hash>>

NewCardSorting(priority, place, c) ==
    CASE priority = "deck" -> <<place, c.due, c.ord>>
      [] priority = "deckThenRandomNotes" -> <<place, c.noteHash, c.ord>>
      [] priority = "lowestPosition" -> <<c.due, c.ord>>
      [] priority = "highestPosition" -> <<-c.due, c.ord>>
      [] priority = "randomNotes" -> <<c.noteHash, c.ord>>
      [] priority = "randomCards" -> <<c.hash>>

----------------------------------------------------------------------------
(* Gathering: builder/gathering.rs and burying.rs.  q is the QueueBuilder:  *)
(* the options of the studied deck with what new() adds to them.            *)

\* A note that was seen buries its siblings of the kinds its presets name.
LOCAL Home(c) == IF c.home = Unset THEN c.deck ELSE c.home
bury_mode(q, deck) == IF q.deck[deck].filtered THEN {} ELSE q.deck[deck].preset.bury
LOCAL Seen(acc, c) == IF c.note \in DOMAIN acc.seen THEN acc.seen[c.note] ELSE {}
get_and_update_bury_mode_for_note(q, acc, c) ==
    [acc EXCEPT !.seen = (c.note :> (Seen(acc, c) \union bury_mode(q, Home(c)))) @@ @]

LOCAL LimitKind(c) == IF c.kind = "new" THEN "new" ELSE "review"

\* A buried card has been seen, but does not count for the limits.
add_card(q, acc, c) ==
    LET noted == get_and_update_bury_mode_for_note(q, acc, c) IN
    IF c.kind \in Seen(acc, c) THEN noted
    ELSE [noted EXCEPT !.cards = Append(@, c),
                       !.limits = decrement_deck_and_parent_limits(q.tree, @, c.deck, LimitKind(c))]

\* Gathering fails at a deck that has no place in the tree.
gather_card(q, acc, c) ==
    IF acc.failed \/ root_limit_reached(q.tree, acc.limits, LimitKind(c)) THEN acc
    ELSE IF c.deck \notin DOMAIN q.tree THEN [acc EXCEPT !.failed = TRUE]
    ELSE IF limit_reached(acc.limits, c.deck, LimitKind(c)) THEN acc
    ELSE add_card(q, acc, c)

gather_each(q, acc, cards) == FoldLeft(LAMBDA a, c : gather_card(q, a, c), acc, cards)

gather_intraday_learning_cards(q, acc, cards) ==
    FoldLeft(LAMBDA a, c : [get_and_update_bury_mode_for_note(q, a, c) EXCEPT !.cards = Append(@, c)],
             acc, cards)

\* Deck by deck, a deck without a place fails even if it has no new cards.
gather_new_cards(q, acc, cards) ==
    LET OfDeck(a, deck) ==
            IF a.failed \/ root_limit_reached(q.tree, a.limits, "new") THEN a
            ELSE IF deck \notin DOMAIN q.tree THEN [a EXCEPT !.failed = TRUE]
            ELSE gather_each(q, a, SelectSeq(cards, LAMBDA c : c.deck = deck))
    IN IF q.options.newGather \in {"deck", "deckThenRandomNotes"} THEN FoldLeft(OfDeck, acc, q.active)
       ELSE gather_each(q, acc, cards)

\* First what is in its learning steps, then reviews, then new cards.
gather_cards(q, cards) ==
    LET Of(kind, due) == SelectSeq(cards, LAMBDA c : /\ c.kind = kind
                                                     /\ c.deck \in ToSet(q.active)
                                                     /\ (kind = "new" \/ c.due <= due))
        ByReview(c) == review_order_sql(q.options.reviewOrder, q.fsrs, q.today, q.place[c.deck], c)
        ByNew(c) == NewCardSorting(q.options.newGather, q.place[c.deck], c)
        start == [cards |-> <<>>, seen |-> <<>>, limits |-> q.limits, failed |-> FALSE]
        learning == gather_intraday_learning_cards(q, start, Of("learn", q.nextDayAt))
        interday == gather_each(q, learning, SortedBy(Of("daylearn", q.today), ByReview))
        reviews == gather_each(q, interday, SortedBy(Of("review", q.today), ByReview))
    IN gather_new_cards(q, reviews, SortedBy(Of("new", 0), ByNew))

\* The decks below one, and the chain of decks above it up to the first missing name.
child_decks(decks, deck) == SelectSeq(decks, LAMBDA d : IsStrictPrefix(deck.name, d.name))
parent_decks(decks, deck) ==
    LET named(n) == \E i \in DOMAIN decks : decks[i].name = n
    IN SelectSeq(decks, LAMBDA d : /\ IsStrictPrefix(d.name, deck.name)
                                   /\ \A n \in Len(d.name)..(Len(deck.name) - 1) :
                                          named(SubSeq(deck.name, 1, n)))

\* A filtered deck is shown as it was gathered.
sort_options(deck) ==
    IF ~deck.filtered THEN deck.preset
    ELSE [newOrder |-> "noSort", newGather |-> "deck", reviewOrder |-> "day",
          dayLearnMix |-> "mix", newMix |-> "mix"]

\* With the option to apply the limits of all parents, the tree begins at the top.
QueueBuilder(decks, current, config) ==
    LET deck == decks[CHOOSE i \in DOMAIN decks : decks[i].id = current]
        below == <<deck>> \o child_decks(decks, deck)
        list == IF config.allParentLimits THEN parent_decks(decks, deck) \o below ELSE below
        tree == Tree(list)
        Place(id) == CHOOSE i \in DOMAIN decks : decks[i].id = id
        ids == {decks[i].id : i \in DOMAIN decks}
    IN config @@
       [options |-> sort_options(deck), deck |-> [id \in ids |-> decks[Place(id)]],
        place |-> [id \in ids |-> Place(id)], tree |-> tree,
        active |-> [i \in DOMAIN below |-> below[i].id],
        limits |-> LimitTreeMap(list, tree, config.today, config.newIgnoreReviews)]

----------------------------------------------------------------------------
(* The order of the queue: builder/sorting.rs, intersperser.rs, mod.rs. *)

sort_new(order, cards) ==
    LET Gathered(c) == CHOOSE i \in DOMAIN cards : cards[i] = c
        Key(c) == CASE order = "noSort" -> <<Gathered(c)>>
                    [] order = "template" -> <<c.ord, Gathered(c)>>
                    [] order = "templateThenRandom" -> <<c.ord, c.hash>>
                    [] order = "randomNoteThenTemplate" -> <<c.noteHash, c.ord>>
                    [] order = "randomCard" -> <<c.hash>>
    IN SortedBy(cards, Key)

\* Cards that were tried before come first.
sort_learning(cards) == SortedBy(cards, LAMBDA c : <<IF c.reps = 0 THEN 1 ELSE 0, c.due>>)

\* Both lists are spread evenly over the whole; where they tie, one is first.
Intersperser(one, two) ==
    LET before(i) == Cardinality({j \in DOMAIN two : j * (Len(one) + 1) < i * (Len(two) + 1)})
        after(j) == Cardinality({i \in DOMAIN one : j * (Len(one) + 1) >= i * (Len(two) + 1)})
    IN [k \in 1..(Len(one) + Len(two)) |->
            IF \E i \in DOMAIN one : k = i + before(i)
            THEN one[CHOOSE i \in DOMAIN one : k = i + before(i)]
            ELSE two[CHOOSE j \in DOMAIN two : k = j + after(j)]]

merge_day_learning(reviews, learning, mode) ==
    CASE mode = "after" -> reviews \o learning
      [] mode = "before" -> learning \o reviews
      [] mode = "mix" -> Intersperser(reviews, learning)
merge_new(reviews, new, mode) ==
    CASE mode = "after" -> reviews \o new
      [] mode = "before" -> new \o reviews
      [] mode = "mix" -> Intersperser(reviews, new)

build_queues(q, cards, now) ==
    LET gathered == gather_cards(q, cards)
        Of(kind) == SelectSeq(gathered.cards, LAMBDA c : c.kind = kind)
        due == SelectSeq(Of("learn"), LAMBDA c : c.due <= now + q.learnAhead)
        reviews == merge_day_learning(Of("review"), Of("daylearn"), q.options.dayLearnMix)
    IN [failed |-> gathered.failed,
        main |-> merge_new(reviews, sort_new(q.options.newOrder, Of("new")), q.options.newMix),
        intraday |-> sort_learning(Of("learn")),
        counts |-> [new |-> Len(Of("new")), review |-> Len(Of("review")),
                    learning |-> Len(due) + Len(Of("daylearn"))]]

----------------------------------------------------------------------------
(* The counts of the deck list: decks/tree.rs.  Its tree hangs all decks    *)
(* below a top that has no limits.                                          *)

due_counts(cards, deck, today, learnCutoff) ==
    LET Count(kind, due) == Len(SelectSeq(cards, LAMBDA c : /\ c.deck = deck
                                                            /\ c.kind = kind
                                                            /\ (kind = "new" \/ c.due <= due)))
    IN [new |-> Count("new", 0), review |-> Count("review", today),
        interday |-> Count("daylearn", today), intraday |-> Count("learn", learnCutoff - 1)]

\* Learning comes out of the limit for reviews, new cards out of what is left of it.
capped(counts, remaining) ==
    LET interday == Minimum({counts.interday, remaining.review})
        review == Minimum({counts.review, remaining.review - interday})
        left == IF remaining.capNew THEN remaining.review - interday - review ELSE counts.new
    IN [counts EXCEPT !.interday = interday, !.review = review,
                      !.new = Minimum({@, remaining.new, left})]

\* Each deck adds its children's capped counts to its own.
sum_counts_and_apply_limits(decks, cards, options, learnCutoff) ==
    LET top == [id |-> 0, name |-> <<>>, filtered |-> TRUE]
        tree == Tree(<<top>> \o decks)
        ids == DOMAIN tree \ {0}
        deck(id) == decks[CHOOSE i \in DOMAIN decks : decks[i].id = id]
        own == [id \in ids |-> RemainingLimits(deck(id), options.today, options.newIgnoreReviews)]
        Remaining(id) ==
            IF ~options.allParentLimits THEN own[id]
            ELSE cap_to(own[id], {own[a] : a \in tree[id] \ {0}} \union {NoLimits})
        count == [id \in ids |-> due_counts(cards, id, options.today, learnCutoff)]
        Children(id) == {c \in ids : tree[c] = tree[id] \union {c} /\ c # id}
        f[id \in ids] ==
            LET Sum(field) == count[id][field] + MapThenSumSet(LAMBDA x : f[x][field], Children(id))
            IN capped([new |-> Sum("new"), review |-> Sum("review"), interday |-> Sum("interday"),
                       intraday |-> Sum("intraday")], Remaining(id))
    IN f

----------------------------------------------------------------------------
(* The counters: decks/stats.rs.  A new day begins them at zero.            *)

reset_stats_if_day_changed(deck, today) ==
    IF deck.studied.day = today THEN deck
    ELSE [deck EXCEPT !.studied = [day |-> today, new |-> 0, review |-> 0]]

LOCAL Counted(decks, ids, today, new, review) ==
    [i \in DOMAIN decks |->
        IF decks[i].id \notin ids THEN decks[i]
        ELSE [reset_stats_if_day_changed(decks[i], today) EXCEPT !.studied.new = @ + new,
                                                                !.studied.review = @ + review]]
LOCAL Deck(decks, id) == decks[CHOOSE i \in DOMAIN decks : decks[i].id = id]
LOCAL ParentIds(decks, id) ==
    LET parents == parent_decks(decks, Deck(decks, id)) IN {parents[i].id : i \in DOMAIN parents}

\* An answer counts for the deck and all its parents.
update_deck_stats(decks, id, today, new, review) ==
    Counted(decks, {id} \union ParentIds(decks, id), today, new, review)

\* More cards for today are fewer that were studied; parents follow if their limits apply.
extend_limits(decks, id, today, new, review, options) ==
    Counted(decks, {id} \union (IF options.allParentLimits THEN ParentIds(decks, id) ELSE {}),
            today, -new, -review)
=============================================================================
