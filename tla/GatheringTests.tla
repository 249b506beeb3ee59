--------------------------- MODULE GatheringTests ---------------------------
(***************************************************************************)
(* What the unit tests of scheduler/queue/builder, decks/tree.rs and       *)
(* decks/limits.rs expect, asked of the operators that model them; and     *)
(* what must hold of every small tree of decks and list of cards.          *)
(***************************************************************************)
LOCAL INSTANCE Integers
LOCAL INSTANCE FiniteSets
LOCAL INSTANCE SequencesExt
LOCAL INSTANCE Sequences
LOCAL INSTANCE Gathering

LOCAL Preset ==
    [reviewsPerDay |-> 200, newPerDay |-> 20, bury |-> {}, newOrder |-> "noSort", newGather |-> "deck",
     reviewOrder |-> "day", dayLearnMix |-> "mix", newMix |-> "mix"]
LOCAL NoDayLimit == [day |-> Unset, limit |-> 0]
LOCAL DeckWith(id, name, preset) ==
    [id |-> id, name |-> name, filtered |-> FALSE, reviewLimit |-> Unset, newLimit |-> Unset,
     reviewLimitToday |-> NoDayLimit, newLimitToday |-> NoDayLimit,
     studied |-> [day |-> 0, new |-> 0, review |-> 0], preset |-> preset]
LOCAL Config ==
    [today |-> 0, nextDayAt |-> 100, learnAhead |-> 20, fsrs |-> FALSE, newIgnoreReviews |-> FALSE,
     allParentLimits |-> FALSE]
LOCAL New(id, note, ord, deck, position) ==
    [id |-> id, note |-> note, ord |-> ord, deck |-> deck, home |-> Unset, kind |-> "new",
     due |-> position, interval |-> 0, ease |-> 0, reps |-> 0, hash |-> id, noteHash |-> note]
LOCAL Due(kind, id, note, deck, due, interval) ==
    [New(id, note, id % 2, deck, due) EXCEPT !.kind = kind, !.interval = interval]
LOCAL Queue(decks, cards, current, config) ==
    build_queues(QueueBuilder(decks, current, config), cards, 0)

----------------------------------------------------------------------------
(* The tests of the repository. *)

LOCAL Family(gather) ==
    LET top == [Preset EXCEPT !.newGather = gather]
    IN <<DeckWith(1, <<1>>, top), DeckWith(2, <<1, 1>>, [Preset EXCEPT !.newPerDay = 3]),
         DeckWith(3, <<1, 1, 1>>, Preset), DeckWith(4, <<1, 2>>, Preset)>>
LOCAL FamilyCards ==
    [i \in 1..8 |-> New(i, (i + 1) \div 2, (i + 1) % 2, <<1, 1, 2, 2, 4, 4, 3, 3>>[i], (i + 1) \div 2)]
LOCAL FamilyQueue(gather) ==
    LET main == Queue(Family(gather), FamilyCards, 1, Config).main
    IN [i \in DOMAIN main |-> <<main[i].deck, main[i].ord>>]

\* A child's limit holds for the grandchild, in each order of gathering (new_queue_building).
ASSUME NewQueueBuilding ==
    /\ FamilyQueue("deck") = << <<1, 0>>, <<1, 1>>, <<2, 0>>, <<2, 1>>, <<3, 0>>, <<4, 0>>, <<4, 1>> >>
    /\ FamilyQueue("lowestPosition") =
           << <<1, 0>>, <<1, 1>>, <<2, 0>>, <<2, 1>>, <<4, 0>>, <<4, 1>>, <<3, 0>> >>
    /\ FamilyQueue("highestPosition") =
           << <<3, 0>>, <<3, 1>>, <<4, 0>>, <<4, 1>>, <<2, 0>>, <<1, 0>>, <<1, 1>> >>

LOCAL Overdue ==
    << <<-150, 1>>, <<-100, 1>>, <<-50, 1>>, <<-150, 5>>, <<-100, 5>>, <<-50, 5>>, <<-150, 20>>,
       <<-150, 20>>, <<-100, 20>>, <<-50, 20>>, <<-150, 100>>, <<-100, 100>>, <<-50, 100>>,
       <<0, 1>>, <<0, 5>>, <<0, 20>>, <<0, 100>> >>

\* Reviews by how overdue they are for their interval, whatever order they are stored in
\* (review_queue_building).
ASSUME ReviewQueueBuilding ==
    LET cards == [i \in DOMAIN Overdue |-> Due("review", i, i, 1, Overdue[i][1], Overdue[i][2])]
        decks == <<DeckWith(1, <<1>>, [Preset EXCEPT !.reviewOrder = "relativeOverdueness"])>>
        Shown(list) == LET main == Queue(decks, list, 1, Config).main
                       IN [i \in DOMAIN main |-> <<main[i].due, main[i].interval>>]
    IN Shown(cards) = Overdue /\ Shown(Reverse(cards)) = Overdue

\* should_build_empty_queue_if_limit_is_reached, new_cards_may_ignore_review_limit,
\* reviews_dont_affect_new_limit_before_review_limit_is_reached, may_apply_parent_limits.
ASSUME LimitsOfTheDay ==
    LET alone(preset) == <<DeckWith(1, <<1>>, preset)>>
        siblings == <<Due("review", 1, 1, 1, 0, 1), New(2, 1, 1, 1, 1)>>
        withChild == alone([Preset EXCEPT !.newPerDay = 0]) \o <<DeckWith(2, <<1, 1>>, Preset)>>
        childCard == <<New(1, 1, 0, 2, 1)>>
    IN /\ Queue(alone([Preset EXCEPT !.reviewsPerDay = 0]), <<Due("review", 1, 1, 1, 0, 1)>>, 1, Config).main
          = <<>>
       /\ Len(Queue(alone([Preset EXCEPT !.reviewsPerDay = 0]), <<New(1, 1, 0, 1, 1)>>, 1,
                    [Config EXCEPT !.newIgnoreReviews = TRUE]).main) = 1
       /\ Len(Queue(alone([Preset EXCEPT !.newPerDay = 1]), siblings, 1, Config).main) = 2
       /\ Queue(withChild, childCard, 2, [Config EXCEPT !.allParentLimits = TRUE]).main = <<>>
       /\ Len(Queue(withChild, childCard, 2, Config).main) = 1

\* The review comes with its new sibling, which would bury it if answered first: what is
\* shown first is decided after both were gathered (new_card_potentially_burying_review_card).
ASSUME NewCardPotentiallyBuryingReviewCard ==
    LET preset == [Preset EXCEPT !.newMix = "before", !.bury = {"review"}]
        cards == <<Due("review", 1, 1, 1, 0, 1), New(2, 1, 1, 1, 1)>>
    IN Len(Queue(<<DeckWith(1, <<1>>, preset)>>, cards, 1, Config).main) = 2

\* A limit of three reviews leaves two reviews and one new card (new_limited_by_reviews).
ASSUME NewLimitedByReviews ==
    LET cards == <<Due("review", 1, 1, 1, 0, 1), Due("review", 2, 2, 1, 0, 1), New(3, 3, 0, 1, 1),
                   New(4, 4, 0, 1, 2)>>
        decks == <<DeckWith(1, <<1>>, [Preset EXCEPT !.reviewsPerDay = 3, !.newMix = "before"])>>
        queue == Queue(decks, cards, 1, Config)
    IN /\ queue.counts = [new |-> 1, learning |-> 0, review |-> 2]
       /\ [i \in DOMAIN queue.main |-> queue.main[i].id] = <<3, 1, 2>>

\* builder/intersperser.rs, interspersing.
ASSUME Interspersing ==
    LET a == <<1, 2, 3>> b == <<11, 22, 33, 44, 55, 66, 77, 88>>
        Mixed(n) == Intersperser(a, SubSeq(b, 1, n))
    IN /\ Mixed(3) = <<1, 11, 2, 22, 3, 33>> /\ Mixed(2) = <<1, 11, 2, 22, 3>> /\ Mixed(0) = a
       /\ Mixed(6) = <<11, 1, 22, 33, 2, 44, 55, 3, 66>>
       /\ Mixed(8) = <<11, 22, 1, 33, 44, 2, 55, 66, 3, 77, 88>>

\* decks/tree.rs: wellformed, malformed, counts and nested_counts_v3.
ASSUME DeckTree ==
    LET named(names) == [i \in DOMAIN names |-> DeckWith(i, names[i], Preset)]
        Whole(decks) == Tree(<<DeckWith(0, <<>>, Preset)>> \o decks)
        limited(new) == [Preset EXCEPT !.newPerDay = new]
        nested == <<DeckWith(1, <<1>>, limited(8)), DeckWith(2, <<1, 1>>, limited(4)),
                    DeckWith(3, <<1, 1, 1>>, limited(2)), DeckWith(4, <<1, 1, 2>>, limited(1))>>
        cards == [i \in 1..8 |-> New(i, (i + 1) \div 2, i % 2, (i + 1) \div 2, i)]
        Counts(decks, list) == LET c == sum_counts_and_apply_limits(decks, list, Config, 20)
                               IN [i \in DOMAIN c |-> c[i].new]
        four == [i \in 1..4 |-> New(i, 1, i, 2, 1)]
        Studied(new, limit) ==
            [i \in 1..2 |-> [DeckWith(i, <<<<1>>, <<1, 1>>>>[i], limited(limit)) EXCEPT !.studied.new = new]]
    IN /\ Whole(named(<< <<1>>, <<2>>, <<2, 1>>, <<2, 2>>, <<2, 3>>, <<2, 3, 1>>, <<3>> >>)) =
              [i \in 0..7 |-> << {0}, {0, 1}, {0, 2}, {0, 2, 3}, {0, 2, 4}, {0, 2, 5}, {0, 2, 5, 6}, {0, 7} >>[i + 1]]
       /\ Whole(<<DeckWith(1, <<1>>, Preset), DeckWith(4, <<2, 3, 4>>, Preset)>>) = [i \in 0..1 |-> 0..i]
       /\ Counts(nested, cards) = <<6, 4, 2, 1>>
       /\ Counts(Studied(0, 20), four) = <<4, 4>> /\ Counts(Studied(1, 20), four) = <<4, 4>>
       /\ Counts(Studied(1, 4), four) = <<3, 3>>
\* Whatever levels the names have, the tree of the decks that find a place is one: the way
\* to a deck passes through the ways to the decks on it (limits.rs, add_child_nodes).
ASSUME TreeIsRooted ==
    \A levels \in [1..5 -> 1..4] :
        Rooted(Tree([i \in 1..5 |-> DeckWith(i, [k \in 1..levels[i] |-> i], Preset)]))

----------------------------------------------------------------------------
(* Every small tree: three decks in a line or with two below one, each with *)
(* none to four reviews and none or one new card left for the day.          *)

LOCAL Shapes == {<< <<1>>, <<1, 1>>, <<1, 1, 1>> >>, << <<1>>, <<1, 1>>, <<1, 2>> >>}
LOCAL Pile(kind, first, count, deck) ==
    [i \in 1..count |-> IF kind = "new" THEN New(first + i, (first + i) % 3, 0, deck, i)
                        ELSE Due(kind, first + i, (first + i) % 3, deck, 0, 1)]
LOCAL Piles ==
    {Pile("review", 0, 2, 1) \o Pile("daylearn", 2, 1, 2) \o Pile("new", 3, 2, 3),
     Pile("review", 0, 2, 2) \o Pile("daylearn", 2, 1, 3) \o Pile("new", 3, 1, 1) \o Pile("new", 4, 1, 2),
     Pile("review", 0, 2, 3) \o Pile("daylearn", 2, 1, 1) \o Pile("new", 3, 2, 2) \o Pile("new", 5, 1, 1)}
LOCAL Holds(Fact(_, _, _, _), bury, piles) ==
    \A names \in Shapes, reviews \in [1..3 -> {0, 2}] \union {<<2, 1, 1>>, <<1, 2, 1>>, <<4, 1, 2>>},
       new \in {<<1, 1, 1>>, <<1, 0, 1>>, <<0, 1, 1>>, <<1, 1, 0>>}, ignore \in BOOLEAN, cards \in piles :
        LET decks == [i \in 1..3 |-> DeckWith(i, names[i],
                          [Preset EXCEPT !.reviewsPerDay = reviews[i], !.newPerDay = new[i], !.bury = bury])]
            config == [Config EXCEPT !.newIgnoreReviews = ignore]
        IN Fact(decks, cards, config, gather_cards(QueueBuilder(decks, 1, config), cards).cards)
LOCAL Shown(decks, gathered, deck, kinds) ==
    Len(SelectSeq(gathered, LAMBDA c : c.kind \in kinds /\ IsPrefix(decks[deck].name, decks[c.deck].name)))

\* However cards are buried, no deck shows more than is left of its own limits, its
\* subdecks included (limits.rs, decrement_deck_and_parent_limits).
LOCAL Within(decks, cards, config, gathered) ==
    \A d \in DOMAIN decks :
        LET limits == RemainingLimits(decks[d], config.today, config.newIgnoreReviews)
        IN /\ Shown(decks, gathered, d, {"review", "daylearn"}) <= limits.review
           /\ Shown(decks, gathered, d, {"new"}) <= limits.new
           /\ limits.capNew => Shown(decks, gathered, d, {"new", "review", "daylearn"}) <= limits.review
ASSUME NoDeckAboveItsLimits == Holds(Within, {"new", "review"}, Piles)

\* Without burying, the deck list counts exactly what studying the deck gathers, although
\* one sums up from the leaves and the other takes card after card (tree.rs, gathering.rs).
LOCAL AsListed(decks, cards, config, gathered) ==
    LET count == sum_counts_and_apply_limits(decks, cards, config, 20)[1]
    IN /\ Shown(decks, gathered, 1, {"new"}) = count.new
       /\ Shown(decks, gathered, 1, {"review"}) = count.review
       /\ Shown(decks, gathered, 1, {"daylearn"}) = count.interday
ASSUME DeckListAgrees == Holds(AsListed, {}, Piles)

\* A deck whose parent is missing hangs below the deck listed before it, and takes that
\* deck's limits; if it hangs nowhere, the queue of the decks above it cannot be built.
ASSUME MissingParents ==
    LET root == DeckWith(1, <<1>>, Preset)
        other == DeckWith(2, <<1, 1>>, [Preset EXCEPT !.newPerDay = 0])
        lost == DeckWith(3, <<1, 2, 1>>, Preset)
        cards == <<New(1, 1, 0, 3, 1)>>
    IN /\ Queue(<<root, other, lost>>, cards, 1, Config).main = <<>>
       /\ Queue(<<root, lost>>, cards, 1, Config).failed
       /\ Len(Queue(<<root, lost>>, cards, 3, Config).main) = 1

\* Custom study: n more new cards are n more reviews as well, while new cards count for the
\* limit of reviews; the parents' limits give way only where they apply (stats.rs).
ASSUME ExtendedLimits ==
    LET decks == [i \in 1..2 |-> DeckWith(i, << <<1>>, <<1, 1>> >>[i], Preset)]
        extended(all) == extend_limits(decks, 2, 0, 5, 0, [Config EXCEPT !.allParentLimits = all])
    IN /\ extended(FALSE)[1] = decks[1]
       /\ extended(TRUE)[1].studied = [day |-> 0, new |-> -5, review |-> 0]
       /\ RemainingLimits(extended(FALSE)[2], 0, FALSE) = [review |-> 205, new |-> 25, capNew |-> TRUE]
       /\ RemainingLimits(extended(FALSE)[2], 1, FALSE) = [review |-> 200, new |-> 20, capNew |-> TRUE]
       /\ update_deck_stats(extended(FALSE), 2, 1, 1, 2) =
              [i \in 1..2 |-> [decks[i] EXCEPT !.studied = [day |-> 1, new |-> 1, review |-> 2]]]
=============================================================================
