----------------------------- MODULE DeckLimits -----------------------------
(***************************************************************************)
(* How many new cards and reviews each deck of a tree may still show today *)
(* while a queue is gathered: rslib/src/decks/limits.rs.                   *)
(*                                                                         *)
(* A deck is a record: its id, its name (a sequence of components), whether *)
(* it is filtered, its own limits (Unset where it has none) and those of  *)
(* its preset, and what was studied of it.  A tree gives, for each deck in  *)
(* it, the decks on the way from the root down to it, itself included.     *)
(***************************************************************************)
EXTENDS Integers, Sequences

Unset == -1
Minimum(S) == CHOOSE n \in S : \A m \in S : n <= m
Smaller(a, b) == IF a < b THEN a ELSE b
unwrap_or(limit, other) == IF limit = Unset THEN other ELSE limit

\* A limit for one day only; the day is Unset where there is none.
limit_if_today(limit, today) == IF limit.day = today THEN limit.limit ELSE Unset
current_review_limit(deck, today) == unwrap_or(limit_if_today(deck.reviewLimitToday, today), deck.reviewLimit)
current_new_limit(deck, today) == unwrap_or(limit_if_today(deck.newLimitToday, today), deck.newLimit)

new_rev_counts(deck, today) ==
    IF deck.studied.day = today THEN deck.studied ELSE [day |-> today, new |-> 0, review |-> 0]

\* A filtered deck has no limits of its own, nor has one whose preset is missing.
NoLimits == [review |-> 9999, new |-> 9999, capNew |-> FALSE]

RemainingLimits(deck, today, newIgnoreReviews) ==
    LET count == new_rev_counts(deck, today)
        reviews == unwrap_or(current_review_limit(deck, today), deck.preset.reviewsPerDay) - count.review
        new == unwrap_or(current_new_limit(deck, today), deck.preset.newPerDay) - count.new
        left == IF newIgnoreReviews THEN reviews ELSE reviews - count.new
        capped == IF newIgnoreReviews THEN new ELSE Smaller(new, left)
        OrZero(n) == IF n < 0 THEN 0 ELSE n
    IN IF deck.filtered THEN NoLimits
       ELSE [review |-> OrZero(left), new |-> OrZero(capped), capNew |-> ~newIgnoreReviews]

\* No more of either kind than any of the others has left.
cap_to(limits, others) ==
    [limits EXCEPT !.review = Minimum({@} \union {o.review : o \in others}),
                   !.new = Minimum({@} \union {o.new : o \in others})]

\* A review uses up the place of a new card as well, if the limit is common.
LessOne(n) == IF n = 0 THEN 0 ELSE n - 1
decrement(limits, kind) ==
    IF kind = "new" THEN [limits EXCEPT !.new = LessOne(@)]
    ELSE [limits EXCEPT !.review = LessOne(@),
                        !.new = IF limits.capNew THEN Smaller(@, LessOne(limits.review)) ELSE @]
count_reached_zero(before, after) ==
    \/ before.review > 0 /\ after.review = 0
    \/ before.new > 0 /\ after.new = 0

----------------------------------------------------------------------------
(* The tree: LimitTreeMap::build.  The decks come sorted by name, which is *)
(* depth first; a deck whose parent is missing hangs below the last deck   *)
(* of the level above it, or nowhere if there is none.                     *)

\* The way to the deck that was placed last, after each deck: <<>> after the list
\* left the root's hierarchy.
LOCAL Ways(decks) ==
    LET w[i \in 1..Len(decks)] ==
            IF i = 1 THEN <<decks[1].id>>
            ELSE LET depth == Len(decks[i].name) - Len(decks[1].name)
                     last == w[i - 1]
                 IN CASE last = <<>> \/ depth <= 0 -> <<>>
                      [] depth > Len(last) -> last
                      [] OTHER -> Append(SubSeq(last, 1, depth), decks[i].id)
    IN w

Tree(decks) ==
    LET ways == Ways(decks)
        placed == {i \in DOMAIN decks : ways[i] # <<>> /\ ways[i][Len(ways[i])] = decks[i].id}
        place(id) == CHOOSE i \in placed : decks[i].id = id
    IN [id \in {decks[i].id : i \in placed} |-> {ways[place(id)][k] : k \in 1..Len(ways[place(id)])}]

\* A deck starts with no more than the decks above it.
LimitTreeMap(decks, tree, today, newIgnoreReviews) ==
    LET deck(id) == decks[CHOOSE i \in DOMAIN decks : decks[i].id = id]
        own == [id \in DOMAIN tree |-> RemainingLimits(deck(id), today, newIgnoreReviews)]
    IN [id \in DOMAIN tree |-> cap_to(own[id], {own[a] : a \in tree[id]})]

root_limit_reached(tree, limits, kind) == \E root \in DOMAIN tree : tree[root] = {root} /\ limits[root][kind] = 0
limit_reached(limits, deck, kind) == limits[deck][kind] = 0

\* A card of a deck counts for the deck and all above it; where that uses up a limit,
\* no deck below has any of it left.
decrement_deck_and_parent_limits(tree, limits, deck, kind) ==
    LET counted == [x \in DOMAIN tree |->
                        IF x \in tree[deck] THEN decrement(limits[x], kind) ELSE limits[x]]
        full == {a \in tree[deck] : count_reached_zero(limits[a], counted[a])}
    IN [x \in DOMAIN tree |-> cap_to(counted[x], {counted[a] : a \in full \intersect tree[x]})]

----------------------------------------------------------------------------
(* What the limits promise, for any tree: what was shown of a deck and its  *)
(* subdecks and what it has left stay within what it had, and no deck has   *)
(* any left where one above it has none.                                    *)

Kinds == {"new", "review"}
Rooted(tree) ==
    \A x \in DOMAIN tree : /\ x \in tree[x] /\ tree[x] \subseteq DOMAIN tree
                           /\ \A a \in tree[x] : tree[a] \subseteq tree[x]
WithinLimits(tree, initial, shown, limits) ==
    \A x \in DOMAIN tree, k \in Kinds : shown[x][k] + limits[x][k] <= initial[x][k]
Exhausted(tree, limits) ==
    \A x \in DOMAIN tree : \A a \in tree[x], k \in Kinds : limits[a][k] = 0 => limits[x][k] = 0
CountShown(tree, shown, deck, kind) ==
    [x \in DOMAIN tree |-> IF x \in tree[deck] THEN [shown[x] EXCEPT ![kind] = @ + 1] ELSE shown[x]]
=============================================================================
