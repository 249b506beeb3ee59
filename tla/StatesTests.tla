--------------------------- MODULE StatesTests ---------------------------
(***************************************************************************)
(* What the unit tests of scheduler/states and scheduler/answering expect, *)
(* asked of the operators that model them; and what must hold of every     *)
(* card a few answers lead to, for presets chosen at the edges.            *)
(***************************************************************************)
LOCAL INSTANCE Integers
LOCAL INSTANCE SequencesExt
LOCAL INSTANCE Sequences
LOCAL INSTANCE Answering

LOCAL Testing ==
    [fuzz |-> None, fsrs |-> NoFsrs, allowShort |-> FALSE, shortWithSteps |-> FALSE,
     steps |-> <<10, 100>>, graduatingGood |-> 1, graduatingEasy |-> 4, initialEase |-> 2500,
     hardMultiplier |-> 1200, easyMultiplier |-> 1300, intervalMultiplier |-> 1000,
     maximum |-> 36500, leechThreshold |-> 8, relearnSteps |-> <<100>>, lapseMultiplier |-> 0,
     minimumLapse |-> 1, filtered |-> FALSE,
     previewDelays |-> [again |-> 1, hard |-> 10, good |-> 0]]

----------------------------------------------------------------------------
(* The tests of the repository. *)

LOCAL Delays(steps, remaining) ==
    <<again_delay_secs_learn(steps), hard_delay_secs(steps, remaining), good_delay_secs(steps, remaining)>>

\* The delays of the steps (states/steps.rs, delay_secs and rounding_days).
ASSUME StepDelays ==
    /\ Delays(<<100>>, 1) = <<600, 900, None>>
    /\ Delays(<<3 * 14400>>, 1) = <<3 * DAY, 4 * DAY, None>>
    /\ Delays(<<10, 100>>, 2) = <<60, 330, 600>>
    /\ Delays(<<10, 100>>, 1) = <<60, 600, None>>
    /\ Delays(<<10, 100, 1000>>, 3) = <<60, 330, 600>>
    /\ Delays(<<10, 100, 1000>>, 2) = <<60, 600, 6000>>
    /\ Delays(<<10, 100, 1000>>, 1) = <<60, 6000, None>>
    /\ maybe_round_in_days(DAY - 1) = DAY - 1
    /\ maybe_round_in_days(DAY + DAY \div 2) = 2 * DAY

LOCAL Spread(interval, minimum, maximum) ==
    <<with_review_fuzz(0, interval, minimum, maximum), with_review_fuzz(50, interval, minimum, maximum),
      with_review_fuzz(99, interval, minimum, maximum)>>

\* The days fuzz may pick (states/fuzz.rs, with_review_fuzz).
ASSUME FuzzedDays ==
    /\ with_review_fuzz(None, 15000, 1, 100) = 2
    /\ with_review_fuzz(None, 1000, 1, 100) = 1
    /\ with_review_fuzz(None, 1010000, 1, 100) = 100
    /\ Spread(10000, 1, 1000) = <<1, 1, 1>> /\ Spread(24900, 1, 1000) = <<2, 2, 2>>
    /\ Spread(25000, 1, 1000) = <<2, 3, 4>> /\ Spread(70000, 1, 1000) = <<5, 7, 9>>
    /\ Spread(170000, 1, 1000) = <<14, 17, 20>> /\ Spread(370000, 1, 1000) = <<33, 37, 41>>
    /\ Spread(20000, 2, 1000) = <<2, 2, 2>> /\ Spread(20000, 3, 1000) = <<3, 4, 4>>
    /\ Spread(20000, 3, 3) = <<3, 3, 3>>
    /\ \A i \in {69000, 70000, 71000} : Spread(i, 3, 1000) = <<5, 7, 9>>
    /\ \A i \in {199000, 200000, 201000} : Spread(i, 3, 1000) = <<17, 20, 23>>
    /\ Spread(1000000, 101, 1000) = <<101, 105, 108>>
    /\ Spread(1000000, 1, 99) = <<92, 96, 99>>
    /\ Spread(1000000, 97, 103) = <<97, 100, 103>>
    /\ LET b == constrained_fuzz_bounds(10000, 3, 2) IN b.lower <= b.upper /\ b.upper <= 2

LOCAL Limits(maximum, minimum) ==
    LET ctx == [Testing EXCEPT !.maximum = maximum]
    IN <<MinimumInterval(ctx, minimum), MaximumInterval(ctx)>>

\* The limits of an interval (states/mod.rs, min_and_max_review_intervals).
ASSUME IntervalLimits ==
    /\ Limits(0, 0) = <<1, 1>> /\ Limits(0, 2) = <<1, 1>>
    /\ Limits(3, 0) = <<1, 3>> /\ Limits(3, 2) = <<2, 3>> /\ Limits(3, 4) = <<3, 3>>

LOCAL Leeches(threshold, lapses) == {n \in lapses : leech_threshold_met(n, threshold)}

\* When a card is a leech (states/review.rs, leech_threshold).
ASSUME LeechThreshold ==
    /\ Leeches(3, 0..7) = {3, 5, 7} /\ Leeches(8, 7..13) = {8, 12}
    /\ Leeches(0, {0}) = {} /\ Leeches(1, 0..3) = {1, 2, 3}

LOCAL Review(scheduled, elapsed, ease) ==
    [kind |-> "review", scheduled |-> scheduled, elapsed |-> elapsed, ease |-> ease,
     lapses |-> 0, leeched |-> FALSE, memory |-> None]
LOCAL Passing(ctx, s) ==
    LET days == passing_review_intervals(ctx, s) IN <<days.hard, days.good, days.easy>>

\* Extreme multipliers (states/review.rs, extreme_multiplier_fuzz and
\* low_hard_multiplier_does_not_pull_good_down).
ASSUME ExtremeMultipliers ==
    LET fuzzed == [Testing EXCEPT !.fuzz = 0]
        slow == [fuzzed EXCEPT !.intervalMultiplier = 100]
        s == Review(1, 1, 1300)
    IN /\ Passing(fuzzed, s) = <<2, 3, 4>> /\ Passing(slow, s) = <<2, 3, 4>>
       /\ Passing([slow EXCEPT !.fuzz = 99], s) = <<2, 4, 6>>
       /\ Passing([fuzzed EXCEPT !.fuzz = 99, !.intervalMultiplier = 10000, !.maximum = 5], s) = <<5, 5, 5>>
       /\ Passing([fuzzed EXCEPT !.hardMultiplier = 100], Review(2, 2, 1300)) = <<1, 3, 4>>

----------------------------------------------------------------------------
(* A card through a few answers. *)

LOCAL Noon == 1600000000
LOCAL Updater(ctx, deck, jitter) ==
    [ctx |-> [ctx EXCEPT !.filtered = deck # "normal"], deck |-> deck, day |-> 20, now |-> Noon,
     nextDayAt |-> Noon + DAY \div 2, jitter |-> jitter, suspendLeeches |-> TRUE]
LOCAL NewCard ==
    [type |-> "new", queue |-> "new", due |-> 7, interval |-> 0, ease |-> 0, lapses |-> 0,
     remaining |-> 0, reps |-> 0, odue |-> 0, home |-> FALSE, position |-> None, memory |-> None]
LOCAL After(u, card, ratings) == FoldLeft(LAMBDA c, rating : answered(u, c, rating), card, ratings)
LOCAL Due(card) == [card EXCEPT !.due = 0]

\* A card through learning, a lapse and back (answering/mod.rs, state_application).
ASSUME StateApplication ==
    LET u == [Updater(Testing, "normal", <<0>>) EXCEPT !.day = 0]
        failed == After(u, NewCard, <<"again">>)
        stepped == After(u, failed, <<"good">>)
        graduated == After(u, stepped, <<"good">>)
        easier == After(u, Due(graduated), <<"easy">>)
        lapsed == After(u, Due(easier), <<"again">>)
        again == After(u, lapsed, <<"again">>)
        back == After(u, again, <<"good">>)
    IN /\ failed.queue = "learn" /\ failed.remaining = 2 /\ failed.position = 7
       /\ stepped.queue = "learn" /\ stepped.remaining = 1
       /\ graduated.queue = "review" /\ graduated.interval = 1 /\ graduated.remaining = 0
       /\ easier.interval = 4 /\ easier.ease = 2650
       /\ <<lapsed.queue, lapsed.type, lapsed.interval, lapsed.ease, lapsed.lapses>>
             = <<"learn", "relearn", 1, 2450, 1>>
       /\ again.queue = "learn" /\ again.lapses = 1
       /\ back.queue = "review" /\ back.interval = 1

\* A card previewed in a filtered deck comes back as it was (answering/preview.rs,
\* preview).
ASSUME Preview ==
    LET u == Updater([Testing EXCEPT !.previewDelays = [again |-> 60, hard |-> 600, good |-> 0]],
                     "preview", <<0>>)
        lent == [NewCard EXCEPT !.type = "learn", !.queue = "review", !.remaining = 2,
                                !.due = -100000, !.odue = 123, !.home = TRUE]
        twice == After(u, lent, <<"again", "hard">>)
        back == After(u, twice, <<"good">>)
    IN /\ twice.queue = "preview" /\ twice.home
       /\ back.queue = "daylearn" /\ back.due = 123 /\ back.odue = 0 /\ ~back.home

\* How long a learning card has waited (answering/mod.rs, elapsed_secs).
ASSUME ElapsedSeconds ==
    LET u == Updater([Testing EXCEPT !.steps = <<10, 105, 150, 200, 59427>>], "normal", <<0>>)
        Elapsed(card, due) == current_card_state(u, [card EXCEPT !.due = due]).elapsed
        Shifted(ratings, secs) == LET card == After(u, NewCard, ratings) IN Elapsed(card, card.due - secs)
    IN /\ Shifted(<<"good">>, 662) = 662 /\ Shifted(<<"good", "good">>, 212) = 212
       /\ Shifted(<<"good", "good", "good">>, 184092) = 184092
       /\ Elapsed(After(u, NewCard, <<"good", "good", "good", "good">>), u.day - 3) = 7 * DAY
----------------------------------------------------------------------------
(* Every card a few answers lead to. *)

\* What FSRS may say: intervals under half a day, and growing ones.
LOCAL Fsrs(again, hard, good, easy) ==
    [again |-> [interval |-> again, memory |-> 1], hard |-> [interval |-> hard, memory |-> 2],
     good |-> [interval |-> good, memory |-> 3], easy |-> [interval |-> easy, memory |-> 4]]

LOCAL Presets ==
    {[Testing EXCEPT !.fuzz = fuzz, !.steps = steps[1], !.relearnSteps = steps[2],
                     !.lapseMultiplier = 500, !.leechThreshold = 2] :
        fuzz \in {0, 99}, steps \in {<<<<10, 100>>, <<100>>>>, <<<<>>, <<>>>>,
                                     <<<<10, 100, 20000>>, <<100, 20000>>>>}}
    \union {[Testing EXCEPT !.fuzz = 50, !.maximum = max, !.fsrs = Fsrs(1000, 4000, 26000, 26000),
                            !.steps = steps, !.relearnSteps = steps, !.allowShort = TRUE,
                            !.shortWithSteps = with] :
               steps \in {<<>>, <<10>>}, with \in BOOLEAN, max \in {3, 100}}

LOCAL AnyUpdater == {Updater(ctx, deck, <<0, 40, 99>>) : ctx \in Presets, deck \in {"normal", "resched"}}

\* The card is answered on a day it is shown; a filtered deck shows it early.
LOCAL OnItsDay(u, card) ==
    IF card.queue # "review" THEN u
    ELSE [u EXCEPT !.day = IF u.deck = "normal" THEN Greatest(@, card.due) ELSE @ + 1]

\* A card that leaves the filtered deck is put there again.
LOCAL Lent(u, card) ==
    IF u.deck = "normal" \/ card.home THEN card
    ELSE [card EXCEPT !.home = TRUE, !.odue = card.due, !.due = -100000]

\* The pairs of an updater and a card after at most n answers.
LOCAL Reached(u, n) ==
    LET Next(set) == set \union {<<OnItsDay(p[1], answered(p[1], p[2], r)), Lent(p[1], answered(p[1], p[2], r))>> :
                                    p \in {q \in set : q[2].queue # "suspended"}, r \in Ratings}
        f[i \in 0..n] == IF i = 0 THEN {<<u, Lent(u, NewCard)>>} ELSE Next(f[i - 1])
    IN f[n]
LOCAL Situations == UNION {Reached(u, 3) : u \in AnyUpdater}

\* A state without what its card does not keep: the seconds and days since the last
\* answer, and that it was a leech.
LOCAL Kept(s) ==
    LET review(n) == [n EXCEPT !.elapsed = 0, !.leeched = FALSE]
        n == Normal(set_elapsed_secs_equal(s))
    IN CASE n.kind = "review" -> review(n)
         [] n.kind = "relearn" -> [n EXCEPT !.review = review(n.review)]
         [] OTHER -> n

\* A delay is kept if it is that of a step, which the delays of "hard" on the first
\* step and the short delays of FSRS are not.
LOCAL DelayForgotten(n) ==
    CASE n.kind = "learn" -> [n EXCEPT !.scheduled = 0]
      [] n.kind = "relearn" -> [n EXCEPT !.learning.scheduled = 0]
      [] OTHER -> n

\* What an answer writes to the card reads back as the state that was chosen, so the
\* next answer is not refused and starts from it (answering/current.rs).
ASSUME StateReadsBack ==
    \A p \in Situations : \A rating \in Ratings :
        LET u == p[1]
            next == next_state(u.ctx, current_card_state(u, p[2]), rating)
            card == answered(u, p[2], rating)
            back == current_card_state(IF card.home THEN u ELSE [u EXCEPT !.deck = "normal"], card)
            stepped == u.ctx.fsrs = NoFsrs /\ rating \in {"again", "good", "easy"}
        IN p[2].queue # "suspended" =>
              /\ DelayForgotten(Kept(back)) = DelayForgotten(Kept(next))
              /\ stepped => Kept(back) = Kept(next)
              /\ card.home => card.odue = card.due
              /\ card.queue = "review" => card.due = u.day + card.interval
              /\ (card.queue = "learn" /\ rating # "hard" /\ u.ctx.fsrs = NoFsrs) =>
                    0 = IF card.type = "relearn" THEN Normal(back).learning.elapsed
                        ELSE Normal(back).elapsed

\* Intervals stay within the preset's maximum, a better answer never brings a card
\* back earlier, and no answer brings the ease below its minimum.
ASSUME AnswersAreOrdered ==
    \A p \in {q \in Situations : q[2].queue # "suspended"} :
        LET Next(rating) == Normal(next_state(p[1].ctx, current_card_state(p[1], p[2]), rating))
            review == \A rating \in {"hard", "good", "easy"} : Next(rating).kind = "review"
        IN /\ \A rating \in Ratings : Next(rating).kind = "review" =>
                  /\ Next(rating).scheduled \in 1..MaximumInterval(p[1].ctx)
                  /\ Next(rating).ease >= MINIMUM_EASE_FACTOR
           /\ review =>
                  /\ Next("hard").scheduled <= Next("good").scheduled
                  /\ Next("good").scheduled <= Next("easy").scheduled
           /\ (Next("good").kind = "review" /\ p[1].ctx.fsrs # NoFsrs) =>
                  \/ Next("good").scheduled < Next("easy").scheduled
                  \/ Next("easy").scheduled = MaximumInterval(p[1].ctx)

\* A leech is suspended the moment it becomes one, and tagged.
ASSUME LeechesLeave ==
    \A p \in {q \in Situations : q[2].queue # "suspended"} : \A rating \in Ratings :
        LET after == answered(p[1], p[2], rating)
        IN /\ leech_tag_added(p[1], p[2], rating) = (after.queue = "suspended")
           /\ (rating = "again" /\ p[2].type = "review") =>
                 (after.queue = "suspended") = leech_threshold_met(after.lapses, p[1].ctx.leechThreshold)
=============================================================================
