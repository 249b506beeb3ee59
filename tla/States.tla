----------------------------- MODULE States -----------------------------
(***************************************************************************)
(* The states of a card under study and the states its four answer buttons *)
(* lead to: rslib/src/scheduler/states, with the conversion of a card to   *)
(* its state and back in scheduler/answering.                              *)
(*                                                                         *)
(* Numbers.  The code computes intervals in f32 days: here they are whole  *)
(* numbers of Units, 10000 to the day, and multipliers and ease factors    *)
(* are in thousandths, as a card stores its ease.  Learning steps are in   *)
(* tenths of a minute.  The fuzz factor is in hundredths; None is a run of *)
(* the code without fuzz (its tests).  FSRS is external: when it is on, it *)
(* gives for each button an interval and the memory it leads to.  The load *)
(* balancer picks one of the days the fuzz could have picked, so a choice  *)
(* of fuzz factor stands for it.                                           *)
(***************************************************************************)
EXTENDS Integers, Sequences

None == -1
Unit == 10000
DAY == 86400

Least(a, b) == IF a < b THEN a ELSE b
Greatest(a, b) == IF a < b THEN b ELSE a
Clamp(x, low, high) == Greatest(low, Least(x, high))
LessOrZero(a, b) == Greatest(a - b, 0)

\* A multiplication that stays within 32 bits.
Times(x, permille) == (x \div 1000) * permille + ((x % 1000) * permille) \div 1000
Round(x) == (x + Unit \div 2) \div Unit
WholeDay(x) == Greatest(Unit, Round(x) * Unit)

----------------------------------------------------------------------------
(* Learning steps: states/steps.rs.  Indices count from 0. *)

to_secs(step) == step * 6
secs_at_index(steps, i) == IF i < Len(steps) THEN to_secs(steps[i + 1]) ELSE None
get_index(steps, remaining) ==
    Least(LessOrZero(Len(steps), remaining % 1000), LessOrZero(Len(steps), 1))

\* Delays of more than a day become whole days.
maybe_round_in_days(secs) ==
    IF secs > DAY THEN ((2 * secs + DAY) \div (2 * DAY)) * DAY ELSE secs

\* Between the first and the second step, or half as long again as the only one.
hard_delay_secs_for_first_step(steps, again) ==
    LET next == secs_at_index(steps, 1) IN
    maybe_round_in_days(IF next # None THEN (again + next) \div 2
                        ELSE Least((again * 3) \div 2, again + DAY))

again_delay_secs_learn(steps) == secs_at_index(steps, 0)
hard_delay_secs(steps, remaining) ==
    LET i == get_index(steps, remaining) IN
    IF i = 0 /\ steps # <<>>
    THEN hard_delay_secs_for_first_step(steps, secs_at_index(steps, 0))
    ELSE secs_at_index(steps, i)
good_delay_secs(steps, remaining) == secs_at_index(steps, get_index(steps, remaining) + 1)
current_delay_secs(steps, remaining) ==
    IF steps = <<>> THEN 0 ELSE secs_at_index(steps, get_index(steps, remaining))
remaining_for_good(steps, remaining) == LessOrZero(Len(steps), get_index(steps, remaining) + 1)
remaining_for_failed(steps) == Len(steps)

----------------------------------------------------------------------------
(* Fuzz: states/fuzz.rs. *)

FuzzRange == <<[start |-> 25000, end |-> 70000, permille |-> 150],
               [start |-> 70000, end |-> 200000, permille |-> 100],
               [start |-> 200000, end |-> 2000000000, permille |-> 50]>>

InRange(x, r) == Times(LessOrZero(Least(x, r.end), r.start), r.permille)

fuzz_delta(interval) ==
    IF interval < 25000 THEN 0
    ELSE Unit + InRange(interval, FuzzRange[1]) + InRange(interval, FuzzRange[2])
              + InRange(interval, FuzzRange[3])

fuzz_bounds(interval) ==
    [lower |-> Round(interval - fuzz_delta(interval)),
     upper |-> Round(interval + fuzz_delta(interval))]

constrained_fuzz_bounds(interval, minimum, maximum) ==
    LET low == Least(minimum, maximum)
        bounds == fuzz_bounds(Clamp(interval, low * Unit, maximum * Unit))
        lower == Clamp(bounds.lower, low, maximum)
        upper == Clamp(bounds.upper, low, maximum)
    IN [lower |-> lower,
        upper |-> IF upper = lower /\ upper > 2 /\ upper < maximum THEN lower + 1 ELSE upper]

with_review_fuzz(fuzz, interval, minimum, maximum) ==
    IF fuzz = None THEN Clamp(Round(interval), minimum, maximum)
    ELSE LET b == constrained_fuzz_bounds(interval, minimum, maximum)
         IN b.lower + (fuzz * (1 + b.upper - b.lower)) \div 100

----------------------------------------------------------------------------
(* The context of a transition: states/mod.rs. *)

NoFsrs == <<>>

MaximumInterval(ctx) == Greatest(ctx.maximum, 1)
MinimumInterval(ctx, minimum) == Clamp(minimum, 1, MaximumInterval(ctx))

Fuzzed(ctx, interval, minimum) ==
    with_review_fuzz(ctx.fuzz, interval, minimum, MaximumInterval(ctx))
FuzzedFrom1(ctx, interval) == Fuzzed(ctx, WholeDay(interval), MinimumInterval(ctx, 1))

memory_after(ctx, rating) == IF ctx.fsrs = NoFsrs THEN None ELSE ctx.fsrs[rating].memory

\* FSRS may keep a card in the learning steps for less than half a day.
short_term(ctx, steps, interval) ==
    /\ ctx.fsrs # NoFsrs /\ ctx.allowShort
    /\ ctx.shortWithSteps \/ steps = <<>>
    /\ interval < Unit \div 2
InSecs(interval) == (interval * DAY) \div Unit

LearnState(remaining, scheduled, memory) ==
    [kind |-> "learn", remaining |-> remaining, scheduled |-> scheduled, elapsed |-> 0,
     memory |-> memory]
ReviewState(ctx, days, memory) ==
    [kind |-> "review", scheduled |-> days, elapsed |-> 0, ease |-> ctx.initialEase,
     lapses |-> 0, leeched |-> FALSE, memory |-> memory]
RelearnState(learning, review) == [kind |-> "relearn", learning |-> learning, review |-> review]

----------------------------------------------------------------------------
(* Learning: states/learning.rs. *)

\* No step is left: the card leaves the steps, unless FSRS keeps it.
LeaveSteps(ctx, s, rating) ==
    LET interval == IF ctx.fsrs = NoFsrs THEN ctx.graduatingGood * Unit
                    ELSE ctx.fsrs[rating].interval
        remaining == IF rating = "again" THEN remaining_for_failed(ctx.steps) ELSE s.remaining
    IN IF short_term(ctx, ctx.steps, interval)
       THEN LearnState(remaining, InSecs(interval), memory_after(ctx, rating))
       ELSE ReviewState(ctx, FuzzedFrom1(ctx, interval), memory_after(ctx, rating))

LearnAgain(ctx, s) ==
    IF again_delay_secs_learn(ctx.steps) = None THEN LeaveSteps(ctx, s, "again")
    ELSE LearnState(remaining_for_failed(ctx.steps), again_delay_secs_learn(ctx.steps),
                    memory_after(ctx, "again"))

LearnHard(ctx, s) ==
    IF hard_delay_secs(ctx.steps, s.remaining) = None THEN LeaveSteps(ctx, s, "hard")
    ELSE LearnState(s.remaining, hard_delay_secs(ctx.steps, s.remaining), memory_after(ctx, "hard"))

LearnGood(ctx, s) ==
    IF good_delay_secs(ctx.steps, s.remaining) = None THEN LeaveSteps(ctx, s, "good")
    ELSE LearnState(remaining_for_good(ctx.steps, s.remaining),
                    good_delay_secs(ctx.steps, s.remaining), memory_after(ctx, "good"))

\* Under FSRS, easy is kept above good.
AboveGood(ctx) ==
    Fuzzed(ctx, WholeDay(ctx.fsrs["easy"].interval),
           Fuzzed(ctx, ctx.fsrs["good"].interval, MinimumInterval(ctx, 1)) + 1)

LearnEasy(ctx, s) ==
    ReviewState(ctx,
                IF ctx.fsrs # NoFsrs THEN AboveGood(ctx)
                ELSE Fuzzed(ctx, ctx.graduatingEasy * Unit, MinimumInterval(ctx, 1)),
                memory_after(ctx, "easy"))

----------------------------------------------------------------------------
(* Reviews: states/review.rs. *)

MINIMUM_EASE_FACTOR == 1300
days_late(s) == s.elapsed - s.scheduled

\* At the threshold, and at every half threshold after it.
leech_threshold_met(lapses, threshold) ==
    /\ threshold > 0 /\ lapses >= threshold
    /\ (lapses - threshold) % Greatest((threshold + 1) \div 2, 1) = 0

constrain_passing_interval(ctx, interval, minimum, fuzz) ==
    LET scaled == IF ctx.fsrs # NoFsrs THEN interval ELSE Times(interval, ctx.intervalMultiplier)
    IN with_review_fuzz(IF fuzz THEN ctx.fuzz ELSE None, scaled,
                        MinimumInterval(ctx, minimum), MaximumInterval(ctx))

\* Each interval is above the one before it; a growing one is above the last.
passing_fsrs_review_intervals(ctx, s) ==
    LET greater_than_last(interval) == IF Round(interval) > s.scheduled THEN s.scheduled + 1 ELSE 0
        Constrained(rating, above) ==
            constrain_passing_interval(ctx, ctx.fsrs[rating].interval,
                Greatest(greater_than_last(ctx.fsrs[rating].interval), above), TRUE)
        hard == Constrained("hard", 1)
        good == Constrained("good", hard + 1)
    IN [hard |-> hard, good |-> good, easy |-> Constrained("easy", good + 1)]

passing_nonearly_review_intervals(ctx, s) ==
    LET current == Greatest(s.scheduled, 1)
        late == Greatest(days_late(s), 0)
        raisesHard == ctx.hardMultiplier > 1000
        hard == constrain_passing_interval(ctx, Times(current * Unit, ctx.hardMultiplier),
                    IF raisesHard THEN s.scheduled + 1 ELSE 0, TRUE)
        good == constrain_passing_interval(ctx, Times(current * Unit + (late * Unit) \div 2, s.ease),
                    IF raisesHard THEN hard + 1 ELSE s.scheduled + 1, TRUE)
        easy == constrain_passing_interval(ctx,
                    Times(Times((current + late) * Unit, s.ease), ctx.easyMultiplier), good + 1, TRUE)
    IN [hard |-> hard, good |-> good, easy |-> easy]

\* Reviews before the due date in a filtered deck.
passing_early_review_intervals(ctx, s) ==
    LET scheduled == Greatest(s.scheduled, 1) * Unit
        elapsed == s.elapsed * Unit
        good == Greatest(Times(elapsed, s.ease), scheduled)
        reducedBonus == ctx.easyMultiplier - (ctx.easyMultiplier - 1000) \div 2
        Constrained(interval) == constrain_passing_interval(ctx, interval, 0, FALSE)
    IN [hard |-> Constrained(Greatest(Times(elapsed, ctx.hardMultiplier),
                                      Times(scheduled, ctx.hardMultiplier \div 2))),
        good |-> Constrained(good),
        easy |-> Constrained(Times(good, reducedBonus))]

passing_review_intervals(ctx, s) ==
    IF ctx.fsrs # NoFsrs THEN passing_fsrs_review_intervals(ctx, s)
    ELSE IF days_late(s) < 0 THEN passing_early_review_intervals(ctx, s)
    ELSE passing_nonearly_review_intervals(ctx, s)

failing_review_interval(ctx, s) ==
    IF ctx.fsrs # NoFsrs THEN ctx.fsrs["again"].interval
    ELSE Fuzzed(ctx, Times(Greatest(s.scheduled, 1) * Unit, ctx.lapseMultiplier),
                MinimumInterval(ctx, ctx.minimumLapse)) * Unit

ReviewAgain(ctx, s) ==
    LET days == failing_review_interval(ctx, s)
        memory == memory_after(ctx, "again")
        review == [s EXCEPT !.scheduled = Greatest(Round(days), 1), !.elapsed = 0,
                            !.ease = Greatest(@ - 200, MINIMUM_EASE_FACTOR),
                            !.lapses = @ + 1, !.memory = memory,
                            !.leeched = leech_threshold_met(s.lapses + 1, ctx.leechThreshold)]
        Relearn(secs) ==
            RelearnState(LearnState(remaining_for_failed(ctx.relearnSteps), secs, memory), review)
    IN CASE ctx.relearnSteps # <<>> -> Relearn(again_delay_secs_learn(ctx.relearnSteps))
         [] short_term(ctx, ctx.relearnSteps, days) -> Relearn(InSecs(days))
         [] OTHER -> review

\* The ease after each of the passing answers.
EaseAfter(rating, ease) ==
    CASE rating = "hard" -> Greatest(ease - 150, MINIMUM_EASE_FACTOR)
      [] rating = "good" -> ease
      [] rating = "easy" -> ease + 150

ReviewPassed(ctx, s, rating) ==
    [s EXCEPT !.scheduled = passing_review_intervals(ctx, s)[rating], !.elapsed = 0,
              !.ease = EaseAfter(rating, @), !.memory = memory_after(ctx, rating)]

----------------------------------------------------------------------------
(* Relearning: states/relearning.rs.  Without a step left and without FSRS, *)
(* the review the card lapsed to is what it goes back to.                   *)

LeaveRelearning(ctx, s, rating, learning) ==
    LET interval == ctx.fsrs[rating].interval
        review == [s.review EXCEPT !.scheduled = FuzzedFrom1(ctx, interval),
                                   !.memory = memory_after(ctx, rating)]
    IN IF ctx.fsrs = NoFsrs THEN s.review
       ELSE IF short_term(ctx, ctx.relearnSteps, interval)
       THEN RelearnState([learning EXCEPT !.scheduled = InSecs(interval),
                                          !.memory = memory_after(ctx, rating)], review)
       ELSE review

RelearnStep(ctx, s, rating, learning) ==
    RelearnState([learning EXCEPT !.memory = memory_after(ctx, rating)],
                 [s.review EXCEPT !.elapsed = 0, !.memory = memory_after(ctx, rating)])

RelearnAgain(ctx, s) ==
    LET failed == [s.learning EXCEPT !.remaining = remaining_for_failed(ctx.relearnSteps), !.elapsed = 0]
        days == failing_review_interval(ctx, s.review)
        delay == again_delay_secs_learn(ctx.relearnSteps)
        stepped == RelearnStep(ctx, s, "again", [failed EXCEPT !.scheduled = delay])
    IN IF delay = None THEN LeaveRelearning(ctx, s, "again", failed)
       ELSE [stepped EXCEPT !.review.scheduled = Greatest(Round(days), 1)]

RelearnHard(ctx, s) ==
    LET delay == hard_delay_secs(ctx.relearnSteps, s.learning.remaining) IN
    IF delay = None THEN LeaveRelearning(ctx, s, "hard", s.learning)
    ELSE RelearnStep(ctx, s, "hard", [s.learning EXCEPT !.scheduled = delay])

RelearnGood(ctx, s) ==
    LET delay == good_delay_secs(ctx.relearnSteps, s.learning.remaining)
        next == [s.learning EXCEPT !.remaining = remaining_for_good(ctx.relearnSteps, @)]
    IN IF delay = None THEN LeaveRelearning(ctx, s, "good", next)
       ELSE RelearnStep(ctx, s, "good", [next EXCEPT !.scheduled = delay, !.elapsed = 0])

RelearnEasy(ctx, s) ==
    [s.review EXCEPT !.scheduled = IF ctx.fsrs # NoFsrs THEN AboveGood(ctx) ELSE @ + 1,
                     !.elapsed = 0, !.memory = memory_after(ctx, "easy")]

----------------------------------------------------------------------------
(* All states: states/normal.rs, preview_filter.rs, rescheduling_filter.rs. *)

Ratings == {"again", "hard", "good", "easy"}

normal_next(ctx, s, rating) ==
    LET learning == IF s.kind = "new" THEN LearnState(remaining_for_failed(ctx.steps), 0, None) ELSE s
    IN CASE s.kind \in {"new", "learn"} ->
                (CASE rating = "again" -> LearnAgain(ctx, learning)
                   [] rating = "hard" -> LearnHard(ctx, learning)
                   [] rating = "good" -> LearnGood(ctx, learning)
                   [] rating = "easy" -> LearnEasy(ctx, learning))
         [] s.kind = "review" ->
                IF rating = "again" THEN ReviewAgain(ctx, s) ELSE ReviewPassed(ctx, s, rating)
         [] s.kind = "relearn" ->
                (CASE rating = "again" -> RelearnAgain(ctx, s)
                   [] rating = "hard" -> RelearnHard(ctx, s)
                   [] rating = "good" -> RelearnGood(ctx, s)
                   [] rating = "easy" -> RelearnEasy(ctx, s))

PreviewState(secs) == [kind |-> "preview", scheduled |-> secs, finished |-> secs = 0]
preview_next(ctx, rating) ==
    PreviewState(IF rating = "easy" THEN 0 ELSE ctx.previewDelays[rating])

\* A review leaves the filtered deck, every other state stays in it.
ReschedulingFilterState(s) == [kind |-> "resched", original |-> s]
maybe_wrap(s) == IF s.kind = "review" THEN s ELSE ReschedulingFilterState(s)

next_state(ctx, s, rating) ==
    CASE s.kind = "preview" -> preview_next(ctx, rating)
      [] s.kind = "resched" ->
            LET next == normal_next(ctx, s.original, rating)
            IN IF ctx.filtered THEN maybe_wrap(next) ELSE next
      [] OTHER -> normal_next(ctx, s, rating)

\* The state behind a rescheduling filter.
Normal(s) == IF s.kind = "resched" THEN s.original ELSE s
leeched(s) ==
    CASE Normal(s).kind = "review" -> Normal(s).leeched
      [] Normal(s).kind = "relearn" -> Normal(s).review.leeched
      [] OTHER -> FALSE
=============================================================================
