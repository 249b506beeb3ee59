---------------------------- MODULE Answering ----------------------------
(***************************************************************************)
(* How a card's columns become the state its buttons are computed from,    *)
(* and how the state of the chosen button is written back to the columns:  *)
(* rslib/src/scheduler/answering.  The program does one when it shows a    *)
(* card and again when it answers it, so what it writes must read back as  *)
(* the state it chose.                                                     *)
(*                                                                         *)
(* u is the CardStateUpdater: the context of States with the day, the time *)
(* and the rollover, whether the deck is normal, rescheduling or preview,  *)
(* and whether leeches are suspended.                                      *)
(***************************************************************************)
EXTENDS States

\* The random generator is seeded with the card's id and its answers: any function
\* of the number of answers stands for it.
learning_ivl_with_fuzz(u, reps, secs) ==
    secs + (u.jitter[(reps % Len(u.jitter)) + 1] * Least(secs \div 4, 300)) \div 100

secs_until_rollover(u) == u.nextDayAt - u.now

----------------------------------------------------------------------------
(* From the card to its state: answering/current.rs. *)

CurrentDue(u, card) ==
    IF u.deck = "normal" THEN (IF card.type = "review" THEN Least(card.due, u.day) ELSE card.due)
    ELSE (IF card.odue # 0 THEN card.odue ELSE card.due)

\* The time since a learning card was answered is reckoned from its due.
elapsed_secs(u, card, due, last) ==
    CASE card.queue = "learn" -> u.now - (due - learning_ivl_with_fuzz(u, card.reps - 1, last))
      [] card.queue = "daylearn" -> (u.day - due + Greatest(last \div DAY, 1)) * DAY
      [] OTHER -> 0

CardLearning(u, card, due, steps) ==
    LET last == current_delay_secs(steps, card.remaining % 1000) IN
    [kind |-> "learn", scheduled |-> last, remaining |-> card.remaining % 1000,
     elapsed |-> elapsed_secs(u, card, due, last), memory |-> card.memory]

CardReview(card, elapsed) ==
    [kind |-> "review", scheduled |-> card.interval, elapsed |-> elapsed, ease |-> card.ease,
     lapses |-> card.lapses, leeched |-> FALSE, memory |-> card.memory]

normal_study_state(u, card, due) ==
    CASE card.type = "new" -> [kind |-> "new", position |-> Greatest(due, 0)]
      [] card.type = "learn" -> CardLearning(u, card, due, u.ctx.steps)
      [] card.type = "review" -> CardReview(card, Greatest(card.interval - (due - u.day), 0))
      [] card.type = "relearn" ->
            RelearnState(CardLearning(u, card, due, u.ctx.relearnSteps),
                         CardReview(card, card.interval))

current_card_state(u, card) ==
    LET state == normal_study_state(u, card, CurrentDue(u, card)) IN
    CASE u.deck = "normal" -> state
      [] u.deck = "resched" -> ReschedulingFilterState(state)
      [] u.deck = "preview" -> [kind |-> "preview", scheduled |-> u.ctx.previewDelays["again"],
                                finished |-> FALSE]

\* The states of the screen and of the answer are compared without the seconds
\* that have passed between them.
set_elapsed_secs_equal(s) ==
    LET cleared(n) == CASE n.kind = "learn" -> [n EXCEPT !.elapsed = 0]
                        [] n.kind = "relearn" -> [n EXCEPT !.learning.elapsed = 0]
                        [] OTHER -> n
    IN IF s.kind = "resched" THEN ReschedulingFilterState(cleared(s.original)) ELSE cleared(s)

----------------------------------------------------------------------------
(* From the state to the card: answering/learning.rs, review.rs,            *)
(* relearning.rs, preview.rs and apply_study_state.                         *)

new_position(s) == IF Normal(s).kind = "new" THEN Normal(s).position ELSE None
KeepPosition(card, current) ==
    IF new_position(current) # None THEN [card EXCEPT !.position = new_position(current)] ELSE card

\* A delay that reaches the next day makes a card due on a day (states/interval_kind.rs).
maybe_as_days(secs, rollover) == IF secs >= rollover THEN (secs - rollover) \div DAY + 1 ELSE 0

Delayed(u, card, secs) ==
    LET days == maybe_as_days(secs, secs_until_rollover(u)) IN
    IF days > 0 THEN [card EXCEPT !.queue = "daylearn", !.due = u.day + days]
    ELSE [card EXCEPT !.queue = "learn",
                      !.due = u.now + learning_ivl_with_fuzz(u, card.reps - 1, secs)]

apply_new_state(card, next) ==
    [card EXCEPT !.type = "new", !.queue = "new", !.due = next.position,
                 !.position = None, !.memory = None]

apply_learning_state(u, card, current, next) ==
    Delayed(u, [KeepPosition(card, current) EXCEPT !.remaining = next.remaining, !.type = "learn",
                                                   !.memory = next.memory],
            next.scheduled)

apply_review_state(u, card, current, next) ==
    [KeepPosition(card, current) EXCEPT
        !.queue = "review", !.type = "review", !.interval = next.scheduled,
        !.due = u.day + next.scheduled, !.ease = next.ease, !.lapses = next.lapses,
        !.remaining = 0, !.memory = next.memory]

apply_relearning_state(u, card, current, next) ==
    Delayed(u, [KeepPosition(card, current) EXCEPT
                   !.interval = next.review.scheduled, !.remaining = next.learning.remaining,
                   !.type = "relearn", !.lapses = next.review.lapses, !.ease = next.review.ease,
                   !.memory = next.learning.memory],
            next.learning.scheduled)

\* A leech is suspended if the preset says so.
apply_normal_study_state(u, card, current, next) ==
    LET counted == [card EXCEPT !.reps = @ + 1]
        applied == CASE next.kind = "new" -> apply_new_state(counted, next)
                     [] next.kind = "learn" -> apply_learning_state(u, counted, current, next)
                     [] next.kind = "review" -> apply_review_state(u, counted, current, next)
                     [] next.kind = "relearn" -> apply_relearning_state(u, counted, current, next)
    IN IF leeched(next) /\ u.suspendLeeches THEN [applied EXCEPT !.queue = "suspended"] ELSE applied

\* A finished preview gives the card back as it was lent (filtered/card.rs).
is_unix_epoch_timestamp(due) == due > 1000000000
queue_from_type(type, due) ==
    CASE type \in {"learn", "relearn"} -> IF is_unix_epoch_timestamp(due) THEN "learn" ELSE "daylearn"
      [] OTHER -> type
remove_from_filtered_deck_restoring_queue(card) ==
    LET due == IF card.odue # 0 THEN card.odue ELSE card.due IN
    [card EXCEPT !.home = FALSE, !.due = due, !.odue = 0,
                 !.queue = IF @ \in {"suspended", "buried"} THEN @ ELSE queue_from_type(card.type, due)]

apply_preview_state(u, card, next) ==
    IF next.finished THEN remove_from_filtered_deck_restoring_queue(card)
    ELSE [card EXCEPT !.queue = "preview",
                      !.due = u.now + learning_ivl_with_fuzz(u, card.reps, next.scheduled)]

\* A rescheduled review leaves the filtered deck; other states stay in it, and their
\* due is the one to keep.
apply_study_state(u, card, current, next) ==
    CASE next.kind = "preview" -> apply_preview_state(u, card, next)
      [] next.kind = "resched" ->
            LET applied == apply_normal_study_state(u, card, current, next.original)
            IN [applied EXCEPT !.odue = applied.due]
      [] current.kind = "resched" ->
            apply_normal_study_state(u, [card EXCEPT !.home = FALSE, !.odue = 0], current, next)
      [] OTHER -> apply_normal_study_state(u, card, current, next)

----------------------------------------------------------------------------
(* The entry of the review log: answering/revlog.rs.  Days are positive,    *)
(* seconds negative.                                                        *)

revlog_interval(u, s) ==
    LET secs == CASE Normal(s).kind = "new" -> 0
                  [] Normal(s).kind \in {"learn", "preview"} -> Normal(s).scheduled
                  [] Normal(s).kind = "relearn" -> Normal(s).learning.scheduled
        days == maybe_as_days(secs, secs_until_rollover(u))
    IN CASE Normal(s).kind = "review" -> Normal(s).scheduled
         [] days > 0 -> days
         [] OTHER -> -secs

revlog_kind(s) ==
    CASE Normal(s).kind \in {"new", "learn"} -> "learning"
      [] Normal(s).kind = "relearn" -> "relearning"
      [] Normal(s).kind = "review" -> IF days_late(Normal(s)) < 0 THEN "filtered" ELSE "review"
      [] OTHER -> "filtered"

revlog_entry(u, current, next) ==
    [interval |-> revlog_interval(u, next), lastInterval |-> revlog_interval(u, current),
     kind |-> revlog_kind(current)]

----------------------------------------------------------------------------
(* answer_card: the answer is refused if the card has changed since its       *)
(* buttons were computed.                                                    *)

refused(u, card, shownState) ==
    set_elapsed_secs_equal(current_card_state(u, card)) # set_elapsed_secs_equal(shownState)

answered(u, card, rating) ==
    LET current == current_card_state(u, card)
    IN apply_study_state(u, card, current, next_state(u.ctx, current, rating))

leech_tag_added(u, card, rating) == leeched(next_state(u.ctx, current_card_state(u, card), rating))
=============================================================================
