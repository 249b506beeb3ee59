---------------------------- MODULE Study ----------------------------
(***************************************************************************)
(* A study session on one deck: the queue of cards kept in memory, the    *)
(* cards and the day's counters in the database, and the stacks of undo    *)
(* and redo steps, all of which must agree although each is updated by a   *)
(* path of its own.  Answering a card changes the queue in place; every    *)
(* other operation on cards throws the queue away; undo and redo do one or *)
(* the other; and the day may end between any two requests.                *)
(*                                                                         *)
(* Covered: building the queue with its burying of siblings and its new    *)
(* card limit, showing and answering cards, burying, suspending and        *)
(* flagging them from another window, undo, redo, the end of a day and the *)
(* unburying that follows.                                                 *)
(* Not covered: filtered decks, leeches, the load balancer, several decks, *)
(* the review limit, learning cards that were never answered (they would   *)
(* come after those that were), and the even mixing of kinds (here new     *)
(* cards come before or after the rest, learning cards of earlier days     *)
(* after reviews).                                                         *)
(***************************************************************************)
EXTENDS Integers, FiniteSets, Sequences, SequencesExt

CONSTANTS
    Cards,          \* card ids, which are also the order of gathering
    NoteOf,         \* the note of each card: cards of one note are siblings
    FirstQueue,     \* the queue each card starts in
    Browsed,        \* bound: the cards another window acts on
    BuryModes,      \* the burying options a user's preset may have
    DayLength,      \* seconds of a day
    LearnStep,      \* the delay of the single learning step, in seconds
    LearnAhead,     \* how early a learning card may be shown
    NewPerDay,      \* new cards per day
    NewFirst,       \* whether new cards come before reviews or after them
    UndoLimit,      \* undo steps kept (30 in the code)
    Start,          \* the second of the first day at which the session begins
    MaxTime,        \* bound: the session ends at this second
    MaxOps          \* bound: operations of the user besides undo and redo

ASSUME StudyAssumption ==
    /\ Cards \subseteq Nat \ {0} /\ IsFiniteSet(Cards)
    /\ Browsed \subseteq Cards
    /\ \A c \in Cards : FirstQueue[c] \in {"new", "learn", "daylearn", "review"}
    /\ {DayLength, LearnStep, UndoLimit, NewPerDay} \subseteq Nat \ {0}
    /\ {LearnAhead, Start} \subseteq Nat
    /\ BuryModes \subseteq [{"new", "review", "daylearn"} -> BOOLEAN]

VARIABLES
    card,           \* the cards table
    studied,        \* the deck's counter of new cards: [day, new]
    preset,         \* the burying options in force
    queues,         \* CardQueues, or NoQueues
    undoSteps,      \* undo steps, the latest first
    redoSteps,      \* redo steps, the latest first
    unburied,       \* last_unburied_day
    shown,          \* the card on the screen with the state it was shown in
    now,            \* the clock
    ops,            \* operations so far (bounded by MaxOps)
    fault           \* how the program failed, if it did

vars == <<card, studied, preset, queues, undoSteps, redoSteps, unburied, shown,
          now, ops, fault>>

----------------------------------------------------------------------------
(* Cards and their states. *)

Buried == {"schedburied", "userburied"}
CardQueue == {"new", "learn", "daylearn", "review", "suspended"} \union Buried
CardType == {"new", "learn", "review", "relearn"}

Card == [queue : CardQueue, type : CardType, due : Nat, mtime : Nat,
         flag : BOOLEAN, introduced : Int]

\* Seconds count from Epoch, above every day number, so that a due can be told to
\* be one or the other, as the database does with 1_000_000_000.
Epoch == 1000

ASSUME DaysBelowEpoch == MaxTime \in Nat /\ Start <= MaxTime /\ MaxTime + LearnStep < Epoch

is_unix_epoch_timestamp(due) == due > Epoch
today == (now - Epoch) \div DayLength
next_day_at == Epoch + (today + 1) * DayLength
Never == -1

InitialCard(c) ==
    [queue |-> FirstQueue[c],
     type |-> CASE FirstQueue[c] = "new" -> "new"
                [] FirstQueue[c] \in {"learn", "daylearn"} -> "learn"
                [] OTHER -> "review",
     due |-> IF FirstQueue[c] = "learn" THEN Epoch + 1 ELSE 0,
     mtime |-> Epoch, flag |-> FALSE, introduced |-> Never]

\* The state the answer buttons were computed for.  What an elapsed second
\* changes is left out, as set_elapsed_secs_equal does; a review knows the days
\* since it was due.
current_card_state(r, day) ==
    [type |-> r.type,
     elapsed |-> IF r.type = "review" /\ r.due < day THEN day - r.due ELSE 0]

\* A delay that crosses the end of the day becomes a day.
LearningFrom(old, type) ==
    IF LearnStep >= next_day_at - now
    THEN [old EXCEPT !.queue = "daylearn", !.type = type,
                     !.due = today + 1 + (LearnStep - (next_day_at - now)) \div DayLength]
    ELSE [old EXCEPT !.queue = "learn", !.type = type, !.due = now + LearnStep]

apply_review_state(old) ==
    [old EXCEPT !.queue = "review", !.type = "review", !.due = today + 1]

\* The card after an answer, with one learning and one relearning step: "good"
\* leaves the steps, "again" starts them over.
Answered(old, rating) ==
    LET next == CASE rating = "again" /\ old.type \in {"review", "relearn"} ->
                        LearningFrom(old, "relearn")
                  [] rating = "again" -> LearningFrom(old, "learn")
                  [] OTHER -> apply_review_state(old)
    IN [next EXCEPT !.mtime = now,
                    !.introduced = IF old.queue = "new" THEN today ELSE @]

restore_queue_from_type(r) ==
    [r EXCEPT !.queue = CASE r.type \in {"learn", "relearn"} ->
                                 IF is_unix_epoch_timestamp(r.due) THEN "learn" ELSE "daylearn"
                          [] r.type = "new" -> "new"
                          [] OTHER -> "review"]

new_studied(counter, day) == IF counter.day = day THEN counter.new ELSE 0

----------------------------------------------------------------------------
(* The queue of cards to study. *)

NoQueues == [build |-> 0]
QueueKind == {"new", "review", "daylearn", "learn"}
QueueEntry == [id : Cards, mtime : Nat, kind : QueueKind, due : Nat]
Entry(c, r) ==
    [id |-> c, mtime |-> r.mtime, kind |-> r.queue,
     due |-> IF r.queue = "learn" THEN r.due ELSE 0]

gather_ord(q) == CASE q = "learn" -> 0 [] q = "daylearn" -> 1 [] q = "review" -> 2
                   [] q = "new" -> 3 [] OTHER -> 255

Due(r) ==
    \/ r.queue = "learn" /\ r.due <= next_day_at
    \/ r.queue \in {"daylearn", "review"} /\ r.due <= today
    \/ r.queue = "new"

Candidates(table) == {Entry(c, table[c]) : c \in {x \in Cards : Due(table[x])}}

GatheredBefore(e, f) ==
    \/ gather_ord(e.kind) < gather_ord(f.kind)
    \/ e.kind = f.kind /\ e.id < f.id

\* What is gathered after the earlier entries: a card is left out when a sibling has
\* been seen and its own kind is buried; learning cards of the day are always kept.
\* The new card limit ends the gathering of new cards.
Added(e, earlier) ==
    /\ e.kind = "new" =>
          Cardinality({f \in earlier : f.kind = "new"}) < NewPerDay - new_studied(studied, today)
    /\ e.kind = "learn" \/ ~preset[e.kind] \/ \A f \in earlier : NoteOf[f.id] # NoteOf[e.id]

gather_cards(table) ==
    CHOOSE kept \in SUBSET Candidates(table) :
        \A e \in Candidates(table) : e \in kept <=> Added(e, {f \in kept : GatheredBefore(f, e)})

\* A set as a sequence in the order of a key.
InOrder(S, key) ==
    CHOOSE s \in [1..Cardinality(S) -> S] :
        /\ \A x \in S : \E i \in DOMAIN s : s[i] = x
        /\ \A i, j \in DOMAIN s : i < j => key[s[i]] <= key[s[j]]

sort_learning(S) == InOrder(S, [e \in S |-> e.due])

CountKind(s, kind) == Cardinality({i \in DOMAIN s : s[i].kind = kind})
CountDue(s, until) == Cardinality({i \in DOMAIN s : s[i].due <= until})

merge_new(reviews, new) == IF NewFirst THEN new \o reviews ELSE reviews \o new

build_queues(table, build) ==
    LET kept == gather_cards(table)
        Of(kind) == {e \in kept : e.kind = kind}
        Gathered(kind) == InOrder(Of(kind), [e \in Of(kind) |-> e.id])
        learning == sort_learning(Of("learn"))
    IN [build |-> build, day |-> today, cutoff |-> now,
        new |-> Cardinality(Of("new")),
        review |-> Cardinality(Of("review")),
        learning |-> CountDue(learning, now + LearnAhead) + Cardinality(Of("daylearn")),
        main |-> merge_new(Gathered("review") \o Gathered("daylearn"), Gathered("new")),
        intraday |-> learning]

\* The order in which entries are shown: learning cards that are due, the main queue,
\* and learning cards that may be shown ahead of their time.
intraday_now(q) == {i \in DOMAIN q.intraday : q.intraday[i].due <= q.cutoff}
intraday_ahead(q) ==
    {i \in DOMAIN q.intraday : q.intraday[i].due > q.cutoff /\ q.intraday[i].due <= q.cutoff + LearnAhead}

Finished(q) == intraday_now(q) = {} /\ q.main = <<>> /\ intraday_ahead(q) = {}

front(q) ==
    CASE intraday_now(q) # {} -> q.intraday[Min(intraday_now(q))]
      [] intraday_now(q) = {} /\ q.main # <<>> -> Head(q.main)
      [] OTHER -> q.intraday[Min(intraday_ahead(q))]

all_zero(q) == q.new = 0 /\ q.learning = 0 /\ q.review = 0

update_learning_cutoff_and_count(q) ==
    [q EXCEPT !.cutoff = now,
              !.learning = @ + Cardinality({i \in DOMAIN q.intraday :
                                   /\ q.intraday[i].due > q.cutoff + LearnAhead
                                   /\ q.intraday[i].due <= now + LearnAhead})]

CountField(kind) == IF kind \in {"learn", "daylearn"} THEN "learning" ELSE kind
saturating_less_one(n) == IF n = 0 THEN 0 ELSE n - 1

InIntraday(q, c) == \E i \in DOMAIN q.intraday : q.intraday[i].id = c
position(q, c) == CHOOSE i \in DOMAIN q.intraday : q.intraday[i].id = c
AtTop(q, c) == InIntraday(q, c) \/ (q.main # <<>> /\ Head(q.main).id = c)
TopEntry(q, c) == IF InIntraday(q, c) THEN q.intraday[position(q, c)] ELSE Head(q.main)

pop_entry(q, c) ==
    IF InIntraday(q, c)
    THEN [q EXCEPT !.intraday = RemoveAt(@, position(q, c)), !.learning = saturating_less_one(@)]
    ELSE [q EXCEPT !.main = Tail(@), ![CountField(Head(q.main).kind)] = saturating_less_one(@)]

\* Mutant: an entry put back below the learning cutoff only is counted.
push_undo_entry_due(q, e) ==
    LET counted == IF e.kind = "learn" /\ e.due > q.cutoff THEN q
                   ELSE [q EXCEPT ![CountField(e.kind)] = @ + 1]
    IN IF e.kind = "learn"
       THEN [counted EXCEPT !.intraday = <<e>> \o @]
       ELSE [counted EXCEPT !.main = <<e>> \o @]

push_undo_entry(q, e) ==
    LET counted == [q EXCEPT ![CountField(e.kind)] = @ + 1]
    IN IF e.kind = "learn"
       THEN [counted EXCEPT !.intraday = <<e>> \o @]
       ELSE [counted EXCEPT !.main = <<e>> \o @]

\* Before the first entry that is not due earlier.
target_idx(s, e) ==
    CHOOSE i \in 1..(Len(s) + 1) : /\ \A j \in 1..(i - 1) : s[j].due < e.due
                                   /\ i <= Len(s) => e.due <= s[i].due

insert_intraday_learning_card(q, e) ==
    [q EXCEPT !.intraday = InsertAt(@, target_idx(@, e), e),
              !.learning = IF e.due <= q.cutoff + LearnAhead THEN @ + 1 ELSE @]

remove_intraday_learning_card(q, c) ==
    IF ~InIntraday(q, c) THEN q
    ELSE [q EXCEPT !.intraday = RemoveAt(@, position(q, c)),
                   !.learning = IF TopEntry(q, c).due <= q.cutoff + LearnAhead
                                THEN saturating_less_one(@) ELSE @]

\* An entry that would be shown again at once is put behind the next one.
requeue_learning_entry(q, e) ==
    LET next == Head(q.intraday)
        limit == q.cutoff + LearnAhead
    IN IF /\ e.due <= limit /\ q.main = <<>> /\ q.intraday # <<>>
          /\ next.due >= e.due /\ next.due + 1 < limit
       THEN [e EXCEPT !.due = next.due + 1]
       ELSE e

NoEntry == [id |-> 0]
learning_requeue(q, c, r) ==
    IF r.queue = "learn" /\ r.due < next_day_at
    THEN requeue_learning_entry(q, Entry(c, r))
    ELSE NoEntry

Requeued(q, e) == IF e = NoEntry THEN q ELSE insert_intraday_learning_card(q, e)
restore_cutoff(q, u) == [q EXCEPT !.learning = u.learning, !.cutoff = u.cutoff]

----------------------------------------------------------------------------
(* Undo steps.  A step holds the cards as they were before it, the deck's     *)
(* counter if it changed, and for an answer the change of the queue; "before" *)
(* is history: all that was there before the step, which no action reads.     *)

NoUpdate == [build |-> 0]
RebuildsQueue(op, cards) == cards # {} /\ op \notin {"SetFlag", "AnswerCard"}

Step(op, changed, counter, update) ==
    [op |-> op, cards |-> [c \in changed |-> card[c]], studied |-> counter,
     update |-> update, before |-> [card |-> card, studied |-> studied, queues |-> queues]]

Take(s, n) == SubSeq(s, 1, IF Len(s) < n THEN Len(s) ELSE n)

begin_step_none == undoSteps' = <<>> /\ redoSteps' = <<>>

\* Mutant: the oldest step is never dropped.
end_step_uncut(step) == undoSteps' = <<step>> \o undoSteps /\ redoSteps' = <<>>

end_step(step) ==
    /\ undoSteps' = <<step>> \o Take(undoSteps, UndoLimit - 1)
    /\ redoSteps' = <<>>

\* A build time no kept step mentions.
FreshBuild ==
    LET used == {undoSteps[i].update.build : i \in DOMAIN undoSteps}
                \union {redoSteps[i].update.build : i \in DOMAIN redoSteps}
    IN CHOOSE b \in 1..(2 * UndoLimit + 1) : b \notin used

NoCard == [id |-> 0]

Init ==
    /\ card = [c \in Cards |-> InitialCard(c)]
    /\ studied = [day |-> 0, new |-> 0]
    /\ preset \in BuryModes
    /\ queues = NoQueues
    /\ undoSteps = <<>> /\ redoSteps = <<>>
    /\ unburied = 0
    /\ shown = NoCard
    /\ now = Epoch + Start
    /\ ops = 0
    /\ fault = "none"

----------------------------------------------------------------------------
(* Reading the queue. *)

is_stale == queues # NoQueues /\ queues.day # today

unbury_on_day_rollover ==
    [c \in Cards |-> IF card[c].queue \in Buried
                     THEN restore_queue_from_type(card[c]) ELSE card[c]]

\* A queue of the day before is cleared together with the undo steps, and the
\* buried cards return, before a new queue is built.
clear_queues_if_day_changed ==
    IF is_stale
    THEN card' = unbury_on_day_rollover /\ unburied' = today /\ begin_step_none
    ELSE UNCHANGED <<card, unburied, undoSteps, redoSteps>>

get_queues ==
    LET built == IF queues = NoQueues \/ is_stale THEN build_queues(card', FreshBuild) ELSE queues
    IN IF all_zero(built) THEN update_learning_cutoff_and_count(built) ELSE built

\* The next card.  A front entry that does not match its card is an error.
get_queued_cards ==
    /\ shown = NoCard
    /\ clear_queues_if_day_changed
    /\ queues' = get_queues
    /\ IF Finished(queues') THEN UNCHANGED <<shown, fault>>
       ELSE LET next == front(queues') IN
            IF card'[next.id].mtime = next.mtime
            THEN /\ shown' = [id |-> next.id, state |-> current_card_state(card'[next.id], today)]
                 /\ UNCHANGED fault
            ELSE fault' = "stale entry" /\ UNCHANGED shown
    /\ UNCHANGED <<studied, preset, now, ops>>

----------------------------------------------------------------------------
(* Answering. *)

\* Queues gathered before the answered card's own are not buried.
exclude_earlier_gathered_queues(q) ==
    [preset EXCEPT !["daylearn"] = @ /\ gather_ord(q) <= gather_ord("daylearn"),
                   !["review"] = @ /\ gather_ord(q) <= gather_ord("review")]

siblings_for_bury(c) ==
    LET mode == exclude_earlier_gathered_queues(card[c].queue)
    IN {s \in Cards \ {c} : /\ NoteOf[s] = NoteOf[c]
                            /\ card[s].queue \in DOMAIN mode
                            /\ mode[card[s].queue]}

\* Mutant: the counter looks at the queue the card has after the answer.
update_deck_stats_late(c) == [day |-> today, new |-> new_studied(studied, today)]

update_deck_stats(c) ==
    [day |-> today,
     new |-> new_studied(studied, today) + IF card[c].queue = "new" THEN 1 ELSE 0]

\* A transaction that fails forgets the undo steps and the queue.
RollBack ==
    /\ begin_step_none
    /\ queues' = NoQueues
    /\ shown' = NoCard
    /\ UNCHANGED <<card, studied, preset, unburied, now, fault>>

\* The card's state is not the one its buttons were computed for, or the card
\* is no longer at the top of the queue.
answer_card_fails ==
    /\ shown # NoCard /\ ops < MaxOps
    /\ \/ current_card_state(card[shown.id], today) # shown.state
       \/ ~AtTop(queues, shown.id)
    /\ RollBack
    /\ ops' = ops + 1

answer_card(rating) ==
    /\ shown # NoCard /\ ops < MaxOps
    /\ LET c == shown.id
           next == Answered(card[c], rating)
           siblings == siblings_for_bury(c)
           popped == pop_entry(queues, c)
           requeue == learning_requeue(popped, c, next)
           placed == Requeued(popped, requeue)
           update == [build |-> queues.build, entry |-> TopEntry(queues, c),
                      requeue |-> requeue, learning |-> placed.learning,
                      cutoff |-> placed.cutoff]
       IN /\ current_card_state(card[c], today) = shown.state
          /\ AtTop(queues, c)
          /\ card' = [x \in Cards |->
                         CASE x = c -> next
                           [] x \in siblings -> [card[x] EXCEPT !.queue = "schedburied", !.mtime = now]
                           [] OTHER -> card[x]]
          /\ studied' = update_deck_stats(c)
          /\ queues' = update_learning_cutoff_and_count(placed)
          /\ end_step(Step("AnswerCard", {c} \union siblings, studied, update))
    /\ shown' = NoCard
    /\ ops' = ops + 1
    /\ UNCHANGED <<preset, unburied, now, fault>>

----------------------------------------------------------------------------
(* Operations from another window: the browser or the card menu. *)

\* A card already in the wanted queue, or suspended, is left alone.
bury_or_suspend(c, desired_queue) ==
    /\ ops < MaxOps
    /\ card[c].queue \notin {desired_queue, "suspended"}
    /\ card' = [card EXCEPT ![c].queue = desired_queue, ![c].mtime = now]
    /\ end_step(Step(desired_queue, {c}, studied, NoUpdate))
    /\ queues' = NoQueues
    /\ shown' = NoCard
    /\ ops' = ops + 1
    /\ UNCHANGED <<studied, preset, unburied, now, fault>>

\* Mutant: the flag counts as a modification.
set_card_flag_modified(c) ==
    /\ ops < MaxOps
    /\ card' = [card EXCEPT ![c].flag = ~@, ![c].mtime = now]
    /\ end_step(Step("SetFlag", {c}, studied, NoUpdate))
    /\ ops' = ops + 1
    /\ UNCHANGED <<studied, preset, queues, unburied, shown, now, fault>>

\* The flag changes, the modification time does not, and the queue is kept.
set_card_flag(c) ==
    /\ ops < MaxOps
    /\ card' = [card EXCEPT ![c].flag = ~@]
    /\ end_step(Step("SetFlag", {c}, studied, NoUpdate))
    /\ ops' = ops + 1
    /\ UNCHANGED <<studied, preset, queues, unburied, shown, now, fault>>

\* The deck list and the check at the end of the day unbury without the queue.
unbury_if_day_rolled_over ==
    /\ unburied < today
    /\ card' = unbury_on_day_rollover
    /\ unburied' = today
    /\ UNCHANGED <<studied, preset, queues, undoSteps, redoSteps, shown, now, ops, fault>>

----------------------------------------------------------------------------
(* Undo and redo: the same step taken back, recorded on the other stack. *)

\* Mutant: undoing marks the cards as modified.
RevertedModified(table, step) ==
    [c \in Cards |-> IF c \in DOMAIN step.cards THEN [step.cards[c] EXCEPT !.mtime = now]
                     ELSE table[c]]

Reverted(table, step) ==
    [c \in Cards |-> IF c \in DOMAIN step.cards THEN step.cards[c] ELSE table[c]]

SameBuild(u) == queues # NoQueues /\ queues.build = u.build

undo_queue_change(u) ==
    IF ~SameBuild(u) THEN NoQueues
    ELSE LET q == restore_cutoff(queues, u)
             r == IF u.requeue = NoEntry THEN q
                  ELSE remove_intraday_learning_card(q, u.requeue.id)
         IN push_undo_entry(r, u.entry)

redo_queue_change(u) ==
    IF ~SameBuild(u) THEN NoQueues
    ELSE restore_cutoff(Requeued(pop_entry(queues, u.entry.id), u.requeue), u)

QueuesAfter(step, changed) ==
    CASE step.update # NoUpdate -> changed
      [] RebuildsQueue(step.op, DOMAIN step.cards) -> NoQueues
      [] OTHER -> queues

\* An answer is undone while the queue of the day before is there: the undo
\* finds the new day, forgets the step being recorded, and fails on that after
\* the transaction is committed.
MeetsNewDay(step) == step.update # NoUpdate /\ is_stale

undo_panics(step) ==
    /\ MeetsNewDay(step)
    /\ card' = Reverted(unbury_on_day_rollover, step)
    /\ studied' = step.studied
    /\ unburied' = today
    /\ queues' = NoQueues
    /\ begin_step_none
    /\ fault' = "no operation"
    /\ UNCHANGED <<preset, shown, now, ops>>

undo_inner(step, changed) ==
    /\ ~MeetsNewDay(step)
    /\ card' = Reverted(card, step)
    /\ studied' = step.studied
    /\ queues' = QueuesAfter(step, changed)
    /\ shown' = IF step.op = "SetFlag" THEN shown ELSE NoCard
    /\ UNCHANGED <<preset, unburied, now, ops, fault>>

TakenBack(step) == Step(step.op, DOMAIN step.cards, studied, step.update)

undo ==
    /\ undoSteps # <<>>
    /\ LET step == Head(undoSteps) IN
       \/ undo_panics(step)
       \/ /\ undo_inner(step, undo_queue_change(step.update))
          /\ undoSteps' = Tail(undoSteps)
          /\ redoSteps' = <<TakenBack(step)>> \o redoSteps

\* Redoing an answer takes its entry from the top of the queue.
RedoFits(step) == SameBuild(step.update) => AtTop(queues, step.update.entry.id)

redo ==
    /\ redoSteps # <<>>
    /\ LET step == Head(redoSteps) IN
       \/ undo_panics(step)
       \/ /\ RedoFits(step)
          /\ undo_inner(step, redo_queue_change(step.update))
          /\ undoSteps' = <<TakenBack(step)>> \o Take(undoSteps, UndoLimit - 1)
          /\ redoSteps' = Tail(redoSteps)

----------------------------------------------------------------------------
Tick ==
    /\ now < Epoch + MaxTime
    /\ now' = now + 1
    /\ UNCHANGED <<card, studied, preset, queues, undoSteps, redoSteps, unburied, shown, ops, fault>>

Next ==
    /\ fault = "none"
    /\ \/ Tick
       \/ get_queued_cards
       \/ \E rating \in {"again", "good"} : answer_card(rating)
       \/ answer_card_fails
       \/ \E c \in Browsed, q \in {"suspended", "userburied"} : bury_or_suspend(c, q)
       \/ \E c \in Browsed : set_card_flag(c)
       \/ unbury_if_day_rolled_over
       \/ undo
       \/ redo

Spec == Init /\ [][Next]_vars

----------------------------------------------------------------------------
(* Properties. *)

EntriesIn(q) == ToSet(q.main) \union ToSet(q.intraday)
Entries == EntriesIn(queues)

\* Every state is built of cards, entries and steps of the right shape, and the
\* kept undo steps never exceed the limit.
TypeOK ==
    /\ card \in [Cards -> Card]
    /\ preset \in BuryModes
    /\ queues # NoQueues => /\ Entries \subseteq QueueEntry
                            /\ {queues.new, queues.review, queues.learning} \subseteq Nat
    /\ Len(undoSteps) <= UndoLimit
    /\ shown = NoCard \/ shown.id \in Cards
    /\ fault \in {"none", "stale entry", "no operation"}

\* queue/mod.rs: "bug: card modified without updating queue".  The queue built
\* when the user began is still true of every card in it, after answers in place,
\* buried siblings, flags set elsewhere, undo and redo.
EntriesCurrent ==
    queues # NoQueues => \A e \in Entries : card[e.id].mtime = e.mtime

\* Part of QueueHonest. The counts under the card are the cards still to come: adjusted by one on
\* every path, never recounted, they must survive any mix of those paths.
CountsHonest(q) ==
    /\ q.new = CountKind(q.main, "new")
    /\ q.review = CountKind(q.main, "review")
    /\ q.learning = CountKind(q.main, "daylearn") + CountDue(q.intraday, q.cutoff + LearnAhead)

Distinct(s) == \A i, j \in DOMAIN s : s[i].id = s[j].id => i = j
ByDue(s) == \A i, j \in DOMAIN s : i < j => s[i].due <= s[j].due

\* Part of QueueHonest. No card waits twice in the queue, and the learning cards are in order of their
\* time, which the search for a place in their queue relies on.
QueueOrdered(q) ==
    /\ Distinct(q.main) /\ Distinct(q.intraday)
    /\ \A e \in ToSet(q.main), f \in ToSet(q.intraday) : e.id # f.id
    /\ ByDue(q.intraday)

\* The queue in memory is in order and its counts are right, though every path adjusts
\* both by what it did and none looks at the whole again.
QueueHonest == queues # NoQueues => CountsHonest(queues) /\ QueueOrdered(queues)

\* No more new cards are begun in a day than the preset allows, though the
\* counter is rolled over, undone and redone.
NewLimitKept ==
    \A day \in 0..today : Cardinality({c \in Cards : card[c].introduced = day}) <= NewPerDay

\* Undo and redo bring back the cards and the day's counter as they were before
\* the step, except that a card a new day has unburied since stays unburied.
UndoRestores ==
    [][\A step \in ToSet(Take(undoSteps, 1)) :
          fault' = "none" /\ undoSteps' = Tail(undoSteps) /\ Len(redoSteps') = Len(redoSteps) + 1
          => /\ studied' = step.before.studied
             /\ \A c \in Cards :
                   LET old == step.before.card[c]
                   IN card'[c] = old \/ (old.queue \in Buried /\ card'[c] = restore_queue_from_type(old))]_vars
=============================================================================
