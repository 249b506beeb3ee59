------------------------------ MODULE MCStudy ------------------------------
(* Three cards, the first two siblings: a review, a new card, and a card of  *)
(* another note.                                                             *)
EXTENDS Study, StatesTests, GatheringTests

MCNoteOf == <<1, 1, 2>>
MCFirstQueue == <<"review", "new", "new">>
Uniform == {[new |-> b, review |-> b, daylearn |-> b] : b \in BOOLEAN}
OnlyReviews == {[new |-> FALSE, review |-> TRUE, daylearn |-> FALSE]}

\* The queue a step remembers as history is read by no action and by no property,
\* so that states that differ in it only are explored once.
WithoutHistory(steps) == [i \in DOMAIN steps |-> [steps[i] EXCEPT !.before.queues = NoQueues]]
StudyView == <<card, studied, preset, queues, WithoutHistory(undoSteps), WithoutHistory(redoSteps),
               unburied, shown, now, ops, fault>>
=============================================================================
