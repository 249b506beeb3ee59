----------------------------- MODULE HistorySync -----------------------------
(***************************************************************************)
(* The last phase of a Kelma pass: the union of the review logs, and the   *)
(* counters behind the daily limits (kelma_sync_v2/review_sync.py).        *)
(*                                                                         *)
(* A pass fetches one manifest at its start and works from it to its end.  *)
(* Like the user's actions it is a task that uses the collection, so that  *)
(* they wait for its end; but other clients study and push meanwhile, and  *)
(* a request or its answer gets lost.                                      *)
(*                                                                         *)
(* Abstractions: the earlier phases are one step that brings the client's  *)
(* cards and the server's together (ContentSync has them); one deck, whose *)
(* four counters are one; the content of a review is who made it; a batch  *)
(* is one request.  The server is what the client takes it for.            *)
(***************************************************************************)
EXTENDS Integers, FiniteSets, FiniteSetsExt, TLC

CONSTANTS
    Clients,    \* collections that sync with the server
    Desktop,    \* those with newest_wins (KelmaDesktop)
    Routed,     \* those that sync picked decks only, so that reviews need a deck
    Cards,      \* cards, by guid and ord
    NoCard,     \* the card of a review whose card is gone
    Crts,       \* the days, as the server counts them, on which the collections begin
    MaxDay,     \* bound: days
    MaxReviews, \* bound: ids of reviews
    MaxEvents   \* bound: user actions, ends of days, failed requests, lost answers

ASSUME HistoryAssumption ==
    /\ Desktop \subseteq Clients /\ Routed \subseteq Clients
    /\ NoCard \notin Cards /\ Crts \subseteq [Clients -> Nat]
    /\ MaxDay \in Nat \ {0} /\ MaxReviews \in Nat /\ MaxEvents \in Nat

VARIABLES
    log,     \* log[c]: the review log of c, by review id
    cards,   \* cards[c]: the cards c has
    known,   \* known[c]: the cards in the snapshot of c's last pass
    today,   \* today[c]: the counter of the deck, [day, n]
    undo,    \* undo[c]: what the next undo takes back
    pass,    \* pass[c]: where the pass of c stands
    crt,     \* crt[c]: the day on which c begins
    reviews, \* the server's reviews, by review id
    days,    \* the server's study_days, by day
    dead,    \* the cards the server has tombstones for
    day,     \* the day, as users count it
    given,   \* history: every answer that was ever given
    events   \* user actions, ends of days and faults so far

clientVars == <<log, cards, known, today, undo>>
serverVars == <<reviews, days, dead>>
vars == <<clientVars, serverVars, pass, crt, day, given, events>>

Ids == 1..MaxReviews
Empty == [i \in {} |-> 0]
Update(f, g) == [i \in DOMAIN f \union DOMAIN g |-> IF i \in DOMAIN g THEN g[i] ELSE f[i]]
Only(f, S) == [i \in DOMAIN f \intersect S |-> f[i]]

\* A row is [card, by, pending]: the card its cid stands for, and whether usn is -1.
\* A portable record is [card, by].
Nothing == [op |-> "none"]
Idle == [stage |-> "idle"]

Event == events < MaxEvents /\ events' = events + 1
GoTo(c, p) == pass' = [pass EXCEPT ![c] = p]
Stop(c) == GoTo(c, Idle)

-----------------------------------------------------------------------------
(* What a client reads of its collection.                                  *)

\* The record of a row whose card is gone has no guid.
RowRecord(c, row) == [card |-> IF row.card \in cards[c] THEN row.card ELSE NoCard, by |-> row.by]

\* With picked decks, the join with the cards leaves out the rows without one.
local_review_records(c) ==
    LET all == [i \in DOMAIN log[c] |-> RowRecord(c, log[c][i])]
    IN  Only(all, {i \in DOMAIN all : c \in Routed => all[i].card # NoCard})

\* ... and a review without a card has no deck on the server.
ScopedReviews(c, manifest) ==
    Only(manifest, {i \in DOMAIN manifest : c \in Routed => manifest[i].card # NoCard})

\* Days since the collection began, and the same day as the server counts it.
LocalDay(c) == day
PortableDay(c, d) == crt[c] + d

local_study_day(c) == [day |-> PortableDay(c, today[c].day), n |-> today[c].n]

\* The client's record wins when it has an orphan; otherwise the checksums must agree.
ConflictIds(local, server) ==
    {i \in DOMAIN local \intersect DOMAIN server : local[i].card # NoCard /\ local[i] # server[i]}

\* Mutant: the server's counters replace those of the same day.
merge_study_days_replacing(manifest, mine) ==
    LET latest == Max(DOMAIN manifest \union {mine.day})
    IN  [day |-> latest, n |-> IF latest \in DOMAIN manifest THEN manifest[latest] ELSE mine.n]

\* Mutant: the counters of the same day are added up.
merge_study_days_adding(manifest, mine) ==
    LET latest == Max(DOMAIN manifest \union {mine.day})
    IN  [day |-> latest, n |-> (IF latest \in DOMAIN manifest THEN manifest[latest] ELSE 0)
                               + (IF latest = mine.day THEN mine.n ELSE 0)]

\* Mutant: of two records of the same day the client's own stands.
merge_study_days_keeping(manifest, mine) ==
    LET latest == Max(DOMAIN manifest \union {mine.day})
    IN  [day |-> latest, n |-> IF latest = mine.day THEN mine.n ELSE manifest[latest]]

\* Records of the same day are merged counter by counter, and then the latest day wins.
merge_study_days(manifest, mine) ==
    LET latest == Max(DOMAIN manifest \union {mine.day})
        same == {manifest[d] : d \in DOMAIN manifest \intersect {latest}}
                \union {mine.n : d \in {mine.day} \intersect {latest}}
    IN  [day |-> latest, n |-> Max(same)]

-----------------------------------------------------------------------------
(* The server.                                                             *)

PushConflicts(payload) == {i \in DOMAIN payload \intersect DOMAIN reviews : payload[i] # reviews[i]}
Accepted(payload) == Update(payload, reviews)
PushedDay(mine) ==
    Update(days, [d \in {mine.day} |-> IF d \in DOMAIN days THEN Max({days[d], mine.n}) ELSE mine.n])

-----------------------------------------------------------------------------
(* A pass.                                                                 *)

\* The manifest, and the phases before: deletions go both ways, cards that only one
\* side has are brought over.  A card that comes back has another id, to which the
\* rows it left do not belong.
Begin(c) ==
    LET deleted == known[c] \ cards[c]
        tombs == cards[c] \intersect dead \intersect known[c]
        gone == (dead \union deleted) \ (cards[c] \ known[c])
        pulled == (Cards \ gone) \ cards[c]
    IN  /\ pass[c] = Idle
        /\ dead' = gone
        /\ cards' = [cards EXCEPT ![c] = Cards \ gone]
        /\ known' = [known EXCEPT ![c] = Cards \ gone]
        /\ log' = [log EXCEPT ![c] = [i \in DOMAIN @ |->
                      IF @[i].card \in pulled THEN [@[i] EXCEPT !.card = NoCard] ELSE @[i]]]
        /\ undo' = IF tombs \union pulled = {} THEN undo ELSE [undo EXCEPT ![c] = Nothing]
        /\ GoTo(c, [stage |-> "compare",
                    reviews |-> ScopedReviews(c, reviews), days |-> days])
        /\ UNCHANGED <<today, reviews, days, crt, day, given, events>>

\* Every conflict ends the pass before a row is moved.
Compare(c) ==
    LET p == pass[c]
        mine == local_review_records(c)
    IN  /\ p.stage = "compare"
        /\ IF ConflictIds(mine, p.reviews) # {} THEN Stop(c)
           ELSE GoTo(c, [stage |-> "pull", days |-> p.days,
                         pull |-> DOMAIN p.reviews \ DOMAIN mine,
                         push |-> Only(mine, DOMAIN mine \ DOMAIN p.reviews),
                         shared |-> DOMAIN mine \intersect DOMAIN p.reviews])
        /\ UNCHANGED <<clientVars, serverVars, crt, day, given, events>>

\* Rows are inserted unless their id is taken, with the client's card of that guid and
\* ord if it has one.
apply_review(c, record) ==
    [card |-> IF record.card \in cards[c] THEN record.card ELSE NoCard, by |-> record.by, pending |-> FALSE]

Pull(c) ==
    LET p == pass[c]
        got == [i \in p.pull \intersect DOMAIN reviews |-> apply_review(c, reviews[i])]
    IN  /\ p.stage = "pull"
        /\ log' = [log EXCEPT ![c] = Update(got, @)]
        /\ undo' = IF p.pull = {} THEN undo ELSE [undo EXCEPT ![c] = Nothing]
        /\ GoTo(c, [p EXCEPT !.stage = "push"])
        /\ UNCHANGED <<cards, known, today, serverVars, crt, day, given, events>>

\* Mutant: every row of the log stops being pending.
ClearedAll(c, p) == IF c \in Desktop THEN DOMAIN log[c] ELSE {}

\* Only rows the server is known to have stop being pending, and only with newest_wins.
Cleared(c, p) == IF c \in Desktop THEN p.shared \union DOMAIN p.push ELSE {}

clear_review_usns(c, ids) ==
    /\ log' = [log EXCEPT ![c] = [i \in DOMAIN @ |->
                  IF i \in ids THEN [@[i] EXCEPT !.pending = FALSE] ELSE @[i]]]
    /\ undo' = IF ids = {} THEN undo ELSE [undo EXCEPT ![c] = Nothing]

Push(c) ==
    LET p == pass[c]
        refused == PushConflicts(p.push) # {}
    IN  /\ p.stage = "push"
        /\ reviews' = Accepted(p.push)
        /\ \/ /\ ~refused
              /\ clear_review_usns(c, Cleared(c, p))
              /\ GoTo(c, [stage |-> "days", days |-> p.days])
              /\ UNCHANGED events
           \/ /\ refused
              /\ Stop(c) /\ UNCHANGED <<log, undo, events>>
           \/ /\ DOMAIN p.push # {} /\ Event              \* the answer is lost
              /\ Stop(c) /\ UNCHANGED <<log, undo>>
        /\ UNCHANGED <<cards, known, today, days, dead, crt, day, given>>

\* The counter is read here; it is published if it is not 0.
PushDay(c) ==
    LET p == pass[c]
        mine == local_study_day(c)
    IN  /\ p.stage = "days"
        /\ days' = IF mine.n = 0 THEN days ELSE PushedDay(mine)
        /\ GoTo(c, [stage |-> "apply", merged |-> merge_study_days(p.days, mine)])
        /\ UNCHANGED <<clientVars, reviews, dead, crt, day, given, events>>

\* ... and what the manifest had, many requests ago, is merged into it.
ApplyDay(c) ==
    LET merged == pass[c].merged
        counter == [day |-> merged.day - crt[c], n |-> merged.n]
    IN  /\ pass[c].stage = "apply"
        /\ today' = [today EXCEPT ![c] = counter]
        /\ undo' = IF counter = today[c] THEN undo ELSE [undo EXCEPT ![c] = Nothing]
        /\ Stop(c)
        /\ UNCHANGED <<log, cards, known, serverVars, crt, day, given, events>>

\* A request fails, or the program ends: what was done stays done.
Fail(c) ==
    /\ pass[c] # Idle /\ Event
    /\ Stop(c)
    /\ UNCHANGED <<clientVars, serverVars, crt, day, given>>

-----------------------------------------------------------------------------
(* The user.                                                               *)

\* An answer of client c: the counter starts again on a new day.
update_deck_stats(counter, d, delta) ==
    IF counter.day = d THEN [counter EXCEPT !.n = @ + delta] ELSE [day |-> d, n |-> delta]

Latest == Max({0} \union {g.id : g \in given})

\* A review's id is the time of the answer: two clients may hit the same millisecond.
Answer(c, k, i) ==
    /\ k \in cards[c] /\ Event
    /\ i \in Ids \ DOMAIN log[c] /\ i \in {Latest, Latest + 1}
    /\ \A g \in given : g.id = i => g.by # c
    /\ log' = [log EXCEPT ![c] = Update(@, [j \in {i} |-> [card |-> k, by |-> c, pending |-> TRUE]])]
    /\ today' = [today EXCEPT ![c] = update_deck_stats(@, LocalDay(c), 1)]
    /\ undo' = [undo EXCEPT ![c] = [op |-> "answer", id |-> i, today |-> today[c]]]
    /\ given' = given \union {[id |-> i, card |-> k, by |-> c]}
    /\ UNCHANGED <<cards, known, serverVars, pass, crt, day>>

DeleteCard(c, k) ==
    /\ k \in cards[c] /\ Event
    /\ cards' = [cards EXCEPT ![c] = @ \ {k}]
    /\ undo' = [undo EXCEPT ![c] = [op |-> "delete", card |-> k]]
    /\ UNCHANGED <<log, known, today, serverVars, pass, crt, day, given>>

UndoAnswer(c) ==
    /\ undo[c].op = "answer" /\ Event
    /\ log' = [log EXCEPT ![c] = Only(@, DOMAIN @ \ {undo[c].id})]
    /\ today' = [today EXCEPT ![c] = undo[c].today]
    /\ undo' = [undo EXCEPT ![c] = Nothing]
    /\ UNCHANGED <<cards, known, serverVars, pass, crt, day, given>>

UndoDelete(c) ==
    /\ undo[c].op = "delete" /\ Event
    /\ cards' = [cards EXCEPT ![c] = @ \union {undo[c].card}]
    /\ undo' = [undo EXCEPT ![c] = Nothing]
    /\ UNCHANGED <<log, known, today, serverVars, pass, crt, day, given>>

\* reset_work: everything local goes, and the snapshot with it; the pass that
\* follows restores it from the server.
Reset(c) ==
    /\ c \in Desktop /\ Event
    /\ log' = [log EXCEPT ![c] = Empty]
    /\ cards' = [cards EXCEPT ![c] = {}]
    /\ known' = [known EXCEPT ![c] = {}]
    /\ today' = [today EXCEPT ![c] = [day |-> 0, n |-> 0]]
    /\ undo' = [undo EXCEPT ![c] = Nothing]
    /\ UNCHANGED <<serverVars, pass, crt, day, given>>

NextDay ==
    /\ day < MaxDay /\ Event
    /\ day' = day + 1
    /\ UNCHANGED <<clientVars, serverVars, pass, crt, given>>

-----------------------------------------------------------------------------
Init ==
    /\ log = [c \in Clients |-> Empty]
    /\ cards = [c \in Clients |-> Cards]
    /\ known = [c \in Clients |-> Cards]
    /\ today = [c \in Clients |-> [day |-> 0, n |-> 0]]
    /\ undo = [c \in Clients |-> Nothing]
    /\ pass = [c \in Clients |-> Idle]
    /\ crt \in Crts
    /\ reviews = Empty
    /\ days = Empty
    /\ dead = {}
    /\ day = 1
    /\ given = {}
    /\ events = 0

PassStep(c) ==
    \/ Begin(c)
    \/ Compare(c)
    \/ Pull(c)
    \/ Push(c)
    \/ PushDay(c)
    \/ ApplyDay(c)

\* Operations of the user wait for the pass (taskman.py: one worker).
UserStep(c) ==
  /\ pass[c] = Idle
  /\ \/ \E k \in Cards, i \in Ids : Answer(c, k, i)
     \/ \E k \in Cards : DeleteCard(c, k)
     \/ UndoAnswer(c)
     \/ UndoDelete(c)
     \/ Reset(c)

Next == NextDay \/ \E c \in Clients : PassStep(c) \/ Fail(c) \/ UserStep(c)

Spec == Init /\ [][Next]_vars

\* Users go on syncing, and a pass that runs goes on.
FairSpec == Spec /\ \A c \in Clients : WF_vars(PassStep(c))

-----------------------------------------------------------------------------
Row == [card : Cards \union {NoCard}, by : Clients, pending : BOOLEAN]
Record == [card : Cards \union {NoCard}, by : Clients]
Records(f, R) == DOMAIN f \subseteq Ids /\ \A i \in DOMAIN f : f[i] \in R

\* Types: logs and the server's reviews are partial functions of the ids given.
TypeOK ==
    /\ \A c \in Clients : Records(log[c], Row) /\ cards[c] \subseteq Cards /\ known[c] \subseteq Cards
    /\ Records(reviews, Record) /\ dead \subseteq Cards
    /\ \A c \in Clients : today[c].day \in Int /\ today[c].n \in 0..MaxEvents
    /\ \A d \in DOMAIN days : days[d] \in 1..MaxEvents
    /\ \A c \in Clients : pass[c].stage \in {"idle", "compare", "pull", "push", "days", "apply"}
    /\ \A c \in Clients : undo[c].op \in {"none", "answer", "delete"}
    /\ {g.id : g \in given} \subseteq Ids /\ day \in 1..MaxDay /\ events \in 0..MaxEvents

\* The review of an id that was answered by some client on some card.
Real(i, r) == \E g \in given : g.id = i /\ g.by = r.by /\ r.card \in {g.card, NoCard}

\* Wherever a review has come to, it is one that was given, under its own id and at no
\* other card; and what no longer counts as pending, although answers to pushes get lost
\* and logs are reset, is on the server, save a review without a card whose id another
\* one has taken there (_apply_review, _clear_review_usns).
HistoryHonest ==
    /\ \A i \in DOMAIN reviews : Real(i, reviews[i])
    /\ \A c \in Clients : \A i \in DOMAIN log[c] :
          /\ Real(i, log[c][i])
          /\ c \in Desktop /\ ~log[c][i].pending =>
                /\ i \in DOMAIN reviews
                /\ RowRecord(c, log[c][i]).card # NoCard => reviews[i].by = log[c][i].by

StudiedToday(c) == IF today[c].day = LocalDay(c) THEN today[c].n ELSE 0

\* Some collection with an earlier beginning counts the same day higher.
Overtaken(c) == \E d \in DOMAIN days : d > PortableDay(c, LocalDay(c))

\* A pass takes away nothing of what was studied today ("merge the server's monotonic
\* snapshots"), although it merges with what a manifest said many requests before, save
\* where collections do not count days alike.
CountersKept ==
    [][\A c \in Clients : ApplyDay(c) =>
          Overtaken(c) \/ StudiedToday(c)' >= StudiedToday(c)]_vars

\* A client that no pass can get past its conflicts.
Stuck == \E c \in Clients :
            LET mine == local_review_records(c)
            IN  ConflictIds(mine, ScopedReviews(c, reviews)) # {} \/ PushConflicts(mine) # {}

Agreed ==
    /\ \A c \in Clients : DOMAIN ScopedReviews(c, reviews) \subseteq DOMAIN log[c]
    /\ \A c \in Clients : DOMAIN local_review_records(c) \subseteq DOMAIN reviews
    /\ \A c, d \in Clients : local_study_day(c).n # 0 => local_study_day(c) = local_study_day(d)

\* Once answers and faults stop, all logs hold all reviews, and the deck's counter is the
\* same everywhere, unless a conflict is left to the user.
Converges == <>[](Agreed \/ Stuck)
=============================================================================
