--------------------------- MODULE HistorySyncProofs ---------------------------
(***************************************************************************)
(* Theorems about HistorySync, for every set of clients, every choice of   *)
(* those that are KelmaDesktop or sync picked decks, and every bound.      *)
(***************************************************************************)
EXTENDS HistorySync, FiniteSetTheorems, WellFoundedInduction, TLAPS

-----------------------------------------------------------------------------
(* Partial functions, which logs, reviews and study days are.              *)

Partial(S, T) == UNION {[D -> T] : D \in SUBSET S}

LEMMA PartialMeans ==
    ASSUME NEW S, NEW T, NEW f
    PROVE  f \in Partial(S, T) <=> f \in [DOMAIN f -> T] /\ DOMAIN f \subseteq S
BY DEF Partial

\* Update keeps all of its second argument, and of the first what the second lacks.
LEMMA UpdatePartial ==
    ASSUME NEW S, NEW T, NEW f \in Partial(S, T), NEW g \in Partial(S, T)
    PROVE  /\ Update(f, g) \in Partial(S, T)
           /\ \A i : i \in DOMAIN Update(f, g) <=> i \in DOMAIN f \/ i \in DOMAIN g
           /\ \A i \in DOMAIN g : Update(f, g)[i] = g[i]
           /\ \A i \in DOMAIN f : i \notin DOMAIN g => Update(f, g)[i] = f[i]
<1>1. f \in [DOMAIN f -> T] /\ DOMAIN f \subseteq S /\ g \in [DOMAIN g -> T] /\ DOMAIN g \subseteq S
  BY PartialMeans
<1>2. Update(f, g) \in [DOMAIN f \union DOMAIN g -> T]
  BY <1>1 DEF Update
<1> QED BY <1>1, <1>2, PartialMeans DEF Update

LEMMA OnlyPartial ==
    ASSUME NEW S, NEW T, NEW f \in Partial(S, T), NEW X
    PROVE  /\ Only(f, X) \in Partial(S, T)
           /\ \A i : i \in DOMAIN Only(f, X) <=> i \in DOMAIN f /\ i \in X
           /\ \A i \in DOMAIN Only(f, X) : Only(f, X)[i] = f[i]
<1>1. f \in [DOMAIN f -> T] /\ DOMAIN f \subseteq S
  BY PartialMeans
<1>2. Only(f, X) \in [DOMAIN f \intersect X -> T]
  BY <1>1 DEF Only
<1> QED BY <1>1, <1>2, PartialMeans DEF Only

LEMMA EmptyPartial == ASSUME NEW S, NEW T PROVE Empty \in Partial(S, T) /\ DOMAIN Empty = {}
<1>1. Empty \in [{} -> T] BY DEF Empty
<1> QED BY <1>1 DEF Partial, Empty

\* A finite set of integers has a largest element, and it is the one that Max chooses.
LEMMA MaxIsLargest ==
    ASSUME NEW S \in SUBSET Int, IsFiniteSet(S), S # {}
    PROVE  Max(S) \in S /\ \A x \in S : x <= Max(S)
<1> DEFINE Unbounded == {T \in SUBSET S : T # {} /\ \A m \in T : \E x \in T : x > m}
           Sizes == {Cardinality(T) : T \in Unbounded}
<1>1. \A T \in SUBSET S : IsFiniteSet(T) /\ Cardinality(T) \in Nat
  BY FS_Subset, FS_CardinalityType
<1>2. Unbounded = {}
  <2> SUFFICES ASSUME Unbounded # {} PROVE FALSE OBVIOUS
  <2>1. Sizes \subseteq Nat /\ Sizes # {} BY <1>1
  <2>2. \E n \in Sizes : \A m \in Sizes : ~(<<m, n>> \in OpToRel(<, Nat))
    <3> HIDE DEF Sizes
    <3> QED BY <2>1, NatLessThanWellFounded, WFMin
  <2>3. PICK T \in Unbounded : \A m \in Sizes : ~(<<m, Cardinality(T)>> \in OpToRel(<, Nat))
    BY <2>2
  <2>4. \A m \in Sizes : ~(m < Cardinality(T))
    <3> TAKE m \in Sizes
    <3>1. m \in Nat /\ Cardinality(T) \in Nat BY <2>1
    <3>2. <<m, Cardinality(T)>> \in Nat \X Nat /\ <<m, Cardinality(T)>>[1] = m
          /\ <<m, Cardinality(T)>>[2] = Cardinality(T)
      BY <3>1
    <3> QED BY <2>3, <3>1, <3>2 DEF OpToRel
  <2>5. PICK a \in T : TRUE OBVIOUS
  <2>6. PICK b \in T : b > a OBVIOUS
  <2>7. T \ {a} \in Unbounded
    <3>1. \A m \in T \ {a} : \E x \in T \ {a} : x > m
      <4> TAKE m \in T \ {a}
      <4>1. PICK x \in T : x > m OBVIOUS
      <4>2. CASE x # a BY <4>1, <4>2
      <4>3. CASE x = a
        <5>1. b > m /\ b # a BY <2>6, <4>1, <4>3
        <5> QED BY <5>1
      <4> QED BY <4>2, <4>3
    <3> QED BY <2>6, <3>1
  <2>8. Cardinality(T \ {a}) \in Sizes /\ Cardinality(T \ {a}) = Cardinality(T) - 1
    BY <1>1, <2>7, FS_RemoveElement
  <2> QED BY <1>1, <2>4, <2>8
<1>3. \E m \in S : \A x \in S : ~(x > m)
  BY <1>2
<1>4. \E m \in S : \A x \in S : m >= x
  BY <1>3
<1> QED BY <1>4 DEF Max

-----------------------------------------------------------------------------
(* Types.                                                                  *)

Logs == Partial(Ids, Row)
ReviewTables == Partial(Ids, Record)
DayTables == {d \in Partial(Int, Nat \ {0}) : IsFiniteSet(DOMAIN d)}
Counters == [day : Int, n : Nat]

Undos == {Nothing} \union [op : {"answer"}, id : Ids, today : Counters]
                   \union [op : {"delete"}, card : Cards]

Comparing == [stage : {"compare"}, reviews : ReviewTables, days : DayTables]
Moving == [stage : {"pull", "push"}, days : DayTables, pull : SUBSET Ids,
           push : ReviewTables, shared : SUBSET Ids]
Counting == [stage : {"days"}, days : DayTables]
Applying == [stage : {"apply"}, merged : Counters]
Passes == {Idle} \union Comparing \union Moving \union Counting \union Applying

\* What the variables may be; stronger than TypeOK in all but the bounds of the counters.
Types ==
    /\ log \in [Clients -> Logs]
    /\ cards \in [Clients -> SUBSET Cards] /\ known \in [Clients -> SUBSET Cards]
    /\ today \in [Clients -> Counters]
    /\ undo \in [Clients -> Undos]
    /\ pass \in [Clients -> Passes]
    /\ crt \in [Clients -> Nat]
    /\ reviews \in ReviewTables /\ days \in DayTables /\ dead \subseteq Cards
    /\ day \in 1..MaxDay /\ events \in 0..MaxEvents
    /\ {g.id : g \in given} \subseteq Ids

\* What a client reads of its log is a table of reviews, row for row.
LEMMA LocalRecords ==
    ASSUME Types, NEW c \in Clients
    PROVE  /\ local_review_records(c) \in ReviewTables
           /\ DOMAIN local_review_records(c) \subseteq DOMAIN log[c]
           /\ \A i \in DOMAIN local_review_records(c) :
                  local_review_records(c)[i] = RowRecord(c, log[c][i])
<1> DEFINE all == [i \in DOMAIN log[c] |-> RowRecord(c, log[c][i])]
<1>1. log[c] \in [DOMAIN log[c] -> Row] /\ DOMAIN log[c] \subseteq Ids
  BY PartialMeans DEF Types, Logs
<1>2. \A row \in Row : RowRecord(c, row) \in Record
  BY DEF RowRecord, Row, Record, Types
<1>3. all \in [DOMAIN log[c] -> Record] /\ DOMAIN all = DOMAIN log[c]
  BY <1>1, <1>2
<1>4. all \in Partial(Ids, Record)
  BY <1>1, <1>3, PartialMeans
<1> DEFINE X == {i \in DOMAIN all : c \in Routed => all[i].card # NoCard}
<1>5. local_review_records(c) = Only(all, X)
  BY DEF local_review_records
<1>6. \A i \in DOMAIN all : all[i] = RowRecord(c, log[c][i])
  BY <1>3
<1> HIDE DEF all, X
<1>7. /\ Only(all, X) \in Partial(Ids, Record)
      /\ \A i : i \in DOMAIN Only(all, X) <=> i \in DOMAIN all /\ i \in X
      /\ \A i \in DOMAIN Only(all, X) : Only(all, X)[i] = all[i]
  BY <1>4, OnlyPartial
<1> QED BY <1>3, <1>5, <1>6, <1>7 DEF ReviewTables

\* The merged counter is that of the latest day there is a record of, and no lower than
\* the client's own of that day.
LEMMA MergedCounter ==
    ASSUME NEW manifest \in DayTables, NEW mine \in Counters
    PROVE  LET merged == merge_study_days(manifest, mine)
           IN  /\ merged \in Counters
               /\ merged.day \in DOMAIN manifest \union {mine.day} /\ merged.day >= mine.day
               /\ merged.day = mine.day => merged.n >= mine.n
               /\ merged.n = mine.n \/ \E d \in DOMAIN manifest : merged.n = manifest[d]
<1> DEFINE Days == DOMAIN manifest \union {mine.day}
           latest == Max(Days)
           theirs == {manifest[d] : d \in DOMAIN manifest \intersect {latest}}
           own == {mine.n : d \in {mine.day} \intersect {latest}}
           same == theirs \union own
<1>1. /\ manifest \in [DOMAIN manifest -> Nat \ {0}] /\ DOMAIN manifest \subseteq Int
      /\ IsFiniteSet(DOMAIN manifest)
  BY PartialMeans DEF DayTables
<1>2. Days \subseteq Int /\ IsFiniteSet(Days) /\ Days # {} /\ mine.day \in Days
  BY <1>1, FS_AddElement DEF Counters
<1>3. latest \in Days /\ latest \in Int /\ \A d \in Days : d <= latest
  <2> HIDE DEF Days
  <2> QED BY <1>2, MaxIsLargest
<1> HIDE DEF latest
<1>4. theirs \subseteq {manifest[latest]} /\ own \subseteq {mine.n}
  OBVIOUS
<1>5. same \subseteq Nat /\ same # {}
  <2>1. same \subseteq Nat BY <1>1 DEF Counters
  <2>2. CASE latest \in DOMAIN manifest
    <3>1. manifest[latest] \in theirs BY <2>2
    <3> QED BY <2>1, <3>1
  <2>3. CASE latest = mine.day
    <3>1. mine.n \in own BY <2>3
    <3> QED BY <2>1, <3>1
  <2> QED BY <1>3, <2>2, <2>3
<1>6. IsFiniteSet(same)
  <2>1. IsFiniteSet({manifest[latest]}) /\ IsFiniteSet({mine.n}) BY FS_Singleton
  <2>2. IsFiniteSet(theirs) /\ IsFiniteSet(own) BY <1>4, <2>1, FS_Subset
  <2> QED BY <2>2, FS_Union
<1>7. Max(same) \in same /\ \A n \in same : n <= Max(same)
  <2> HIDE DEF same
  <2> QED BY <1>5, <1>6, MaxIsLargest
<1>8. merge_study_days(manifest, mine) = [day |-> latest, n |-> Max(same)]
  BY DEF merge_study_days, latest
<1>9. latest = mine.day => mine.n \in same
  OBVIOUS
<1>10. Max(same) \in Nat /\ (Max(same) = mine.n \/ \E d \in DOMAIN manifest : Max(same) = manifest[d])
  BY <1>5, <1>7, <1>4
<1> HIDE DEF same
<1> QED BY <1>3, <1>7, <1>8, <1>9, <1>10 DEF Counters

\* The stage tells what a pass carries.
LEMMA PassShape ==
    ASSUME NEW p \in Passes
    PROVE  /\ p.stage = "idle" <=> p = Idle
           /\ p.stage = "compare" => p \in Comparing
           /\ p.stage \in {"pull", "push"} => p \in Moving
           /\ p.stage = "days" => p \in Counting
           /\ p.stage = "apply" => p \in Applying
           /\ p.stage \in {"idle", "compare", "pull", "push", "days", "apply"}
BY DEF Passes, Idle, Comparing, Moving, Counting, Applying

\* The same of what there is to undo.
LEMMA UndoShape ==
    ASSUME NEW u \in Undos
    PROVE  /\ u.op = "answer" => u \in [op : {"answer"}, id : Ids, today : Counters]
           /\ u.op = "delete" => u \in [op : {"delete"}, card : Cards]
           /\ u.op \in {"none", "answer", "delete"}
BY DEF Undos, Nothing

LEMMA TypesInit == Init => Types
<1> SUFFICES ASSUME Init PROVE Types OBVIOUS
<1>1. Empty \in Logs /\ Empty \in ReviewTables /\ Empty \in Partial(Int, Nat \ {0}) /\ DOMAIN Empty = {}
  BY EmptyPartial DEF Logs, ReviewTables
<1>2. Empty \in DayTables
  BY <1>1, FS_EmptySet DEF DayTables
<1>3. day \in 1..MaxDay /\ 0 \in 0..MaxEvents
  BY HistoryAssumption DEF Init
<1> QED
  BY <1>1, <1>2, <1>3, HistoryAssumption DEF Init, Types, Undos, Passes, Counters

LEMMA TypesStep == Types /\ [Next]_vars => Types'
<1> SUFFICES ASSUME Types, [Next]_vars PROVE Types' OBVIOUS
<1>0. CASE UNCHANGED vars
  BY <1>0 DEF vars, clientVars, serverVars, Types
<1>1. CASE NextDay
  BY <1>1, HistoryAssumption DEF NextDay, Event, clientVars, serverVars, Types
<1> SUFFICES ASSUME NEW c \in Clients, PassStep(c) \/ Fail(c) \/ UserStep(c) PROVE Types'
  BY <1>0, <1>1 DEF Next
<1> DEFINE p == pass[c]
<1>s. /\ p.stage = "idle" <=> p = Idle
      /\ p.stage = "compare" => p \in Comparing
      /\ p.stage \in {"pull", "push"} => p \in Moving
      /\ p.stage = "days" => p \in Counting
      /\ p.stage = "apply" => p \in Applying
  BY PassShape DEF Types
<1>l. local_review_records(c) \in ReviewTables
  BY LocalRecords
<1>e. Event => events' \in 0..MaxEvents
  BY HistoryAssumption DEF Event, Types
<1>i. Idle \in Passes /\ Nothing \in Undos
  BY DEF Passes, Undos
<1>2. CASE Begin(c)
  <2> DEFINE gone == (dead \union (known[c] \ cards[c])) \ (cards[c] \ known[c])
             pulled == (Cards \ gone) \ cards[c]
             row(i) == IF log[c][i].card \in pulled THEN [log[c][i] EXCEPT !.card = NoCard] ELSE log[c][i]
             log2 == [i \in DOMAIN log[c] |-> row(i)]
  <2>1. log2 \in Logs
    <3>1. log[c] \in [DOMAIN log[c] -> Row] /\ DOMAIN log[c] \subseteq Ids
      BY PartialMeans DEF Types, Logs
    <3>2. \A i \in DOMAIN log[c] : row(i) \in Row
      BY <3>1 DEF Row
    <3>3. log2 \in [DOMAIN log[c] -> Row] /\ DOMAIN log2 = DOMAIN log[c]
      BY <3>2
    <3> HIDE DEF log2
    <3> QED BY <3>1, <3>3, PartialMeans DEF Logs
  <2>2. ScopedReviews(c, reviews) \in ReviewTables
    BY OnlyPartial DEF ScopedReviews, ReviewTables, Types
  <2>3. [stage |-> "compare", reviews |-> ScopedReviews(c, reviews), days |-> days] \in Passes
    BY <2>2 DEF Passes, Comparing, Types
  <2>4. /\ log' = [log EXCEPT ![c] = log2]
        /\ dead' = gone /\ cards' = [cards EXCEPT ![c] = Cards \ gone]
        /\ known' = [known EXCEPT ![c] = Cards \ gone]
        /\ undo' = undo \/ undo' = [undo EXCEPT ![c] = Nothing]
        /\ pass' = [pass EXCEPT ![c] = [stage |-> "compare", reviews |-> ScopedReviews(c, reviews), days |-> days]]
        /\ UNCHANGED <<today, reviews, days, crt, day, given, events>>
    BY <1>2 DEF Begin, GoTo
  <2>5. gone \subseteq Cards
    BY DEF Types
  <2> HIDE DEF gone, log2
  <2> QED BY <1>i, <2>1, <2>3, <2>4, <2>5 DEF Types
<1>3. CASE Compare(c)
  <2> DEFINE mine == local_review_records(c)
             moving == [stage |-> "pull", days |-> p.days, pull |-> DOMAIN p.reviews \ DOMAIN mine,
                        push |-> Only(mine, DOMAIN mine \ DOMAIN p.reviews),
                        shared |-> DOMAIN mine \intersect DOMAIN p.reviews]
  <2>1. p \in Comparing /\ (pass' = [pass EXCEPT ![c] = Idle] \/ pass' = [pass EXCEPT ![c] = moving])
    BY <1>3, <1>s DEF Compare, GoTo, Stop
  <2>2. Only(mine, DOMAIN mine \ DOMAIN p.reviews) \in ReviewTables
    BY <1>l, OnlyPartial DEF ReviewTables
  <2>3. DOMAIN mine \subseteq Ids /\ DOMAIN p.reviews \subseteq Ids
    BY <1>l, <2>1, PartialMeans DEF ReviewTables, Comparing
  <2>4. moving \in Moving
    <3> HIDE DEF mine
    <3> QED BY <2>1, <2>2, <2>3 DEF Comparing, Moving
  <2> HIDE DEF moving, mine
  <2> QED BY <1>3, <1>i, <2>1, <2>4 DEF Compare, clientVars, serverVars, Types, Passes
<1>4. CASE Pull(c)
  <2> DEFINE X == p.pull \intersect DOMAIN reviews
             got == [i \in X |-> apply_review(c, reviews[i])]
  <2>1. p \in Moving
    BY <1>4, <1>s DEF Pull
  <2>2. reviews \in [DOMAIN reviews -> Record] /\ DOMAIN reviews \subseteq Ids
    BY PartialMeans DEF Types, ReviewTables
  <2>3. \A r \in Record : apply_review(c, r) \in Row
    BY DEF apply_review, Record, Row, Types
  <2>4. got \in [X -> Row] /\ DOMAIN got = X
    BY <2>2, <2>3
  <2>5. got \in Logs
    BY <2>2, <2>4, PartialMeans DEF Logs
  <2>6. Update(got, log[c]) \in Logs
    <3> HIDE DEF got
    <3> QED BY <2>5, UpdatePartial DEF Logs, Types
  <2>7. [p EXCEPT !.stage = "push"] \in Passes
    BY <2>1 DEF Moving, Passes
  <2>8. /\ log' = [log EXCEPT ![c] = Update(got, log[c])]
        /\ undo' = undo \/ undo' = [undo EXCEPT ![c] = Nothing]
        /\ pass' = [pass EXCEPT ![c] = [p EXCEPT !.stage = "push"]]
        /\ UNCHANGED <<cards, known, today, serverVars, crt, day, given, events>>
    BY <1>4 DEF Pull, GoTo
  <2> HIDE DEF got
  <2> QED BY <1>i, <2>6, <2>7, <2>8 DEF serverVars, Types
<1>5. CASE Push(c)
  <2>1. p \in Moving
    BY <1>5, <1>s DEF Push
  <2>2. reviews' \in ReviewTables
    BY <1>5, <2>1, UpdatePartial DEF Push, Accepted, Types, ReviewTables, Moving
  <2>3. \A ids : clear_review_usns(c, ids) => log' \in [Clients -> Logs] /\ undo' \in [Clients -> Undos]
    <3> SUFFICES ASSUME NEW ids, clear_review_usns(c, ids)
                 PROVE  log' \in [Clients -> Logs] /\ undo' \in [Clients -> Undos]
      OBVIOUS
    <3> DEFINE row(i) == IF i \in ids THEN [log[c][i] EXCEPT !.pending = FALSE] ELSE log[c][i]
               log2 == [i \in DOMAIN log[c] |-> row(i)]
    <3>1. log[c] \in [DOMAIN log[c] -> Row] /\ DOMAIN log[c] \subseteq Ids
      BY PartialMeans DEF Types, Logs
    <3>2. \A i \in DOMAIN log[c] : row(i) \in Row
      BY <3>1 DEF Row
    <3>3. log2 \in [DOMAIN log[c] -> Row] /\ DOMAIN log2 = DOMAIN log[c]
      BY <3>2
    <3>4. log' = [log EXCEPT ![c] = log2]
      BY DEF clear_review_usns
    <3> HIDE DEF log2
    <3>5. log2 \in Logs
      BY <3>1, <3>3, PartialMeans DEF Logs
    <3> QED BY <1>i, <3>4, <3>5 DEF clear_review_usns, Types
  <2>4. log' \in [Clients -> Logs] /\ undo' \in [Clients -> Undos]
    BY <1>5, <2>3 DEF Push, Types
  <2>5. [stage |-> "days", days |-> p.days] \in Passes
    BY <2>1 DEF Moving, Counting, Passes
  <2>6. pass' \in [Clients -> Passes]
    BY <1>5, <1>i, <2>5 DEF Push, GoTo, Stop, Types
  <2>7. events' \in 0..MaxEvents
    BY <1>5, <1>e DEF Push, Types
  <2> QED BY <1>5, <2>2, <2>4, <2>6, <2>7 DEF Push, Types
<1>6. CASE PushDay(c)
  <2> DEFINE mine == local_study_day(c)
  <2>1. p \in Counting /\ p.days \in DayTables
    BY <1>6, <1>s DEF PushDay, Counting
  <2>2. mine \in Counters
    BY DEF local_study_day, PortableDay, Counters, Types
  <2>3. mine.n # 0 => PushedDay(mine) \in DayTables
    <3> SUFFICES ASSUME mine.n # 0 PROVE PushedDay(mine) \in DayTables OBVIOUS
    <3> DEFINE n(d) == IF d \in DOMAIN days THEN Max({days[d], mine.n}) ELSE mine.n
               new == [d \in {mine.day} |-> n(d)]
    <3>1. /\ days \in [DOMAIN days -> Nat \ {0}] /\ DOMAIN days \subseteq Int
          /\ IsFiniteSet(DOMAIN days)
      BY PartialMeans DEF DayTables, Types
    <3>2. \A m \in Nat \ {0} : Max({m, mine.n}) \in Nat \ {0}
      <4> TAKE m \in Nat \ {0}
      <4>1. {m, mine.n} \in SUBSET Int /\ IsFiniteSet({m, mine.n}) /\ {m, mine.n} # {}
        <5>1. IsFiniteSet({m}) /\ IsFiniteSet({m} \union {mine.n}) BY FS_Singleton, FS_AddElement
        <5>2. {m} \union {mine.n} = {m, mine.n} OBVIOUS
        <5> QED BY <2>2, <5>1, <5>2 DEF Counters
      <4>2. Max({m, mine.n}) \in {m, mine.n} BY <4>1, MaxIsLargest
      <4> QED BY <2>2, <4>2 DEF Counters
    <3>3. n(mine.day) \in Nat \ {0}
      <4> HIDE DEF mine
      <4> QED BY <2>2, <3>1, <3>2 DEF Counters
    <3>4. new \in [{mine.day} -> Nat \ {0}] /\ DOMAIN new = {mine.day} /\ {mine.day} \subseteq Int
      BY <2>2, <3>3 DEF Counters
    <3> HIDE DEF mine
    <3>5. PushedDay(mine) = Update(days, new)
      BY DEF PushedDay
    <3> HIDE DEF new
    <3>6. new \in Partial(Int, Nat \ {0})
      BY <3>4, PartialMeans
    <3>7. days \in Partial(Int, Nat \ {0})
      BY <3>1, PartialMeans
    <3>8. Update(days, new) \in Partial(Int, Nat \ {0})
      BY <3>6, <3>7, UpdatePartial
    <3>9. DOMAIN Update(days, new) = DOMAIN days \union {mine.day}
      BY <3>4 DEF Update
    <3>10. IsFiniteSet(DOMAIN days \union {mine.day})
      BY <3>1, FS_AddElement
    <3> QED BY <3>5, <3>8, <3>9, <3>10 DEF DayTables
  <2>4. merge_study_days(p.days, mine) \in Counters
    BY <2>1, <2>2, MergedCounter
  <2>5. [stage |-> "apply", merged |-> merge_study_days(p.days, mine)] \in Passes
    BY <2>4 DEF Passes, Applying
  <2> HIDE DEF mine
  <2>6. /\ days' = IF mine.n = 0 THEN days ELSE PushedDay(mine)
        /\ pass' = [pass EXCEPT ![c] = [stage |-> "apply", merged |-> merge_study_days(p.days, mine)]]
        /\ UNCHANGED <<clientVars, reviews, dead, crt, day, given, events>>
    BY <1>6 DEF PushDay, GoTo, mine
  <2> QED BY <2>3, <2>5, <2>6 DEF clientVars, Types
<1>7. CASE ApplyDay(c)
  <2>1. p.merged \in Counters
    BY <1>7, <1>s DEF ApplyDay, Applying
  <2>2. [day |-> p.merged.day - crt[c], n |-> p.merged.n] \in Counters
    BY <2>1 DEF Counters, Types
  <2> QED BY <1>7, <1>i, <2>2 DEF ApplyDay, Stop, GoTo, serverVars, Types
<1>8. CASE Fail(c)
  BY <1>8, <1>i, <1>e DEF Fail, Stop, GoTo, clientVars, serverVars, Types
<1>9. CASE UserStep(c)
  <2>1. ASSUME NEW k \in Cards, NEW i \in Ids, Answer(c, k, i) PROVE Types'
    <3> DEFINE row == [card |-> k, by |-> c, pending |-> TRUE]
               new == [j \in {i} |-> row]
    <3>1. row \in Row
      BY DEF Row
    <3>2. new \in [{i} -> Row] /\ DOMAIN new = {i}
      BY <3>1
    <3>3. new \in Logs
      <4> HIDE DEF new
      <4> QED BY <3>2, PartialMeans DEF Logs
    <3>4. log' = [log EXCEPT ![c] = Update(log[c], new)]
      BY <2>1 DEF Answer
    <3> HIDE DEF new
    <3>5. Update(log[c], new) \in Logs
      BY <3>3, UpdatePartial DEF Logs, Types
    <3>6. update_deck_stats(today[c], LocalDay(c), 1) \in Counters
      BY DEF update_deck_stats, LocalDay, Counters, Types
    <3>7. [op |-> "answer", id |-> i, today |-> today[c]] \in Undos
      BY DEF Undos, Types
    <3>8. {g.id : g \in given'} \subseteq Ids
      BY <2>1 DEF Answer, Types
    <3> QED BY <2>1, <1>e, <3>4, <3>5, <3>6, <3>7, <3>8 DEF Answer, serverVars, Types
  <2>2. ASSUME NEW k \in Cards, DeleteCard(c, k) PROVE Types'
    <3>1. [op |-> "delete", card |-> k] \in Undos
      BY DEF Undos
    <3> QED BY <2>2, <1>e, <3>1 DEF DeleteCard, serverVars, Types
  <2>3. CASE UndoAnswer(c)
    <3>1. undo[c].today \in Counters
      BY <2>3, UndoShape DEF UndoAnswer, Types
    <3>2. Only(log[c], DOMAIN log[c] \ {undo[c].id}) \in Logs
      BY OnlyPartial DEF Logs, Types
    <3> QED BY <2>3, <1>e, <1>i, <3>1, <3>2 DEF UndoAnswer, serverVars, Types
  <2>4. CASE UndoDelete(c)
    <3>1. undo[c].card \in Cards
      BY <2>4, UndoShape DEF UndoDelete, Types
    <3> QED BY <2>4, <1>e, <1>i, <3>1 DEF UndoDelete, serverVars, Types
  <2>5. CASE Reset(c)
    <3>1. Empty \in Logs
      BY EmptyPartial DEF Logs
    <3>2. [day |-> 0, n |-> 0] \in Counters
      BY DEF Counters
    <3> QED BY <2>5, <1>e, <1>i, <3>1, <3>2 DEF Reset, serverVars, Types
  <2> QED BY <1>9, <2>1, <2>2, <2>3, <2>4, <2>5 DEF UserStep
<1> QED
  BY <1>2, <1>3, <1>4, <1>5, <1>6, <1>7, <1>8, <1>9 DEF PassStep
-----------------------------------------------------------------------------
(* Counters: bounded by what happened, and what a pass is about to store.  *)

\* No counter, stored or on its way, exceeds the number of answers.
Bounded(c) ==
    LET p == pass[c]
    IN  /\ today[c].n <= events
        /\ undo[c].op = "answer" => undo[c].today.n <= events
        /\ p.stage \in {"compare", "pull", "push", "days"} => \A d \in DOMAIN p.days : p.days[d] <= events
        /\ p.stage = "apply" => p.merged.n <= events

\* The days of a manifest stay on the server, and the merged counter is of no earlier day
\* than the client's own, lower on the same day never, of a later one the server has.
Current(c) ==
    LET p == pass[c]
        own == PortableDay(c, today[c].day)
    IN  /\ p.stage \in {"compare", "pull", "push", "days"} => DOMAIN p.days \subseteq DOMAIN days
        /\ p.stage = "apply" =>
              /\ p.merged.day >= own
              /\ p.merged.day = own => p.merged.n >= today[c].n
              /\ p.merged.day > own => p.merged.day \in DOMAIN days

CountInv ==
    /\ \A d \in DOMAIN days : days[d] <= events
    /\ \A c \in Clients : Bounded(c) /\ Current(c)

LEMMA CountInit == Init => CountInv
BY DEF Init, CountInv, Bounded, Current, Empty, Nothing, Idle

\* Nobody but a client itself, and time, disturbs what is said of its counters.
LEMMA CountUndisturbed ==
    ASSUME Types, NEW c \in Clients, Bounded(c), Current(c),
           events' \in Nat, events <= events', DOMAIN days \subseteq DOMAIN days',
           today'[c] = today[c], undo'[c] = undo[c], pass'[c] = pass[c], crt'[c] = crt[c]
    PROVE  Bounded(c)' /\ Current(c)'
<1> DEFINE p == pass[c]
<1>1. /\ p.stage = "compare" => p \in Comparing
      /\ p.stage \in {"pull", "push"} => p \in Moving
      /\ p.stage = "days" => p \in Counting
      /\ p.stage = "apply" => p \in Applying
  BY PassShape DEF Types
<1>2. p.stage \in {"compare", "pull", "push", "days"} => p.days \in [DOMAIN p.days -> Nat \ {0}]
  BY <1>1, PartialMeans DEF Comparing, Moving, Counting, DayTables
<1>3. undo[c].op = "answer" => undo[c].today.n \in Nat
  BY UndoShape DEF Types, Counters
<1>4. p.stage = "apply" => p.merged.n \in Nat
  BY <1>1 DEF Applying, Counters
<1>5. today[c].n \in Nat /\ events \in Nat
  BY DEF Types, Counters
<1>6. Bounded(c)'
  BY <1>2, <1>3, <1>4, <1>5 DEF Bounded
<1>7. Current(c)'
  BY DEF Current, PortableDay
<1> QED BY <1>6, <1>7

\* What the server keeps of a day: the higher counter, and all other days.
LEMMA PushedDayKeeps ==
    ASSUME Types, NEW mine \in Counters
    PROVE  /\ \A d : d \in DOMAIN PushedDay(mine) <=> d \in DOMAIN days \/ d = mine.day
           /\ \A d \in DOMAIN PushedDay(mine) :
                 \/ PushedDay(mine)[d] = mine.n
                 \/ d \in DOMAIN days /\ PushedDay(mine)[d] = days[d]
<1> DEFINE n(d) == IF d \in DOMAIN days THEN Max({days[d], mine.n}) ELSE mine.n
           new == [d \in {mine.day} |-> n(d)]
<1>1. days \in [DOMAIN days -> Nat \ {0}]
  BY PartialMeans DEF DayTables, Types
<1>2. mine.day \in DOMAIN days => n(mine.day) \in {days[mine.day], mine.n}
  <2> SUFFICES ASSUME mine.day \in DOMAIN days
               PROVE  Max({days[mine.day], mine.n}) \in {days[mine.day], mine.n}
    OBVIOUS
  <2> DEFINE m == days[mine.day]
  <2>1. m \in Nat /\ mine.n \in Nat
    BY <1>1 DEF Counters
  <2> HIDE DEF m
  <2>2. IsFiniteSet({m}) /\ IsFiniteSet({m} \union {mine.n}) BY FS_Singleton, FS_AddElement
  <2>3. {m} \union {mine.n} = {m, mine.n} OBVIOUS
  <2>4. Max({m, mine.n}) \in {m, mine.n} BY <2>1, <2>2, <2>3, MaxIsLargest
  <2> QED BY <2>4 DEF m
<1>3. new[mine.day] = n(mine.day) /\ DOMAIN new = {mine.day}
  OBVIOUS
<1>4. mine.day \notin DOMAIN days => n(mine.day) = mine.n
  OBVIOUS
<1>5. PushedDay(mine) = Update(days, new)
  BY DEF PushedDay
<1> HIDE DEF new, n
<1>6. /\ \A d : d \in DOMAIN Update(days, new) <=> d \in DOMAIN days \/ d = mine.day
      /\ Update(days, new)[mine.day] = new[mine.day]
      /\ \A d \in DOMAIN days : d # mine.day => Update(days, new)[d] = days[d]
  BY <1>3 DEF Update
<1> QED BY <1>2, <1>3, <1>4, <1>5, <1>6

LEMMA CountStep == Types /\ CountInv /\ [Next]_vars => CountInv'
<1> SUFFICES ASSUME Types, CountInv, [Next]_vars PROVE CountInv' OBVIOUS
<1>t. Types'
  BY TypesStep
<1>0. CASE UNCHANGED vars
  BY <1>0, CountUndisturbed DEF vars, clientVars, serverVars, Types, CountInv
<1>1. CASE NextDay
  <2>1. events' \in Nat /\ events <= events' /\ UNCHANGED <<today, undo, pass, crt, days>>
    BY <1>1 DEF NextDay, Event, Types, clientVars, serverVars
  <2>2. \A c \in Clients : Bounded(c)' /\ Current(c)'
    BY <2>1, CountUndisturbed DEF CountInv
  <2>3. \A d \in DOMAIN days : days[d] \in Nat
    BY PartialMeans DEF Types, DayTables
  <2> QED BY <2>1, <2>2, <2>3 DEF CountInv, Types
<1> SUFFICES ASSUME NEW c \in Clients, PassStep(c) \/ Fail(c) \/ UserStep(c) PROVE CountInv'
  BY <1>0, <1>1 DEF Next
<1> DEFINE p == pass[c]
<1>s. /\ p.stage = "compare" => p \in Comparing
      /\ p.stage \in {"pull", "push"} => p \in Moving
      /\ p.stage = "days" => p \in Counting
      /\ p.stage = "apply" => p \in Applying
  BY PassShape DEF Types
<1>b. /\ events \in Nat /\ today[c] \in Counters /\ crt[c] \in Nat
      /\ Bounded(c) /\ Current(c)
      /\ \A d \in DOMAIN days : days[d] \in Nat /\ days[d] <= events
  BY PartialMeans DEF Types, DayTables, CountInv
\* It is enough to look at the client that moves, if the server keeps its days.
<1>o. ASSUME events' \in Nat, events <= events', DOMAIN days \subseteq DOMAIN days',
             \A d \in DOMAIN days' : days'[d] <= events',
             \A d \in Clients \ {c} : /\ today'[d] = today[d] /\ undo'[d] = undo[d]
                                      /\ pass'[d] = pass[d] /\ crt'[d] = crt[d],
             Bounded(c)', Current(c)'
      PROVE  CountInv'
  <2>1. \A d \in Clients \ {c} : Bounded(d)' /\ Current(d)'
    BY <1>o, CountUndisturbed DEF CountInv
  <2> QED BY <1>o, <2>1 DEF CountInv
<1>e. Event => events' = events + 1
  BY DEF Event
<1>2. CASE Begin(c)
  <2>1. /\ UNCHANGED <<today, days, crt, events>>
        /\ undo' = undo \/ undo' = [undo EXCEPT ![c] = Nothing]
        /\ pass' = [pass EXCEPT ![c] = [stage |-> "compare", reviews |-> ScopedReviews(c, reviews), days |-> days]]
    BY <1>2 DEF Begin, GoTo
  <2>2. Bounded(c)' /\ Current(c)'
    BY <1>b, <2>1 DEF Bounded, Current, Nothing, Types
  <2> QED BY <1>b, <1>o, <2>1, <2>2 DEF Types
<1>3. CASE Compare(c)
  <2> DEFINE mine == local_review_records(c)
             moving == [stage |-> "pull", days |-> p.days, pull |-> DOMAIN p.reviews \ DOMAIN mine,
                        push |-> Only(mine, DOMAIN mine \ DOMAIN p.reviews),
                        shared |-> DOMAIN mine \intersect DOMAIN p.reviews]
  <2>1. /\ UNCHANGED <<today, undo, days, crt, events>> /\ p.stage = "compare"
        /\ pass' = [pass EXCEPT ![c] = Idle] \/ pass' = [pass EXCEPT ![c] = moving]
    BY <1>3 DEF Compare, GoTo, Stop, clientVars, serverVars
  <2>2. moving.stage = "pull" /\ moving.days = p.days
    OBVIOUS
  <2> HIDE DEF moving
  <2>3. Bounded(c)' /\ Current(c)'
    BY <1>b, <2>1, <2>2 DEF Bounded, Current, Idle, Types
  <2> QED BY <1>b, <1>o, <2>1, <2>3 DEF Types
<1>4. CASE Pull(c)
  <2>1. /\ UNCHANGED <<today, days, crt, events>> /\ p.stage = "pull"
        /\ undo' = undo \/ undo' = [undo EXCEPT ![c] = Nothing]
        /\ pass' = [pass EXCEPT ![c] = [p EXCEPT !.stage = "push"]]
    BY <1>4 DEF Pull, GoTo, serverVars
  <2>2. [p EXCEPT !.stage = "push"].stage = "push" /\ [p EXCEPT !.stage = "push"].days = p.days
    BY <1>s, <2>1 DEF Moving
  <2>3. Bounded(c)' /\ Current(c)'
    BY <1>b, <2>1, <2>2 DEF Bounded, Current, Nothing, Types
  <2> QED BY <1>b, <1>o, <2>1, <2>3 DEF Types
<1>5. CASE Push(c)
  <2>1. /\ UNCHANGED <<today, days, crt>> /\ p.stage = "push"
        /\ events' = events \/ events' = events + 1
        /\ undo' = undo \/ undo' = [undo EXCEPT ![c] = Nothing]
        /\ pass' = [pass EXCEPT ![c] = Idle] \/ pass' = [pass EXCEPT ![c] = [stage |-> "days", days |-> p.days]]
    BY <1>5, <1>e DEF Push, GoTo, Stop, clear_review_usns
  <2>2. \A d \in DOMAIN p.days : p.days[d] \in Nat
    BY <1>s, <2>1, PartialMeans DEF Moving, DayTables
  <2>3. undo[c].op = "answer" => undo[c].today.n \in Nat
    BY UndoShape DEF Types, Counters
  <2>4. Bounded(c)'
    BY <1>b, <2>1, <2>2, <2>3 DEF Bounded, Nothing, Idle, Types, Counters
  <2>5. Current(c)'
    BY <1>b, <2>1 DEF Current, Idle, Types
  <2> QED BY <1>b, <1>o, <2>1, <2>4, <2>5 DEF Types
<1>6. CASE PushDay(c)
  <2> DEFINE mine == local_study_day(c)
             merged == merge_study_days(p.days, mine)
  <2>1. p \in Counting /\ p.days \in DayTables /\ p.stage = "days"
    BY <1>6, <1>s DEF PushDay, Counting
  <2>2. mine \in Counters /\ mine.n = today[c].n /\ mine.day = PortableDay(c, today[c].day)
    BY <1>b DEF local_study_day, PortableDay, Counters
  <2>3. /\ merged \in Counters
        /\ merged.day \in DOMAIN p.days \union {mine.day} /\ merged.day >= mine.day
        /\ merged.day = mine.day => merged.n >= mine.n
        /\ merged.n = mine.n \/ \E d \in DOMAIN p.days : merged.n = p.days[d]
    BY <2>1, <2>2, MergedCounter
  <2>4. /\ days' = IF mine.n = 0 THEN days ELSE PushedDay(mine)
        /\ pass' = [pass EXCEPT ![c] = [stage |-> "apply", merged |-> merged]]
        /\ UNCHANGED <<today, undo, crt, events>>
    BY <1>6 DEF PushDay, GoTo, clientVars
  <2>5. DOMAIN days \subseteq DOMAIN days' /\ \A d \in DOMAIN days' : days'[d] <= events'
    BY <1>b, <2>2, <2>4, PushedDayKeeps DEF Bounded
  <2> HIDE DEF mine, merged
  <2>6. pass'[c].stage = "apply" /\ pass'[c].merged = merged /\ PortableDay(c, today[c].day)' = mine.day
    BY <2>2, <2>4 DEF PortableDay, Types
  <2>7. Bounded(c)'
    BY <1>b, <2>1, <2>2, <2>3, <2>4, <2>6 DEF Bounded
  <2>8. DOMAIN p.days \subseteq DOMAIN days
    BY <1>b, <2>1 DEF Current
  <2>9. mine.day \in Int /\ merged.day \in Int /\ (merged.day > mine.day => merged.day \in DOMAIN days')
    BY <2>2, <2>3, <2>5, <2>8 DEF Counters
  <2>10. Current(c)'
    BY <2>2, <2>3, <2>4, <2>6, <2>9 DEF Current
  <2> QED BY <1>b, <1>o, <2>4, <2>5, <2>7, <2>10 DEF Types
<1>7. CASE ApplyDay(c)
  <2>1. p.merged \in Counters /\ p.merged.n <= events
    BY <1>7, <1>s, <1>b DEF ApplyDay, Applying, Bounded
  <2>2. /\ pass' = [pass EXCEPT ![c] = Idle]
        /\ today' = [today EXCEPT ![c] = [day |-> p.merged.day - crt[c], n |-> p.merged.n]]
        /\ undo' = undo \/ undo' = [undo EXCEPT ![c] = Nothing]
        /\ UNCHANGED <<days, crt, events>>
    BY <1>7 DEF ApplyDay, GoTo, Stop, serverVars
  <2>3. Bounded(c)' /\ Current(c)'
    BY <1>b, <2>1, <2>2 DEF Bounded, Current, Idle, Nothing, Types
  <2> QED BY <1>b, <1>o, <2>2, <2>3 DEF Types
<1>8. CASE Fail(c)
  <2>1. /\ pass' = [pass EXCEPT ![c] = Idle]
        /\ UNCHANGED <<today, undo, days, crt>> /\ events' = events + 1
    BY <1>8, <1>e DEF Fail, GoTo, Stop, clientVars, serverVars
  <2>2. undo[c].op = "answer" => undo[c].today.n \in Nat
    BY UndoShape DEF Types, Counters
  <2>3. Bounded(c)' /\ Current(c)'
    BY <1>b, <2>1, <2>2 DEF Bounded, Current, Idle, Types, Counters
  <2> QED BY <1>b, <1>o, <2>1, <2>3 DEF Types
<1>9. CASE UserStep(c)
  <2>1. p = Idle /\ p.stage = "idle" /\ UNCHANGED <<pass, crt, days>> /\ events' = events + 1
    <3>1. p = Idle /\ p.stage = "idle"
      BY <1>9 DEF UserStep, Idle
    <3>2. Event /\ UNCHANGED <<pass, crt, serverVars>>
      BY <1>9, Zenon DEF UserStep, Answer, DeleteCard, UndoAnswer, UndoDelete, Reset
    <3> QED BY <1>e, <3>1, <3>2 DEF serverVars
  <2>2. /\ \A d \in Clients \ {c} : today'[d] = today[d] /\ undo'[d] = undo[d]
        /\ today'[c].n <= events + 1
        /\ undo'[c].op = "answer" => undo'[c].today.n <= events + 1
    <3>1. ASSUME NEW k \in Cards, NEW i \in Ids, Answer(c, k, i) PROVE <2>2
      <4>1. /\ today' = [today EXCEPT ![c] = update_deck_stats(today[c], LocalDay(c), 1)]
            /\ undo' = [undo EXCEPT ![c] = [op |-> "answer", id |-> i, today |-> today[c]]]
        BY <3>1 DEF Answer
      <4>2. update_deck_stats(today[c], LocalDay(c), 1).n <= events + 1
        BY <1>b DEF update_deck_stats, Bounded, Counters
      <4> QED BY <1>b, <4>1, <4>2 DEF Types, Bounded, Counters
    <3>2. ASSUME NEW k \in Cards, DeleteCard(c, k) PROVE <2>2
      BY <3>2, <1>b DEF DeleteCard, Types, Bounded, Counters
    <3>3. CASE UndoAnswer(c)
      <4>1. undo[c].today.n \in Nat /\ undo[c].today.n <= events
        BY <3>3, <1>b, UndoShape DEF UndoAnswer, Types, Counters, Bounded
      <4> QED BY <3>3, <1>b, <4>1 DEF UndoAnswer, Types, Nothing
    <3>4. CASE UndoDelete(c)
      BY <3>4, <1>b DEF UndoDelete, Types, Nothing, Bounded, Counters
    <3>5. CASE Reset(c)
      BY <3>5, <1>b DEF Reset, Types, Nothing
    <3> QED BY <1>9, <3>1, <3>2, <3>3, <3>4, <3>5 DEF UserStep
  <2>3. Bounded(c)' /\ Current(c)'
    BY <1>b, <2>1, <2>2 DEF Bounded, Current
  <2> QED BY <1>b, <1>o, <2>1, <2>2, <2>3 DEF Types
<1> QED
  BY <1>2, <1>3, <1>4, <1>5, <1>6, <1>7, <1>8, <1>9 DEF PassStep

\* The variables keep their types, and no counter ever says more than was answered.
THEOREM TypeCorrect == Spec => []TypeOK
<1>1. Types /\ CountInv => TypeOK
  <2> SUFFICES ASSUME Types, CountInv PROVE TypeOK OBVIOUS
  <2>1. \A c \in Clients : Records(log[c], Row)
    BY PartialMeans DEF Types, Logs, Records
  <2>2. Records(reviews, Record)
    BY PartialMeans DEF Types, ReviewTables, Records
  <2>3. \A c \in Clients : today[c].day \in Int /\ today[c].n \in 0..MaxEvents
    BY HistoryAssumption DEF Types, Counters, CountInv, Bounded
  <2>4. \A d \in DOMAIN days : days[d] \in 1..MaxEvents
    <3> TAKE d \in DOMAIN days
    <3>1. days[d] \in Nat \ {0} BY PartialMeans DEF Types, DayTables
    <3> QED BY <3>1, HistoryAssumption DEF Types, CountInv
  <2>5. \A c \in Clients : pass[c].stage \in {"idle", "compare", "pull", "push", "days", "apply"}
    BY PassShape DEF Types
  <2>6. \A c \in Clients : undo[c].op \in {"none", "answer", "delete"}
    BY UndoShape DEF Types
  <2> QED BY <2>1, <2>2, <2>3, <2>4, <2>5, <2>6 DEF TypeOK, Types
<1> QED
  BY <1>1, TypesInit, TypesStep, CountInit, CountStep, PTL DEF Spec

\* A pass takes nothing of today's study away: the merged counter that ApplyDay stores is
\* of a later day that the server has, or no lower than the client's own.
THEOREM CountersAreKept == Spec => CountersKept
<1>1. Types /\ CountInv /\ [Next]_vars =>
        [\A c \in Clients : ApplyDay(c) => Overtaken(c) \/ StudiedToday(c)' >= StudiedToday(c)]_vars
  <2> SUFFICES ASSUME Types, CountInv, NEW c \in Clients, ApplyDay(c)
               PROVE  Overtaken(c) \/ StudiedToday(c)' >= StudiedToday(c)
    OBVIOUS
  <2> DEFINE m == pass[c].merged
             own == PortableDay(c, today[c].day)
  <2>1. m \in Counters /\ pass[c].stage = "apply"
    BY PassShape DEF Types, ApplyDay, Applying
  <2>2. m.day >= own /\ (m.day = own => m.n >= today[c].n) /\ (m.day > own => m.day \in DOMAIN days)
    BY <2>1 DEF CountInv, Current
  <2>3. /\ today' = [today EXCEPT ![c] = [day |-> m.day - crt[c], n |-> m.n]]
        /\ day' = day
    BY DEF ApplyDay
  <2>4. today'[c] = [day |-> m.day - crt[c], n |-> m.n]
    BY <2>3 DEF Types
  <2>5. today[c] \in Counters /\ crt[c] \in Nat /\ day \in Int
    BY DEF Types
  <2>6. StudiedToday(c)' \in Nat
    BY <2>1, <2>3, <2>4 DEF StudiedToday, LocalDay, Counters
  <2>7. CASE today[c].day # day
    BY <2>6, <2>7 DEF StudiedToday, LocalDay
  <2>8. CASE today[c].day = day /\ m.day = own
    <3>1. today'[c].day = day' /\ today'[c].n >= today[c].n
      BY <2>1, <2>2, <2>3, <2>4, <2>5, <2>8 DEF PortableDay, Counters
    <3> QED BY <2>8, <3>1 DEF StudiedToday, LocalDay
  <2>9. CASE today[c].day = day /\ m.day > own
    BY <2>2, <2>9 DEF Overtaken, PortableDay, LocalDay
  <2>10. m.day = own \/ m.day > own
    BY <2>1, <2>2, <2>5 DEF PortableDay, Counters
  <2> QED BY <2>7, <2>8, <2>9, <2>10
<1> QED
  BY <1>1, TypesInit, TypesStep, CountInit, CountStep, PTL DEF Spec, CountersKept

-----------------------------------------------------------------------------
(* Reviews.  What is said of a client is said of its log L, its cards K,   *)
(* the server's reviews R and the answers G given so far.                  *)

Given(G, i, r) == \E g \in G : g.id = i /\ g.by = r.by /\ r.card \in {g.card, NoCard}

Sent(R, i, row) == i \in DOMAIN R /\ R[i].by = row.by

RecordOf(K, row) == [card |-> IF row.card \in K THEN row.card ELSE NoCard, by |-> row.by]

\* The rows of c: real, and on the server once they no longer count as pending, where
\* they were made by the same client as long as their card is there.
RowsHonest(c, L, K, R, G) ==
    \A i \in DOMAIN L :
        /\ Given(G, i, L[i])
        /\ c \in Desktop /\ ~L[i].pending =>
              /\ i \in DOMAIN R
              /\ L[i].card \in K => Sent(R, i, L[i])

\* A deletion that can be undone brings no row back that the server has from another.
UndoHonest(c, u, L, R) ==
    u.op = "delete" =>
        \A i \in DOMAIN L : c \in Desktop /\ ~L[i].pending /\ L[i].card = u.card => Sent(R, i, L[i])

\* What a pass carries: the reviews of its manifest are still the server's; what it is to
\* push are rows of the log; and of those that both sides had the server's is the same.
PassHonest(p, L, K, R) ==
    /\ p.stage = "compare" =>
          \A i \in DOMAIN p.reviews : i \in DOMAIN R /\ R[i] = p.reviews[i]
    /\ p.stage \in {"pull", "push"} =>
          /\ \A i \in DOMAIN p.push : i \in DOMAIN L /\ p.push[i] = RecordOf(K, L[i])
          /\ \A i \in p.shared : /\ i \in DOMAIN L /\ i \in DOMAIN R
                                 /\ L[i].card \in K => Sent(R, i, L[i])

Honest(c, L, K, u, p, R, G) ==
    RowsHonest(c, L, K, R, G) /\ UndoHonest(c, u, L, R) /\ PassHonest(p, L, K, R)

ReviewInv ==
    /\ \A i \in DOMAIN reviews : Given(given, i, reviews[i])
    /\ \A c \in Clients : Honest(c, log[c], cards[c], undo[c], pass[c], reviews, given)

LEMMA ReviewInit == Init => ReviewInv
BY DEF Init, ReviewInv, Honest, RowsHonest, UndoHonest, PassHonest, Empty, Nothing, Idle

Grows(R, R2) == \A i \in DOMAIN R : i \in DOMAIN R2 /\ R2[i] = R[i]

\* The server's growing log leaves true what is said of a client that does nothing.
LEMMA HonestStays ==
    ASSUME NEW c, NEW L, NEW K, NEW u, NEW p, NEW R, NEW R2, NEW G, NEW G2,
           Grows(R, R2), G \subseteq G2, Honest(c, L, K, u, p, R, G)
    PROVE  Honest(c, L, K, u, p, R2, G2)
<1>1. \A i, r : Given(G, i, r) => Given(G2, i, r)
  BY DEF Given
<1>2. \A i, r : Sent(R, i, r) => Sent(R2, i, r)
  BY DEF Grows, Sent
<1>3. RowsHonest(c, L, K, R2, G2)
  BY <1>1, <1>2 DEF RowsHonest, Honest, Grows
<1>4. UndoHonest(c, u, L, R2)
  BY <1>2 DEF UndoHonest, Honest
<1>5. PassHonest(p, L, K, R2)
  BY <1>2 DEF PassHonest, Honest, Grows
<1> QED BY <1>3, <1>4, <1>5 DEF Honest

LEMMA ReviewStep == Types /\ ReviewInv /\ [Next]_vars => ReviewInv'
<1> SUFFICES ASSUME Types, ReviewInv, [Next]_vars PROVE ReviewInv' OBVIOUS
<1>0. CASE UNCHANGED vars
  BY <1>0 DEF vars, clientVars, serverVars, ReviewInv
<1>1. CASE NextDay
  BY <1>1 DEF NextDay, clientVars, serverVars, ReviewInv
<1> SUFFICES ASSUME NEW c \in Clients, PassStep(c) \/ Fail(c) \/ UserStep(c) PROVE ReviewInv'
  BY <1>0, <1>1 DEF Next
<1> DEFINE p == pass[c]
           L == log[c]
           K == cards[c]
           u == undo[c]
<1>s. /\ p.stage = "compare" => p \in Comparing
      /\ p.stage \in {"pull", "push"} => p \in Moving
  BY PassShape DEF Types
<1>b. /\ L \in [DOMAIN L -> Row] /\ DOMAIN L \subseteq Ids
      /\ reviews \in [DOMAIN reviews -> Record] /\ reviews \in Partial(Ids, Record)
      /\ K \subseteq Cards
      /\ RowsHonest(c, L, K, reviews, given) /\ UndoHonest(c, u, L, reviews)
      /\ PassHonest(p, L, K, reviews)
      /\ \A i \in DOMAIN reviews : Given(given, i, reviews[i])
  BY PartialMeans DEF Types, Logs, ReviewTables, ReviewInv, Honest
<1>n. NoCard \notin Cards
  BY HistoryAssumption
<1>g. Grows(reviews, reviews)
  BY DEF Grows
\* It is enough to look at the client that moves, if the server's reviews only grow.
<1>o. ASSUME Grows(reviews, reviews'), given \subseteq given',
             \A i \in DOMAIN reviews' : Given(given', i, reviews'[i]),
             \A d \in Clients \ {c} : /\ log'[d] = log[d] /\ cards'[d] = cards[d]
                                      /\ undo'[d] = undo[d] /\ pass'[d] = pass[d],
             Honest(c, log'[c], cards'[c], undo'[c], pass'[c], reviews', given')
      PROVE  ReviewInv'
  <2>1. ASSUME NEW d \in Clients \ {c}
        PROVE  Honest(d, log'[d], cards'[d], undo'[d], pass'[d], reviews', given')
    <3>1. Honest(d, log[d], cards[d], undo[d], pass[d], reviews, given)
      BY DEF ReviewInv
    <3>2. Honest(d, log[d], cards[d], undo[d], pass[d], reviews', given')
      BY <1>o, <3>1, HonestStays
    <3> QED BY <1>o, <3>2
  <2> QED BY <1>o, <2>1 DEF ReviewInv
<1>2. CASE Begin(c)
  <2> DEFINE gone == (dead \union (known[c] \ K)) \ (K \ known[c])
             tombs == K \intersect dead \intersect known[c]
             pulled == (Cards \ gone) \ K
             row(i) == IF L[i].card \in pulled THEN [L[i] EXCEPT !.card = NoCard] ELSE L[i]
             L2 == [i \in DOMAIN L |-> row(i)]
             manifest == ScopedReviews(c, reviews)
  <2>1. /\ log' = [log EXCEPT ![c] = L2]
        /\ cards' = [cards EXCEPT ![c] = Cards \ gone]
        /\ undo' = IF tombs \union pulled = {} THEN undo ELSE [undo EXCEPT ![c] = Nothing]
        /\ pass' = [pass EXCEPT ![c] = [stage |-> "compare", reviews |-> manifest, days |-> days]]
        /\ UNCHANGED <<reviews, given>>
    BY <1>2 DEF Begin, GoTo
  <2>2. DOMAIN L2 = DOMAIN L /\ \A i \in DOMAIN L : L2[i] = row(i)
    OBVIOUS
  <2>3. ASSUME NEW i \in DOMAIN L
        PROVE  /\ row(i).by = L[i].by /\ row(i).pending = L[i].pending
               /\ row(i).card \in {L[i].card, NoCard}
               /\ row(i).card \in Cards \ gone => row(i).card = L[i].card /\ L[i].card \in K
    <3>1. L[i] \in Row BY <1>b
    <3>2. CASE L[i].card \in pulled
      BY <1>n, <3>1, <3>2 DEF Row
    <3>3. CASE L[i].card \notin pulled
      BY <3>3
    <3> QED BY <3>2, <3>3
  <2>4. tombs \union pulled = {} => \A i \in DOMAIN L : row(i) = L[i]
    OBVIOUS
  <2> HIDE DEF L2, row, gone, pulled, tombs
  <2>5. RowsHonest(c, L2, Cards \ gone, reviews, given)
    BY <1>b, <2>2, <2>3 DEF RowsHonest, Given, Sent
  <2>6. UndoHonest(c, undo'[c], L2, reviews)
    <3>1. CASE undo' = [undo EXCEPT ![c] = Nothing]
      BY <3>1 DEF UndoHonest, Nothing, Types
    <3>2. CASE tombs \union pulled = {} /\ undo' = undo
      BY <1>b, <2>2, <2>4, <3>2 DEF UndoHonest, Sent
    <3> QED BY <2>1, <3>1, <3>2
  <2>7. \A i \in DOMAIN manifest : i \in DOMAIN reviews /\ reviews[i] = manifest[i]
    BY <1>b, OnlyPartial DEF ScopedReviews
  <2> HIDE DEF manifest
  <2>8. PassHonest(pass'[c], L2, Cards \ gone, reviews)
    BY <2>1, <2>7 DEF PassHonest, Types
  <2> HIDE DEF L
  <2>9. log'[c] = L2 /\ cards'[c] = Cards \ gone
    BY <2>1 DEF Types
  <2>10. Honest(c, log'[c], cards'[c], undo'[c], pass'[c], reviews', given')
    BY <2>1, <2>5, <2>6, <2>8, <2>9 DEF Honest
  <2>11. \A d \in Clients \ {c} : /\ log'[d] = log[d] /\ cards'[d] = cards[d]
                                  /\ undo'[d] = undo[d] /\ pass'[d] = pass[d]
    BY <2>1 DEF Types
  <2> QED BY <1>b, <1>g, <1>o, <2>1, <2>10, <2>11
<1>3. CASE Compare(c)
  <2> DEFINE mine == local_review_records(c)
             push == Only(mine, DOMAIN mine \ DOMAIN p.reviews)
             moving == [stage |-> "pull", days |-> p.days, pull |-> DOMAIN p.reviews \ DOMAIN mine,
                        push |-> push, shared |-> DOMAIN mine \intersect DOMAIN p.reviews]
  <2>1. /\ UNCHANGED <<log, cards, undo, reviews, given>> /\ p.stage = "compare"
        /\ \/ pass' = [pass EXCEPT ![c] = Idle]
           \/ pass' = [pass EXCEPT ![c] = moving] /\ ConflictIds(mine, p.reviews) = {}
    BY <1>3 DEF Compare, GoTo, Stop, clientVars, serverVars
  <2>2. /\ mine \in Partial(Ids, Record)
        /\ DOMAIN mine \subseteq DOMAIN L
        /\ \A i \in DOMAIN mine : mine[i] = RecordOf(K, L[i])
    BY LocalRecords DEF ReviewTables, RowRecord, RecordOf
  <2>3. \A i \in DOMAIN p.reviews : i \in DOMAIN reviews /\ reviews[i] = p.reviews[i]
    BY <1>b, <2>1 DEF PassHonest
  <2>4. CASE pass' = [pass EXCEPT ![c] = Idle]
    <3>1. PassHonest(pass'[c], L, K, reviews)
      BY <2>4 DEF PassHonest, Idle, Types
    <3> QED BY <1>b, <1>g, <1>o, <2>1, <2>4, <3>1 DEF Honest
  <2>5. CASE pass' = [pass EXCEPT ![c] = moving] /\ ConflictIds(mine, p.reviews) = {}
    <3>1. \A i \in DOMAIN push : i \in DOMAIN L /\ push[i] = RecordOf(K, L[i])
      <4> HIDE DEF mine
      <4> QED BY <2>2, OnlyPartial
    <3>2. ASSUME NEW i \in DOMAIN mine \intersect DOMAIN p.reviews
          PROVE  /\ i \in DOMAIN L /\ i \in DOMAIN reviews
                 /\ L[i].card \in K => Sent(reviews, i, L[i])
      <4> HIDE DEF mine
      <4>1. mine[i].card = NoCard \/ mine[i] = p.reviews[i]
        BY <2>5 DEF ConflictIds
      <4>2. L[i].card \in K => RecordOf(K, L[i]).card # NoCard
        BY <1>b, <1>n DEF RecordOf
      <4>3. RecordOf(K, L[i]).by = L[i].by
        BY DEF RecordOf
      <4> QED BY <2>2, <2>3, <4>1, <4>2, <4>3 DEF Sent
    <3> HIDE DEF mine, push
    <3>3. pass'[c] = moving
      BY <2>5 DEF Types
    <3>4. PassHonest(moving, L, K, reviews)
      BY <3>1, <3>2 DEF PassHonest
    <3> HIDE DEF moving
    <3>5. Honest(c, log'[c], cards'[c], undo'[c], pass'[c], reviews', given')
      BY <1>b, <2>1, <3>3, <3>4 DEF Honest
    <3> QED BY <1>b, <1>g, <1>o, <2>1, <2>5, <3>5
  <2> QED BY <2>1, <2>4, <2>5
<1>4. CASE Pull(c)
  <2> DEFINE X == p.pull \intersect DOMAIN reviews
             got == [i \in X |-> apply_review(c, reviews[i])]
             L2 == Update(got, L)
  <2>1. /\ log' = [log EXCEPT ![c] = L2]
        /\ undo' = IF p.pull = {} THEN undo ELSE [undo EXCEPT ![c] = Nothing]
        /\ pass' = [pass EXCEPT ![c] = [p EXCEPT !.stage = "push"]]
        /\ UNCHANGED <<cards, reviews, given>> /\ p.stage = "pull" /\ p \in Moving
    BY <1>4, <1>s DEF Pull, GoTo, serverVars
  <2>2. /\ \A i : i \in DOMAIN L2 <=> i \in DOMAIN L \/ i \in X
        /\ \A i \in DOMAIN L : L2[i] = L[i]
        /\ \A i \in X : i \notin DOMAIN L => L2[i] = apply_review(c, reviews[i])
    <3>1. DOMAIN got = X /\ \A i \in X : got[i] = apply_review(c, reviews[i])
      OBVIOUS
    <3> HIDE DEF got, X
    <3> QED BY <3>1 DEF Update
  <2>3. \A i \in X : /\ apply_review(c, reviews[i]).by = reviews[i].by
                     /\ apply_review(c, reviews[i]).card \in {reviews[i].card, NoCard}
    BY DEF apply_review
  <2> HIDE DEF L2
  <2>4. RowsHonest(c, L2, K, reviews, given)
    <3> SUFFICES ASSUME NEW i \in DOMAIN L2
                 PROVE  /\ Given(given, i, L2[i])
                        /\ c \in Desktop /\ ~L2[i].pending =>
                              i \in DOMAIN reviews /\ (L2[i].card \in K => Sent(reviews, i, L2[i]))
      BY DEF RowsHonest
    <3>1. CASE i \in DOMAIN L
      BY <1>b, <2>2, <3>1 DEF RowsHonest
    <3>2. CASE i \in X /\ i \notin DOMAIN L
      <4>1. Given(given, i, reviews[i])
        BY <1>b, <3>2
      <4>2. Given(given, i, L2[i]) /\ Sent(reviews, i, L2[i])
        BY <2>2, <2>3, <3>2, <4>1 DEF Given, Sent
      <4> QED BY <3>2, <4>2
    <3> QED BY <2>2, <3>1, <3>2
  <2>5. UndoHonest(c, undo'[c], L2, reviews)
    <3>1. CASE p.pull # {}
      BY <2>1, <3>1 DEF UndoHonest, Nothing, Types
    <3>2. CASE p.pull = {}
      BY <1>b, <2>1, <2>2, <3>2 DEF UndoHonest
    <3> QED BY <3>1, <3>2
  <2>6. PassHonest([p EXCEPT !.stage = "push"], L2, K, reviews)
    BY <1>b, <2>1, <2>2 DEF PassHonest, Moving
  <2>7. log'[c] = L2 /\ cards'[c] = K /\ pass'[c] = [p EXCEPT !.stage = "push"]
    BY <2>1 DEF Types
  <2>8. Honest(c, log'[c], cards'[c], undo'[c], pass'[c], reviews', given')
    BY <2>1, <2>4, <2>5, <2>6, <2>7 DEF Honest
  <2>9. \A d \in Clients \ {c} : /\ log'[d] = log[d] /\ cards'[d] = cards[d]
                                 /\ undo'[d] = undo[d] /\ pass'[d] = pass[d]
    BY <2>1 DEF Types
  <2> QED BY <1>b, <1>g, <1>o, <2>1, <2>8, <2>9
<1>5. CASE Push(c)
  <2> DEFINE refused == PushConflicts(p.push) # {}
             R2 == Update(p.push, reviews)
  <2>1. p.stage = "push" /\ p \in Moving /\ reviews' = R2 /\ UNCHANGED <<cards, given>>
    BY <1>5, <1>s DEF Push, Accepted
  <2>2. /\ \A i : i \in DOMAIN R2 <=> i \in DOMAIN p.push \/ i \in DOMAIN reviews
        /\ \A i \in DOMAIN reviews : R2[i] = reviews[i]
        /\ \A i \in DOMAIN p.push : i \notin DOMAIN reviews => R2[i] = p.push[i]
    BY DEF Update
  <2>3. /\ \A i \in DOMAIN p.push : i \in DOMAIN L /\ p.push[i] = RecordOf(K, L[i])
        /\ \A i \in p.shared : /\ i \in DOMAIN L /\ i \in DOMAIN reviews
                               /\ L[i].card \in K => Sent(reviews, i, L[i])
    BY <1>b, <2>1 DEF PassHonest
  <2> HIDE DEF R2
  <2>4. Grows(reviews, R2)
    BY <2>2 DEF Grows
  <2>5. \A i \in DOMAIN R2 : Given(given, i, R2[i])
    <3> SUFFICES ASSUME NEW i \in DOMAIN p.push, i \notin DOMAIN reviews PROVE Given(given, i, R2[i])
      BY <1>b, <2>2
    <3>1. Given(given, i, L[i]) /\ R2[i] = RecordOf(K, L[i])
      BY <1>b, <2>2, <2>3 DEF RowsHonest
    <3> QED BY <3>1 DEF Given, RecordOf
  <2>6. RowsHonest(c, L, K, R2, given) /\ UndoHonest(c, u, L, R2)
    <3>1. Honest(c, L, K, u, p, reviews, given)
      BY <1>b DEF Honest
    <3>2. Honest(c, L, K, u, p, R2, given)
      BY <2>4, <3>1, HonestStays
    <3> QED BY <3>2 DEF Honest
  <2>7. CASE UNCHANGED <<log, undo>> /\ pass' = [pass EXCEPT ![c] = Idle]
    <3>1. PassHonest(pass'[c], L, K, R2)
      BY <2>7 DEF PassHonest, Idle, Types
    <3>2. Honest(c, log'[c], cards'[c], undo'[c], pass'[c], reviews', given')
      BY <2>1, <2>6, <2>7, <3>1 DEF Honest
    <3> QED BY <1>o, <2>1, <2>4, <2>5, <2>7, <3>2
  <2>8. CASE ~refused /\ clear_review_usns(c, Cleared(c, p))
             /\ pass' = [pass EXCEPT ![c] = [stage |-> "days", days |-> p.days]]
    <3> DEFINE ids == Cleared(c, p)
               row(i) == IF i \in ids THEN [L[i] EXCEPT !.pending = FALSE] ELSE L[i]
               L2 == [i \in DOMAIN L |-> row(i)]
    <3>1. /\ log' = [log EXCEPT ![c] = L2]
          /\ undo' = IF ids = {} THEN undo ELSE [undo EXCEPT ![c] = Nothing]
      BY <2>8 DEF clear_review_usns
    <3>2. DOMAIN L2 = DOMAIN L
      OBVIOUS
    <3>3. \A i \in DOMAIN L : /\ L2[i].card = L[i].card /\ L2[i].by = L[i].by
                              /\ i \notin ids => L2[i] = L[i]
      BY <1>b DEF Row
    <3>4. \A i \in ids : i \in DOMAIN R2 /\ (L[i].card \in K => Sent(R2, i, L[i]))
      <4> SUFFICES ASSUME NEW i \in p.shared \union DOMAIN p.push
                   PROVE  i \in DOMAIN R2 /\ (L[i].card \in K => Sent(R2, i, L[i]))
        BY DEF Cleared
      <4>1. CASE i \in p.shared
        BY <2>2, <2>3, <4>1 DEF Sent
      <4>2. CASE i \in DOMAIN p.push
        <5>1. i \in DOMAIN reviews => reviews[i] = p.push[i]
          BY <2>8, <4>2 DEF PushConflicts
        <5>2. R2[i] = RecordOf(K, L[i]) /\ i \in DOMAIN R2
          BY <2>2, <2>3, <4>2, <5>1
        <5> QED BY <5>2 DEF RecordOf, Sent
      <4> QED BY <4>1, <4>2
    <3> HIDE DEF L2
    <3>5. RowsHonest(c, L2, K, R2, given)
      <4> SUFFICES ASSUME NEW i \in DOMAIN L
                   PROVE  /\ Given(given, i, L2[i])
                          /\ c \in Desktop /\ ~L2[i].pending =>
                                i \in DOMAIN R2 /\ (L2[i].card \in K => Sent(R2, i, L2[i]))
        BY <3>2 DEF RowsHonest
      <4>1. Given(given, i, L[i])
        BY <1>b DEF RowsHonest
      <4>2. Given(given, i, L2[i])
        BY <3>3, <4>1 DEF Given
      <4>3. CASE i \in ids
        BY <3>3, <3>4, <4>2, <4>3 DEF Sent
      <4>4. CASE i \notin ids
        BY <2>6, <3>3, <4>2, <4>4 DEF RowsHonest
      <4> QED BY <4>3, <4>4
    <3>6. UndoHonest(c, undo'[c], L2, R2)
      <4>1. CASE ids # {}
        BY <3>1, <4>1 DEF UndoHonest, Nothing, Types
      <4>2. CASE ids = {}
        BY <2>6, <3>1, <3>2, <3>3, <4>2 DEF UndoHonest
      <4> QED BY <4>1, <4>2
    <3>7. PassHonest(pass'[c], L2, K, R2)
      BY <2>8 DEF PassHonest, Types
    <3>8. log'[c] = L2 /\ cards'[c] = K
      BY <2>1, <3>1 DEF Types
    <3>9. Honest(c, log'[c], cards'[c], undo'[c], pass'[c], reviews', given')
      BY <2>1, <3>5, <3>6, <3>7, <3>8 DEF Honest
    <3>10. \A d \in Clients \ {c} : /\ log'[d] = log[d] /\ cards'[d] = cards[d]
                                    /\ undo'[d] = undo[d] /\ pass'[d] = pass[d]
      BY <2>1, <2>8, <3>1 DEF Types
    <3> QED BY <1>o, <2>1, <2>4, <2>5, <3>9, <3>10
  <2> QED BY <1>5, <2>7, <2>8 DEF Push, GoTo, Stop
<1>6. CASE PushDay(c)
  <2>1. /\ UNCHANGED <<log, cards, undo, reviews, given>>
        /\ pass'[c].stage = "apply" /\ \A d \in Clients \ {c} : pass'[d] = pass[d]
    BY <1>6 DEF PushDay, GoTo, clientVars, Types
  <2>2. Honest(c, log'[c], cards'[c], undo'[c], pass'[c], reviews', given')
    BY <1>b, <2>1 DEF Honest, PassHonest
  <2> QED BY <1>b, <1>g, <1>o, <2>1, <2>2
<1>7. CASE ApplyDay(c)
  <2>1. /\ UNCHANGED <<log, cards, reviews, given>>
        /\ undo' = undo \/ undo' = [undo EXCEPT ![c] = Nothing]
        /\ pass'[c] = Idle /\ \A d \in Clients \ {c} : pass'[d] = pass[d]
    BY <1>7 DEF ApplyDay, GoTo, Stop, serverVars, Types
  <2>2. Honest(c, log'[c], cards'[c], undo'[c], pass'[c], reviews', given')
    BY <1>b, <2>1 DEF Honest, PassHonest, UndoHonest, Idle, Nothing, Types
  <2>3. \A d \in Clients \ {c} : undo'[d] = undo[d]
    BY <2>1 DEF Types
  <2> QED BY <1>b, <1>g, <1>o, <2>1, <2>2, <2>3
<1>8. CASE Fail(c)
  <2>1. /\ UNCHANGED <<log, cards, undo, reviews, given>>
        /\ pass'[c] = Idle /\ \A d \in Clients \ {c} : pass'[d] = pass[d]
    BY <1>8 DEF Fail, GoTo, Stop, clientVars, serverVars, Types
  <2>2. Honest(c, log'[c], cards'[c], undo'[c], pass'[c], reviews', given')
    BY <1>b, <2>1 DEF Honest, PassHonest, Idle
  <2> QED BY <1>b, <1>g, <1>o, <2>1, <2>2
<1>9. CASE UserStep(c)
  <2>1. p = Idle /\ UNCHANGED <<pass, reviews>>
    <3>1. p = Idle
      BY <1>9 DEF UserStep
    <3>2. UNCHANGED <<pass, serverVars>>
      BY <1>9, Zenon DEF UserStep, Answer, DeleteCard, UndoAnswer, UndoDelete, Reset
    <3> QED BY <3>1, <3>2 DEF serverVars
  <2>2. PassHonest(pass'[c], log'[c], cards'[c], reviews')
    BY <2>1 DEF PassHonest, Idle
  <2>3. ASSUME NEW k \in Cards, NEW i \in Ids, Answer(c, k, i) PROVE ReviewInv'
    <3> DEFINE row == [card |-> k, by |-> c, pending |-> TRUE]
               L2 == Update(L, [j \in {i} |-> row])
               new == [id |-> i, card |-> k, by |-> c]
    <3>1. /\ log' = [log EXCEPT ![c] = L2] /\ given' = given \union {new}
          /\ undo' = [undo EXCEPT ![c] = [op |-> "answer", id |-> i, today |-> today[c]]]
          /\ UNCHANGED cards /\ i \notin DOMAIN L
      BY <2>3 DEF Answer
    <3>2. /\ \A j : j \in DOMAIN L2 <=> j \in DOMAIN L \/ j = i
          /\ L2[i] = row /\ \A j \in DOMAIN L : j # i => L2[j] = L[j]
      BY DEF Update
    <3>3. \A j, r : Given(given, j, r) => Given(given', j, r)
      BY <3>1 DEF Given
    <3>4. Given(given', i, row)
      <4>1. new \in given' /\ new.id = i /\ new.by = row.by /\ new.card = row.card
        BY <3>1
      <4> QED BY <4>1, Zenon DEF Given
    <3>5. row.pending = TRUE
      OBVIOUS
    <3> HIDE DEF L2, row
    <3>6. RowsHonest(c, L2, K, reviews, given')
      BY <1>b, <3>1, <3>2, <3>3, <3>4, <3>5 DEF RowsHonest
    <3>7. log'[c] = L2 /\ undo'[c].op = "answer" /\ cards'[c] = K
      BY <3>1 DEF Types
    <3>8. Honest(c, log'[c], cards'[c], undo'[c], pass'[c], reviews', given')
      BY <2>1, <2>2, <3>6, <3>7 DEF Honest, UndoHonest
    <3>9. \A d \in Clients \ {c} : /\ log'[d] = log[d] /\ cards'[d] = cards[d]
                                   /\ undo'[d] = undo[d] /\ pass'[d] = pass[d]
      BY <2>1, <3>1 DEF Types
    <3> QED BY <1>b, <1>g, <1>o, <2>1, <3>1, <3>3, <3>8, <3>9
  <2>4. ASSUME NEW k \in Cards, DeleteCard(c, k) PROVE ReviewInv'
    <3>1. /\ cards' = [cards EXCEPT ![c] = K \ {k}] /\ undo' = [undo EXCEPT ![c] = [op |-> "delete", card |-> k]]
          /\ UNCHANGED <<log, given>> /\ k \in K
      BY <2>4 DEF DeleteCard
    <3>2. cards'[c] = K \ {k} /\ undo'[c] = [op |-> "delete", card |-> k]
      BY <3>1 DEF Types
    <3>3. RowsHonest(c, L, K \ {k}, reviews, given) /\ UndoHonest(c, [op |-> "delete", card |-> k], L, reviews)
      BY <1>b, <3>1 DEF RowsHonest, UndoHonest
    <3>4. Honest(c, log'[c], cards'[c], undo'[c], pass'[c], reviews', given')
      BY <2>1, <2>2, <3>1, <3>2, <3>3 DEF Honest
    <3>5. \A d \in Clients \ {c} : cards'[d] = cards[d] /\ undo'[d] = undo[d]
      BY <3>1 DEF Types
    <3> QED BY <1>b, <1>g, <1>o, <2>1, <3>1, <3>4, <3>5
  <2>5. CASE UndoAnswer(c)
    <3> DEFINE L2 == Only(L, DOMAIN L \ {u.id})
    <3>1. /\ log' = [log EXCEPT ![c] = L2] /\ undo' = [undo EXCEPT ![c] = Nothing]
          /\ UNCHANGED <<cards, given>>
      BY <2>5 DEF UndoAnswer
    <3>2. \A i \in DOMAIN L2 : i \in DOMAIN L /\ L2[i] = L[i]
      BY DEF Only
    <3> HIDE DEF L2
    <3>3. RowsHonest(c, L2, K, reviews, given)
      BY <1>b, <3>2 DEF RowsHonest
    <3>4. log'[c] = L2 /\ undo'[c].op # "delete"
      BY <3>1 DEF Types, Nothing
    <3>5. Honest(c, log'[c], cards'[c], undo'[c], pass'[c], reviews', given')
      BY <2>1, <2>2, <3>1, <3>3, <3>4 DEF Honest, UndoHonest
    <3>6. \A d \in Clients \ {c} : log'[d] = log[d] /\ undo'[d] = undo[d]
      BY <3>1 DEF Types
    <3> QED BY <1>b, <1>g, <1>o, <2>1, <3>1, <3>5, <3>6
  <2>6. CASE UndoDelete(c)
    <3>1. /\ cards' = [cards EXCEPT ![c] = K \union {u.card}] /\ undo' = [undo EXCEPT ![c] = Nothing]
          /\ UNCHANGED <<log, given>> /\ u.op = "delete"
      BY <2>6 DEF UndoDelete
    <3>2. cards'[c] = K \union {u.card} /\ undo'[c].op # "delete"
      BY <3>1 DEF Types, Nothing
    <3>3. RowsHonest(c, L, K \union {u.card}, reviews, given)
      BY <1>b, <3>1 DEF RowsHonest, UndoHonest
    <3>4. Honest(c, log'[c], cards'[c], undo'[c], pass'[c], reviews', given')
      BY <2>1, <2>2, <3>1, <3>2, <3>3 DEF Honest, UndoHonest
    <3>5. \A d \in Clients \ {c} : cards'[d] = cards[d] /\ undo'[d] = undo[d]
      BY <3>1 DEF Types
    <3> QED BY <1>b, <1>g, <1>o, <2>1, <3>1, <3>4, <3>5
  <2>7. CASE Reset(c)
    <3>1. /\ log' = [log EXCEPT ![c] = Empty] /\ cards' = [cards EXCEPT ![c] = {}]
          /\ undo' = [undo EXCEPT ![c] = Nothing] /\ UNCHANGED given
      BY <2>7 DEF Reset
    <3>2. log'[c] = Empty /\ undo'[c].op # "delete"
      BY <3>1 DEF Types, Nothing
    <3>3. RowsHonest(c, Empty, cards'[c], reviews, given)
      BY DEF RowsHonest, Empty
    <3>4. Honest(c, log'[c], cards'[c], undo'[c], pass'[c], reviews', given')
      BY <2>1, <2>2, <3>1, <3>2, <3>3 DEF Honest, UndoHonest
    <3>5. \A d \in Clients \ {c} : log'[d] = log[d] /\ cards'[d] = cards[d] /\ undo'[d] = undo[d]
      BY <3>1 DEF Types
    <3> QED BY <1>b, <1>g, <1>o, <2>1, <3>1, <3>4, <3>5
  <2> QED BY <1>9, <2>3, <2>4, <2>5, <2>6, <2>7 DEF UserStep
<1> QED
  BY <1>2, <1>3, <1>4, <1>5, <1>6, <1>7, <1>8, <1>9 DEF PassStep

\* Wherever a review has come to, it is one that was given; what no longer counts as
\* pending is on the server, under the same id and from the same client, unless its card
\* is gone.
THEOREM HistoryIsHonest == Spec => []HistoryHonest
<1>1. Types /\ ReviewInv => HistoryHonest
  <2> SUFFICES ASSUME Types, ReviewInv PROVE HistoryHonest OBVIOUS
  <2>1. \A i, r : Given(given, i, r) => Real(i, r)
    BY DEF Given, Real
  <2>2. ASSUME NEW c \in Clients, NEW i \in DOMAIN log[c]
        PROVE  /\ Real(i, log[c][i])
               /\ c \in Desktop /\ ~log[c][i].pending =>
                     /\ i \in DOMAIN reviews
                     /\ RowRecord(c, log[c][i]).card # NoCard => reviews[i].by = log[c][i].by
    <3>1. RowsHonest(c, log[c], cards[c], reviews, given)
      BY DEF ReviewInv, Honest
    <3>2. RowRecord(c, log[c][i]).card # NoCard => log[c][i].card \in cards[c]
      BY DEF RowRecord
    <3> QED BY <2>1, <3>1, <3>2 DEF RowsHonest, Sent
  <2> QED BY <2>1, <2>2 DEF HistoryHonest, ReviewInv
<1> QED
  BY <1>1, TypesInit, TypesStep, ReviewInit, ReviewStep, PTL DEF Spec
=============================================================================
