-------------------------- MODULE SchedulerProofs --------------------------
(***************************************************************************)
(* What the scheduler's algorithms and its study session promise, for all  *)
(* their inputs.                                                           *)
(*                                                                         *)
(* The states of a card: for every preset, card, fuzz and answer of FSRS,  *)
(* a review interval stays between one day and the preset's maximum, and   *)
(* the buttons of a review that is not early are in order, strictly below  *)
(* the maximum. The limits of decks: for every tree of decks, the limits a *)
(* queue is gathered under start within what each deck has left, and each  *)
(* card that is taken keeps them there, for the card's deck and for all    *)
(* decks above it.                                                         *)
(*                                                                         *)
(* A study session: however answers, burying, flags, undo, redo and the    *)
(* end of days follow each other, for any set of cards and notes, the      *)
(* queue in memory stays in order with right counts, the new cards of a    *)
(* day stay within their limit, undo brings back what was there, and redo  *)
(* finds its entry on top of the queue. The invariant (StudyInv) says of   *)
(* all there is at one moment, the cards, the counter and the queue, that  *)
(* they fit each other (Moment), and it says so of the present and of the  *)
(* moment before each step on the two stacks; consecutive moments are      *)
(* linked by their step (Link), unless the queue has been built anew since *)
(* and the step's update is of no use to it (Forgotten).                   *)
(***************************************************************************)
EXTENDS Study, States, DeckLimits, FiniteSetTheorems, SequenceTheorems, WellFoundedInduction, TLAPS

\* The share of the fuzz that is added to the lower bound.
LEMMA FuzzShare ==
    ASSUME NEW fuzz \in 0..99, NEW n \in Nat \ {0}
    PROVE  (fuzz * n) \div 100 \in 0..(n - 1)
<1>1. 0 <= fuzz * n /\ fuzz * n <= 99 * n
  <2>1. fuzz * n >= 0 BY SMT
  <2>2. (99 - fuzz) * n >= 0 BY SMT
  <2>3. (99 - fuzz) * n = 99 * n - fuzz * n BY SMT
  <2> QED BY <2>1, <2>2, <2>3, SMT
<1> DEFINE p == fuzz * n
<1>2. p \in Int BY SMT
<1> HIDE DEF p
<1>3. 0 <= p /\ p <= 99 * n BY <1>1 DEF p
<1>4. p \div 100 \in 0..(n - 1) BY <1>2, <1>3, SMT
<1> QED BY <1>4 DEF p

LEMMA RoundType ==
    ASSUME NEW x \in Int PROVE Round(x) \in Int
BY SMT DEF Round, Unit

LEMMA TimesType ==
    ASSUME NEW x \in Int, NEW permille \in Int PROVE Times(x, permille) \in Int
BY SMT DEF Times

LEMMA ClampInside ==
    ASSUME NEW x \in Int, NEW low \in Int, NEW high \in Int, low <= high
    PROVE  Clamp(x, low, high) \in low..high
BY SMT DEF Clamp, Greatest, Least

LEMMA InRangeType ==
    ASSUME NEW x \in Int, NEW r, r.start \in Int, r.end \in Int, r.permille \in {50, 100, 150}
    PROVE  InRange(x, r) \in Nat
<1> DEFINE share == LessOrZero(Least(x, r.end), r.start)
<1>1. share \in Nat BY SMT DEF LessOrZero, Least, Greatest
<1> HIDE DEF share
<1>2. Times(share, 50) \in Nat /\ Times(share, 100) \in Nat /\ Times(share, 150) \in Nat
  BY <1>1, SMT DEF Times
<1>3. Times(share, r.permille) \in Nat BY <1>2
<1> QED BY <1>3 DEF InRange, share

LEMMA FuzzDeltaType ==
    ASSUME NEW x \in Int PROVE fuzz_delta(x) \in Nat
<1>1. /\ FuzzRange[1] = [start |-> 25000, end |-> 70000, permille |-> 150]
      /\ FuzzRange[2] = [start |-> 70000, end |-> 200000, permille |-> 100]
      /\ FuzzRange[3] = [start |-> 200000, end |-> 2000000000, permille |-> 50]
  BY DEF FuzzRange
<1>2. ASSUME NEW i \in 1..3
      PROVE  FuzzRange[i].start \in Int /\ FuzzRange[i].end \in Int /\ FuzzRange[i].permille \in {50, 100, 150}
  <2>1. i = 1 \/ i = 2 \/ i = 3 BY <1>2, SMT
  <2> QED BY <1>1, <2>1
<1>3. InRange(x, FuzzRange[1]) \in Nat /\ InRange(x, FuzzRange[2]) \in Nat /\ InRange(x, FuzzRange[3]) \in Nat
  <2>1. ASSUME NEW i \in 1..3 PROVE InRange(x, FuzzRange[i]) \in Nat BY <1>2, InRangeType
  <2> QED BY <2>1
<1> QED BY <1>3, SMT DEF fuzz_delta, Unit

\* The bounds of the fuzz range respect the limits, and the lower one is not above
\* the upper one (constrained_fuzz_bounds).
LEMMA ConstrainedBounds ==
    ASSUME NEW x \in Int, NEW minimum \in Nat, NEW maximum \in Nat
    PROVE  LET b == constrained_fuzz_bounds(x, minimum, maximum)
           IN /\ b.lower \in Least(minimum, maximum)..maximum
              /\ b.upper \in b.lower..maximum
<1> DEFINE low == Least(minimum, maximum)
           y == Clamp(x, low * Unit, maximum * Unit)
           d == fuzz_delta(y)
           lower == Clamp(Round(y - d), low, maximum)
           upper == Clamp(Round(y + d), low, maximum)
<1>1. low \in Nat /\ low <= maximum BY SMT DEF Least
<1>2. y \in Int
  <2>1. low * Unit \in Int /\ maximum * Unit \in Int /\ low * Unit <= maximum * Unit
    BY <1>1, SMT DEF Unit
  <2> QED BY <2>1, ClampInside, SMT
<1>3. d \in Nat BY <1>2, FuzzDeltaType
<1> HIDE DEF y, d, low
<1>4. Round(y - d) \in Int /\ Round(y + d) \in Int /\ Round(y - d) <= Round(y + d)
  BY <1>2, <1>3, SMT DEF Round, Unit
<1>5. lower \in low..maximum /\ upper \in lower..maximum
  <2> DEFINE p == Round(y - d)
             q == Round(y + d)
  <2>1. p \in Int /\ q \in Int /\ p <= q BY <1>4
  <2> HIDE DEF p, q
  <2>2. Clamp(p, low, maximum) \in low..maximum /\ Clamp(q, low, maximum) \in Clamp(p, low, maximum)..maximum
    BY <1>1, <2>1, SMT DEF Clamp, Greatest, Least
  <2> QED BY <2>2 DEF p, q
<1> DEFINE raised == IF upper = lower /\ upper > 2 /\ upper < maximum THEN lower + 1 ELSE upper
<1>6. constrained_fuzz_bounds(x, minimum, maximum) = [lower |-> lower, upper |-> raised]
  BY DEF constrained_fuzz_bounds, fuzz_bounds, y, d, low
<1> HIDE DEF lower, upper
<1>7. raised \in lower..maximum BY <1>1, <1>5, SMT
<1> QED BY <1>5, <1>6, <1>7 DEF low

----------------------------------------------------------------------------
\* Fuzz never brings an interval below its minimum, unless the maximum does, nor
\* above the maximum (states/fuzz.rs, with_review_fuzz).
THEOREM FuzzWithinLimits ==
    ASSUME NEW fuzz \in 0..99, NEW x \in Int, NEW minimum \in Nat, NEW maximum \in Nat
    PROVE  with_review_fuzz(fuzz, x, minimum, maximum) \in Least(minimum, maximum)..maximum
<1> DEFINE b == constrained_fuzz_bounds(x, minimum, maximum)
<1>1. b.lower \in Least(minimum, maximum)..maximum /\ b.upper \in b.lower..maximum
  BY ConstrainedBounds
<1>2. with_review_fuzz(fuzz, x, minimum, maximum) = b.lower + (fuzz * (1 + b.upper - b.lower)) \div 100
  BY SMT DEF with_review_fuzz, None
<1> HIDE DEF b
<1>3. Least(minimum, maximum) \in Nat BY SMT DEF Least
<1>4. 1 + b.upper - b.lower \in Nat \ {0} BY <1>1, <1>3, SMT
<1>5. (fuzz * (1 + b.upper - b.lower)) \div 100 \in 0..(b.upper - b.lower) BY <1>4, <1>1, <1>3, FuzzShare, SMT
<1> QED BY <1>1, <1>2, <1>3, <1>5, SMT

Multipliers == {"initialEase", "hardMultiplier", "easyMultiplier", "intervalMultiplier"}

\* A preset with its fuzz on, and what FSRS says of a card, if it is asked.
Context(ctx) ==
    /\ ctx.fuzz \in 0..99 /\ ctx.maximum \in Nat
    /\ \A m \in Multipliers : ctx[m] \in Nat
    /\ ctx.fsrs # NoFsrs => \A rating \in Ratings : ctx.fsrs[rating].interval \in Nat

InReview(s) == {s.scheduled, s.elapsed, s.ease} \subseteq Nat

LEMMA WithinMinimum ==
    ASSUME NEW max \in Nat, NEW min \in 1..max, NEW minimum \in Nat, NEW days \in min..max,
           min >= minimum \/ min = max
    PROVE  days \in 1..max /\ (days >= minimum \/ days = max)
BY SMT

\* What every passing interval of a review is made with: within the limits, and at
\* least its minimum where the maximum allows it (constrain_passing_interval).
LEMMA ConstrainedInterval ==
    ASSUME NEW ctx, Context(ctx), NEW x \in Int, NEW minimum \in Nat,
           NEW days, days = constrain_passing_interval(ctx, x, minimum, TRUE)
    PROVE  /\ days \in 1..MaximumInterval(ctx)
           /\ days >= minimum \/ days = MaximumInterval(ctx)
<1> DEFINE max == MaximumInterval(ctx)
           min == MinimumInterval(ctx, minimum)
           scaled == IF ctx.fsrs # NoFsrs THEN x ELSE Times(x, ctx.intervalMultiplier)
<1>1. ctx.fuzz \in 0..99 /\ ctx.maximum \in Nat /\ ctx.intervalMultiplier \in Int
  BY DEF Context, Multipliers
<1>2. max \in Nat /\ max >= 1 BY <1>1, SMT DEF MaximumInterval, Greatest
<1>3. min \in 1..max /\ (min >= minimum \/ min = max)
  BY <1>2, SMT DEF MinimumInterval, Clamp, Greatest, Least
<1>4. scaled \in Int BY <1>1, TimesType
<1>5. days = with_review_fuzz(ctx.fuzz, scaled, min, max)
  BY DEF constrain_passing_interval
<1> HIDE DEF max, min, scaled
<1>6. min \in Nat BY <1>2, <1>3, SMT
<1>7. days \in Least(min, max)..max
  BY <1>1, <1>2, <1>4, <1>5, <1>6, FuzzWithinLimits
<1>8. Least(min, max) = min BY <1>2, <1>3, SMT DEF Least
<1>9. days \in min..max BY <1>7, <1>8
<1>10. days \in 1..max /\ (days >= minimum \/ days = max) BY <1>2, <1>3, <1>9, WithinMinimum
<1> QED BY <1>10 DEF max

LEMMA AboveUnlessMaximal ==
    ASSUME NEW max \in Nat, NEW low \in 1..max, NEW high \in 1..max, NEW minimum \in Nat,
           minimum >= low + 1, high >= minimum \/ high = max
    PROVE  high > low \/ high = max
BY SMT

LEMMA MaximumType ==
    ASSUME NEW ctx, Context(ctx) PROVE MaximumInterval(ctx) \in Nat
BY SMT DEF MaximumInterval, Greatest, Context

\* The order of the buttons of a review that is not early.
Ordered(ctx, days, raises) ==
    LET max == MaximumInterval(ctx) IN
    /\ days.hard \in 1..max /\ days.good \in 1..max /\ days.easy \in 1..max
    /\ days.easy > days.good \/ days.easy = max
    /\ raises => (days.good > days.hard \/ days.good = max)

\* FSRS: every interval has a minimum above the one before it.
LEMMA FsrsIntervalsOrdered ==
    ASSUME NEW ctx, Context(ctx), NEW s, InReview(s), ctx.fsrs # NoFsrs
    PROVE  Ordered(ctx, passing_fsrs_review_intervals(ctx, s), TRUE)
<1> DEFINE last(i) == IF Round(i) > s.scheduled THEN s.scheduled + 1 ELSE 0
           x == ctx.fsrs["hard"].interval
           y == ctx.fsrs["good"].interval
           z == ctx.fsrs["easy"].interval
           m == Greatest(last(x), 1)
           h == constrain_passing_interval(ctx, x, m, TRUE)
           n == Greatest(last(y), h + 1)
           g == constrain_passing_interval(ctx, y, n, TRUE)
           k == Greatest(last(z), g + 1)
           e == constrain_passing_interval(ctx, z, k, TRUE)
           max == MaximumInterval(ctx)
<1>1. x \in Int /\ y \in Int /\ z \in Int BY DEF Context, Ratings
<1>2. s.scheduled \in Nat BY DEF InReview
<1>3. last(x) \in Nat /\ last(y) \in Nat /\ last(z) \in Nat BY <1>2
<1>4. max \in Nat BY MaximumType
<1>5. passing_fsrs_review_intervals(ctx, s) = [hard |-> h, good |-> g, easy |-> e]
  BY DEF passing_fsrs_review_intervals
<1> HIDE DEF x, y, z, last, h
<1>6. m \in Nat BY <1>3, SMT DEF Greatest
<1>7. h = constrain_passing_interval(ctx, x, m, TRUE) BY DEF h
<1> HIDE DEF m, g
<1>8. h \in 1..max BY <1>1, <1>6, <1>7, ConstrainedInterval
<1> HIDE DEF max
<1>9. n \in Nat /\ n >= h + 1 BY <1>3, <1>4, <1>8, SMT DEF Greatest
<1>10. g = constrain_passing_interval(ctx, y, n, TRUE) BY DEF g
<1> HIDE DEF n, e
<1>11. g \in 1..max /\ (g >= n \/ g = max) BY <1>1, <1>9, <1>10, ConstrainedInterval DEF max
<1>12. k \in Nat /\ k >= g + 1 BY <1>3, <1>4, <1>11, SMT DEF Greatest
<1>13. e = constrain_passing_interval(ctx, z, k, TRUE) BY DEF e
<1> HIDE DEF k
<1>14. e \in 1..max /\ (e >= k \/ e = max) BY <1>1, <1>12, <1>13, ConstrainedInterval DEF max
<1>15. g > h \/ g = max BY <1>4, <1>8, <1>9, <1>11, AboveUnlessMaximal
<1>16. e > g \/ e = max BY <1>4, <1>11, <1>12, <1>14, AboveUnlessMaximal
<1> QED BY <1>5, <1>8, <1>11, <1>14, <1>15, <1>16 DEF Ordered, max

\* Without FSRS "good" starts above "hard" if the hard multiplier raises the interval,
\* and "easy" always starts above "good".
LEMMA NonEarlyIntervalsOrdered ==
    ASSUME NEW ctx, Context(ctx), NEW s, InReview(s)
    PROVE  Ordered(ctx, passing_nonearly_review_intervals(ctx, s), ctx.hardMultiplier > 1000)
<1> DEFINE current == Greatest(s.scheduled, 1)
           late == Greatest(days_late(s), 0)
           raises == ctx.hardMultiplier > 1000
           x == Times(current * Unit, ctx.hardMultiplier)
           y == Times(current * Unit + (late * Unit) \div 2, s.ease)
           z == Times(Times((current + late) * Unit, s.ease), ctx.easyMultiplier)
           m == IF raises THEN s.scheduled + 1 ELSE 0
           h == constrain_passing_interval(ctx, x, m, TRUE)
           n == IF raises THEN h + 1 ELSE s.scheduled + 1
           g == constrain_passing_interval(ctx, y, n, TRUE)
           k == g + 1
           e == constrain_passing_interval(ctx, z, k, TRUE)
           max == MaximumInterval(ctx)
<1>1. s.scheduled \in Nat /\ s.elapsed \in Nat /\ s.ease \in Int BY DEF InReview
<1>2. ctx.hardMultiplier \in Int /\ ctx.easyMultiplier \in Int BY DEF Context, Multipliers
<1>3. max \in Nat BY MaximumType
<1>4. current \in Int /\ late \in Int BY <1>1, SMT DEF days_late, Greatest
<1>5. passing_nonearly_review_intervals(ctx, s) = [hard |-> h, good |-> g, easy |-> e]
  BY DEF passing_nonearly_review_intervals
<1> HIDE DEF current, late, h
<1>6. x \in Int /\ y \in Int /\ z \in Int
  <2>1. current * Unit \in Int BY <1>4, SMT DEF Unit
  <2>2. (current + late) * Unit \in Int BY <1>4, SMT DEF Unit
  <2>3. current * Unit + (late * Unit) \div 2 \in Int BY <1>4, SMT DEF Unit
  <2>4. x \in Int BY <1>2, <2>1, TimesType
  <2>5. y \in Int BY <1>1, <2>3, TimesType
  <2> DEFINE w == (current + late) * Unit
             v == Times(w, s.ease)
  <2> HIDE DEF w
  <2>6. v \in Int BY <1>1, <2>2, TimesType DEF w
  <2> HIDE DEF v
  <2>7. Times(v, ctx.easyMultiplier) \in Int BY <1>2, <2>6, TimesType
  <2> QED BY <2>4, <2>5, <2>7 DEF v, w
<1>7. m \in Nat BY <1>1
<1>8. h = constrain_passing_interval(ctx, x, m, TRUE) BY DEF h
<1> HIDE DEF x, y, z, m, g
<1>9. h \in 1..max BY <1>6, <1>7, <1>8, ConstrainedInterval
<1> HIDE DEF max
<1>10. n \in Nat /\ (raises => n >= h + 1) BY <1>1, <1>3, <1>9, SMT
<1>11. g = constrain_passing_interval(ctx, y, n, TRUE) BY DEF g
<1> HIDE DEF n, e
<1>12. g \in 1..max /\ (g >= n \/ g = max) BY <1>6, <1>10, <1>11, ConstrainedInterval DEF max
<1>13. k \in Nat /\ k >= g + 1 BY <1>3, <1>12, SMT
<1>14. e = constrain_passing_interval(ctx, z, k, TRUE) BY DEF e
<1> HIDE DEF k, raises
<1>15. e \in 1..max /\ (e >= k \/ e = max) BY <1>6, <1>13, <1>14, ConstrainedInterval DEF max
<1>16. raises => (g > h \/ g = max) BY <1>3, <1>9, <1>10, <1>12, AboveUnlessMaximal
<1>17. e > g \/ e = max BY <1>3, <1>12, <1>13, <1>15, AboveUnlessMaximal
<1> QED BY <1>5, <1>9, <1>12, <1>15, <1>16, <1>17 DEF Ordered, max, raises

\* The passing intervals of a review that is not early are in 1..maximum, and a
\* better answer waits longer, unless the maximum is reached; "good" is above "hard"
\* if FSRS is on or the preset's hard multiplier raises the interval
\* (passing_review_intervals).
THEOREM PassingIntervalsOrdered ==
    ASSUME NEW ctx, Context(ctx), NEW s, InReview(s), ctx.fsrs # NoFsrs \/ days_late(s) >= 0
    PROVE  Ordered(ctx, passing_review_intervals(ctx, s), ctx.fsrs # NoFsrs \/ ctx.hardMultiplier > 1000)
<1>1. CASE ctx.fsrs # NoFsrs
  <2>1. passing_review_intervals(ctx, s) = passing_fsrs_review_intervals(ctx, s)
    BY <1>1 DEF passing_review_intervals
  <2> QED BY <1>1, <2>1, FsrsIntervalsOrdered DEF Ordered
<1>2. CASE ctx.fsrs = NoFsrs
  <2>1. s.scheduled \in Nat /\ s.elapsed \in Nat BY DEF InReview
  <2>2. ~(days_late(s) < 0) BY <1>2, <2>1, SMT DEF days_late
  <2>3. passing_review_intervals(ctx, s) = passing_nonearly_review_intervals(ctx, s)
    BY <1>2, <2>2 DEF passing_review_intervals
  <2> QED BY <1>2, <2>3, NonEarlyIntervalsOrdered DEF Ordered
<1> QED BY <1>1, <1>2

----------------------------------------------------------------------------
(* The limits of a tree of decks. *)

Limits == [review : Nat, new : Nat, capNew : BOOLEAN]
Counts == [new : Nat, review : Nat]

\* What a deck of the collection looks like, as far as its limits go.
Countable(deck) ==
    /\ deck.filtered \in BOOLEAN
    /\ deck.reviewLimit \in Int /\ deck.newLimit \in Int
    /\ deck.reviewLimitToday.limit \in Int /\ deck.newLimitToday.limit \in Int
    /\ deck.preset.reviewsPerDay \in Int /\ deck.preset.newPerDay \in Int
    /\ deck.studied.new \in Int /\ deck.studied.review \in Int

LEMMA MinimumExists ==
    ASSUME NEW S, S \subseteq Nat, S # {}
    PROVE  Minimum(S) \in S /\ \A m \in S : Minimum(S) <= m
<1>1. \E n \in S : \A m \in S : ~(<<m, n>> \in OpToRel(<, Nat))
  <2>1. IsWellFoundedOn(OpToRel(<, Nat), Nat) BY NatLessThanWellFounded
  <2> QED BY <2>1, WFMin
<1>2. PICK n \in S : \A m \in S : ~(<<m, n>> \in OpToRel(<, Nat)) BY <1>1
<1>3. \A m \in S : n <= m
  <2> TAKE m \in S
  <2>1. m \in Nat /\ n \in Nat OBVIOUS
  <2>2. <<m, n>> \in Nat \X Nat /\ <<m, n>>[1] = m /\ <<m, n>>[2] = n BY <2>1
  <2>3. ~(m < n) BY <1>2, <2>2 DEF OpToRel
  <2> QED BY <2>1, <2>3
<1> QED BY <1>3 DEF Minimum

\* Capping takes limits away and leaves those of the others above.
LEMMA CapTo ==
    ASSUME NEW l \in Limits, NEW others \in SUBSET Limits
    PROVE  /\ cap_to(l, others) \in Limits
           /\ \A k \in Kinds : /\ cap_to(l, others)[k] <= l[k]
                               /\ \A o \in others : cap_to(l, others)[k] <= o[k]
                               /\ \E o \in others \union {l} : cap_to(l, others)[k] = o[k]
<1> DEFINE R == {l.review} \union {o.review : o \in others}
           N == {l.new} \union {o.new : o \in others}
<1>1. R \subseteq Nat /\ N \subseteq Nat /\ R # {} /\ N # {} BY DEF Limits
<1>2. /\ Minimum(R) \in R /\ \A m \in R : Minimum(R) <= m
      /\ Minimum(N) \in N /\ \A m \in N : Minimum(N) <= m
  BY <1>1, MinimumExists
<1>3. cap_to(l, others) = [l EXCEPT !.review = Minimum(R), !.new = Minimum(N)] BY DEF cap_to
<1>4. /\ cap_to(l, others).review = Minimum(R) /\ cap_to(l, others).new = Minimum(N)
      /\ cap_to(l, others) \in Limits
  <2> HIDE DEF R, N
  <2> QED BY <1>1, <1>2, <1>3 DEF Limits
<1>5. \E o \in others \union {l} : Minimum(R) = o.review BY <1>2
<1>6. \E o \in others \union {l} : Minimum(N) = o.new BY <1>2
<1>7. \A o \in others \union {l} : Minimum(R) <= o.review /\ Minimum(N) <= o.new BY <1>2
<1> QED BY <1>4, <1>5, <1>6, <1>7 DEF Kinds

LEMMA Decrement ==
    ASSUME NEW l \in Limits, NEW kind \in Kinds
    PROVE  /\ decrement(l, kind) \in Limits
           /\ \A k \in Kinds : decrement(l, kind)[k] <= l[k]
           /\ l[kind] # 0 => decrement(l, kind)[kind] = l[kind] - 1
<1>1. l.review \in Nat /\ l.new \in Nat /\ l.capNew \in BOOLEAN
      /\ l = [review |-> l.review, new |-> l.new, capNew |-> l.capNew]
  BY DEF Limits
<1>2. CASE kind = "new"
  <2>1. decrement(l, kind) = [review |-> l.review, new |-> LessOne(l.new), capNew |-> l.capNew]
    BY <1>1, <1>2 DEF decrement
  <2> QED BY <1>1, <1>2, <2>1 DEF LessOne, Limits, Kinds
<1>3. CASE kind = "review"
  <2> DEFINE r == LessOne(l.review)
             n == IF l.capNew THEN Smaller(l.new, r) ELSE l.new
  <2>1. decrement(l, kind) = [review |-> r, new |-> n, capNew |-> l.capNew]
    BY <1>1, <1>3 DEF decrement
  <2>2. r \in Nat /\ r <= l.review /\ (l.review # 0 => r = l.review - 1) BY <1>1 DEF LessOne
  <2>3. n \in Nat /\ n <= l.new
    <3> HIDE DEF r
    <3> QED BY <1>1, <2>2 DEF Smaller
  <2> HIDE DEF r, n
  <2> QED BY <1>1, <1>3, <2>1, <2>2, <2>3 DEF Limits, Kinds
<1> QED BY <1>2, <1>3 DEF Kinds

\* Each deck starts with what is left of its own limits or less, and with none of a kind
\* where a deck above it has none (limits.rs, LimitTreeMap::build).
THEOREM TreeStartsWithinLimits ==
    ASSUME NEW decks, NEW tree, NEW day, NEW ignore \in BOOLEAN, Rooted(tree),
           \A x \in DOMAIN tree : \E i \in DOMAIN decks : decks[i].id = x,
           \A i \in DOMAIN decks : Countable(decks[i])
    PROVE  LET limits == LimitTreeMap(decks, tree, day, ignore)
               own == [x \in DOMAIN tree |->
                          RemainingLimits(decks[CHOOSE i \in DOMAIN decks : decks[i].id = x], day, ignore)]
           IN /\ limits \in [DOMAIN tree -> Limits]
              /\ WithinLimits(tree, own, [x \in DOMAIN tree |-> [new |-> 0, review |-> 0]], limits)
              /\ Exhausted(tree, limits)
<1> DEFINE deck(x) == decks[CHOOSE i \in DOMAIN decks : decks[i].id = x]
           own == [x \in DOMAIN tree |-> RemainingLimits(deck(x), day, ignore)]
           limits == LimitTreeMap(decks, tree, day, ignore)
<1>1. \A x \in DOMAIN tree : own[x] \in Limits
  <2> SUFFICES ASSUME NEW x \in DOMAIN tree PROVE RemainingLimits(deck(x), day, ignore) \in Limits
      OBVIOUS
  <2>1. Countable(deck(x)) OBVIOUS
  <2> HIDE DEF deck
  <2> DEFINE d == deck(x)
  <2>2. Countable(d) BY <2>1
  <2> HIDE DEF d
  <2>3. RemainingLimits(d, day, ignore) \in Limits
    BY <2>2, SMT
    DEF RemainingLimits, NoLimits, Limits, Smaller, unwrap_or, current_review_limit,
        current_new_limit, limit_if_today, new_rev_counts, Countable
  <2> QED BY <2>3 DEF d
<1>2. limits = [x \in DOMAIN tree |-> cap_to(own[x], {own[a] : a \in tree[x]})]
  BY DEF LimitTreeMap
<1> HIDE DEF own, limits, deck
<1>3. \A x \in DOMAIN tree : {own[a] : a \in tree[x]} \in SUBSET Limits BY <1>1 DEF Rooted
<1>4. limits \in [DOMAIN tree -> Limits] BY <1>1, <1>2, <1>3, CapTo
<1>5. \A x \in DOMAIN tree, k \in Kinds : 0 + limits[x][k] <= own[x][k]
  <2> TAKE x \in DOMAIN tree, k \in Kinds
  <2>1. limits[x][k] <= own[x][k] BY <1>1, <1>2, <1>3, CapTo
  <2>2. limits[x][k] \in Nat BY <1>4 DEF Limits, Kinds
  <2> QED BY <2>1, <2>2
<1>6. Exhausted(tree, limits)
  <2> SUFFICES ASSUME NEW x \in DOMAIN tree, NEW a \in tree[x], NEW k \in Kinds, limits[a][k] = 0
               PROVE  limits[x][k] = 0
      BY DEF Exhausted
  <2>1. a \in DOMAIN tree /\ tree[a] \subseteq tree[x] BY DEF Rooted
  <2>2. PICK b \in tree[a] \union {a} : own[b][k] = 0
    <3>1. \E o \in {own[c] : c \in tree[a]} \union {own[a]} : limits[a][k] = o[k]
      BY <1>1, <1>2, <1>3, <2>1, CapTo
    <3> QED BY <3>1
  <2>3. b \in tree[x] BY <2>1, <2>2
  <2>4. limits[x][k] <= own[b][k] BY <1>1, <1>2, <1>3, <2>3, CapTo
  <2>5. limits[x][k] \in Nat BY <1>4 DEF Limits, Kinds
  <2> QED BY <2>2, <2>4, <2>5
<1>7. \A x \in DOMAIN tree, k \in Kinds :
          [y \in DOMAIN tree |-> [new |-> 0, review |-> 0]][x][k] = 0
  BY DEF Kinds
<1>8. WithinLimits(tree, own, [x \in DOMAIN tree |-> [new |-> 0, review |-> 0]], limits)
  BY <1>5, <1>7 DEF WithinLimits
<1> QED BY <1>4, <1>6, <1>8 DEF own, limits, deck

\* A card of a deck that has some of its kind left: the deck and all decks above it show one
\* more and have one less, no deck passes its limits, and a limit that is used up is used up
\* below (limits.rs, decrement_deck_and_parent_limits).
THEOREM CardStaysWithinLimits ==
    ASSUME NEW tree, Rooted(tree), NEW limits \in [DOMAIN tree -> Limits],
           NEW initial \in [DOMAIN tree -> Limits], NEW count \in [DOMAIN tree -> Counts],
           NEW deck \in DOMAIN tree, NEW kind \in Kinds,
           WithinLimits(tree, initial, count, limits), Exhausted(tree, limits),
           ~limit_reached(limits, deck, kind)
    PROVE  LET after == decrement_deck_and_parent_limits(tree, limits, deck, kind)
           IN /\ after \in [DOMAIN tree -> Limits]
              /\ WithinLimits(tree, initial, CountShown(tree, count, deck, kind), after)
              /\ Exhausted(tree, after)
<1> DEFINE counted == [x \in DOMAIN tree |->
                           IF x \in tree[deck] THEN decrement(limits[x], kind) ELSE limits[x]]
           full == {a \in tree[deck] : count_reached_zero(limits[a], counted[a])}
           above(x) == {counted[a] : a \in full \intersect tree[x]}
           after == decrement_deck_and_parent_limits(tree, limits, deck, kind)
<1>1. after = [x \in DOMAIN tree |-> cap_to(counted[x], above(x))]
  BY DEF decrement_deck_and_parent_limits
<1>2. /\ \A x \in DOMAIN tree : counted[x] \in Limits
      /\ \A x \in DOMAIN tree, k \in Kinds : counted[x][k] <= limits[x][k]
  <2> SUFFICES ASSUME NEW x \in DOMAIN tree
               PROVE  counted[x] \in Limits /\ \A k \in Kinds : counted[x][k] <= limits[x][k]
      OBVIOUS
  <2>1. limits[x] \in Limits OBVIOUS
  <2>2. CASE x \in tree[deck] BY <2>1, <2>2, Decrement
  <2>3. CASE x \notin tree[deck]
    <3>1. counted[x] = limits[x] BY <2>3
    <3>2. \A k \in Kinds : limits[x][k] \in Nat BY <2>1 DEF Limits, Kinds
    <3> QED BY <2>1, <3>1, <3>2
  <2> QED BY <2>2, <2>3
<1>3. \A x \in tree[deck] : counted[x][kind] = limits[x][kind] - 1
  <2> TAKE x \in tree[deck]
  <2>1. x \in DOMAIN tree BY DEF Rooted
  <2>2. limits[x][kind] # 0 BY DEF Exhausted, limit_reached
  <2> QED BY <2>1, <2>2, Decrement
<1>4. \A a \in tree[deck], k \in Kinds :
          limits[a][k] # 0 /\ counted[a][k] = 0 => a \in full
  <2> SUFFICES ASSUME NEW a \in tree[deck], NEW k \in Kinds, limits[a][k] # 0, counted[a][k] = 0
               PROVE  count_reached_zero(limits[a], counted[a])
      OBVIOUS
  <2>1. a \in DOMAIN tree BY DEF Rooted
  <2>2. limits[a].new \in Nat /\ limits[a].review \in Nat BY <2>1 DEF Limits
  <2> HIDE DEF counted
  <2> QED BY <2>2 DEF count_reached_zero, Kinds
<1>5. \A x \in DOMAIN tree : above(x) \in SUBSET Limits
  <2>1. full \subseteq DOMAIN tree BY DEF Rooted
  <2> HIDE DEF full, counted
  <2> QED BY <1>2, <2>1
<1>6. \A x \in DOMAIN tree, k \in Kinds : counted[x][k] = limits[x][k] \/ x \in tree[deck] OBVIOUS
<1> HIDE DEF counted, full, after
<1>7. after \in [DOMAIN tree -> Limits] BY <1>1, <1>2, <1>5, CapTo
<1>8. \A x \in DOMAIN tree, k \in Kinds : after[x][k] <= counted[x][k] BY <1>1, <1>2, <1>5, CapTo
<1>9. \A x \in DOMAIN tree, k \in Kinds :
          /\ after[x][k] \in Nat /\ counted[x][k] \in Nat /\ limits[x][k] \in Nat
          /\ count[x][k] \in Nat /\ initial[x][k] \in Nat
  BY <1>2, <1>7 DEF Limits, Counts, Kinds
<1>10. WithinLimits(tree, initial, CountShown(tree, count, deck, kind), after)
  <2> DEFINE after_count == CountShown(tree, count, deck, kind)
  <2> SUFFICES ASSUME NEW x \in DOMAIN tree, NEW k \in Kinds
               PROVE  after_count[x][k] + after[x][k] <= initial[x][k]
      BY DEF WithinLimits
  <2>1. count[x][k] + limits[x][k] <= initial[x][k] BY DEF WithinLimits
  <2>2. after[x][k] <= counted[x][k] /\ counted[x][k] <= limits[x][k] BY <1>2, <1>8
  <2>3. CASE x \in tree[deck] /\ k = kind
    <3>1. after_count[x][k] = count[x][k] + 1 BY <2>3 DEF CountShown, Counts, Kinds
    <3>2. counted[x][k] = limits[x][k] - 1 BY <1>3, <2>3
    <3> QED BY <1>9, <2>1, <2>2, <3>1, <3>2
  <2>4. CASE ~(x \in tree[deck] /\ k = kind)
    <3>1. after_count[x][k] = count[x][k] BY <2>4 DEF CountShown, Counts, Kinds
    <3> QED BY <1>9, <2>1, <2>2, <3>1
  <2> QED BY <2>3, <2>4
<1>11. Exhausted(tree, after)
  <2> SUFFICES ASSUME NEW x \in DOMAIN tree, NEW a \in tree[x], NEW k \in Kinds, after[a][k] = 0
               PROVE  after[x][k] = 0
      BY DEF Exhausted
  <2>1. a \in DOMAIN tree /\ tree[a] \subseteq tree[x] BY DEF Rooted
  <2>2. PICK b \in (full \intersect tree[a]) \union {a} : counted[b][k] = 0
    <3>1. \E o \in above(a) \union {counted[a]} : after[a][k] = o[k] BY <1>1, <1>2, <1>5, <2>1, CapTo
    <3> QED BY <3>1
  <2>3. CASE b \in full
    <3>1. b \in tree[x] BY <2>1, <2>2
    <3>2. after[x][k] <= counted[b][k] BY <1>1, <1>2, <1>5, <2>3, <3>1, CapTo
    <3> QED BY <1>9, <2>2, <3>2
  <2>4. CASE b \notin full
    <3>1. b = a BY <2>2, <2>4
    <3>2. limits[a][k] = 0 BY <1>4, <1>6, <2>1, <2>2, <2>4, <3>1
    <3>3. limits[x][k] = 0 BY <3>2 DEF Exhausted
    <3> QED BY <1>2, <1>8, <1>9, <3>3
  <2> QED BY <2>3, <2>4
<1> QED BY <1>7, <1>10, <1>11 DEF after

----------------------------------------------------------------------------
(* The invariant of a study session.                                      *)

\* The day of the session that a time is in.
DayOf(t) == (t - Epoch) \div DayLength

\* The queue a card is in when nobody has buried or suspended it.
KindOf(r) == restore_queue_from_type(r).queue

\* A card that may be gathered is in the queue its type and due say.
QueueFitsType(r) == r.queue \in QueueKind => r.queue = KindOf(r)

\* Burying options that ask for no less of the kinds gathered later: without them an answer
\* can bury a card that is in the queue (siblings_for_bury).
Graded(p) == (p["daylearn"] => p["review"]) /\ (p["review"] => p["new"])
Preset == [{"new", "review", "daylearn"} -> BOOLEAN]

\* The queue in memory, as far as it is modelled (queue/mod.rs, CardQueues).
CardQueues == [build : Nat \ {0}, day : Int, cutoff : Nat, new : Nat, review : Nat, learning : Nat,
               main : Seq(QueueEntry), intraday : Seq(QueueEntry)]

\* What the learning count of a queue stands for.
LearningDue(q, cutoff) == CountKind(q.main, "daylearn") + CountDue(q.intraday, cutoff + LearnAhead)

\* A queue that is in order and whose counts of new cards and reviews are right.
QueueShape(q) ==
    /\ q \in CardQueues
    /\ \A e \in ToSet(q.main) : e.kind # "learn"
    /\ \A e \in ToSet(q.intraday) : e.kind = "learn"
    /\ q.new = CountKind(q.main, "new") /\ q.review = CountKind(q.main, "review")
    /\ QueueOrdered(q)

\* A queue whose learning count is right as well, at a cutoff that is past.
QueueFits(q, t) == QueueShape(q) /\ q.learning = LearningDue(q, q.cutoff) /\ q.cutoff <= t

\* The entries of a queue and the cards of a table: of one kind, of one modification time.
KindsTrue(q, table) == \A e \in EntriesIn(q) : e.kind = KindOf(table[e.id])
Current(q, table) == \A e \in EntriesIn(q) : table[e.id].mtime = e.mtime

\* Siblings in a queue are of kinds that the preset does not bury.
SiblingsSpared(q, p) ==
    \A e, f \in EntriesIn(q) :
        e.id # f.id /\ NoteOf[e.id] = NoteOf[f.id] => e.kind = "learn" \/ ~p[e.kind]

\* A queue by what is in it, whatever its counts and its cutoff say.
SameQueue(p, q) ==
    p # NoQueues /\ q # NoQueues /\ p.main = q.main /\ p.intraday = q.intraday /\ p.build = q.build

\* The entry that is taken off when its card is answered, and what is left without it.
IsTop(q, e) ==
    IF e.kind = "learn" THEN q.intraday # <<>> /\ e = Head(q.intraday)
                        ELSE q.main # <<>> /\ e = Head(q.main)

MainAfter(q, e) == IF e.kind = "learn" THEN q.main ELSE Tail(q.main)
IntradayAfter(q, e) == IF e.kind = "learn" THEN Tail(q.intraday) ELSE q.intraday
Placed(s, r) == IF r = NoEntry THEN s ELSE InsertAt(s, target_idx(s, r), r)

\* What an answer's update u says: post is pre without its top entry and with the
\* requeued one, and u holds what was due in it.
Moved(pre, u, post, t) ==
    /\ pre # NoQueues /\ post # NoQueues /\ pre.build = u.build /\ post.build = u.build
    /\ IsTop(pre, u.entry)
    /\ u.entry.kind = "learn" => u.entry.due <= u.cutoff + LearnAhead
    /\ post.main = MainAfter(pre, u.entry)
    /\ post.intraday = Placed(IntradayAfter(pre, u.entry), u.requeue)
    /\ u.learning = LearningDue(post, u.cutoff)
    /\ u.cutoff <= t

\* An update of the queue is made of entries, and puts back the card it took off.
UpdateFits(u) ==
    /\ u.build \in Nat \ {0} /\ u.learning \in Nat /\ u.cutoff \in Nat
    /\ u.entry \in QueueEntry
    /\ u.requeue = NoEntry \/ (u.requeue \in QueueEntry /\ u.requeue.kind = "learn" /\ u.requeue.id = u.entry.id)

\* The types of the counter, of an update, of all there is at one moment, and of a step.
Counter == [day : Nat, new : Nat]

Update == [build : Nat \ {0}, entry : QueueEntry, requeue : {NoEntry} \union QueueEntry,
           learning : Nat, cutoff : Nat]

Moments == [card : [Cards -> Card], studied : Counter, queues : {NoQueues} \union CardQueues]

UndoStep == [op : {"AnswerCard", "SetFlag", "suspended", "userburied"},
             cards : UNION {[D -> Card] : D \in SUBSET Cards},
             studied : Counter, update : {NoUpdate} \union Update, before : Moments]

IntroducedOn(table, day) == {c \in Cards : table[c].introduced = day}

\* The counter of new cards is that of the latest day, and no day has too many.
CounterFits(table, counter, t) ==
    /\ counter.day <= DayOf(t) /\ counter.new <= NewPerDay
    /\ \A c \in Cards : table[c].introduced >= DayOf(t) => table[c].introduced = counter.day
    /\ counter.day = DayOf(t) => Cardinality(IntroducedOn(table, counter.day)) <= counter.new
    /\ \A day \in Nat : Cardinality(IntroducedOn(table, day)) <= NewPerDay

\* The new cards in a queue are no more than the day has room for.
RoomLeft(q, counter, t) ==
    /\ CountKind(q.main, "new") <= NewPerDay
    /\ counter.day = DayOf(t) => CountKind(q.main, "new") + counter.new <= NewPerDay

\* What the cards, the counter and the queue of one moment are to each other.
Moment(m, p, t) ==
    /\ m \in Moments
    /\ \A c \in Cards : QueueFitsType(m.card[c])
    /\ CounterFits(m.card, m.studied, t)
    /\ m.queues # NoQueues =>
         /\ QueueFits(m.queues, t) /\ KindsTrue(m.queues, m.card) /\ RoomLeft(m.queues, m.studied, t)
         /\ Graded(p) => Current(m.queues, m.card) /\ SiblingsSpared(m.queues, p)

\* A card as it was or unburied since, and a card that differs in its queue or flag only.
Unburied(r, old) == r = old \/ (old.queue \in Buried /\ r = restore_queue_from_type(old))

SameStudy(r, old) ==
    r.mtime = old.mtime /\ r.type = old.type /\ r.due = old.due /\ r.introduced = old.introduced

\* A step agrees with the moment before it.
StepFits(s) ==
    /\ s.update # NoUpdate <=> s.op = "AnswerCard"
    /\ s.update # NoUpdate => UpdateFits(s.update)
    /\ DOMAIN s.cards # {}
    /\ \A c \in DOMAIN s.cards : s.cards[c] = s.before.card[c]
    /\ s.studied = s.before.studied

\* What the cards and the counter still are where the step did not touch them.
Linked(s, late) ==
    /\ \A c \in Cards : /\ c \notin DOMAIN s.cards => Unburied(late.card[c], s.before.card[c])
                        /\ s.op = "SetFlag" => SameStudy(late.card[c], s.before.card[c])
    /\ s.update = NoUpdate => late.studied = s.before.studied

\* The queue before a step and the queue after it.
QueueLinked(pre, s, post, t) ==
    IF s.update = NoUpdate THEN SameQueue(pre, post) ELSE Moved(pre, s.update, post, t)

\* On the undo stack the step leads from its moment to the later one; on the redo
\* stack it leads back.
Between(dir, s, late, t) ==
    IF dir = "undo" THEN QueueLinked(s.before.queues, s, late.queues, t)
                    ELSE QueueLinked(late.queues, s, s.before.queues, t)

\* No step from here down could be taken back on this queue.
Forgotten(q, st, i) == q = NoQueues \/ \A k \in i..Len(st) : st[k].update.build # q.build

\* The moment after step i of a stack: that before the step above it, or the top.
Late(top, st, i) == IF i = 1 THEN top ELSE st[i - 1].before

Link(dir, late, st, i, p, t) ==
    /\ Moment(st[i].before, p, t) /\ StepFits(st[i]) /\ Linked(st[i], late)
    /\ Between(dir, st[i], late, t) \/ Forgotten(late.queues, st, i)

\* From the top of a stack down, each step is linked to the moment of the one above.
Chain(dir, top, st, p, t) == \A i \in 1..Len(st) : Link(dir, Late(top, st, i), st, i, p, t)

\* A moment that came after another without a step being recorded.
Follows(n, m, st) ==
    /\ \A c \in Cards : Unburied(n.card[c], m.card[c])
    /\ n.studied = m.studied
    /\ n.queues = NoQueues \/ SameQueue(n.queues, m.queues) \/ Forgotten(n.queues, st, 1)

\* All there is now, and the invariant of a session.
Present == [card |-> card, studied |-> studied, queues |-> queues]

StudyInv ==
    /\ now \in Nat /\ Epoch <= now /\ now <= Epoch + MaxTime
    /\ preset \in BuryModes
    /\ undoSteps \in Seq(UndoStep) /\ redoSteps \in Seq(UndoStep)
    /\ Len(undoSteps) + Len(redoSteps) <= UndoLimit
    /\ Moment(Present, preset, now)
    /\ Chain("undo", Present, undoSteps, preset, now)
    /\ Chain("redo", Present, redoSteps, preset, now)
    /\ shown = NoCard \/ shown.id \in Cards
    /\ shown # NoCard /\ fault = "none" =>
          queues # NoQueues /\ ~Finished(queues) /\ front(queues).id = shown.id
    /\ fault \in {"none", "stale entry", "no operation"}
    /\ Graded(preset) => fault # "stale entry"

----------------------------------------------------------------------------
(* The sequences and sets the queue is made of.                           *)

\* A set of numbers that is not empty has a least one.
LEMMA MinExists ==
    ASSUME NEW S, S \subseteq Nat, S # {}
    PROVE  Min(S) \in S /\ \A m \in S : Min(S) <= m
BY MinimumExists DEF Min, Minimum

\* A finite set with a key has a member with the greatest key.
LEMMA GreatestKey ==
    ASSUME NEW S, IsFiniteSet(S), S # {}, NEW key \in [S -> Nat]
    PROVE  \E x \in S : \A y \in S : key[y] <= key[x]
<1> DEFINE Bad == {n \in Nat : \E T \in SUBSET S : /\ T # {} /\ Cardinality(T) = n
                                                   /\ ~ \E x \in T : \A y \in T : key[y] <= key[x]}
<1>1. Bad = {}
  <2> SUFFICES ASSUME Bad # {} PROVE FALSE OBVIOUS
  <2> DEFINE n == Min(Bad)
  <2>1. n \in Bad /\ \A m \in Bad : n <= m BY MinExists
  <2>2. PICK T \in SUBSET S : /\ T # {} /\ Cardinality(T) = n
                              /\ ~ \E x \in T : \A y \in T : key[y] <= key[x]
    BY <2>1
  <2>3. PICK x \in T : TRUE BY <2>2
  <2>4. IsFiniteSet(T) BY FS_Subset
  <2>5. Cardinality(T \ {x}) = n - 1 /\ IsFiniteSet(T \ {x}) BY <2>2, <2>3, <2>4, FS_RemoveElement
  <2>6. Cardinality(T \ {x}) \in Nat BY <2>5, FS_CardinalityType
  <2>7. n - 1 \notin Bad BY <2>1
  <2>8. T \ {x} # {} BY <2>2, <2>3
  <2>9. PICK z \in T \ {x} : \A y \in T \ {x} : key[y] <= key[z] BY <2>5, <2>6, <2>7, <2>8
  <2>10. key[x] \in Nat /\ key[z] \in Nat /\ \A y \in T : key[y] \in Nat BY <2>2, <2>3, <2>9
  <2>11. CASE key[x] <= key[z]
    <3>1. \A y \in T : key[y] <= key[z] BY <2>9, <2>11
    <3> QED BY <3>1, <2>2, <2>9
  <2>12. CASE key[z] <= key[x]
    <3>1. \A y \in T : key[y] <= key[x]
      <4> TAKE y \in T
      <4>1. CASE y = x BY <4>1, <2>10
      <4>2. CASE y # x
        <5>1. key[y] <= key[z] BY <4>2, <2>9
        <5> QED BY <5>1, <2>10, <2>12
      <4> QED BY <4>1, <4>2
    <3> QED BY <3>1, <2>2, <2>3
  <2> QED BY <2>10, <2>11, <2>12
<1>2. Cardinality(S) \in Nat BY FS_CardinalityType
<1> QED BY <1>1, <1>2

\* A sequence of all members of S in the order of a key.
Sorted(s, S, key) ==
    /\ s \in [1..Cardinality(S) -> S]
    /\ \A x \in S : \E i \in DOMAIN s : s[i] = x
    /\ \A i, j \in DOMAIN s : i < j => key[s[i]] <= key[s[j]]

\* A finite set can be put in the order of its keys, each member once.
LEMMA InOrderSorts ==
    ASSUME NEW S, IsFiniteSet(S), NEW key \in [S -> Nat]
    PROVE  /\ Sorted(InOrder(S, key), S, key)
           /\ InOrder(S, key) \in Seq(S)
           /\ \A i, j \in DOMAIN InOrder(S, key) : InOrder(S, key)[i] = InOrder(S, key)[j] => i = j
<1> DEFINE Bad == {n \in Nat : \E T \in SUBSET S : /\ Cardinality(T) = n
                                                   /\ ~ \E s : Sorted(s, T, key)}
<1>1. Bad = {}
  <2> SUFFICES ASSUME Bad # {} PROVE FALSE OBVIOUS
  <2> DEFINE n == Min(Bad)
  <2>1. n \in Bad /\ \A m \in Bad : n <= m BY MinExists
  <2>2. PICK T \in SUBSET S : Cardinality(T) = n /\ ~ \E s : Sorted(s, T, key) BY <2>1
  <2>3. IsFiniteSet(T) /\ n \in Nat BY <2>1, FS_Subset
  <2>8. n - 1 \notin Bad
    <3> HIDE DEF n, Bad
    <3> QED BY <2>1, <2>3
  <2> HIDE DEF n
  <2>4. T # {}
    <3> SUFFICES ASSUME T = {} PROVE FALSE OBVIOUS
    <3>1. n = 0 BY <2>2, FS_EmptySet
    <3>2. Sorted([i \in 1..0 |-> 0], T, key) BY <3>1, <2>2 DEF Sorted
    <3> QED BY <3>2, <2>2
  <2>5. PICK x \in T : \A y \in T : key[y] <= key[x]
    <3>1. [y \in T |-> key[y]] \in [T -> Nat] OBVIOUS
    <3>2. \E x \in T : \A y \in T : [z \in T |-> key[z]][y] <= [z \in T |-> key[z]][x]
      BY <3>1, <2>3, <2>4, GreatestKey
    <3> QED BY <3>2
  <2> DEFINE U == T \ {x}
  <2>6. Cardinality(U) = n - 1 /\ IsFiniteSet(U) BY <2>2, <2>3, <2>5, FS_RemoveElement
  <2>7. Cardinality(U) \in Nat BY <2>6, FS_CardinalityType
  <2>9. PICK s : Sorted(s, U, key) BY <2>6, <2>7, <2>8
  <2> DEFINE t == [i \in 1..n |-> IF i = n THEN x ELSE s[i]]
  <2>10. s \in [1..(n - 1) -> U] /\ DOMAIN s = 1..(n - 1) BY <2>9, <2>6 DEF Sorted
  <2>11. t \in [1..n -> T]
    <3>1. \A i \in 1..n : i # n => i \in 1..(n - 1) BY <2>3
    <3>2. \A i \in 1..n : t[i] \in T BY <3>1, <2>10, <2>5
    <3> QED BY <3>2
  <2>12. \A y \in T : \E i \in DOMAIN t : t[i] = y
    <3> TAKE y \in T
    <3>1. CASE y = x
      <4>1. n \in DOMAIN t /\ t[n] = x BY <2>3, <2>6, <2>7
      <4> QED BY <3>1, <4>1
    <3>2. CASE y # x
      <4>1. PICK i \in 1..(n - 1) : s[i] = y BY <3>2, <2>9, <2>10 DEF Sorted
      <4>2. i \in 1..n /\ i # n BY <2>3
      <4> QED BY <4>1, <4>2
    <3> QED BY <3>1, <3>2
  <2>13. \A i, j \in DOMAIN t : i < j => key[t[i]] <= key[t[j]]
    <3> SUFFICES ASSUME NEW i \in 1..n, NEW j \in 1..n, i < j PROVE key[t[i]] <= key[t[j]]
      OBVIOUS
    <3>1. i \in 1..(n - 1) /\ t[i] = s[i] BY <2>3
    <3>2. CASE j = n
      <4>1. t[i] \in T BY <2>11
      <4> QED BY <3>2, <4>1, <2>5
    <3>3. CASE j # n
      <4>1. j \in 1..(n - 1) /\ t[j] = s[j] BY <3>3, <2>3
      <4> QED BY <4>1, <3>1, <2>9, <2>10 DEF Sorted
    <3> QED BY <3>2, <3>3
  <2>14. Sorted(t, T, key) BY <2>2, <2>11, <2>12, <2>13 DEF Sorted
  <2> QED BY <2>2, <2>14
<1>2. Cardinality(S) \in Nat BY FS_CardinalityType
<1>3. \E s : Sorted(s, S, key) BY <1>1, <1>2
<1> DEFINE o == InOrder(S, key)
<1>4. Sorted(o, S, key)
  <2>1. PICK s : Sorted(s, S, key) BY <1>3
  <2> QED BY <2>1 DEF InOrder, Sorted
<1> HIDE DEF o
<1>5. o \in Seq(S) BY <1>2, <1>4, SeqDef DEF Sorted
<1>6. \A i, j \in DOMAIN o : o[i] = o[j] => i = j
  <2>1. o \in Surjection(1..Cardinality(S), S) BY <1>4 DEF Sorted, Surjection
  <2>2. IsFiniteSet(1..Cardinality(S)) /\ Cardinality(1..Cardinality(S)) = Cardinality(S)
    BY <1>2, FS_Interval
  <2>3. o \in Injection(1..Cardinality(S), S) BY <2>1, <2>2, FS_SurjSameCardinalityImpliesInj
  <2> QED BY <2>3 DEF Injection, IsInjective
<1> QED BY <1>4, <1>5, <1>6 DEF o

\* The members of a sequence.
LEMMA ToSetSeq ==
    ASSUME NEW S, NEW s \in Seq(S)
    PROVE  /\ Len(s) \in Nat /\ DOMAIN s = 1..Len(s) /\ ToSet(s) \subseteq S
           /\ \A x : x \in ToSet(s) <=> \E i \in 1..Len(s) : s[i] = x
<1>1. Len(s) \in Nat /\ DOMAIN s = 1..Len(s) /\ s \in [1..Len(s) -> S] BY LenProperties
<1> QED BY <1>1 DEF ToSet

\* A sequence is its first member and the rest.
LEMMA TailOf ==
    ASSUME NEW S, NEW s \in Seq(S), s # <<>>
    PROVE  /\ Head(s) \in S /\ Tail(s) \in Seq(S) /\ Len(s) \in Nat \ {0} /\ Len(Tail(s)) = Len(s) - 1
           /\ Head(s) = s[1] /\ 1 \in DOMAIN s
           /\ \A i \in 1..(Len(s) - 1) : Tail(s)[i] = s[i + 1]
           /\ <<Head(s)>> \o Tail(s) = s
<1>1. Len(s) \in Nat \ {0} /\ DOMAIN s = 1..Len(s) BY EmptySeq, LenProperties
<1> DEFINE h == <<Head(s)>>
           r == Tail(s)
           t == h \o r
<1>2. Head(s) \in S /\ r \in Seq(S) /\ Len(r) = Len(s) - 1 /\ \A i \in 1..Len(r) : r[i] = s[i + 1]
  BY HeadTailProperties
<1>3. Head(s) = s[1] BY <1>1
<1>4. h \in Seq(S) /\ Len(h) = 1 /\ h[1] = Head(s) BY <1>2
<1> HIDE DEF h
<1>8. t = h \o r OBVIOUS
<1> HIDE DEF t, r
<1>5. /\ t \in Seq(S) /\ Len(t) = 1 + (Len(s) - 1)
      /\ \A i \in 1..(1 + (Len(s) - 1)) : t[i] = IF i <= 1 THEN h[i] ELSE r[i - 1]
  <2>1. /\ h \o r \in Seq(S) /\ Len(h \o r) = Len(h) + Len(r)
        /\ \A i \in 1..(Len(h) + Len(r)) :
              (h \o r)[i] = IF i <= Len(h) THEN h[i] ELSE r[i - Len(h)]
    BY <1>1, <1>2, <1>4, ConcatProperties
  <2> QED BY <2>1, <1>1, <1>2, <1>4, <1>8
<1>6. \A i \in 1..Len(s) : t[i] = s[i]
  <2> TAKE i \in 1..Len(s)
  <2>1. CASE i = 1 BY <2>1, <1>1, <1>3, <1>4, <1>5
  <2>2. CASE i # 1
    <3>1. i - 1 \in 1..Len(r) /\ (i - 1) + 1 = i BY <2>2, <1>1, <1>2
    <3>2. r[i - 1] = s[i] BY <3>1, <1>2
    <3> QED BY <3>2, <2>2, <1>1, <1>5
  <2> QED BY <2>1, <2>2
<1>7. t = s BY <1>1, <1>5, <1>6, SeqEqual
<1> QED BY <1>1, <1>2, <1>3, <1>7 DEF t, h, r

\* A sequence of distinct entries without the first: the others, in their order.
LEMMA TailDistinct ==
    ASSUME NEW s \in Seq(QueueEntry), s # <<>>, Distinct(s)
    PROVE  /\ Distinct(Tail(s))
           /\ Head(s) \in ToSet(s)
           /\ ToSet(Tail(s)) = ToSet(s) \ {Head(s)}
           /\ \A x \in ToSet(Tail(s)) : x.id # Head(s).id
           /\ ByDue(s) => ByDue(Tail(s))
<1>1. /\ Tail(s) \in Seq(QueueEntry) /\ Len(s) \in Nat \ {0} /\ Len(Tail(s)) = Len(s) - 1
      /\ Head(s) = s[1] /\ 1 \in DOMAIN s
      /\ \A i \in 1..(Len(s) - 1) : Tail(s)[i] = s[i + 1]
  BY TailOf
<1> DEFINE n == Len(s)
           t == Tail(s)
<1>2. DOMAIN s = 1..n /\ DOMAIN t = 1..(n - 1) /\ \A i \in 1..(n - 1) : i + 1 \in 1..n /\ i + 1 # 1
  BY <1>1, ToSetSeq
<1>3. /\ \A x : x \in ToSet(s) <=> \E i \in 1..n : s[i] = x
      /\ \A x : x \in ToSet(t) <=> \E i \in 1..(n - 1) : t[i] = x
  <2>1. \A x : x \in ToSet(s) <=> \E i \in 1..n : s[i] = x BY ToSetSeq
  <2>2. \A x : x \in ToSet(t) <=> \E i \in 1..Len(t) : t[i] = x
    <3>1. t \in Seq(QueueEntry) BY <1>1
    <3> HIDE DEF t
    <3> QED BY <3>1, ToSetSeq
  <2>3. Len(t) = n - 1 BY <1>1
  <2> QED BY <2>1, <2>2, <2>3, Zenon
<1>4. n \in Nat \ {0} /\ \A i \in 1..(n - 1) : t[i] = s[i + 1] BY <1>1
<1> HIDE DEF n, t
<1>5. Distinct(t)
  <2> SUFFICES ASSUME NEW i \in 1..(n - 1), NEW j \in 1..(n - 1), t[i].id = t[j].id PROVE i = j
    BY <1>2 DEF Distinct
  <2>1. i + 1 \in DOMAIN s /\ j + 1 \in DOMAIN s /\ s[i + 1].id = s[j + 1].id BY <1>2, <1>4
  <2>2. i + 1 = j + 1 BY <2>1 DEF Distinct
  <2> QED BY <2>2
<1>6. Head(s) \in ToSet(s) BY <1>1, <1>2, <1>3
<1>7. \A x \in ToSet(t) : x \in ToSet(s) /\ x.id # Head(s).id
  <2> TAKE x \in ToSet(t)
  <2>1. PICK i \in 1..(n - 1) : t[i] = x BY <1>3
  <2>2. s[i + 1] = x /\ i + 1 \in DOMAIN s /\ i + 1 # 1 BY <2>1, <1>2, <1>4
  <2> QED BY <2>2, <1>1, <1>2, <1>3 DEF Distinct
<1>8. \A x \in ToSet(s) \ {Head(s)} : x \in ToSet(t)
  <2> TAKE x \in ToSet(s) \ {Head(s)}
  <2>1. PICK i \in 1..n : s[i] = x BY <1>3
  <2>2. i # 1 BY <2>1, <1>1
  <2>3. i - 1 \in 1..(n - 1) /\ (i - 1) + 1 = i BY <2>2, <1>4
  <2>4. t[i - 1] = x BY <2>1, <2>3, <1>4
  <2> QED BY <2>3, <2>4, <1>3
<1>9. ByDue(s) => ByDue(t)
  <2> SUFFICES ASSUME ByDue(s), NEW i \in 1..(n - 1), NEW j \in 1..(n - 1), i < j
               PROVE  t[i].due <= t[j].due
    BY <1>2 DEF ByDue
  <2>1. i + 1 < j + 1 /\ i + 1 \in 1..n /\ j + 1 \in 1..n BY <1>4
  <2> QED BY <2>1, <1>2, <1>4 DEF ByDue
<1>10. ToSet(t) = ToSet(s) \ {Head(s)} BY <1>7, <1>8
<1> QED BY <1>5, <1>6, <1>7, <1>9, <1>10 DEF t

\* What is where after an insertion.
LEMMA Inserted ==
    ASSUME NEW S, NEW s \in Seq(S), NEW e \in S, NEW k \in 1..(Len(s) + 1)
    PROVE  LET t == InsertAt(s, k, e)
           IN /\ t \in Seq(S) /\ Len(t) = Len(s) + 1
              /\ \A i \in 1..(Len(s) + 1) :
                    t[i] = IF i < k THEN s[i] ELSE IF i = k THEN e ELSE s[i - 1]
<1> DEFINE n == Len(s)
           a == SubSeq(s, 1, k - 1)
           b == SubSeq(s, k, n)
           x == <<e>>
           ae == a \o x
           t == InsertAt(s, k, e)
<1>1. n \in Nat /\ k \in 1..(n + 1) /\ \A i \in 1..n : s[i] \in S BY LenProperties, ElementOfSeq
<1>2. /\ a \in Seq(S) /\ Len(a) = k - 1 /\ \A i \in 1..(k - 1) : a[i] = s[i]
  <2>1. \A i \in 1..(k - 1) : s[i] \in S BY <1>1
  <2>2. /\ a \in Seq(S) /\ Len(a) = IF 1 <= k - 1 THEN (k - 1) - 1 + 1 ELSE 0
        /\ \A i \in 1..((k - 1) - 1 + 1) : a[i] = s[1 + i - 1]
    <3>1. 1 \in Int /\ k - 1 \in Int BY <1>1
    <3> QED BY <2>1, <3>1, SubSeqProperties
  <2> QED BY <2>2, <1>1
<1>3. /\ b \in Seq(S) /\ Len(b) = n + 1 - k /\ \A i \in 1..(n + 1 - k) : b[i] = s[k + i - 1]
  <2>1. \A i \in k..n : s[i] \in S BY <1>1
  <2>2. /\ b \in Seq(S) /\ Len(b) = IF k <= n THEN n - k + 1 ELSE 0
        /\ \A i \in 1..(n - k + 1) : b[i] = s[k + i - 1]
    <3>1. k \in Int /\ n \in Int BY <1>1
    <3> QED BY <2>1, <3>1, SubSeqProperties
  <2> QED BY <2>2, <1>1
<1>4. t = ae \o b BY DEF InsertAt
<1> HIDE DEF a, b, n, t
<1>5. x \in Seq(S) /\ Len(x) = 1 /\ x[1] = e OBVIOUS
<1> HIDE DEF x
<1>6. ae = a \o x OBVIOUS
<1> HIDE DEF ae
<1>7. ae \in Seq(S) /\ Len(ae) = k /\ \A i \in 1..k : ae[i] = IF i < k THEN s[i] ELSE e
  <2>1. /\ ae \in Seq(S) /\ Len(ae) = (k - 1) + 1
        /\ \A i \in 1..((k - 1) + 1) : ae[i] = IF i <= k - 1 THEN a[i] ELSE x[i - (k - 1)]
    <3>1. /\ a \o x \in Seq(S) /\ Len(a \o x) = Len(a) + Len(x)
          /\ \A i \in 1..(Len(a) + Len(x)) : (a \o x)[i] = IF i <= Len(a) THEN a[i] ELSE x[i - Len(a)]
      BY <1>2, <1>5, ConcatProperties
    <3> QED BY <3>1, <1>1, <1>2, <1>5, <1>6
  <2>2. \A i \in 1..k : ae[i] = IF i < k THEN s[i] ELSE e
    <3> TAKE i \in 1..k
    <3>1. CASE i < k BY <3>1, <2>1, <1>1, <1>2
    <3>2. CASE i = k
      <4>1. i - (k - 1) = 1 /\ ~(i <= k - 1) /\ i \in 1..((k - 1) + 1) BY <3>2, <1>1
      <4> QED BY <4>1, <3>2, <2>1, <1>5
    <3> QED BY <3>1, <3>2, <1>1
  <2> QED BY <2>1, <2>2, <1>1
<1>8. /\ t \in Seq(S) /\ Len(t) = k + (n + 1 - k)
      /\ \A i \in 1..(k + (n + 1 - k)) : t[i] = IF i <= k THEN ae[i] ELSE b[i - k]
  <2>1. /\ ae \o b \in Seq(S) /\ Len(ae \o b) = Len(ae) + Len(b)
        /\ \A i \in 1..(Len(ae) + Len(b)) :
              (ae \o b)[i] = IF i <= Len(ae) THEN ae[i] ELSE b[i - Len(ae)]
    BY <1>1, <1>3, <1>7, ConcatProperties
  <2> QED BY <2>1, <1>1, <1>3, <1>7, <1>4
<1>9. \A i \in 1..(n + 1) : t[i] = IF i < k THEN s[i] ELSE IF i = k THEN e ELSE s[i - 1]
  <2> TAKE i \in 1..(n + 1)
  <2>1. CASE i <= k BY <2>1, <1>1, <1>7, <1>8
  <2>2. CASE i > k
    <3>1. i - k \in 1..(n + 1 - k) /\ k + (i - k) - 1 = i - 1 BY <2>2, <1>1
    <3>2. b[i - k] = s[i - 1] BY <3>1, <1>3
    <3> QED BY <3>2, <2>2, <1>1, <1>8
  <2> QED BY <2>1, <2>2, <1>1
<1>10. Len(t) = n + 1 BY <1>1, <1>8
<1> QED BY <1>8, <1>9, <1>10 DEF t, n

\* What is where after a removal.
LEMMA Removed ==
    ASSUME NEW S, NEW s \in Seq(S), NEW k \in 1..Len(s)
    PROVE  LET t == RemoveAt(s, k)
           IN /\ t \in Seq(S) /\ Len(t) = Len(s) - 1
              /\ \A i \in 1..(Len(s) - 1) : t[i] = IF i < k THEN s[i] ELSE s[i + 1]
<1> DEFINE n == Len(s)
           a == SubSeq(s, 1, k - 1)
           b == SubSeq(s, k + 1, n)
           t == RemoveAt(s, k)
<1>1. n \in Nat /\ k \in 1..n /\ \A i \in 1..n : s[i] \in S BY LenProperties, ElementOfSeq
<1>2. /\ a \in Seq(S) /\ Len(a) = k - 1 /\ \A i \in 1..(k - 1) : a[i] = s[i]
  <2>1. \A i \in 1..(k - 1) : s[i] \in S BY <1>1
  <2>2. /\ a \in Seq(S) /\ Len(a) = IF 1 <= k - 1 THEN (k - 1) - 1 + 1 ELSE 0
        /\ \A i \in 1..((k - 1) - 1 + 1) : a[i] = s[1 + i - 1]
    <3>1. 1 \in Int /\ k - 1 \in Int BY <1>1
    <3> QED BY <2>1, <3>1, SubSeqProperties
  <2> QED BY <2>2, <1>1
<1>3. /\ b \in Seq(S) /\ Len(b) = n - k /\ \A i \in 1..(n - k) : b[i] = s[k + i]
  <2>1. \A i \in (k + 1)..n : s[i] \in S BY <1>1
  <2>2. /\ b \in Seq(S) /\ Len(b) = IF k + 1 <= n THEN n - (k + 1) + 1 ELSE 0
        /\ \A i \in 1..(n - (k + 1) + 1) : b[i] = s[(k + 1) + i - 1]
    <3>1. k + 1 \in Int /\ n \in Int BY <1>1
    <3> QED BY <2>1, <3>1, SubSeqProperties
  <2>3. \A i \in 1..(n - k) : i \in 1..(n - (k + 1) + 1) /\ (k + 1) + i - 1 = k + i BY <1>1
  <2> QED BY <2>2, <2>3, <1>1
<1>4. t = a \o b BY DEF RemoveAt
<1> HIDE DEF a, b, n, t
<1>5. /\ t \in Seq(S) /\ Len(t) = (k - 1) + (n - k)
      /\ \A i \in 1..((k - 1) + (n - k)) : t[i] = IF i <= k - 1 THEN a[i] ELSE b[i - (k - 1)]
  <2>1. /\ a \o b \in Seq(S) /\ Len(a \o b) = Len(a) + Len(b)
        /\ \A i \in 1..(Len(a) + Len(b)) :
              (a \o b)[i] = IF i <= Len(a) THEN a[i] ELSE b[i - Len(a)]
    BY <1>1, <1>2, <1>3, ConcatProperties
  <2> QED BY <2>1, <1>1, <1>2, <1>3, <1>4
<1>6. \A i \in 1..(n - 1) : t[i] = IF i < k THEN s[i] ELSE s[i + 1]
  <2> TAKE i \in 1..(n - 1)
  <2>1. CASE i < k BY <2>1, <1>1, <1>2, <1>5
  <2>2. CASE i >= k
    <3>1. i - (k - 1) \in 1..(n - k) /\ k + (i - (k - 1)) = i + 1 BY <2>2, <1>1
    <3>2. b[i - (k - 1)] = s[i + 1] BY <3>1, <1>3
    <3> QED BY <3>2, <2>2, <1>1, <1>5
  <2> QED BY <2>1, <2>2, <1>1
<1>7. Len(t) = n - 1 BY <1>1, <1>5
<1> QED BY <1>5, <1>6, <1>7 DEF t, n

\* Removing the first member leaves the rest.
LEMMA RemovedFirst ==
    ASSUME NEW S, NEW s \in Seq(S), s # <<>>
    PROVE  RemoveAt(s, 1) = Tail(s)
<1> DEFINE t == RemoveAt(s, 1)
<1>1. /\ Tail(s) \in Seq(S) /\ Len(s) \in Nat \ {0} /\ Len(Tail(s)) = Len(s) - 1
      /\ \A i \in 1..(Len(s) - 1) : Tail(s)[i] = s[i + 1]
  BY TailOf
<1>2. 1 \in 1..Len(s) BY <1>1
<1>3. /\ t \in Seq(S) /\ Len(t) = Len(s) - 1
      /\ \A i \in 1..(Len(s) - 1) : t[i] = IF i < 1 THEN s[i] ELSE s[i + 1]
  BY <1>2, Removed
<1> HIDE DEF t
<1>4. \A i \in 1..Len(t) : t[i] = Tail(s)[i] BY <1>1, <1>3
<1>5. t = Tail(s) BY <1>1, <1>3, <1>4, SeqEqual
<1> QED BY <1>5 DEF t

\* Removing what was inserted gives the sequence there was.
LEMMA RemovedInserted ==
    ASSUME NEW S, NEW s \in Seq(S), NEW e \in S, NEW k \in 1..(Len(s) + 1)
    PROVE  RemoveAt(InsertAt(s, k, e), k) = s
<1> DEFINE n == Len(s)
           t == InsertAt(s, k, e)
           u == RemoveAt(t, k)
<1>1. n \in Nat /\ k \in 1..(n + 1) BY LenProperties
<1>2. /\ t \in Seq(S) /\ Len(t) = n + 1
      /\ \A i \in 1..(n + 1) : t[i] = IF i < k THEN s[i] ELSE IF i = k THEN e ELSE s[i - 1]
  BY Inserted
<1> HIDE DEF t
<1>3. k \in 1..Len(t) BY <1>1, <1>2
<1>4. /\ u \in Seq(S) /\ Len(u) = Len(t) - 1
      /\ \A i \in 1..(Len(t) - 1) : u[i] = IF i < k THEN t[i] ELSE t[i + 1]
  BY <1>2, <1>3, Removed
<1> HIDE DEF u, n
<1>5. Len(u) = n BY <1>1, <1>2, <1>4
<1>6. \A i \in 1..n : u[i] = s[i]
  <2> TAKE i \in 1..n
  <2>1. CASE i < k BY <2>1, <1>1, <1>2, <1>4
  <2>2. CASE i >= k
    <3>1. i + 1 \in 1..(n + 1) /\ ~(i + 1 < k) /\ i + 1 # k /\ (i + 1) - 1 = i BY <2>2, <1>1
    <3>2. t[i + 1] = s[i] BY <3>1, <1>2
    <3> QED BY <3>2, <2>2, <1>1, <1>2, <1>4
  <2> QED BY <2>1, <2>2, <1>1
<1>7. u = s BY <1>4, <1>5, <1>6, SeqEqual DEF n
<1> QED BY <1>7 DEF u, t

----------------------------------------------------------------------------
(* Counting entries, and putting one in its place.                        *)

\* Among distinct entries, positions count as many as entries do.
LEMMA CountSet ==
    ASSUME NEW s \in Seq(QueueEntry), Distinct(s), NEW X
    PROVE  /\ IsFiniteSet({i \in DOMAIN s : s[i] \in X})
           /\ IsFiniteSet(ToSet(s) \intersect X)
           /\ Cardinality({i \in DOMAIN s : s[i] \in X}) = Cardinality(ToSet(s) \intersect X)
<1> DEFINE I == {i \in DOMAIN s : s[i] \in X}
           T == ToSet(s) \intersect X
           f == [i \in I |-> s[i]]
<1>1. Len(s) \in Nat /\ DOMAIN s = 1..Len(s) /\ \A x : x \in ToSet(s) <=> \E i \in 1..Len(s) : s[i] = x
  BY ToSetSeq
<1>2. IsFiniteSet(I)
  <2>1. IsFiniteSet(1..Len(s)) BY <1>1, FS_Interval
  <2>2. I \in SUBSET (1..Len(s)) BY <1>1
  <2> QED BY <2>1, <2>2, FS_Subset
<1>3. f \in Bijection(I, T)
  <2>1. f \in [I -> T] BY <1>1
  <2>2. IsInjective(f)
    <3>1. \A i, j \in I : s[i] = s[j] => i = j BY DEF Distinct
    <3> QED BY <3>1 DEF IsInjective
  <2>3. \A x \in T : \E i \in I : f[i] = x BY <1>1
  <2> QED BY <2>1, <2>2, <2>3 DEF Bijection, Injection, Surjection
<1> HIDE DEF I, T, f
<1>4. IsFiniteSet(T) /\ Cardinality(T) = Cardinality(I)
  <2>1. ExistsBijection(I, T) BY <1>3 DEF ExistsBijection
  <2> QED BY <2>1, <1>2, FS_Bijection
<1> QED BY <1>2, <1>4 DEF I, T

\* The entries of a kind, and those due until a time.
OfKind(S, kind) == {e \in S : e.kind = kind}
DueBy(S, until) == {e \in S : e.due <= until}

\* The count of a kind is that of a set.
LEMMA CountedKind ==
    ASSUME NEW s \in Seq(QueueEntry), Distinct(s), NEW kind
    PROVE  /\ IsFiniteSet(OfKind(ToSet(s), kind))
           /\ CountKind(s, kind) = Cardinality(OfKind(ToSet(s), kind))
           /\ CountKind(s, kind) \in Nat
<1> DEFINE X == {e \in QueueEntry : e.kind = kind}
<1>1. DOMAIN s = 1..Len(s) /\ ToSet(s) \subseteq QueueEntry /\ \A i \in DOMAIN s : s[i] \in QueueEntry
  BY ToSetSeq, ElementOfSeq
<1>2. {i \in DOMAIN s : s[i] \in X} = {i \in DOMAIN s : s[i].kind = kind} BY <1>1
<1>3. ToSet(s) \intersect X = OfKind(ToSet(s), kind) BY <1>1 DEF OfKind
<1> HIDE DEF X
<1>4. /\ IsFiniteSet(OfKind(ToSet(s), kind))
      /\ Cardinality({i \in DOMAIN s : s[i].kind = kind}) = Cardinality(OfKind(ToSet(s), kind))
  BY <1>2, <1>3, CountSet
<1> QED BY <1>4, FS_CardinalityType DEF CountKind

\* The count of what is due is that of a set.
LEMMA CountedDue ==
    ASSUME NEW s \in Seq(QueueEntry), Distinct(s), NEW until
    PROVE  /\ IsFiniteSet(DueBy(ToSet(s), until))
           /\ CountDue(s, until) = Cardinality(DueBy(ToSet(s), until))
           /\ CountDue(s, until) \in Nat
<1> DEFINE X == {e \in QueueEntry : e.due <= until}
<1>1. DOMAIN s = 1..Len(s) /\ ToSet(s) \subseteq QueueEntry /\ \A i \in DOMAIN s : s[i] \in QueueEntry
  BY ToSetSeq, ElementOfSeq
<1>2. {i \in DOMAIN s : s[i] \in X} = {i \in DOMAIN s : s[i].due <= until} BY <1>1
<1>3. ToSet(s) \intersect X = DueBy(ToSet(s), until) BY <1>1 DEF DueBy
<1> HIDE DEF X
<1>4. /\ IsFiniteSet(DueBy(ToSet(s), until))
      /\ Cardinality({i \in DOMAIN s : s[i].due <= until}) = Cardinality(DueBy(ToSet(s), until))
  BY <1>2, <1>3, CountSet
<1> QED BY <1>4, FS_CardinalityType DEF CountDue

\* The entries that become due between two times.
LEMMA CountedBetween ==
    ASSUME NEW s \in Seq(QueueEntry), NEW a \in Int, NEW b \in Int, a <= b, Distinct(s)
    PROVE  LET late == Cardinality({i \in DOMAIN s : s[i].due > a /\ s[i].due <= b})
           IN late \in Nat /\ CountDue(s, b) = CountDue(s, a) + late
<1> DEFINE A == {i \in DOMAIN s : s[i].due <= a}
           B == {i \in DOMAIN s : s[i].due > a /\ s[i].due <= b}
           C == {i \in DOMAIN s : s[i].due <= b}
<1>1. DOMAIN s = 1..Len(s) /\ Len(s) \in Nat /\ \A i \in DOMAIN s : s[i].due \in Int
  <2>1. DOMAIN s = 1..Len(s) /\ Len(s) \in Nat BY ToSetSeq
  <2>2. \A i \in DOMAIN s : s[i] \in QueueEntry BY <2>1, ElementOfSeq
  <2> QED BY <2>1, <2>2 DEF QueueEntry
<1>2. C = A \union B /\ A \intersect B = {} BY <1>1
<1>3. IsFiniteSet(A) /\ IsFiniteSet(B)
  <2>1. IsFiniteSet(1..Len(s)) BY <1>1, FS_Interval
  <2>2. A \in SUBSET (1..Len(s)) /\ B \in SUBSET (1..Len(s)) BY <1>1
  <2> HIDE DEF A, B
  <2> QED BY <2>1, <2>2, FS_Subset
<1> HIDE DEF A, B, C
<1>4. Cardinality(C) = Cardinality(A) + Cardinality(B)
  <2>1. Cardinality(C) = Cardinality(A) + Cardinality(B) - Cardinality({}) BY <1>2, <1>3, FS_Union
  <2>2. Cardinality({}) = 0 BY FS_EmptySet
  <2>3. Cardinality(A) \in Nat /\ Cardinality(B) \in Nat BY <1>3, FS_CardinalityType
  <2> QED BY <2>1, <2>2, <2>3
<1>5. Cardinality(B) \in Nat BY <1>3, FS_CardinalityType
<1> QED BY <1>4, <1>5 DEF A, B, C, CountDue

\* The counts of a sequence and those of the sequence without the first.
LEMMA CountTail ==
    ASSUME NEW s \in Seq(QueueEntry), s # <<>>, Distinct(s)
    PROVE  /\ \A kind : CountKind(s, kind) = CountKind(Tail(s), kind) + IF Head(s).kind = kind THEN 1 ELSE 0
           /\ \A until : CountDue(s, until) = CountDue(Tail(s), until) + IF Head(s).due <= until THEN 1 ELSE 0
<1> DEFINE h == Head(s)
           S == ToSet(s)
           T == ToSet(Tail(s))
<1>1. Tail(s) \in Seq(QueueEntry) /\ Distinct(Tail(s)) /\ h \in S /\ T = S \ {h}
  BY TailOf, TailDistinct
<1>2. \A kind : CountKind(s, kind) = CountKind(Tail(s), kind) + IF h.kind = kind THEN 1 ELSE 0
  <2> TAKE kind
  <2> HIDE DEF h
  <2>1. /\ IsFiniteSet(OfKind(S, kind)) /\ IsFiniteSet(OfKind(T, kind))
        /\ CountKind(s, kind) = Cardinality(OfKind(S, kind)) /\ CountKind(s, kind) \in Nat
        /\ CountKind(Tail(s), kind) = Cardinality(OfKind(T, kind)) /\ CountKind(Tail(s), kind) \in Nat
    BY <1>1, CountedKind
  <2> HIDE DEF S, T
  <2>2. CASE h.kind = kind
    <3>1. OfKind(T, kind) = OfKind(S, kind) \ {h} /\ h \in OfKind(S, kind) BY <1>1, <2>2 DEF OfKind
    <3>2. Cardinality(OfKind(T, kind)) = Cardinality(OfKind(S, kind)) - 1
      BY <3>1, <2>1, FS_RemoveElement
    <3> QED BY <3>2, <2>1, <2>2
  <2>3. CASE h.kind # kind
    <3>1. OfKind(T, kind) = OfKind(S, kind) BY <1>1, <2>3 DEF OfKind
    <3> QED BY <3>1, <2>1, <2>3
  <2> QED BY <2>2, <2>3
<1>3. \A until : CountDue(s, until) = CountDue(Tail(s), until) + IF h.due <= until THEN 1 ELSE 0
  <2> TAKE until
  <2> HIDE DEF h
  <2>1. /\ IsFiniteSet(DueBy(S, until)) /\ IsFiniteSet(DueBy(T, until))
        /\ CountDue(s, until) = Cardinality(DueBy(S, until)) /\ CountDue(s, until) \in Nat
        /\ CountDue(Tail(s), until) = Cardinality(DueBy(T, until)) /\ CountDue(Tail(s), until) \in Nat
    BY <1>1, CountedDue
  <2> HIDE DEF S, T
  <2>2. CASE h.due <= until
    <3>1. DueBy(T, until) = DueBy(S, until) \ {h} /\ h \in DueBy(S, until) BY <1>1, <2>2 DEF DueBy
    <3>2. Cardinality(DueBy(T, until)) = Cardinality(DueBy(S, until)) - 1
      BY <3>1, <2>1, FS_RemoveElement
    <3> QED BY <3>2, <2>1, <2>2
  <2>3. CASE ~(h.due <= until)
    <3>1. DueBy(T, until) = DueBy(S, until) BY <1>1, <2>3 DEF DueBy
    <3> QED BY <3>1, <2>1, <2>3
  <2> QED BY <2>2, <2>3
<1> QED BY <1>2, <1>3

\* The place of a learning card: after those that are due earlier.
LEMMA TargetIdx ==
    ASSUME NEW s \in Seq(QueueEntry), NEW e \in QueueEntry
    PROVE  LET k == target_idx(s, e)
           IN /\ k \in 1..(Len(s) + 1)
              /\ \A j \in 1..(k - 1) : s[j].due < e.due
              /\ k <= Len(s) => e.due <= s[k].due
<1> DEFINE n == Len(s)
           K == {i \in 1..(n + 1) : i <= n => e.due <= s[i].due}
<1>1. n \in Nat /\ \A i \in 1..n : s[i].due \in Nat
  <2>1. \A i \in 1..n : s[i] \in QueueEntry BY ElementOfSeq
  <2> QED BY <2>1, LenProperties DEF QueueEntry
<1>2. e.due \in Nat BY DEF QueueEntry
<1>3. n + 1 \in K /\ K \subseteq Nat BY <1>1
<1>4. Min(K) \in K /\ \A m \in K : Min(K) <= m
  <2> HIDE DEF K
  <2> QED BY <1>3, MinExists
<1> DEFINE m == Min(K)
<1>5. m \in 1..(n + 1) /\ (m <= n => e.due <= s[m].due) BY <1>4
<1>6. \A j \in 1..(m - 1) : s[j].due < e.due
  <2> HIDE DEF m
  <2> TAKE j \in 1..(m - 1)
  <2>1. j \in 1..n /\ j < m BY <1>1, <1>5
  <2>2. j \notin K
    <3> HIDE DEF K
    <3> QED BY <1>4, <1>5, <2>1 DEF m
  <2>3. ~(e.due <= s[j].due) BY <2>1, <2>2, <1>1
  <2> QED BY <2>1, <2>3, <1>1, <1>2
<1> HIDE DEF m, n
<1>7. \E k \in 1..(n + 1) : /\ \A j \in 1..(k - 1) : s[j].due < e.due
                            /\ k <= n => e.due <= s[k].due
  BY <1>5, <1>6
<1> QED BY <1>7 DEF target_idx, n

\* A learning card put in its place.
LEMMA InsertedEntry ==
    ASSUME NEW s \in Seq(QueueEntry), NEW e \in QueueEntry, Distinct(s),
           \A x \in ToSet(s) : x.id # e.id
    PROVE  LET k == target_idx(s, e)
               t == InsertAt(s, k, e)
           IN /\ t \in Seq(QueueEntry) /\ Distinct(t) /\ ToSet(t) = ToSet(s) \union {e}
              /\ ByDue(s) => ByDue(t)
              /\ \A until : CountDue(t, until) = CountDue(s, until) + IF e.due <= until THEN 1 ELSE 0
              /\ k \in DOMAIN t /\ t[k] = e /\ \A i \in DOMAIN t : t[i].id = e.id => i = k
              /\ RemoveAt(t, k) = s
<1> DEFINE n == Len(s)
           k == target_idx(s, e)
           t == InsertAt(s, k, e)
<1>1. /\ k \in 1..(n + 1) /\ \A j \in 1..(k - 1) : s[j].due < e.due
      /\ k <= n => e.due <= s[k].due
  BY TargetIdx
<1>2. /\ n \in Nat /\ DOMAIN s = 1..n /\ e.due \in Nat
      /\ \A i \in 1..n : s[i] \in QueueEntry /\ s[i].due \in Nat /\ s[i].id # e.id
      /\ \A x : x \in ToSet(s) <=> \E i \in 1..n : s[i] = x
  <2>1. \A i \in 1..n : s[i] \in QueueEntry BY ElementOfSeq
  <2>2. n \in Nat /\ DOMAIN s = 1..n /\ \A x : x \in ToSet(s) <=> \E i \in 1..n : s[i] = x BY ToSetSeq
  <2>3. \A i \in 1..n : s[i].due \in Nat BY <2>1 DEF QueueEntry
  <2> QED BY <2>1, <2>2, <2>3 DEF QueueEntry
<1> HIDE DEF k
<1>3. /\ t \in Seq(QueueEntry) /\ Len(t) = n + 1
      /\ \A i \in 1..(n + 1) : t[i] = IF i < k THEN s[i] ELSE IF i = k THEN e ELSE s[i - 1]
  BY <1>1, Inserted
<1>4. RemoveAt(t, k) = s BY <1>1, RemovedInserted
<1> HIDE DEF n, t
<1>5. DOMAIN t = 1..(n + 1) /\ \A x : x \in ToSet(t) <=> \E i \in 1..(n + 1) : t[i] = x
  BY <1>3, ToSetSeq
<1> DEFINE from(i) == IF i < k THEN i ELSE i - 1
<1>6. \A i \in 1..(n + 1) : i # k => from(i) \in 1..n /\ t[i] = s[from(i)] BY <1>1, <1>2, <1>3
<1>7. k \in 1..(n + 1) /\ t[k] = e BY <1>1, <1>3
<1>8. \A i \in 1..(n + 1) : t[i].id = e.id => i = k
  <2> SUFFICES ASSUME NEW i \in 1..(n + 1), i # k PROVE t[i].id # e.id OBVIOUS
  <2> QED BY <1>2, <1>6
<1>9. Distinct(t)
  <2> SUFFICES ASSUME NEW i \in 1..(n + 1), NEW j \in 1..(n + 1), t[i].id = t[j].id PROVE i = j
    BY <1>5 DEF Distinct
  <2>1. CASE i = k \/ j = k BY <2>1, <1>7, <1>8
  <2>2. CASE i # k /\ j # k
    <3>1. from(i) \in 1..n /\ from(j) \in 1..n /\ s[from(i)].id = s[from(j)].id BY <2>2, <1>6
    <3>2. from(i) = from(j)
      <4> HIDE DEF from
      <4> QED BY <3>1, <1>2 DEF Distinct
    <3> QED BY <3>2, <2>2, <1>1, <1>2
  <2> QED BY <2>1, <2>2
<1>10. ToSet(t) = ToSet(s) \union {e}
  <2>1. \A x \in ToSet(t) : x \in ToSet(s) \union {e}
    <3> HIDE DEF from
    <3> QED BY <1>2, <1>5, <1>6, <1>7
  <2>2. \A x \in ToSet(s) : x \in ToSet(t)
    <3> TAKE x \in ToSet(s)
    <3>1. PICK i \in 1..n : s[i] = x BY <1>2
    <3>2. CASE i < k
      <4>1. i \in 1..(n + 1) /\ t[i] = x BY <3>1, <3>2, <1>2, <1>3
      <4> QED BY <4>1, <1>5
    <3>3. CASE ~(i < k)
      <4>1. i + 1 \in 1..(n + 1) /\ t[i + 1] = x BY <3>1, <3>3, <1>1, <1>2, <1>3
      <4> QED BY <4>1, <1>5
    <3> QED BY <3>2, <3>3
  <2>3. e \in ToSet(t) BY <1>5, <1>7
  <2> QED BY <2>1, <2>2, <2>3
<1>11. ByDue(s) => ByDue(t)
  <2> SUFFICES ASSUME ByDue(s), NEW i \in 1..(n + 1), NEW j \in 1..(n + 1), i < j
               PROVE  t[i].due <= t[j].due
    BY <1>5 DEF ByDue
  <2>1. \A a, b \in 1..n : a <= b => s[a].due <= s[b].due BY <1>2 DEF ByDue
  <2>2. CASE i # k /\ j # k
    <3>1. from(i) <= from(j) BY <2>2, <1>1, <1>2
    <3> HIDE DEF from
    <3> QED BY <3>1, <2>1, <2>2, <1>6
  <2>3. CASE i = k
    <3>1. j - 1 \in 1..n /\ t[j] = s[j - 1] /\ k <= n /\ k <= j - 1 BY <2>3, <1>1, <1>2, <1>3
    <3>2. e.due <= s[k].due /\ s[k].due <= s[j - 1].due BY <3>1, <2>1, <1>1
    <3> QED BY <3>1, <3>2, <2>3, <1>2, <1>1, <1>7
  <2>4. CASE j = k
    <3>1. i \in 1..(k - 1) /\ i \in 1..n /\ t[i] = s[i] BY <2>4, <1>1, <1>2, <1>3
    <3> QED BY <3>1, <2>4, <1>1, <1>2, <1>7
  <2> QED BY <2>2, <2>3, <2>4
<1>12. \A until : CountDue(t, until) = CountDue(s, until) + IF e.due <= until THEN 1 ELSE 0
  <2> TAKE until
  <2> DEFINE S == ToSet(s)
             T == ToSet(t)
  <2>1. /\ IsFiniteSet(DueBy(S, until)) /\ IsFiniteSet(DueBy(T, until))
        /\ CountDue(s, until) = Cardinality(DueBy(S, until)) /\ CountDue(s, until) \in Nat
        /\ CountDue(t, until) = Cardinality(DueBy(T, until)) /\ CountDue(t, until) \in Nat
    BY <1>3, <1>9, CountedDue
  <2>2. T = S \union {e} /\ e \notin S BY <1>10
  <2> HIDE DEF S, T
  <2>3. CASE e.due <= until
    <3>1. DueBy(T, until) = DueBy(S, until) \union {e} /\ e \notin DueBy(S, until) BY <2>2, <2>3 DEF DueBy
    <3>2. Cardinality(DueBy(T, until)) = Cardinality(DueBy(S, until)) + 1
      BY <3>1, <2>1, FS_AddElement
    <3> QED BY <3>2, <2>1, <2>3
  <2>4. CASE ~(e.due <= until)
    <3>1. DueBy(T, until) = DueBy(S, until) BY <2>2, <2>4 DEF DueBy
    <3> QED BY <3>1, <2>1, <2>4
  <2> QED BY <2>3, <2>4
<1> QED BY <1>3, <1>4, <1>5, <1>7, <1>8, <1>9, <1>10, <1>11, <1>12 DEF t, k

\* Two sequences of distinct entries one after the other.
LEMMA ConcatDistinct ==
    ASSUME NEW s \in Seq(QueueEntry), NEW t \in Seq(QueueEntry), Distinct(s), Distinct(t),
           \A x \in ToSet(s), y \in ToSet(t) : x.id # y.id
    PROVE  s \o t \in Seq(QueueEntry) /\ Distinct(s \o t) /\ ToSet(s \o t) = ToSet(s) \union ToSet(t)
<1> DEFINE m == Len(s)
           n == Len(t)
           u == s \o t
<1>1. u \in Seq(QueueEntry) /\ Len(u) = m + n /\ \A i \in 1..(m + n) : u[i] = IF i <= m THEN s[i] ELSE t[i - m]
  BY ConcatProperties
<1>2. /\ m \in Nat /\ DOMAIN s = 1..m /\ \A x : x \in ToSet(s) <=> \E i \in 1..m : s[i] = x
      /\ n \in Nat /\ DOMAIN t = 1..n /\ \A x : x \in ToSet(t) <=> \E i \in 1..n : t[i] = x
  BY ToSetSeq
<1> HIDE DEF u
<1>3. DOMAIN u = 1..(m + n) /\ \A x : x \in ToSet(u) <=> \E i \in 1..(m + n) : u[i] = x
  <2>1. DOMAIN u = 1..Len(u) /\ \A x : x \in ToSet(u) <=> \E i \in 1..Len(u) : u[i] = x BY <1>1, ToSetSeq
  <2> QED BY <2>1, <1>1, Zenon
<1> HIDE DEF m, n
<1>4. \A i \in 1..(m + n) : \/ i \in 1..m /\ u[i] = s[i] /\ u[i] \in ToSet(s)
                            \/ i > m /\ i - m \in 1..n /\ u[i] = t[i - m] /\ u[i] \in ToSet(t)
  <2> TAKE i \in 1..(m + n)
  <2>1. CASE i <= m BY <2>1, <1>1, <1>2
  <2>2. CASE i > m
    <3>1. i - m \in 1..n /\ u[i] = t[i - m] BY <2>2, <1>1, <1>2
    <3> QED BY <3>1, <2>2, <1>2
  <2> QED BY <2>1, <2>2, <1>2
<1>5. Distinct(u)
  <2> SUFFICES ASSUME NEW i \in 1..(m + n), NEW j \in 1..(m + n), u[i].id = u[j].id PROVE i = j
    BY <1>3 DEF Distinct
  <2>1. CASE i \in 1..m /\ j \in 1..m /\ u[i] = s[i] /\ u[j] = s[j] BY <2>1, <1>2 DEF Distinct
  <2>2. CASE i > m /\ i - m \in 1..n /\ u[i] = t[i - m] /\ j > m /\ j - m \in 1..n /\ u[j] = t[j - m]
    <3>1. i - m = j - m BY <2>2, <1>2 DEF Distinct
    <3> QED BY <3>1, <1>2
  <2> QED BY <1>4, <2>1, <2>2
<1>6. \A x \in ToSet(u) : x \in ToSet(s) \union ToSet(t) BY <1>3, <1>4
<1>7. \A x \in ToSet(s) \union ToSet(t) : x \in ToSet(u)
  <2> TAKE x \in ToSet(s) \union ToSet(t)
  <2>1. CASE x \in ToSet(s)
    <3>1. PICK i \in 1..m : s[i] = x BY <2>1, <1>2
    <3>2. i \in 1..(m + n) /\ u[i] = x BY <3>1, <1>1, <1>2
    <3> QED BY <3>2, <1>3
  <2>2. CASE x \in ToSet(t)
    <3>1. PICK i \in 1..n : t[i] = x BY <2>2, <1>2
    <3>2. i + m \in 1..(m + n) /\ ~(i + m <= m) /\ (i + m) - m = i BY <1>2
    <3>3. u[i + m] = x BY <3>1, <3>2, <1>1
    <3> QED BY <3>2, <3>3, <1>3
  <2> QED BY <2>1, <2>2
<1>8. ToSet(u) = ToSet(s) \union ToSet(t) BY <1>6, <1>7
<1> QED BY <1>1, <1>5, <1>8 DEF u

----------------------------------------------------------------------------
(* Gathering cards and building a queue.                                  *)

\* The cards a queue may hold are finitely many, one entry for a card.
LEMMA CandidatesFit ==
    ASSUME NEW table \in [Cards -> Card], today \in Int
    PROVE  /\ IsFiniteSet(Candidates(table))
           /\ Candidates(table) \subseteq QueueEntry
           /\ \A e \in Candidates(table) :
                 e.id \in Cards /\ Due(table[e.id]) /\ e = Entry(e.id, table[e.id])
           /\ \A e, f \in Candidates(table) : e.id = f.id => e = f
<1> DEFINE X == {x \in Cards : Due(table[x])}
           C == Candidates(table)
           g == [x \in X |-> Entry(x, table[x])]
<1>1. IsFiniteSet(X) BY StudyAssumption, FS_Subset
<1>2. C = {Entry(c, table[c]) : c \in X} BY DEF Candidates
<1>3. g \in Surjection(X, C)
  <2>1. g \in [X -> C] BY <1>2
  <2>2. \A e \in C : \E x \in X : g[x] = e BY <1>2
  <2> HIDE DEF C, X, g
  <2> QED BY <2>1, <2>2 DEF Surjection
<1>4. IsFiniteSet(C) BY <1>1, <1>3, FS_Surjection
<1>5. \A x \in X : Entry(x, table[x]).id = x /\ Entry(x, table[x]) \in QueueEntry
  <2> TAKE x \in X
  <2>1. table[x] \in Card /\ Due(table[x]) /\ x \in Cards OBVIOUS
  <2>2. table[x].queue \in QueueKind /\ table[x].mtime \in Nat /\ table[x].due \in Nat
    BY <2>1 DEF Due, QueueKind, Card
  <2> QED BY <2>1, <2>2 DEF Entry, QueueEntry
<1>6. \A e \in C : e.id \in X /\ e = Entry(e.id, table[e.id]) /\ e \in QueueEntry
  <2> TAKE e \in C
  <2>1. PICK x \in X : e = Entry(x, table[x]) BY <1>2
  <2>2. e.id = x BY <2>1, <1>5
  <2> QED BY <2>1, <2>2, <1>5
<1> QED BY <1>4, <1>6

\* A kind has one place in the order of gathering, and no entry comes before itself.
LEMMA OrderOfGathering ==
    ASSUME NEW T, T \subseteq QueueEntry
    PROVE  /\ \A e \in T : gather_ord(e.kind) \in 0..3 /\ e.id \in Nat
           /\ \A e, f \in T : gather_ord(e.kind) = gather_ord(f.kind) => e.kind = f.kind
           /\ \A e \in T : ~GatheredBefore(e, e)
<1>1. \A e \in T : e.kind \in QueueKind /\ e.id \in Nat BY StudyAssumption DEF QueueEntry
<1>2. \A k \in QueueKind : gather_ord(k) \in 0..3 /\ ~(gather_ord(k) < gather_ord(k)) BY DEF gather_ord, QueueKind
<1>3. \A k, l \in QueueKind : gather_ord(k) = gather_ord(l) => k = l BY DEF gather_ord, QueueKind
<1>4. \A e \in T : ~(e.id < e.id) BY <1>1
<1> QED BY <1>1, <1>2, <1>3, <1>4 DEF GatheredBefore

\* Among finitely many entries, one is gathered last.
LEMMA LastGathered ==
    ASSUME NEW T, T \subseteq QueueEntry, IsFiniteSet(T), T # {}
    PROVE  \E x \in T : \A y \in T : ~GatheredBefore(x, y)
<1> DEFINE ord == [e \in T |-> gather_ord(e.kind)]
<1>0. \A e \in T : gather_ord(e.kind) \in 0..3 /\ e.id \in Nat BY OrderOfGathering
<1>1. ord \in [T -> Nat] BY <1>0
<1>2. PICK z \in T : \A y \in T : ord[y] <= ord[z]
  <2> HIDE DEF ord
  <2> QED BY <1>1, GreatestKey
<1> DEFINE U == {e \in T : gather_ord(e.kind) = gather_ord(z.kind)}
           key == [e \in U |-> e.id]
<1>3. IsFiniteSet(U) /\ U # {} BY FS_Subset, <1>2
<1>4. key \in [U -> Nat] BY <1>0
<1>5. PICK x \in U : \A y \in U : key[y] <= key[x]
  <2> HIDE DEF key, U
  <2> QED BY <1>3, <1>4, GreatestKey
<1>6. \A y \in T : ~GatheredBefore(x, y)
  <2> TAKE y \in T
  <2>1. gather_ord(y.kind) <= gather_ord(x.kind) BY <1>2, <1>5
  <2>2. y.kind = x.kind => y.id <= x.id BY <1>5
  <2>3. gather_ord(y.kind) \in Nat /\ gather_ord(x.kind) \in Nat /\ x.id \in Nat /\ y.id \in Nat BY <1>0, <1>5
  <2> QED BY <2>1, <2>2, <2>3 DEF GatheredBefore
<1> QED BY <1>5, <1>6

\* One after the other every candidate is kept or left out.
LEMMA GatherExists ==
    ASSUME NEW C, IsFiniteSet(C), C \subseteq QueueEntry
    PROVE  \E kept \in SUBSET C :
              \A e \in C : e \in kept <=> Added(e, {f \in kept : GatheredBefore(f, e)})
<1> DEFINE Good(T) == \E K \in SUBSET T :
                         \A e \in T : e \in K <=> Added(e, {f \in K : GatheredBefore(f, e)})
           Bad == {n \in Nat : \E T \in SUBSET C : Cardinality(T) = n /\ ~Good(T)}
<1>1. Bad = {}
  <2> SUFFICES ASSUME Bad # {} PROVE FALSE OBVIOUS
  <2> DEFINE n == Min(Bad)
  <2>1. n \in Bad /\ \A m \in Bad : n <= m BY MinExists
  <2>2. PICK T \in SUBSET C : Cardinality(T) = n /\ ~Good(T) BY <2>1
  <2>3. IsFiniteSet(T) BY FS_Subset
  <2>4. T # {}
    <3> SUFFICES ASSUME T = {} PROVE FALSE OBVIOUS
    <3>1. {} \in SUBSET T /\ \A e \in T : FALSE OBVIOUS
    <3> QED BY <3>1, <2>2
  <2>5. PICK x \in T : \A y \in T : ~GatheredBefore(x, y) BY <2>3, <2>4, LastGathered
  <2> DEFINE U == T \ {x}
  <2>6. Cardinality(U) = n - 1 /\ IsFiniteSet(U) BY <2>2, <2>3, FS_RemoveElement
  <2>7. Cardinality(U) \in Nat BY <2>6, FS_CardinalityType
  <2>8. n - 1 \notin Bad
    <3>1. n \in Nat BY <2>1
    <3> HIDE DEF Bad, n
    <3> QED BY <2>1, <3>1
  <2>9. Good(U)
    <3>1. U \in SUBSET C OBVIOUS
    <3> HIDE DEF Good, n, U
    <3> QED BY <2>6, <2>7, <2>8, <3>1
  <2>10. PICK K \in SUBSET U : \A e \in U : e \in K <=> Added(e, {f \in K : GatheredBefore(f, e)}) BY <2>9
  <2> DEFINE L == IF Added(x, {f \in K : GatheredBefore(f, x)}) THEN K \union {x} ELSE K
  <2>11. \A e \in T : {f \in L : GatheredBefore(f, e)} = {f \in K : GatheredBefore(f, e)} BY <2>5
  <2>12. \A e \in T : e \in L <=> Added(e, {f \in L : GatheredBefore(f, e)})
    <3> TAKE e \in T
    <3>1. CASE e = x BY <3>1, <2>11, <2>10
    <3>2. CASE e # x
      <4>1. e \in U /\ (e \in L <=> e \in K) BY <3>2
      <4> QED BY <4>1, <2>10, <2>11
    <3> QED BY <3>1, <3>2
  <2>13. L \in SUBSET T OBVIOUS
  <2> HIDE DEF L
  <2> QED BY <2>2, <2>12, <2>13
<1>2. Cardinality(C) \in Nat BY FS_CardinalityType
<1>3. C \in SUBSET C OBVIOUS
<1>4. Good(C) BY <1>1, <1>2, <1>3
<1> QED BY <1>4

\* The entries that are gathered are those that their earlier ones let in.
LEMMA GatherKeeps ==
    ASSUME NEW table \in [Cards -> Card], today \in Int
    PROVE  LET kept == gather_cards(table)
           IN /\ kept \subseteq Candidates(table) /\ IsFiniteSet(kept)
              /\ \A e \in kept : Added(e, {f \in kept : GatheredBefore(f, e)})
<1>1. \E kept \in SUBSET Candidates(table) :
          \A e \in Candidates(table) : e \in kept <=> Added(e, {f \in kept : GatheredBefore(f, e)})
  BY CandidatesFit, GatherExists
<1> DEFINE kept == gather_cards(table)
<1>2. /\ kept \in SUBSET Candidates(table)
      /\ \A e \in Candidates(table) : e \in kept <=> Added(e, {f \in kept : GatheredBefore(f, e)})
  BY <1>1 DEF gather_cards
<1> HIDE DEF kept
<1>3. IsFiniteSet(kept) BY <1>2, CandidatesFit, FS_Subset
<1> QED BY <1>2, <1>3 DEF kept

\* No more new cards are gathered than the day has room for.
LEMMA NewKept ==
    ASSUME NEW table \in [Cards -> Card], today \in Int, new_studied(studied, today) \in 0..NewPerDay
    PROVE  Cardinality(OfKind(gather_cards(table), "new")) <= NewPerDay - new_studied(studied, today)
<1> DEFINE kept == gather_cards(table)
           N == OfKind(kept, "new")
           key == [e \in N |-> e.id]
           room == NewPerDay - new_studied(studied, today)
<1>1. /\ kept \subseteq Candidates(table) /\ IsFiniteSet(kept)
      /\ \A e \in kept : Added(e, {f \in kept : GatheredBefore(f, e)})
  BY GatherKeeps
<1>2. Candidates(table) \subseteq QueueEntry /\ \A e, f \in Candidates(table) : e.id = f.id => e = f
  BY CandidatesFit
<1> HIDE DEF kept
<1>3. /\ IsFiniteSet(N) /\ N \subseteq kept /\ N \subseteq QueueEntry
      /\ \A e \in N : e.kind = "new"
      /\ \A e \in kept : e.kind = "new" => e \in N
  BY <1>1, <1>2, FS_Subset DEF OfKind
<1>4. key \in [N -> Nat] BY <1>3, StudyAssumption DEF QueueEntry
<1>5. Cardinality(N) \in Nat BY <1>3, FS_CardinalityType
<1>6. room \in Nat BY StudyAssumption
<1>7. CASE N = {}
  <2>1. Cardinality(N) = 0 BY <1>7, FS_EmptySet
  <2> QED BY <2>1, <1>6 DEF kept
<1>8. CASE N # {}
  <2>1. PICK y \in N : \A z \in N : key[z] <= key[y]
    <3> HIDE DEF key, N
    <3> QED BY <1>8, <1>3, <1>4, GreatestKey
  <2>2. Added(y, {f \in kept : GatheredBefore(f, y)}) BY <1>1, <1>3
  <2>3. Cardinality({f \in {g \in kept : GatheredBefore(g, y)} : f.kind = "new"}) < room
    BY <2>2, <1>3, <2>1 DEF Added
  <2>4. {f \in {g \in kept : GatheredBefore(g, y)} : f.kind = "new"} = N \ {y}
    <3>1. \A f \in N : f # y => f.id < y.id
      <4> TAKE f \in N
      <4>1. f.id \in Nat /\ y.id \in Nat BY <1>4, <2>1
      <4>2. f.id <= y.id BY <2>1
      <4>3. f.id = y.id => f = y BY <1>2, <1>1, <1>3, <2>1
      <4> QED BY <4>1, <4>2, <4>3
    <3>2. \A f \in N : f # y => GatheredBefore(f, y) BY <3>1, <1>3, <2>1 DEF GatheredBefore
    <3>3. ~GatheredBefore(y, y) BY <1>3, <2>1, OrderOfGathering
    <3> HIDE DEF N
    <3> QED BY <1>3, <3>2, <3>3, <2>1
  <2>5. Cardinality(N \ {y}) = Cardinality(N) - 1 BY <1>3, <2>1, FS_RemoveElement
  <2>6. Cardinality(N) - 1 < room BY <2>3, <2>4, <2>5
  <2> HIDE DEF N, room
  <2> QED BY <2>6, <1>5, <1>6 DEF N, kept, room
<1> QED BY <1>7, <1>8

\* Under a graded preset no two entries of one note are left when their kind is buried.
LEMMA SiblingsKept ==
    ASSUME NEW table \in [Cards -> Card], today \in Int, preset \in Preset, Graded(preset),
           NEW e \in gather_cards(table), NEW f \in gather_cards(table),
           e.id # f.id, NoteOf[e.id] = NoteOf[f.id]
    PROVE  e.kind = "learn" \/ ~preset[e.kind]
<1> DEFINE kept == gather_cards(table)
<1>1. /\ kept \subseteq Candidates(table) /\ IsFiniteSet(kept)
      /\ \A x \in kept : Added(x, {y \in kept : GatheredBefore(y, x)})
  BY GatherKeeps
<1>2. Candidates(table) \subseteq QueueEntry BY CandidatesFit
<1>3. e \in QueueEntry /\ f \in QueueEntry BY <1>1, <1>2
<1>4. CASE GatheredBefore(f, e)
  <2>1. f \in {y \in kept : GatheredBefore(y, e)} BY <1>4
  <2>2. Added(e, {y \in kept : GatheredBefore(y, e)}) BY <1>1
  <2> QED BY <2>1, <2>2 DEF Added
<1>5. CASE GatheredBefore(e, f)
  <2>1. e \in {y \in kept : GatheredBefore(y, f)} BY <1>5
  <2>2. Added(f, {y \in kept : GatheredBefore(y, f)}) BY <1>1
  <2>3. f.kind = "learn" \/ ~preset[f.kind] BY <2>1, <2>2 DEF Added
  <2>4. gather_ord(e.kind) <= gather_ord(f.kind) BY <1>5, <1>3 DEF GatheredBefore, gather_ord, QueueEntry, QueueKind
  <2>5. e.kind \in QueueKind /\ f.kind \in QueueKind BY <1>3 DEF QueueEntry
  <2> QED BY <2>3, <2>4, <2>5 DEF Graded, gather_ord, QueueKind
<1>6. GatheredBefore(f, e) \/ GatheredBefore(e, f)
  <2>1. \A k, l \in QueueKind : gather_ord(k) < gather_ord(l) \/ gather_ord(l) < gather_ord(k) \/ k = l
    BY DEF gather_ord, QueueKind
  <2>2. e.id < f.id \/ f.id < e.id
    <3>1. e.id \in Nat /\ f.id \in Nat BY <1>3, StudyAssumption DEF QueueEntry
    <3> QED BY <3>1
  <2> QED BY <1>3, <2>1, <2>2 DEF GatheredBefore, QueueEntry
<1> QED BY <1>4, <1>5, <1>6

\* Days and their ends are numbers, and now is before the end of today.
LEMMA NatTime ==
    ASSUME now \in Nat, now >= Epoch
    PROVE  /\ today \in Nat /\ next_day_at \in Nat /\ now < next_day_at
           /\ today = DayOf(now) /\ today * DayLength <= now - Epoch
<1>1. DayLength \in Nat \ {0} BY StudyAssumption
<1>2. now - Epoch \in Nat BY DEF Epoch
<1>3. \A n \in Nat, d \in Nat \ {0} : n \div d \in Nat /\ (n \div d) * d <= n /\ n < ((n \div d) + 1) * d OBVIOUS
<1>4. today \in Nat /\ today * DayLength <= now - Epoch /\ now - Epoch < (today + 1) * DayLength
  BY <1>1, <1>2, <1>3 DEF today
<1>5. (today + 1) * DayLength \in Nat BY <1>1, <1>4
<1> DEFINE x == (today + 1) * DayLength
<1>6. Epoch + x \in Nat /\ now < Epoch + x
  <2> HIDE DEF x
  <2> QED BY <1>5, <1>4 DEF Epoch, x
<1> QED BY <1>4, <1>6 DEF next_day_at, DayOf, today

\* Candidates of one kind, put in order.
LEMMA KindInOrder ==
    ASSUME NEW table \in [Cards -> Card], today \in Int, NEW kind,
           NEW key \in [OfKind(gather_cards(table), kind) -> Nat]
    PROVE  LET S == OfKind(gather_cards(table), kind)
               s == InOrder(S, key)
           IN /\ s \in Seq(QueueEntry) /\ ToSet(s) = S /\ Distinct(s)
              /\ \A i, j \in DOMAIN s : i < j => key[s[i]] <= key[s[j]]
<1> DEFINE kept == gather_cards(table)
           S == OfKind(kept, kind)
           s == InOrder(S, key)
<1>1. kept \subseteq Candidates(table) /\ IsFiniteSet(kept) BY GatherKeeps
<1>2. Candidates(table) \subseteq QueueEntry /\ \A e, f \in Candidates(table) : e.id = f.id => e = f
  BY CandidatesFit
<1>3. S \subseteq kept /\ IsFiniteSet(S) BY <1>1, FS_Subset DEF OfKind
<1>4. key \in [S -> Nat] OBVIOUS
<1> HIDE DEF kept, S
<1>5. /\ Sorted(s, S, key) /\ s \in Seq(S)
      /\ \A i, j \in DOMAIN s : s[i] = s[j] => i = j
  BY <1>3, <1>4, InOrderSorts
<1> HIDE DEF s
<1>6. s \in Seq(QueueEntry)
  <2>1. S \subseteq QueueEntry BY <1>1, <1>2, <1>3
  <2> QED BY <2>1, <1>5
<1>7. DOMAIN s = 1..Len(s) /\ \A x : x \in ToSet(s) <=> \E i \in 1..Len(s) : s[i] = x BY <1>6, ToSetSeq
<1>8. ToSet(s) = S
  <2>1. \A i \in DOMAIN s : s[i] \in S BY <1>5
  <2>2. \A x \in S : \E i \in DOMAIN s : s[i] = x BY <1>5 DEF Sorted
  <2> QED BY <2>1, <2>2, <1>7
<1>9. Distinct(s)
  <2>1. \A i \in DOMAIN s : s[i] \in Candidates(table) BY <1>5, <1>3, <1>1
  <2> QED BY <2>1, <1>2, <1>5 DEF Distinct
<1>10. \A i, j \in DOMAIN s : i < j => key[s[i]] <= key[s[j]] BY <1>5 DEF Sorted
<1> QED BY <1>6, <1>8, <1>9, <1>10 DEF s, S, kept

\* A queue that is built is in order, its counts are right, it is true of the cards, has no more
\* new cards than are left for today, and spares siblings if the preset is graded.
LEMMA BuildFits ==
    ASSUME NEW table \in [Cards -> Card], \A c \in Cards : QueueFitsType(table[c]),
           now \in Nat, now >= Epoch, new_studied(studied, today) \in 0..NewPerDay,
           NEW b \in Nat \ {0}
    PROVE  LET q == build_queues(table, b)
           IN /\ QueueFits(q, now) /\ q.build = b /\ KindsTrue(q, table) /\ Current(q, table)
              /\ CountKind(q.main, "new") <= NewPerDay - new_studied(studied, today)
              /\ preset \in Preset /\ Graded(preset) => SiblingsSpared(q, preset)
<1> DEFINE kept == gather_cards(table)
           Id(kind) == [e \in OfKind(kept, kind) |-> e.id]
           By(kind) == InOrder(OfKind(kept, kind), Id(kind))
           due == [e \in OfKind(kept, "learn") |-> e.due]
           learning == InOrder(OfKind(kept, "learn"), due)
           old == By("review") \o By("daylearn")
           main == merge_new(old, By("new"))
           q == build_queues(table, b)
<1>0. today \in Int BY NatTime
<1>1. kept \subseteq Candidates(table) /\ IsFiniteSet(kept) BY <1>0, GatherKeeps
<1>2. /\ Candidates(table) \subseteq QueueEntry
      /\ \A e \in Candidates(table) : e.id \in Cards /\ Due(table[e.id]) /\ e = Entry(e.id, table[e.id])
      /\ \A e, f \in Candidates(table) : e.id = f.id => e = f
  BY <1>0, CandidatesFit
<1>3. q = [build |-> b, day |-> today, cutoff |-> now,
           new |-> Cardinality(OfKind(kept, "new")), review |-> Cardinality(OfKind(kept, "review")),
           learning |-> CountDue(learning, now + LearnAhead) + Cardinality(OfKind(kept, "daylearn")),
           main |-> main, intraday |-> learning]
  BY DEF build_queues, sort_learning, OfKind
<1>4. \A kind : OfKind(kept, kind) \subseteq kept /\ IsFiniteSet(OfKind(kept, kind))
                /\ Cardinality(OfKind(kept, kind)) \in Nat
  BY <1>1, FS_Subset, FS_CardinalityType DEF OfKind
<1>5. \A e \in kept : e \in QueueEntry /\ e.id \in Nat /\ e.due \in Nat /\ e.kind \in QueueKind
  <2>1. \A e \in kept : e \in QueueEntry BY <1>1, <1>2
  <2>2. \A e \in QueueEntry : e.id \in Cards /\ e.due \in Nat /\ e.kind \in QueueKind BY DEF QueueEntry
  <2> QED BY <2>1, <2>2, StudyAssumption
<1>6. \A kind : Id(kind) \in [OfKind(kept, kind) -> Nat] BY <1>4, <1>5
<1>7. due \in [OfKind(kept, "learn") -> Nat] BY <1>4, <1>5
<1>8. \A kind : By(kind) \in Seq(QueueEntry) /\ ToSet(By(kind)) = OfKind(kept, kind) /\ Distinct(By(kind))
  <2> TAKE kind
  <2> DEFINE key == Id(kind)
  <2>1. key \in [OfKind(kept, kind) -> Nat] BY <1>6
  <2> HIDE DEF key
  <2>2. /\ InOrder(OfKind(kept, kind), key) \in Seq(QueueEntry)
        /\ ToSet(InOrder(OfKind(kept, kind), key)) = OfKind(kept, kind)
        /\ Distinct(InOrder(OfKind(kept, kind), key))
    BY <2>1, <1>0, KindInOrder
  <2> QED BY <2>2 DEF key
<1>9. /\ learning \in Seq(QueueEntry) /\ ToSet(learning) = OfKind(kept, "learn") /\ Distinct(learning)
      /\ \A i, j \in DOMAIN learning : i < j => due[learning[i]] <= due[learning[j]]
  <2> HIDE DEF due
  <2> QED BY <1>7, <1>0, KindInOrder
<1>10. ByDue(learning)
  <2>1. \A i \in DOMAIN learning : learning[i] \in OfKind(kept, "learn")
    <3> HIDE DEF learning
    <3> QED BY <1>9, ToSetSeq
  <2>2. \A i \in DOMAIN learning : due[learning[i]] = learning[i].due BY <2>1
  <2> HIDE DEF learning, due
  <2> QED BY <2>2, <1>9 DEF ByDue
<1>11. \A k, l : k # l => \A x \in OfKind(kept, k), y \in OfKind(kept, l) : x.id # y.id
  BY <1>1, <1>2, <1>4 DEF OfKind
<1> HIDE DEF By, learning, due, kept, Id
<1>12. old \in Seq(QueueEntry) /\ Distinct(old) /\ ToSet(old) = OfKind(kept, "review") \union OfKind(kept, "daylearn")
  <2>1. \A x \in ToSet(By("review")), y \in ToSet(By("daylearn")) : x.id # y.id BY <1>8, <1>11
  <2>2. /\ By("review") \in Seq(QueueEntry) /\ Distinct(By("review"))
        /\ By("daylearn") \in Seq(QueueEntry) /\ Distinct(By("daylearn")) BY <1>8
  <2> QED BY <1>8, <2>1, <2>2, ConcatDistinct
<1> HIDE DEF old
<1>13. /\ main \in Seq(QueueEntry) /\ Distinct(main)
       /\ ToSet(main) = OfKind(kept, "review") \union OfKind(kept, "daylearn") \union OfKind(kept, "new")
  <2>1. \A x \in ToSet(old), y \in ToSet(By("new")) : x.id # y.id 
    <3>1. \A x \in OfKind(kept, "review"), y \in OfKind(kept, "new") : x.id # y.id BY <1>11
    <3>2. \A x \in OfKind(kept, "daylearn"), y \in OfKind(kept, "new") : x.id # y.id BY <1>11
    <3>3. ToSet(By("new")) = OfKind(kept, "new") BY <1>8
    <3> QED BY <3>1, <3>2, <3>3, <1>12
  <2>2. By("new") \in Seq(QueueEntry) /\ Distinct(By("new")) BY <1>8
  <2>3. /\ old \o By("new") \in Seq(QueueEntry) /\ Distinct(old \o By("new"))
        /\ ToSet(old \o By("new")) = ToSet(old) \union ToSet(By("new"))
    BY <1>12, <2>1, <2>2, ConcatDistinct
  <2>4. /\ By("new") \o old \in Seq(QueueEntry) /\ Distinct(By("new") \o old)
        /\ ToSet(By("new") \o old) = ToSet(By("new")) \union ToSet(old)
    BY <1>12, <2>1, <2>2, ConcatDistinct
  <2> QED BY <2>3, <2>4, <1>8, <1>12 DEF merge_new
<1> HIDE DEF main, q
<1>14. \A kind \in {"new", "review", "daylearn"} : CountKind(main, kind) = Cardinality(OfKind(kept, kind))
  <2> TAKE kind \in {"new", "review", "daylearn"}
  <2>1. CountKind(main, kind) = Cardinality(OfKind(ToSet(main), kind)) BY <1>13, CountedKind
  <2>2. OfKind(ToSet(main), kind) = OfKind(kept, kind) BY <1>13 DEF OfKind
  <2> QED BY <2>1, <2>2
<1>15. CountDue(learning, now + LearnAhead) \in Nat BY <1>9, CountedDue
<1>16. q \in CardQueues BY <1>0, <1>3, <1>4, <1>9, <1>13, <1>15 DEF CardQueues
<1>17. EntriesIn(q) \subseteq kept BY <1>3, <1>4, <1>9, <1>13 DEF EntriesIn
<1>18. QueueFits(q, now)
  <2>1. \A e \in ToSet(q.main) : e.kind # "learn" BY <1>3, <1>13 DEF OfKind
  <2>2. \A e \in ToSet(q.intraday) : e.kind = "learn" BY <1>3, <1>9 DEF OfKind
  <2>3. /\ q.new = CountKind(q.main, "new") /\ q.review = CountKind(q.main, "review")
        /\ q.learning = LearningDue(q, q.cutoff)
    BY <1>3, <1>4, <1>14, <1>15 DEF LearningDue
  <2>4. \A e \in ToSet(q.main), f \in ToSet(q.intraday) : e.id # f.id BY <1>3, <1>9, <1>13, <1>11
  <2>5. QueueOrdered(q) BY <1>3, <1>9, <1>10, <1>13, <2>4 DEF QueueOrdered
  <2>6. q.cutoff <= now BY <1>3
  <2> QED BY <1>16, <2>1, <2>2, <2>3, <2>5, <2>6 DEF QueueFits, QueueShape
<1>19. \A e \in kept : e.kind = KindOf(table[e.id]) /\ e.mtime = table[e.id].mtime
  <2> TAKE e \in kept
  <2>1. Due(table[e.id]) /\ e = Entry(e.id, table[e.id]) /\ e.id \in Cards BY <1>1, <1>2
  <2>2. e.kind = table[e.id].queue /\ e.mtime = table[e.id].mtime BY <2>1 DEF Entry
  <2>3. QueueFitsType(table[e.id]) BY <2>1
  <2> QED BY <2>2, <2>3, <1>5 DEF QueueFitsType
<1>20. KindsTrue(q, table) /\ Current(q, table) BY <1>17, <1>19 DEF KindsTrue, Current
<1>21. CountKind(q.main, "new") <= NewPerDay - new_studied(studied, today)
  BY <1>0, <1>3, <1>14, NewKept DEF kept
<1>22. preset \in Preset /\ Graded(preset) => SiblingsSpared(q, preset)
  <2> SUFFICES ASSUME preset \in Preset, Graded(preset), NEW e \in EntriesIn(q), NEW f \in EntriesIn(q),
                      e.id # f.id, NoteOf[e.id] = NoteOf[f.id]
               PROVE  e.kind = "learn" \/ ~preset[e.kind]
    BY DEF SiblingsSpared
  <2>1. e \in gather_cards(table) /\ f \in gather_cards(table) BY <1>17 DEF kept
  <2> QED BY <2>1, <1>0, SiblingsKept
<1>23. q.build = b BY <1>3
<1> QED BY <1>18, <1>20, <1>21, <1>22, <1>23 DEF q

Absent(q, c) == \A e \in EntriesIn(q) : e.id # c

----------------------------------------------------------------------------
(* One entry taken off a queue, put into it, put back.                    *)

\* What a queue in order is made of.
LEMMA ShapeOf ==
    ASSUME NEW q, QueueShape(q)
    PROVE  /\ q # NoQueues /\ q.build \in Nat \ {0} /\ q.cutoff \in Nat /\ q.learning \in Nat
           /\ q.main \in Seq(QueueEntry) /\ q.intraday \in Seq(QueueEntry)
           /\ Distinct(q.main) /\ Distinct(q.intraday) /\ ByDue(q.intraday)
           /\ \A e \in ToSet(q.main) : e \in QueueEntry /\ e.kind # "learn"
           /\ \A e \in ToSet(q.intraday) : e \in QueueEntry /\ e.kind = "learn"
           /\ \A e \in ToSet(q.main), f \in ToSet(q.intraday) : e.id # f.id
           /\ EntriesIn(q) \subseteq QueueEntry
<1>1. q \in CardQueues BY DEF QueueShape
<1>2. /\ q.build \in Nat \ {0} /\ q.cutoff \in Nat /\ q.learning \in Nat
      /\ q.main \in Seq(QueueEntry) /\ q.intraday \in Seq(QueueEntry)
  BY <1>1 DEF CardQueues
<1>3. q # NoQueues BY <1>2 DEF NoQueues
<1>4. ToSet(q.main) \subseteq QueueEntry /\ ToSet(q.intraday) \subseteq QueueEntry BY <1>2, ToSetSeq
<1> QED BY <1>2, <1>3, <1>4 DEF QueueShape, QueueOrdered, EntriesIn

\* What is due in a queue is a number.
LEMMA DueCounted ==
    ASSUME NEW q, QueueShape(q), NEW cutoff
    PROVE  /\ LearningDue(q, cutoff) \in Nat
           /\ CountKind(q.main, "daylearn") \in Nat /\ CountDue(q.intraday, cutoff + LearnAhead) \in Nat
<1>1. CountKind(q.main, "daylearn") \in Nat BY ShapeOf, CountedKind
<1>2. CountDue(q.intraday, cutoff + LearnAhead) \in Nat BY ShapeOf, CountedDue
<1> QED BY <1>1, <1>2 DEF LearningDue

\* The entry in front is the first of the learning cards or the first of the rest.
LEMMA FrontIsTop ==
    ASSUME NEW q, QueueShape(q), ~Finished(q)
    PROVE  /\ front(q) \in EntriesIn(q) /\ IsTop(q, front(q))
           /\ front(q).kind = "learn" => front(q).due <= q.cutoff + LearnAhead
<1> DEFINE s == q.intraday
           due == intraday_now(q)
           ahead == intraday_ahead(q)
<1>1. /\ s \in Seq(QueueEntry) /\ q.main \in Seq(QueueEntry) /\ q.cutoff \in Nat /\ ByDue(s)
      /\ \A e \in ToSet(q.main) : e.kind # "learn" /\ e \in QueueEntry
      /\ \A e \in ToSet(s) : e.kind = "learn" /\ e \in QueueEntry
  BY ShapeOf
<1>2. DOMAIN s = 1..Len(s) /\ Len(s) \in Nat /\ \A i \in DOMAIN s : s[i] \in ToSet(s) /\ s[i].due \in Nat
  <2>1. /\ DOMAIN s = 1..Len(s) /\ Len(s) \in Nat /\ \A x : x \in ToSet(s) <=> \E i \in 1..Len(s) : s[i] = x
    BY <1>1, ToSetSeq
  <2>2. \A i \in DOMAIN s : s[i] \in ToSet(s) BY <2>1
  <2>3. \A i \in DOMAIN s : s[i] \in QueueEntry BY <2>2, <1>1
  <2> QED BY <2>1, <2>2, <2>3 DEF QueueEntry
<1>3. due \subseteq DOMAIN s /\ ahead \subseteq DOMAIN s /\ due \subseteq Nat /\ ahead \subseteq Nat
  BY <1>2 DEF intraday_now, intraday_ahead
<1>4. s # <<>> => Head(s) = s[1] /\ 1 \in DOMAIN s BY <1>1, TailOf
<1>5. \A i \in DOMAIN s : s # <<>> /\ s[1].due <= s[i].due
  <2> TAKE i \in DOMAIN s
  <2>1. s # <<>> BY <1>2
  <2>2. i = 1 \/ 1 < i BY <1>2
  <2> QED BY <2>1, <2>2, <1>1, <1>2, <1>4 DEF ByDue
<1>6. LearnAhead \in Nat BY StudyAssumption
<1> HIDE DEF s
<1>7. CASE due # {}
  <2>1. Min(due) \in due /\ \A m \in due : Min(due) <= m BY <1>3, <1>7, MinExists
  <2>2. 1 \in due
    <3>1. Min(due) \in DOMAIN s /\ s[Min(due)].due <= q.cutoff BY <2>1 DEF intraday_now, s
    <3>2. s[1].due <= q.cutoff /\ 1 \in DOMAIN s BY <3>1, <1>1, <1>2, <1>4, <1>5
    <3> QED BY <3>2 DEF intraday_now, s
  <2>3. Min(due) = 1 BY <2>1, <2>2, <1>2, <1>3
  <2>4. front(q) = s[1] BY <2>3, <1>7 DEF front, s
  <2>5. s[1].due <= q.cutoff + LearnAhead BY <2>2, <1>1, <1>2, <1>3, <1>6 DEF intraday_now, s
  <2> QED BY <2>4, <2>5, <1>1, <1>2, <1>3, <2>2, <1>4, <1>5 DEF IsTop, EntriesIn, s
<1>8. CASE due = {} /\ q.main # <<>>
  <2>1. front(q) = Head(q.main) BY <1>8 DEF front
  <2>2. Head(q.main) \in ToSet(q.main) BY <1>1, <1>8, TailDistinct, ShapeOf
  <2> QED BY <2>1, <2>2, <1>1, <1>8 DEF IsTop, EntriesIn
<1>9. CASE due = {} /\ q.main = <<>>
  <2>0. ahead # {} BY <1>9 DEF Finished
  <2>1. Min(ahead) \in ahead /\ \A m \in ahead : Min(ahead) <= m BY <1>3, <2>0, MinExists
  <2>2. 1 \in ahead
    <3>1. Min(ahead) \in DOMAIN s /\ s[Min(ahead)].due <= q.cutoff + LearnAhead BY <2>1 DEF intraday_ahead, s
    <3>2. s[1].due <= q.cutoff + LearnAhead BY <3>1, <1>1, <1>2, <1>4, <1>5, <1>6
    <3>3. 1 \in DOMAIN s BY <3>1, <1>4, <1>5
    <3>4. s[1].due > q.cutoff BY <3>3, <1>9, <1>1, <1>2 DEF intraday_now, s
    <3> QED BY <3>2, <3>3, <3>4 DEF intraday_ahead, s
  <2>3. Min(ahead) = 1 BY <2>1, <2>2, <1>2, <1>3
  <2>4. front(q) = s[1] BY <2>3, <1>9 DEF front, s
  <2>5. s[1].due <= q.cutoff + LearnAhead BY <2>2 DEF intraday_ahead, s
  <2> QED BY <2>4, <2>5, <1>1, <1>2, <1>3, <2>2, <1>4, <1>5 DEF IsTop, EntriesIn, s
<1> QED BY <1>7, <1>8, <1>9

\* Taking the top entry off leaves the rest in order, and the counts right.
LEMMA PopTop ==
    ASSUME NEW q, QueueShape(q), NEW e, IsTop(q, e)
    PROVE  LET p == pop_entry(q, e.id)
           IN /\ e \in EntriesIn(q) /\ AtTop(q, e.id) /\ TopEntry(q, e.id) = e
              /\ QueueShape(p) /\ p.build = q.build /\ p.cutoff = q.cutoff
              /\ p.main = MainAfter(q, e) /\ p.intraday = IntradayAfter(q, e)
              /\ EntriesIn(p) = EntriesIn(q) \ {e} /\ Absent(p, e.id)
              /\ CountKind(q.main, "new") = CountKind(p.main, "new") + IF e.kind = "new" THEN 1 ELSE 0
              /\ q.learning = LearningDue(q, q.cutoff) /\ (e.kind = "learn" => e.due <= q.cutoff + LearnAhead)
                 => p.learning = LearningDue(p, p.cutoff)
<1> DEFINE p == pop_entry(q, e.id)
           L == q.cutoff + LearnAhead
<1>1. /\ q \in CardQueues /\ q.new = CountKind(q.main, "new") /\ q.review = CountKind(q.main, "review")
      /\ q.main \in Seq(QueueEntry) /\ q.intraday \in Seq(QueueEntry)
      /\ Distinct(q.main) /\ Distinct(q.intraday) /\ ByDue(q.intraday)
      /\ \A x \in ToSet(q.main) : x \in QueueEntry /\ x.kind # "learn"
      /\ \A x \in ToSet(q.intraday) : x \in QueueEntry /\ x.kind = "learn"
      /\ \A x \in ToSet(q.main), y \in ToSet(q.intraday) : x.id # y.id
  BY ShapeOf DEF QueueShape
<1>2. /\ DOMAIN q.intraday = 1..Len(q.intraday) /\ Len(q.intraday) \in Nat
      /\ \A x : x \in ToSet(q.intraday) <=> \E i \in 1..Len(q.intraday) : q.intraday[i] = x
  BY <1>1, ToSetSeq
<1>3. L \in Nat BY <1>1, StudyAssumption DEF CardQueues
<1>4. \A k : CountKind(q.main, k) \in Nat BY <1>1, CountedKind
<1>5. CountDue(q.intraday, L) \in Nat BY <1>1, CountedDue
<1>6. CASE e.kind = "learn"
  <2>1. /\ q.intraday # <<>> /\ e = Head(q.intraday) BY <1>6 DEF IsTop
  <2>2. /\ Head(q.intraday) = q.intraday[1] /\ 1 \in DOMAIN q.intraday /\ Tail(q.intraday) \in Seq(QueueEntry)
    BY <2>1, <1>1, TailOf
  <2>3. /\ Distinct(Tail(q.intraday)) /\ e \in ToSet(q.intraday)
        /\ ToSet(Tail(q.intraday)) = ToSet(q.intraday) \ {e}
        /\ \A x \in ToSet(Tail(q.intraday)) : x.id # e.id
        /\ ByDue(Tail(q.intraday))
    BY <2>1, <1>1, TailDistinct
  <2>4. CountDue(q.intraday, L) = CountDue(Tail(q.intraday), L) + IF e.due <= L THEN 1 ELSE 0
    BY <2>1, <1>1, CountTail
  <2>5. CountDue(Tail(q.intraday), L) \in Nat BY <2>2, <2>3, CountedDue
  <2>6. InIntraday(q, e.id) /\ position(q, e.id) = 1
    <3>1. \E i \in DOMAIN q.intraday : q.intraday[i].id = e.id BY <2>1, <2>2
    <3>2. \A i \in DOMAIN q.intraday : q.intraday[i].id = e.id => i = 1 BY <2>1, <2>2, <1>1 DEF Distinct
    <3> QED BY <3>1, <3>2 DEF InIntraday, position
  <2>7. AtTop(q, e.id) /\ TopEntry(q, e.id) = e BY <2>1, <2>2, <2>6 DEF AtTop, TopEntry
  <2>8. p = [q EXCEPT !.intraday = Tail(q.intraday), !.learning = saturating_less_one(q.learning)]
    BY <2>1, <2>6, <1>1, RemovedFirst DEF pop_entry
  <2>9. q.learning \in Nat /\ saturating_less_one(q.learning) \in Nat BY <1>1 DEF CardQueues, saturating_less_one
  <2>10. /\ p \in CardQueues /\ p.build = q.build /\ p.cutoff = q.cutoff /\ p.main = q.main
         /\ p.intraday = Tail(q.intraday) /\ p.new = q.new /\ p.review = q.review
         /\ p.learning = saturating_less_one(q.learning)
    BY <2>8, <2>9, <2>2, <1>1 DEF CardQueues
  <2> HIDE DEF p
  <2>11. QueueShape(p)
    <3>1. \A x \in ToSet(p.main), y \in ToSet(p.intraday) : x.id # y.id BY <2>10, <2>3, <1>1
    <3>2. QueueOrdered(p) BY <2>3, <2>10, <1>1, <3>1 DEF QueueOrdered
    <3> QED BY <3>2, <2>10, <2>3, <1>1 DEF QueueShape
  <2>12. EntriesIn(p) = EntriesIn(q) \ {e} /\ Absent(p, e.id) /\ e \in EntriesIn(q)
    <3>1. e \notin ToSet(q.main) BY <1>1, <1>6
    <3>2. \A x \in ToSet(q.main) : x.id # e.id BY <1>1, <2>3
    <3> QED BY <3>1, <3>2, <2>10, <2>3 DEF EntriesIn, Absent
  <2>13. q.learning = LearningDue(q, q.cutoff) /\ e.due <= L => p.learning = LearningDue(p, p.cutoff)
    BY <2>4, <2>5, <2>10, <1>4, <1>5 DEF LearningDue, saturating_less_one
  <2> QED BY <1>4, <1>6, <2>7, <2>10, <2>11, <2>12, <2>13 DEF MainAfter, IntradayAfter, p
<1>7. CASE e.kind # "learn"
  <2>1. /\ q.main # <<>> /\ e = Head(q.main) BY <1>7 DEF IsTop
  <2>2. Tail(q.main) \in Seq(QueueEntry) BY <2>1, <1>1, TailOf
  <2>3. /\ Distinct(Tail(q.main)) /\ e \in ToSet(q.main)
        /\ ToSet(Tail(q.main)) = ToSet(q.main) \ {e}
        /\ \A x \in ToSet(Tail(q.main)) : x.id # e.id
    BY <2>1, <1>1, TailDistinct
  <2>4. \A k : CountKind(q.main, k) = CountKind(Tail(q.main), k) + IF e.kind = k THEN 1 ELSE 0
    BY <2>1, <1>1, CountTail
  <2>5. \A k : CountKind(Tail(q.main), k) \in Nat BY <2>2, <2>3, CountedKind
  <2>6. ~InIntraday(q, e.id)
    <3>1. \A x \in ToSet(q.intraday) : e.id # x.id BY <2>3, <1>1
    <3> QED BY <3>1, <1>2 DEF InIntraday
  <2>7. AtTop(q, e.id) /\ TopEntry(q, e.id) = e BY <2>1, <2>6 DEF AtTop, TopEntry
  <2>8. p = [q EXCEPT !.main = Tail(q.main), ![CountField(e.kind)] = saturating_less_one(@)]
    BY <2>1, <2>6 DEF pop_entry
  <2>9. e.kind \in {"new", "review", "daylearn"} BY <2>3, <1>1, <1>7 DEF QueueEntry, QueueKind
  <2>10. /\ p \in CardQueues /\ p.build = q.build /\ p.cutoff = q.cutoff /\ p.main = Tail(q.main)
         /\ p.intraday = q.intraday
         /\ p.new = IF e.kind = "new" THEN saturating_less_one(q.new) ELSE q.new
         /\ p.review = IF e.kind = "review" THEN saturating_less_one(q.review) ELSE q.review
         /\ p.learning = IF e.kind = "daylearn" THEN saturating_less_one(q.learning) ELSE q.learning
    <3>0. /\ q.new \in Nat /\ q.review \in Nat /\ q.learning \in Nat BY <1>1 DEF CardQueues
    <3>1. /\ saturating_less_one(q.new) \in Nat /\ saturating_less_one(q.review) \in Nat
          /\ saturating_less_one(q.learning) \in Nat
      BY <3>0 DEF saturating_less_one
    <3>2. CASE e.kind = "new"
      <4>1. p = [q EXCEPT !.main = Tail(q.main), !.new = saturating_less_one(@)] BY <2>8, <3>2 DEF CountField
      <4> QED BY <4>1, <3>1, <3>2, <2>2, <1>1 DEF CardQueues
    <3>3. CASE e.kind = "review"
      <4>1. p = [q EXCEPT !.main = Tail(q.main), !.review = saturating_less_one(@)] BY <2>8, <3>3 DEF CountField
      <4> QED BY <4>1, <3>1, <3>3, <2>2, <1>1 DEF CardQueues
    <3>4. CASE e.kind = "daylearn"
      <4>1. p = [q EXCEPT !.main = Tail(q.main), !.learning = saturating_less_one(@)] BY <2>8, <3>4 DEF CountField
      <4> QED BY <4>1, <3>1, <3>4, <2>2, <1>1 DEF CardQueues
    <3> QED BY <3>2, <3>3, <3>4, <2>9
  <2> HIDE DEF p
  <2>11. QueueShape(p)
    <3>1. \A x \in ToSet(p.main), y \in ToSet(p.intraday) : x.id # y.id BY <2>10, <2>3, <1>1
    <3>2. QueueOrdered(p) BY <2>3, <2>10, <1>1, <3>1 DEF QueueOrdered
    <3>3. p.new = CountKind(p.main, "new") /\ p.review = CountKind(p.main, "review")
      <4>1. q.new = CountKind(p.main, "new") + IF e.kind = "new" THEN 1 ELSE 0 BY <1>1, <2>4, <2>10
      <4>2. q.review = CountKind(p.main, "review") + IF e.kind = "review" THEN 1 ELSE 0 BY <1>1, <2>4, <2>10
      <4>3. CountKind(p.main, "new") \in Nat /\ CountKind(p.main, "review") \in Nat BY <2>5, <2>10
      <4> QED BY <4>1, <4>2, <4>3, <2>10 DEF saturating_less_one
    <3> QED BY <3>2, <3>3, <2>10, <2>3, <1>1 DEF QueueShape
  <2>12. EntriesIn(p) = EntriesIn(q) \ {e} /\ Absent(p, e.id) /\ e \in EntriesIn(q)
    <3>1. e \notin ToSet(q.intraday) BY <1>1, <1>7
    <3>2. \A x \in ToSet(q.intraday) : x.id # e.id BY <1>1, <2>3
    <3> QED BY <3>1, <3>2, <2>10, <2>3 DEF EntriesIn, Absent
  <2>13. q.learning = LearningDue(q, q.cutoff) => p.learning = LearningDue(p, p.cutoff)
    <3>1. CountKind(q.main, "daylearn") = CountKind(p.main, "daylearn") + IF e.kind = "daylearn" THEN 1 ELSE 0
      BY <2>4, <2>10
    <3>2. CountKind(p.main, "daylearn") \in Nat BY <2>5, <2>10
    <3>3. LearningDue(q, q.cutoff) = CountKind(q.main, "daylearn") + CountDue(q.intraday, L) BY DEF LearningDue
    <3>4. LearningDue(p, p.cutoff) = CountKind(p.main, "daylearn") + CountDue(q.intraday, L) BY <2>10 DEF LearningDue
    <3> QED BY <3>1, <3>2, <3>3, <3>4, <2>10, <1>5 DEF saturating_less_one
  <2>14. CountKind(q.main, "new") = CountKind(p.main, "new") + IF e.kind = "new" THEN 1 ELSE 0 BY <2>4, <2>10
  <2> QED BY <1>7, <2>7, <2>10, <2>11, <2>12, <2>13, <2>14 DEF MainAfter, IntradayAfter, p
<1> QED BY <1>6, <1>7

\* Putting a learning entry in its place keeps the order, and the counts right.
LEMMA PlaceEntry ==
    ASSUME NEW q, QueueShape(q), NEW r,
           r = NoEntry \/ (r \in QueueEntry /\ r.kind = "learn" /\ Absent(q, r.id))
    PROVE  LET p == Requeued(q, r)
           IN /\ QueueShape(p) /\ p.build = q.build /\ p.cutoff = q.cutoff
              /\ p.main = q.main /\ p.intraday = Placed(q.intraday, r)
              /\ EntriesIn(p) = EntriesIn(q) \union (IF r = NoEntry THEN {} ELSE {r})
              /\ q.learning = LearningDue(q, q.cutoff) => p.learning = LearningDue(p, p.cutoff)
<1> DEFINE p == Requeued(q, r)
           L == q.cutoff + LearnAhead
           t == InsertAt(q.intraday, target_idx(q.intraday, r), r)
<1>1. CASE r = NoEntry BY <1>1 DEF Requeued, Placed
<1>2. CASE r # NoEntry
  <2>1. r \in QueueEntry /\ r.kind = "learn" /\ Absent(q, r.id) BY <1>2
  <2>2. /\ q \in CardQueues /\ q.new = CountKind(q.main, "new") /\ q.review = CountKind(q.main, "review")
        /\ q.main \in Seq(QueueEntry) /\ q.intraday \in Seq(QueueEntry)
        /\ Distinct(q.main) /\ Distinct(q.intraday) /\ ByDue(q.intraday)
        /\ \A x \in ToSet(q.main) : x \in QueueEntry /\ x.kind # "learn"
        /\ \A x \in ToSet(q.intraday) : x \in QueueEntry /\ x.kind = "learn"
        /\ \A x \in ToSet(q.main), y \in ToSet(q.intraday) : x.id # y.id
    BY ShapeOf DEF QueueShape
  <2>3. \A x \in ToSet(q.intraday) : x.id # r.id BY <2>1 DEF Absent, EntriesIn
  <2>4. /\ t \in Seq(QueueEntry) /\ Distinct(t) /\ ToSet(t) = ToSet(q.intraday) \union {r} /\ ByDue(t)
        /\ \A until : CountDue(t, until) = CountDue(q.intraday, until) + IF r.due <= until THEN 1 ELSE 0
    BY <2>1, <2>2, <2>3, InsertedEntry
  <2> HIDE DEF t
  <2> DEFINE n == IF r.due <= L THEN q.learning + 1 ELSE q.learning
  <2>5. p = [q EXCEPT !.intraday = t, !.learning = n]
    BY <1>2 DEF Requeued, insert_intraday_learning_card, t
  <2>51. n \in Nat BY <2>2 DEF CardQueues
  <2> HIDE DEF n
  <2>6. /\ p \in CardQueues /\ p.build = q.build /\ p.cutoff = q.cutoff /\ p.main = q.main /\ p.intraday = t
        /\ p.new = q.new /\ p.review = q.review
        /\ p.learning = n
    BY <2>5, <2>51, <2>2, <2>4 DEF CardQueues
  <2> HIDE DEF p
  <2>7. QueueShape(p)
    <3>1. \A x \in ToSet(p.main), y \in ToSet(p.intraday) : x.id # y.id
      <4>1. \A x \in ToSet(q.main) : x.id # r.id BY <2>1 DEF Absent, EntriesIn
      <4> QED BY <4>1, <2>2, <2>4, <2>6
    <3>2. QueueOrdered(p) BY <3>1, <2>2, <2>4, <2>6 DEF QueueOrdered
    <3> QED BY <3>2, <2>1, <2>2, <2>4, <2>6 DEF QueueShape
  <2>8. EntriesIn(p) = EntriesIn(q) \union {r} BY <2>4, <2>6 DEF EntriesIn
  <2>9. q.learning = LearningDue(q, q.cutoff) => p.learning = LearningDue(p, p.cutoff)
    <3>1. /\ CountDue(t, L) = CountDue(q.intraday, L) + IF r.due <= L THEN 1 ELSE 0
          /\ CountDue(q.intraday, L) \in Nat /\ CountKind(q.main, "daylearn") \in Nat
      BY <2>4, DueCounted
    <3> QED BY <3>1, <2>6 DEF LearningDue, n
  <2>10. p.intraday = Placed(q.intraday, r) BY <2>6, <1>2 DEF Placed, t
  <2> QED BY <1>2, <2>6, <2>7, <2>8, <2>9, <2>10 DEF p
<1> QED BY <1>1, <1>2

\* The counts follow when the cutoff moves on.
LEMMA UpdateCutoff ==
    ASSUME NEW q, NEW t, QueueFits(q, t), t <= now, t \in Nat, now \in Nat
    PROVE  LET p == update_learning_cutoff_and_count(q)
           IN QueueFits(p, now) /\ SameQueue(p, q) /\ p.build = q.build
<1> DEFINE p == update_learning_cutoff_and_count(q)
           late == Cardinality({i \in DOMAIN q.intraday : q.intraday[i].due > q.cutoff + LearnAhead
                                                          /\ q.intraday[i].due <= now + LearnAhead})
<1>1. /\ QueueShape(q) /\ q.learning = LearningDue(q, q.cutoff) /\ q.cutoff <= t BY DEF QueueFits
<1>2. q \in CardQueues BY <1>1 DEF QueueShape
<1>3. /\ q.intraday \in Seq(QueueEntry) /\ Distinct(q.intraday) /\ q.cutoff \in Nat /\ q.learning \in Nat
      /\ q # NoQueues
  BY <1>1, ShapeOf
<1>4. q.cutoff + LearnAhead \in Int /\ now + LearnAhead \in Int /\ q.cutoff + LearnAhead <= now + LearnAhead
  BY <1>1, <1>3, StudyAssumption
<1>5. late \in Nat /\ CountDue(q.intraday, now + LearnAhead) = CountDue(q.intraday, q.cutoff + LearnAhead) + late
  BY <1>3, <1>4, CountedBetween
<1> HIDE DEF late
<1> DEFINE n == q.learning + late
<1>6. p = [q EXCEPT !.cutoff = now, !.learning = n]
  BY DEF update_learning_cutoff_and_count, late
<1>61. n \in Nat BY <1>3, <1>5
<1> HIDE DEF n
<1>7. /\ p \in CardQueues /\ p.cutoff = now /\ p.learning = n /\ p.main = q.main
      /\ p.intraday = q.intraday /\ p.build = q.build /\ p.new = q.new /\ p.review = q.review
  BY <1>2, <1>6, <1>61 DEF CardQueues
<1> HIDE DEF p
<1>8. QueueShape(p) BY <1>1, <1>7 DEF QueueShape, QueueOrdered
<1>9. p.learning = LearningDue(p, p.cutoff)
  <2>1. /\ CountDue(q.intraday, q.cutoff + LearnAhead) \in Nat /\ CountKind(q.main, "daylearn") \in Nat
    BY <1>1, DueCounted
  <2> QED BY <2>1, <1>1, <1>5, <1>7 DEF LearningDue, n
<1>10. p # NoQueues BY <1>8, ShapeOf
<1> QED BY <1>3, <1>7, <1>8, <1>9, <1>10 DEF QueueFits, SameQueue, p

\* Restoring the cutoff and the count changes nothing else.
LEMMA RestoreCutoff ==
    ASSUME NEW q, QueueShape(q), NEW u, u.learning \in Nat, u.cutoff \in Nat
    PROVE  LET p == restore_cutoff(q, u)
           IN /\ QueueShape(p) /\ SameQueue(p, q) /\ p.main = q.main /\ p.intraday = q.intraday
              /\ p.build = q.build /\ p.learning = u.learning /\ p.cutoff = u.cutoff
<1> DEFINE p == restore_cutoff(q, u)
<1>1. q \in CardQueues BY DEF QueueShape
<1>2. p = [q EXCEPT !.learning = u.learning, !.cutoff = u.cutoff] BY DEF restore_cutoff
<1>3. /\ p \in CardQueues /\ p.cutoff = u.cutoff /\ p.learning = u.learning /\ p.main = q.main
      /\ p.intraday = q.intraday /\ p.build = q.build /\ p.new = q.new /\ p.review = q.review
  BY <1>1, <1>2 DEF CardQueues
<1> HIDE DEF p
<1>4. QueueShape(p) BY <1>3 DEF QueueShape, QueueOrdered
<1>5. p # NoQueues /\ q # NoQueues BY <1>4, ShapeOf
<1> QED BY <1>3, <1>4, <1>5 DEF SameQueue, p

\* Taking a requeued entry out again gives the learning cards there were before it.
LEMMA UnplaceEntry ==
    ASSUME NEW q, QueueShape(q), NEW s \in Seq(QueueEntry), Distinct(s), ByDue(s),
           NEW r \in QueueEntry, \A x \in ToSet(s) : x.id # r.id,
           q.intraday = InsertAt(s, target_idx(s, r), r)
    PROVE  LET p == remove_intraday_learning_card(q, r.id)
           IN /\ QueueShape(p) /\ p.build = q.build /\ p.cutoff = q.cutoff
              /\ p.main = q.main /\ p.intraday = s
              /\ q.learning = LearningDue(q, q.cutoff) => p.learning = LearningDue(p, p.cutoff)
<1> DEFINE p == remove_intraday_learning_card(q, r.id)
           L == q.cutoff + LearnAhead
           k == target_idx(s, r)
           t == InsertAt(s, k, r)
<1>1. /\ t \in Seq(QueueEntry) /\ Distinct(t) /\ ToSet(t) = ToSet(s) \union {r}
      /\ \A until : CountDue(t, until) = CountDue(s, until) + IF r.due <= until THEN 1 ELSE 0
      /\ k \in DOMAIN t /\ t[k] = r /\ \A i \in DOMAIN t : t[i].id = r.id => i = k
      /\ RemoveAt(t, k) = s
  BY InsertedEntry
<1>2. q.intraday = t OBVIOUS
<1> HIDE DEF t, k
<1>3. InIntraday(q, r.id) /\ position(q, r.id) = k BY <1>1, <1>2 DEF InIntraday, position
<1>4. TopEntry(q, r.id) = r BY <1>1, <1>2, <1>3 DEF TopEntry
<1>5. p = [q EXCEPT !.intraday = s, !.learning = IF r.due <= L THEN saturating_less_one(q.learning) ELSE q.learning]
  BY <1>1, <1>2, <1>3, <1>4 DEF remove_intraday_learning_card
<1>6. q \in CardQueues BY DEF QueueShape
<1>7. q.learning \in Nat /\ saturating_less_one(q.learning) \in Nat BY <1>6 DEF CardQueues, saturating_less_one
<1>8. /\ p \in CardQueues /\ p.build = q.build /\ p.cutoff = q.cutoff /\ p.main = q.main /\ p.intraday = s
      /\ p.new = q.new /\ p.review = q.review
      /\ p.learning = IF r.due <= L THEN saturating_less_one(q.learning) ELSE q.learning
  BY <1>5, <1>6, <1>7 DEF CardQueues
<1> HIDE DEF p
<1>9. QueueShape(p)
  <2>1. ToSet(s) \subseteq ToSet(q.intraday) BY <1>1, <1>2
  <2>2. QueueOrdered(p) BY <2>1, <1>8, ShapeOf DEF QueueOrdered
  <2> QED BY <2>1, <2>2, <1>8, ShapeOf DEF QueueShape
<1>10. q.learning = LearningDue(q, q.cutoff) => p.learning = LearningDue(p, p.cutoff)
  <2>1. /\ CountDue(t, L) = CountDue(s, L) + IF r.due <= L THEN 1 ELSE 0
        /\ CountDue(s, L) \in Nat /\ CountKind(q.main, "daylearn") \in Nat
    BY <1>1, CountedDue, DueCounted
  <2> QED BY <2>1, <1>2, <1>8 DEF LearningDue, saturating_less_one
<1> QED BY <1>8, <1>9, <1>10 DEF p

\* Putting the top entry back gives the queue it was taken from.
LEMMA PushEntry ==
    ASSUME NEW pre, QueueShape(pre), NEW e, IsTop(pre, e), NEW q, QueueShape(q),
           q.main = MainAfter(pre, e), q.intraday = IntradayAfter(pre, e), q.build = pre.build,
           q.learning = LearningDue(q, q.cutoff), e.kind = "learn" => e.due <= q.cutoff + LearnAhead
    PROVE  LET p == push_undo_entry(q, e)
           IN /\ QueueShape(p) /\ SameQueue(p, pre) /\ p.cutoff = q.cutoff
              /\ p.learning = LearningDue(p, p.cutoff)
<1> DEFINE p == push_undo_entry(q, e)
           L == q.cutoff + LearnAhead
<1>1. /\ pre.main \in Seq(QueueEntry) /\ pre.intraday \in Seq(QueueEntry) /\ pre # NoQueues
      /\ Distinct(pre.main) /\ Distinct(pre.intraday)
      /\ \A x \in ToSet(pre.main) : x \in QueueEntry /\ x.kind # "learn"
      /\ \A x \in ToSet(pre.intraday) : x \in QueueEntry /\ x.kind = "learn"
  BY ShapeOf
<1>2. q \in CardQueues /\ q.new = CountKind(q.main, "new") /\ q.review = CountKind(q.main, "review")
  BY DEF QueueShape
<1>3. /\ \A k : CountKind(q.main, k) \in Nat /\ CountDue(q.intraday, L) \in Nat
  <2>1. q.main \in Seq(QueueEntry) /\ Distinct(q.main) BY ShapeOf
  <2>2. \A k : CountKind(q.main, k) \in Nat BY <2>1, CountedKind
  <2>3. CountDue(q.intraday, L) \in Nat BY DueCounted
  <2> QED BY <2>2, <2>3
<1>4. /\ q.new \in Nat /\ q.review \in Nat /\ q.learning \in Nat BY <1>2 DEF CardQueues
<1>5. CASE e.kind = "learn"
  <2>1. pre.intraday # <<>> /\ e = Head(pre.intraday) /\ q.main = pre.main /\ q.intraday = Tail(pre.intraday)
    BY <1>5 DEF IsTop, MainAfter, IntradayAfter
  <2>2. <<e>> \o q.intraday = pre.intraday BY <2>1, <1>1, TailOf
  <2>3. CountDue(pre.intraday, L) = CountDue(q.intraday, L) + 1 BY <2>1, <1>1, <1>5, CountTail
  <2> DEFINE n == q.learning + 1
  <2>31. n \in Nat BY <1>4
  <2>4. p = [q EXCEPT !.intraday = pre.intraday, !.learning = n]
    BY <2>2, <1>2, <1>5 DEF push_undo_entry, CountField, CardQueues
  <2> HIDE DEF n
  <2>5. /\ p \in CardQueues /\ p.build = q.build /\ p.cutoff = q.cutoff /\ p.main = pre.main
        /\ p.intraday = pre.intraday /\ p.new = q.new /\ p.review = q.review /\ p.learning = n
    BY <2>4, <2>31, <2>1, <1>1, <1>2 DEF CardQueues
  <2> HIDE DEF p
  <2>6. QueueShape(p) BY <2>1, <2>5, <1>2 DEF QueueShape, QueueOrdered
  <2>7. p.learning = LearningDue(p, p.cutoff) BY <2>1, <2>3, <2>5, <1>3 DEF LearningDue, n
  <2>8. p # NoQueues BY <2>6, ShapeOf
  <2> QED BY <2>5, <2>6, <2>7, <2>8, <1>1 DEF SameQueue, p
<1>6. CASE e.kind # "learn"
  <2>1. pre.main # <<>> /\ e = Head(pre.main) /\ q.main = Tail(pre.main) /\ q.intraday = pre.intraday
    BY <1>6 DEF IsTop, MainAfter, IntradayAfter
  <2>2. <<e>> \o q.main = pre.main /\ e \in ToSet(pre.main) BY <2>1, <1>1, TailOf, TailDistinct
  <2>3. \A k : CountKind(pre.main, k) = CountKind(q.main, k) + IF e.kind = k THEN 1 ELSE 0 BY <2>1, <1>1, CountTail
  <2>4. p = [[q EXCEPT ![CountField(e.kind)] = @ + 1] EXCEPT !.main = <<e>> \o @]
    BY <1>6 DEF push_undo_entry
  <2>5. e.kind \in {"new", "review", "daylearn"} BY <2>2, <1>1, <1>6 DEF QueueEntry, QueueKind
  <2>6. /\ p \in CardQueues /\ p.build = q.build /\ p.cutoff = q.cutoff /\ p.main = pre.main
        /\ p.intraday = pre.intraday
        /\ p.new = q.new + IF e.kind = "new" THEN 1 ELSE 0
        /\ p.review = q.review + IF e.kind = "review" THEN 1 ELSE 0
        /\ p.learning = q.learning + IF e.kind = "daylearn" THEN 1 ELSE 0
    <3>1. CASE e.kind = "new"
      <4> DEFINE n == q.new + 1
      <4>0. n \in Nat BY <1>4
      <4>1. p = [q EXCEPT !.main = pre.main, !.new = n]
        BY <2>4, <2>2, <3>1, <1>2 DEF CountField, CardQueues
      <4> HIDE DEF n
      <4>2. /\ p \in CardQueues /\ p.build = q.build /\ p.cutoff = q.cutoff /\ p.main = pre.main
            /\ p.intraday = q.intraday /\ p.new = n /\ p.review = q.review /\ p.learning = q.learning
        BY <4>0, <4>1, <1>1, <1>2 DEF CardQueues
      <4> QED BY <4>2, <3>1, <2>1, <1>4 DEF n
    <3>2. CASE e.kind = "review"
      <4> DEFINE n == q.review + 1
      <4>0. n \in Nat BY <1>4
      <4>1. p = [q EXCEPT !.main = pre.main, !.review = n]
        BY <2>4, <2>2, <3>2, <1>2 DEF CountField, CardQueues
      <4> HIDE DEF n
      <4>2. /\ p \in CardQueues /\ p.build = q.build /\ p.cutoff = q.cutoff /\ p.main = pre.main
            /\ p.intraday = q.intraday /\ p.review = n /\ p.new = q.new /\ p.learning = q.learning
        BY <4>0, <4>1, <1>1, <1>2 DEF CardQueues
      <4> QED BY <4>2, <3>2, <2>1, <1>4 DEF n
    <3>3. CASE e.kind = "daylearn"
      <4> DEFINE n == q.learning + 1
      <4>0. n \in Nat BY <1>4
      <4>1. p = [q EXCEPT !.main = pre.main, !.learning = n]
        BY <2>4, <2>2, <3>3, <1>2 DEF CountField, CardQueues
      <4> HIDE DEF n
      <4>2. /\ p \in CardQueues /\ p.build = q.build /\ p.cutoff = q.cutoff /\ p.main = pre.main
            /\ p.intraday = q.intraday /\ p.learning = n /\ p.new = q.new /\ p.review = q.review
        BY <4>0, <4>1, <1>1, <1>2 DEF CardQueues
      <4> QED BY <4>2, <3>3, <2>1, <1>4 DEF n
    <3> QED BY <3>1, <3>2, <3>3, <2>5
  <2> HIDE DEF p
  <2>7. QueueShape(p)
    <3>1. p.new = CountKind(p.main, "new") /\ p.review = CountKind(p.main, "review") BY <2>3, <2>6, <1>2
    <3>2. QueueOrdered(p) BY <2>6 DEF QueueShape, QueueOrdered
    <3> QED BY <3>1, <3>2, <2>6 DEF QueueShape
  <2>8. p.learning = LearningDue(p, p.cutoff)
    <3>1. CountKind(pre.main, "daylearn") = CountKind(q.main, "daylearn") + IF e.kind = "daylearn" THEN 1 ELSE 0
      BY <2>3
    <3> QED BY <3>1, <2>1, <2>6, <1>3 DEF LearningDue
  <2>9. p # NoQueues BY <2>7, ShapeOf
  <2> QED BY <2>6, <2>7, <2>8, <2>9, <1>1 DEF SameQueue, p
<1> QED BY <1>5, <1>6

\* The entry that is put back after an answer is that of the card as it is then.
LEMMA RequeuedEntry ==
    ASSUME NEW q, QueueShape(q), NEW c \in Cards, NEW r \in Card
    PROVE  LET e == learning_requeue(q, c, r)
           IN \/ e = NoEntry
              \/ r.queue = "learn" /\ e \in QueueEntry /\ e.kind = "learn" /\ e.id = c /\ e.mtime = r.mtime
<1> DEFINE f == Entry(c, r)
           e == requeue_learning_entry(q, f)
<1>1. SUFFICES ASSUME r.queue = "learn" PROVE e \in QueueEntry /\ e.kind = "learn" /\ e.id = c /\ e.mtime = r.mtime
  BY DEF learning_requeue
<1>2. f \in QueueEntry /\ f.kind = "learn" /\ f.id = c /\ f.mtime = r.mtime
  BY <1>1 DEF Entry, QueueEntry, QueueKind, Card
<1> HIDE DEF f
<1>3. q.intraday # <<>> => Head(q.intraday).due \in Nat
  <2>1. q.intraday \in Seq(QueueEntry) BY ShapeOf
  <2>2. q.intraday # <<>> => Head(q.intraday) \in QueueEntry BY <2>1, TailOf
  <2> QED BY <2>2 DEF QueueEntry
<1>4. \A d \in Nat : /\ [f EXCEPT !.due = d] \in QueueEntry /\ [f EXCEPT !.due = d].kind = "learn"
                     /\ [f EXCEPT !.due = d].id = c /\ [f EXCEPT !.due = d].mtime = r.mtime
  BY <1>2 DEF QueueEntry
<1>5. e = f \/ (q.intraday # <<>> /\ e = [f EXCEPT !.due = Head(q.intraday).due + 1]) BY DEF requeue_learning_entry
<1> HIDE DEF e
<1>6. CASE e = f BY <1>6, <1>2
<1>7. CASE q.intraday # <<>> /\ e = [f EXCEPT !.due = Head(q.intraday).due + 1]
  <2>1. Head(q.intraday).due + 1 \in Nat BY <1>3, <1>7
  <2> QED BY <2>1, <1>4, <1>7
<1> QED BY <1>5, <1>6, <1>7

\* Answering the card in front changes the queue as its update says.
LEMMA AnswerQueue ==
    ASSUME now \in Nat, QueueFits(queues, now), ~Finished(queues), NEW r,
           r = NoEntry \/ (r \in QueueEntry /\ r.kind = "learn" /\ r.id = front(queues).id)
    PROVE  LET e == front(queues)
               placed == Requeued(pop_entry(queues, e.id), r)
               u == [build |-> queues.build, entry |-> TopEntry(queues, e.id), requeue |-> r,
                     learning |-> placed.learning, cutoff |-> placed.cutoff]
               post == update_learning_cutoff_and_count(placed)
           IN /\ e \in EntriesIn(queues) /\ e \in QueueEntry /\ u.entry = e
              /\ QueueShape(pop_entry(queues, e.id))
              /\ QueueFits(post, now) /\ UpdateFits(u) /\ Moved(queues, u, post, now)
              /\ EntriesIn(post) = (EntriesIn(queues) \ {e}) \union (IF r = NoEntry THEN {} ELSE {r})
              /\ \A x \in EntriesIn(queues) \ {e} : x.id # e.id
              /\ CountKind(queues.main, "new") = CountKind(post.main, "new") + IF e.kind = "new" THEN 1 ELSE 0
<1> DEFINE e == front(queues)
           popped == pop_entry(queues, e.id)
           placed == Requeued(popped, r)
           u == [build |-> queues.build, entry |-> TopEntry(queues, e.id), requeue |-> r,
                 learning |-> placed.learning, cutoff |-> placed.cutoff]
           post == update_learning_cutoff_and_count(placed)
<1>1. QueueShape(queues) /\ queues.learning = LearningDue(queues, queues.cutoff) /\ queues.cutoff <= now
  BY DEF QueueFits
<1>2. e \in EntriesIn(queues) /\ IsTop(queues, e) /\ (e.kind = "learn" => e.due <= queues.cutoff + LearnAhead)
  BY <1>1, FrontIsTop
<1>3. e \in QueueEntry BY <1>1, <1>2, ShapeOf
<1> HIDE DEF e
<1>4. /\ AtTop(queues, e.id) /\ TopEntry(queues, e.id) = e
      /\ QueueShape(popped) /\ popped.build = queues.build /\ popped.cutoff = queues.cutoff
      /\ popped.main = MainAfter(queues, e) /\ popped.intraday = IntradayAfter(queues, e)
      /\ EntriesIn(popped) = EntriesIn(queues) \ {e} /\ Absent(popped, e.id)
      /\ CountKind(queues.main, "new") = CountKind(popped.main, "new") + IF e.kind = "new" THEN 1 ELSE 0
      /\ popped.learning = LearningDue(popped, popped.cutoff)
  BY <1>1, <1>2, PopTop
<1> HIDE DEF popped
<1>5. r = NoEntry \/ (r \in QueueEntry /\ r.kind = "learn" /\ Absent(popped, r.id)) BY <1>4 DEF e
<1>6. /\ QueueShape(placed) /\ placed.build = popped.build /\ placed.cutoff = popped.cutoff
      /\ placed.main = popped.main /\ placed.intraday = Placed(popped.intraday, r)
      /\ EntriesIn(placed) = EntriesIn(popped) \union (IF r = NoEntry THEN {} ELSE {r})
      /\ placed.learning = LearningDue(placed, placed.cutoff)
  BY <1>4, <1>5, PlaceEntry
<1> HIDE DEF placed
<1>7. QueueFits(placed, now) BY <1>1, <1>4, <1>6 DEF QueueFits
<1>8. QueueFits(post, now) /\ SameQueue(post, placed) /\ post.build = placed.build
  BY <1>7, UpdateCutoff
<1> HIDE DEF post
<1>9. /\ queues # NoQueues /\ post # NoQueues /\ queues.build \in Nat \ {0}
      /\ placed.learning \in Nat /\ placed.cutoff \in Nat
  BY <1>1, <1>6, <1>8, ShapeOf DEF SameQueue
<1>10. UpdateFits(u) BY <1>3, <1>4, <1>9 DEF UpdateFits, e
<1>11. Moved(queues, u, post, now)
  <2>1. u.learning = LearningDue(post, u.cutoff) BY <1>6, <1>8 DEF LearningDue, SameQueue
  <2>2. u.cutoff <= now /\ u.cutoff = queues.cutoff BY <1>1, <1>4, <1>6
  <2>3. u.build = queues.build /\ u.entry = e /\ u.requeue = r BY <1>4
  <2>4. /\ post.main = MainAfter(queues, e) /\ post.intraday = Placed(IntradayAfter(queues, e), r)
        /\ post.build = queues.build
    BY <1>4, <1>6, <1>8 DEF SameQueue
  <2> HIDE DEF u
  <2> QED BY <2>1, <2>2, <2>3, <2>4, <1>2, <1>9 DEF Moved
<1>12. EntriesIn(post) = EntriesIn(placed) BY <1>8 DEF EntriesIn, SameQueue
<1>13. post.main = popped.main BY <1>6, <1>8 DEF SameQueue
<1>14. \A x \in EntriesIn(queues) \ {e} : x.id # e.id BY <1>4 DEF Absent
<1>15. u.entry = e BY <1>4
<1> QED BY <1>2, <1>3, <1>4, <1>6, <1>8, <1>10, <1>11, <1>12, <1>13, <1>14, <1>15 DEF e, popped, placed, post

\* Undoing it brings back the queue that was there before.
LEMMA UndoQueue ==
    ASSUME NEW pre, QueueShape(pre), QueueShape(queues), NEW u, UpdateFits(u), NEW t,
           Moved(pre, u, queues, t)
    PROVE  LET p == undo_queue_change(u) IN QueueFits(p, t) /\ SameQueue(p, pre)
<1> DEFINE e == u.entry
           s == IntradayAfter(pre, e)
           q == restore_cutoff(queues, u)
           r == IF u.requeue = NoEntry THEN q ELSE remove_intraday_learning_card(q, u.requeue.id)
           p == undo_queue_change(u)
<1>1. /\ queues # NoQueues /\ pre.build = u.build /\ queues.build = u.build
      /\ IsTop(pre, e) /\ (e.kind = "learn" => e.due <= u.cutoff + LearnAhead)
      /\ queues.main = MainAfter(pre, e) /\ queues.intraday = Placed(s, u.requeue)
      /\ u.learning = LearningDue(queues, u.cutoff) /\ u.cutoff <= t
  BY DEF Moved
<1>2. p = push_undo_entry(r, e) BY <1>1 DEF undo_queue_change, SameBuild
<1>3. u.learning \in Nat /\ u.cutoff \in Nat BY DEF UpdateFits
<1>4. /\ QueueShape(q) /\ q.main = queues.main /\ q.intraday = queues.intraday
      /\ q.build = queues.build /\ q.learning = u.learning /\ q.cutoff = u.cutoff
  BY <1>3, RestoreCutoff
<1> DEFINE popped == pop_entry(pre, e.id)
<1>5. QueueShape(popped) /\ popped.intraday = s /\ Absent(popped, e.id) BY <1>1, PopTop
<1>6. /\ s \in Seq(QueueEntry) /\ Distinct(s) /\ ByDue(s) BY <1>5, ShapeOf
<1>7. \A x \in ToSet(s) : x.id # e.id BY <1>5 DEF Absent, EntriesIn
<1>8. q.learning = LearningDue(q, q.cutoff) BY <1>1, <1>4 DEF LearningDue
<1> HIDE DEF q, s, p, popped
<1>9. /\ QueueShape(r) /\ r.build = q.build /\ r.cutoff = q.cutoff /\ r.main = q.main /\ r.intraday = s
      /\ r.learning = LearningDue(r, r.cutoff)
  <2>1. CASE u.requeue = NoEntry BY <2>1, <1>1, <1>4, <1>8 DEF Placed
  <2>2. CASE u.requeue # NoEntry
    <3>1. u.requeue \in QueueEntry /\ u.requeue.id = e.id BY <2>2 DEF UpdateFits
    <3>2. q.intraday = InsertAt(s, target_idx(s, u.requeue), u.requeue) BY <2>2, <1>1, <1>4 DEF Placed
    <3>3. \A x \in ToSet(s) : x.id # u.requeue.id BY <3>1, <1>7
    <3>4. r = remove_intraday_learning_card(q, u.requeue.id) BY <2>2
    <3> DEFINE x == u.requeue
               y == remove_intraday_learning_card(q, x.id)
    <3>5. x \in QueueEntry /\ (\A z \in ToSet(s) : z.id # x.id) /\ q.intraday = InsertAt(s, target_idx(s, x), x)
      BY <3>1, <3>2, <3>3
    <3> HIDE DEF x
    <3>6. /\ QueueShape(y) /\ y.build = q.build /\ y.cutoff = q.cutoff /\ y.main = q.main /\ y.intraday = s
          /\ y.learning = LearningDue(y, y.cutoff)
      BY <3>5, <1>4, <1>6, <1>8, UnplaceEntry
    <3> QED BY <3>4, <3>6 DEF x
  <2> QED BY <2>1, <2>2
<1> HIDE DEF r
<1>10. /\ r.main = MainAfter(pre, e) /\ r.intraday = IntradayAfter(pre, e) /\ r.build = pre.build
       /\ (e.kind = "learn" => e.due <= r.cutoff + LearnAhead) /\ r.cutoff = u.cutoff
  BY <1>1, <1>4, <1>9 DEF s
<1>11. QueueShape(p) /\ SameQueue(p, pre) /\ p.cutoff = r.cutoff /\ p.learning = LearningDue(p, p.cutoff)
  BY <1>1, <1>2, <1>9, <1>10, PushEntry
<1> QED BY <1>1, <1>10, <1>11 DEF QueueFits, p

\* Redoing it gives the queue that was there after it.
LEMMA RedoQueue ==
    ASSUME NEW post, QueueShape(queues), NEW u, UpdateFits(u), NEW t, Moved(queues, u, post, t)
    PROVE  LET p == redo_queue_change(u) IN QueueFits(p, t) /\ SameQueue(p, post)
<1> DEFINE e == u.entry
           popped == pop_entry(queues, e.id)
           placed == Requeued(popped, u.requeue)
           p == redo_queue_change(u)
<1>1. /\ queues # NoQueues /\ post # NoQueues /\ post.build = u.build /\ queues.build = u.build
      /\ IsTop(queues, e)
      /\ post.main = MainAfter(queues, e) /\ post.intraday = Placed(IntradayAfter(queues, e), u.requeue)
      /\ u.learning = LearningDue(post, u.cutoff) /\ u.cutoff <= t
  BY DEF Moved
<1>2. p = restore_cutoff(placed, u) BY <1>1 DEF redo_queue_change, SameBuild
<1>3. u.learning \in Nat /\ u.cutoff \in Nat BY DEF UpdateFits
<1>4. /\ QueueShape(popped) /\ popped.build = queues.build
      /\ popped.main = MainAfter(queues, e) /\ popped.intraday = IntradayAfter(queues, e) /\ Absent(popped, e.id)
  BY <1>1, PopTop
<1> HIDE DEF popped
<1>5. u.requeue = NoEntry \/ (u.requeue \in QueueEntry /\ u.requeue.kind = "learn" /\ Absent(popped, u.requeue.id))
  BY <1>4 DEF UpdateFits
<1>6. /\ QueueShape(placed) /\ placed.build = popped.build
      /\ placed.main = popped.main /\ placed.intraday = Placed(popped.intraday, u.requeue)
  BY <1>4, <1>5, PlaceEntry
<1> HIDE DEF placed, p
<1>7. /\ QueueShape(p) /\ p.main = placed.main /\ p.intraday = placed.intraday
      /\ p.build = placed.build /\ p.learning = u.learning /\ p.cutoff = u.cutoff
  BY <1>2, <1>3, <1>6, RestoreCutoff
<1>8. p.learning = LearningDue(p, p.cutoff) BY <1>1, <1>4, <1>6, <1>7 DEF LearningDue
<1>9. p # NoQueues BY <1>7, ShapeOf
<1> QED BY <1>1, <1>4, <1>6, <1>7, <1>8, <1>9 DEF QueueFits, SameQueue, p

----------------------------------------------------------------------------
(* Moments, and the stacks of steps that lead to them.                    *)

\* Unburying changes nothing but the queue, and makes it fit the type.
LEMMA UnburiedFits ==
    ASSUME NEW old \in Card, NEW r, Unburied(r, old)
    PROVE  r \in Card /\ SameStudy(r, old) /\ (QueueFitsType(old) => QueueFitsType(r))
<1> DEFINE s == restore_queue_from_type(old)
           k == CASE old.type \in {"learn", "relearn"} ->
                        IF is_unix_epoch_timestamp(old.due) THEN "learn" ELSE "daylearn"
                  [] old.type = "new" -> "new"
                  [] OTHER -> "review"
<1>1. k \in QueueKind BY DEF QueueKind
<1>2. s = [old EXCEPT !.queue = k] BY DEF restore_queue_from_type
<1>3. \A x \in QueueKind : LET y == [old EXCEPT !.queue = x]
                           IN y \in Card /\ y.queue = x /\ SameStudy(y, old) /\ y.type = old.type /\ y.due = old.due
  BY DEF Card, CardQueue, QueueKind, SameStudy
<1>4. \A x : x \in Card /\ x.type = old.type /\ x.due = old.due => KindOf(x) = k
  BY DEF KindOf, restore_queue_from_type, Card
<1> HIDE DEF k, s
<1>5. s \in Card /\ SameStudy(s, old) /\ QueueFitsType(s) BY <1>1, <1>2, <1>3, <1>4 DEF QueueFitsType
<1>6. SameStudy(old, old) BY DEF SameStudy
<1> QED BY <1>5, <1>6 DEF Unburied, s

\* Unburying a card twice is unburying it once.
LEMMA UnburiedTwice ==
    ASSUME NEW old \in Card, NEW s, NEW r, Unburied(s, old), Unburied(r, s)
    PROVE  Unburied(r, old)
<1> DEFINE k == CASE old.type \in {"learn", "relearn"} ->
                        IF is_unix_epoch_timestamp(old.due) THEN "learn" ELSE "daylearn"
                  [] old.type = "new" -> "new"
                  [] OTHER -> "review"
<1>1. k \notin Buried BY DEF Buried
<1>2. restore_queue_from_type(old) = [old EXCEPT !.queue = k] BY DEF restore_queue_from_type
<1>3. [old EXCEPT !.queue = k].queue = k BY DEF Card
<1> HIDE DEF k
<1> QED BY <1>1, <1>2, <1>3 DEF Unburied

\* Cards of one type and due go to one kind of queue.
LEMMA KindStays ==
    ASSUME NEW r \in Card, NEW old \in Card, r.type = old.type, r.due = old.due
    PROVE  KindOf(r) = KindOf(old)
BY DEF KindOf, restore_queue_from_type, Card

\* The fields of a card.
LEMMA CardFields ==
    ASSUME NEW r \in Card
    PROVE  r.mtime \in Nat /\ r.due \in Nat /\ r.introduced \in Int /\ r.queue \in CardQueue /\ r.type \in CardType
BY DEF Card

\* A moment whose cards differ in queue or flag only, with the same queue or none.
LEMMA MomentKept ==
    ASSUME NEW m, NEW p, NEW t, Moment(m, p, t), NEW n \in Moments,
           \A c \in Cards : QueueFitsType(n.card[c]) /\ SameStudy(n.card[c], m.card[c]),
           n.studied = m.studied,
           n.queues = NoQueues \/ (SameQueue(n.queues, m.queues) /\ QueueFits(n.queues, t))
    PROVE  Moment(n, p, t)
<1>1. m \in Moments BY DEF Moment
<1>2. \A c \in Cards : m.card[c] \in Card /\ n.card[c] \in Card BY <1>1 DEF Moments
<1>3. \A c \in Cards : KindOf(n.card[c]) = KindOf(m.card[c]) BY <1>2, KindStays DEF SameStudy
<1>4. CounterFits(n.card, n.studied, t)
  <2>1. \A day : IntroducedOn(n.card, day) = IntroducedOn(m.card, day) BY DEF IntroducedOn, SameStudy
  <2>2. \A c \in Cards : n.card[c].introduced = m.card[c].introduced BY DEF SameStudy
  <2>3. CounterFits(m.card, m.studied, t) BY DEF Moment
  <2> QED BY <2>1, <2>2, <2>3 DEF CounterFits
<1>5. CASE n.queues = NoQueues BY <1>4, <1>5 DEF Moment
<1>6. CASE n.queues # NoQueues
  <2>1. SameQueue(n.queues, m.queues) /\ QueueFits(n.queues, t) BY <1>6
  <2>2. /\ m.queues # NoQueues /\ EntriesIn(n.queues) = EntriesIn(m.queues) /\ n.queues.main = m.queues.main
    BY <2>1 DEF SameQueue, EntriesIn
  <2>3. /\ QueueFits(m.queues, t) /\ KindsTrue(m.queues, m.card) /\ RoomLeft(m.queues, m.studied, t)
        /\ Graded(p) => Current(m.queues, m.card) /\ SiblingsSpared(m.queues, p)
    BY <2>2 DEF Moment
  <2>4. \A e \in EntriesIn(n.queues) : e.id \in Cards
    <3>1. EntriesIn(n.queues) \subseteq QueueEntry BY <2>1, ShapeOf DEF QueueFits
    <3> QED BY <3>1 DEF QueueEntry
  <2>5. KindsTrue(n.queues, n.card) BY <2>2, <2>3, <2>4, <1>3 DEF KindsTrue
  <2>6. Current(m.queues, m.card) => Current(n.queues, n.card) BY <2>2, <2>4 DEF Current, SameStudy
  <2>7. SiblingsSpared(m.queues, p) => SiblingsSpared(n.queues, p) BY <2>2 DEF SiblingsSpared
  <2>8. RoomLeft(n.queues, n.studied, t) BY <2>2, <2>3 DEF RoomLeft
  <2> QED BY <2>1, <2>3, <2>5, <2>6, <2>7, <2>8, <1>4 DEF Moment
<1> QED BY <1>5, <1>6

\* Later times are of the same day or of later ones.
LEMMA DayGrows ==
    ASSUME NEW t \in Nat, NEW u \in Nat, Epoch <= t, t <= u
    PROVE  DayOf(t) \in Nat /\ DayOf(u) \in Nat /\ DayOf(t) <= DayOf(u)
<1>1. DayLength \in Nat \ {0} BY StudyAssumption
<1>2. t - Epoch \in Nat /\ u - Epoch \in Nat /\ t - Epoch <= u - Epoch BY DEF Epoch
<1>3. \A n \in Nat, k \in Nat, d \in Nat \ {0} : n <= k => n \div d \in Nat /\ k \div d \in Nat /\ n \div d <= k \div d
  <2> TAKE n \in Nat, k \in Nat, d \in Nat \ {0}
  <2> HAVE n <= k
  <2> DEFINE a == n \div d
             b == k \div d
  <2>1. a \in Nat /\ b \in Nat /\ a * d <= n /\ k < (b + 1) * d OBVIOUS
  <2>2. a * d < (b + 1) * d
    <3>1. a * d \in Nat /\ (b + 1) * d \in Nat BY <2>1
    <3> DEFINE x == a * d
               y == (b + 1) * d
    <3>2. x <= n /\ k < y /\ x \in Nat /\ y \in Nat BY <2>1, <3>1
    <3> HIDE DEF x, y
    <3>3. x < y BY <3>2
    <3> QED BY <3>3 DEF x, y
  <2>3. ~(b + 1 <= a)
    <3> SUFFICES ASSUME b + 1 <= a PROVE FALSE OBVIOUS
    <3>1. (b + 1) * d <= a * d
      <4>1. a - (b + 1) \in Nat BY <2>1
      <4>2. (a - (b + 1)) * d \in Nat BY <4>1
      <4>3. a * d = (a - (b + 1)) * d + (b + 1) * d BY <2>1
      <4> DEFINE x == a * d
                 y == (b + 1) * d
                 z == (a - (b + 1)) * d
      <4>4. x = z + y /\ z \in Nat /\ y \in Nat BY <4>2, <4>3, <2>1
      <4> HIDE DEF x, y, z
      <4>5. y <= x BY <4>4
      <4> QED BY <4>5 DEF x, y
    <3> DEFINE x == a * d
               y == (b + 1) * d
    <3>2. x \in Int /\ y \in Int /\ x < y /\ y <= x BY <3>1, <2>1, <2>2
    <3> HIDE DEF x, y
    <3> QED BY <3>2
  <2> HIDE DEF a, b
  <2>4. a <= b BY <2>1, <2>3
  <2> QED BY <2>1, <2>4 DEF a, b
<1> QED BY <1>1, <1>2, <1>3 DEF DayOf

\* What is right of a moment stays right when time passes.
LEMMA MomentLater ==
    ASSUME NEW m, NEW p, NEW t \in Nat, NEW u \in Nat, Epoch <= t, t <= u, Moment(m, p, t)
    PROVE  Moment(m, p, u)
<1>1. DayOf(t) \in Nat /\ DayOf(u) \in Nat /\ DayOf(t) <= DayOf(u) BY DayGrows
<1>2. m \in Moments BY DEF Moment
<1>3. m.studied.day \in Nat /\ \A c \in Cards : m.card[c].introduced \in Int
  BY <1>2, CardFields DEF Moments, Counter
<1>4. CounterFits(m.card, m.studied, t) BY DEF Moment
<1>5. m.studied.day = DayOf(u) => m.studied.day = DayOf(t) BY <1>1, <1>3, <1>4 DEF CounterFits
<1>6. CounterFits(m.card, m.studied, u)
  <2>1. m.studied.day <= DayOf(u) BY <1>1, <1>3, <1>4 DEF CounterFits
  <2>2. \A c \in Cards : m.card[c].introduced >= DayOf(u) => m.card[c].introduced = m.studied.day
    <3> TAKE c \in Cards
    <3> HAVE m.card[c].introduced >= DayOf(u)
    <3>1. m.card[c].introduced >= DayOf(t) BY <1>1, <1>3
    <3> QED BY <3>1, <1>4 DEF CounterFits
  <2> QED BY <2>1, <2>2, <1>4, <1>5 DEF CounterFits
<1>7. \A q : RoomLeft(q, m.studied, t) => RoomLeft(q, m.studied, u) BY <1>5 DEF RoomLeft
<1>8. \A q : QueueFits(q, t) => QueueFits(q, u)
  <2> TAKE q
  <2> HAVE QueueFits(q, t)
  <2>1. q.cutoff \in Nat BY ShapeOf DEF QueueFits
  <2> QED BY <2>1 DEF QueueFits
<1> QED BY <1>6, <1>7, <1>8 DEF Moment

\* What a stack of steps is made of.
LEMMA StackOf ==
    ASSUME NEW st \in Seq(UndoStep)
    PROVE  /\ Len(st) \in Nat /\ \A i \in 1..Len(st) : st[i] \in UndoStep
           /\ st # <<>> => /\ 1 \in 1..Len(st) /\ Head(st) = st[1]
                           /\ Tail(st) \in Seq(UndoStep) /\ Len(Tail(st)) = Len(st) - 1
                           /\ \A i \in 1..(Len(st) - 1) : Tail(st)[i] = st[i + 1]
<1>1. Len(st) \in Nat /\ \A i \in 1..Len(st) : st[i] \in UndoStep BY LenProperties, ElementOfSeq
<1>2. st # <<>> => /\ Head(st) = st[1] /\ 1 \in DOMAIN st /\ Tail(st) \in Seq(UndoStep) /\ Len(Tail(st)) = Len(st) - 1
                   /\ \A i \in 1..(Len(st) - 1) : Tail(st)[i] = st[i + 1]
  BY TailOf
<1>3. DOMAIN st = 1..Len(st) BY LenProperties
<1> QED BY <1>1, <1>2, <1>3

\* The link of two queues stays when time passes.
LEMMA MovedLater ==
    ASSUME NEW pre, NEW s, NEW post, NEW t \in Nat, NEW u \in Nat, t <= u, StepFits(s),
           QueueLinked(pre, s, post, t)
    PROVE  QueueLinked(pre, s, post, u)
<1>1. s.update # NoUpdate => s.update.cutoff \in Nat BY DEF StepFits, UpdateFits
<1> QED BY <1>1 DEF QueueLinked, Moved

\* The links of a stack stay when time passes.
LEMMA ChainLater ==
    ASSUME NEW dir, NEW top, NEW st \in Seq(UndoStep), NEW p, NEW t \in Nat, NEW u \in Nat, Epoch <= t, t <= u,
           Chain(dir, top, st, p, t)
    PROVE  Chain(dir, top, st, p, u)
<1> SUFFICES ASSUME NEW i \in 1..Len(st) PROVE Link(dir, Late(top, st, i), st, i, p, u) BY DEF Chain
<1> DEFINE late == Late(top, st, i)
<1>1. Link(dir, late, st, i, p, t) BY DEF Chain
<1> HIDE DEF late
<1>2. Moment(st[i].before, p, u) BY <1>1, MomentLater DEF Link
<1>3. Between(dir, st[i], late, t) => Between(dir, st[i], late, u)
  BY <1>1, MovedLater DEF Link, Between
<1> QED BY <1>1, <1>2, <1>3 DEF Link, late

\* The link of a step bears what may happen to a moment without a step.
LEMMA LinkFollows ==
    ASSUME NEW dir, NEW m \in Moments, NEW n \in Moments, NEW st \in Seq(UndoStep), NEW p, NEW t, st # <<>>,
           Link(dir, m, st, 1, p, t), Follows(n, m, st)
    PROVE  Link(dir, n, st, 1, p, t)
<1> DEFINE s == st[1]
<1>1. Moment(s.before, p, t) /\ StepFits(s) /\ Linked(s, m) /\ (Between(dir, s, m, t) \/ Forgotten(m.queues, st, 1))
  BY DEF Link
<1>2. s.before \in Moments BY <1>1 DEF Moment
<1>3. \A c \in Cards : s.before.card[c] \in Card /\ m.card[c] \in Card /\ n.card[c] \in Card BY <1>2 DEF Moments
<1> HIDE DEF s
<1>4. Linked(s, n)
  <2>1. ASSUME NEW c \in Cards, c \notin DOMAIN s.cards PROVE Unburied(n.card[c], s.before.card[c])
    <3>1. Unburied(m.card[c], s.before.card[c]) /\ Unburied(n.card[c], m.card[c]) BY <2>1, <1>1 DEF Linked, Follows
    <3> QED BY <3>1, <1>3, UnburiedTwice
  <2>2. ASSUME NEW c \in Cards, s.op = "SetFlag" PROVE SameStudy(n.card[c], s.before.card[c])
    <3>1. SameStudy(m.card[c], s.before.card[c]) BY <2>2, <1>1 DEF Linked
    <3>2. Unburied(n.card[c], m.card[c]) BY DEF Follows
    <3>3. SameStudy(n.card[c], m.card[c]) BY <3>2, <1>3, UnburiedFits
    <3> QED BY <3>1, <3>3 DEF SameStudy
  <2> QED BY <2>1, <2>2, <1>1 DEF Linked, Follows
<1>5. Between(dir, s, n, t) \/ Forgotten(n.queues, st, 1)
  <2>1. CASE n.queues = NoQueues \/ Forgotten(n.queues, st, 1) BY <2>1 DEF Forgotten
  <2>2. CASE SameQueue(n.queues, m.queues)
    <3>1. Forgotten(m.queues, st, 1) => Forgotten(n.queues, st, 1) BY <2>2 DEF Forgotten, SameQueue
    <3>2. Between(dir, s, m, t) => Between(dir, s, n, t)
      BY <2>2 DEF Between, QueueLinked, SameQueue, Moved, IsTop, MainAfter, IntradayAfter, LearningDue
    <3> QED BY <3>1, <3>2, <1>1
  <2> QED BY <2>1, <2>2 DEF Follows
<1> QED BY <1>1, <1>4, <1>5 DEF Link, s

\* The links of a stack bear what may happen to the present without a step.
LEMMA ChainFollows ==
    ASSUME NEW dir, NEW m \in Moments, NEW n \in Moments, NEW st \in Seq(UndoStep), NEW p, NEW t,
           Chain(dir, m, st, p, t), Follows(n, m, st)
    PROVE  Chain(dir, n, st, p, t)
<1> SUFFICES ASSUME NEW i \in 1..Len(st) PROVE Link(dir, Late(n, st, i), st, i, p, t) BY DEF Chain
<1>0. Len(st) \in Nat BY StackOf
<1>1. CASE i = 1
  <2>1. Late(m, st, 1) = m /\ Late(n, st, 1) = n BY DEF Late
  <2>2. st # <<>> BY <1>0
  <2>3. Link(dir, m, st, 1, p, t) BY <1>1, <2>1 DEF Chain
  <2>4. Link(dir, n, st, 1, p, t) BY <2>2, <2>3, LinkFollows
  <2> QED BY <2>1, <2>4, <1>1
<1>2. CASE i # 1
  <2>1. Late(m, st, i) = Late(n, st, i) BY <1>2 DEF Late
  <2> QED BY <2>1 DEF Chain
<1> QED BY <1>1, <1>2

\* Without its top step a stack is linked to the moment before that step.
LEMMA ChainDrop ==
    ASSUME NEW dir, NEW m, NEW st \in Seq(UndoStep), st # <<>>, NEW p, NEW t, Chain(dir, m, st, p, t)
    PROVE  Chain(dir, Head(st).before, Tail(st), p, t)
<1> DEFINE r == Tail(st)
           top == Head(st).before
<1>1. /\ Len(st) \in Nat \ {0} /\ Head(st) = st[1] /\ Len(r) = Len(st) - 1
      /\ \A i \in 1..(Len(st) - 1) : r[i] = st[i + 1]
  BY StackOf
<1> HIDE DEF r
<1> SUFFICES ASSUME NEW i \in 1..Len(r) PROVE Link(dir, Late(top, r, i), r, i, p, t) BY DEF Chain, r
<1>2. i + 1 \in 1..Len(st) /\ r[i] = st[i + 1] /\ i \in Nat /\ i >= 1 BY <1>1
<1>3. Link(dir, Late(m, st, i + 1), st, i + 1, p, t) BY <1>2 DEF Chain
<1>4. Late(m, st, i + 1) = Late(top, r, i)
  <2>1. CASE i = 1 BY <2>1, <1>1 DEF Late
  <2>2. CASE i # 1
    <3>1. i - 1 \in 1..(Len(st) - 1) /\ (i - 1) + 1 = i /\ (i + 1) - 1 = i BY <2>2, <1>1, <1>2
    <3>2. r[i - 1] = st[i] BY <3>1, <1>1
    <3>3. i + 1 # 1 BY <1>2
    <3> QED BY <3>1, <3>2, <3>3, <2>2 DEF Late
  <2> QED BY <2>1, <2>2
<1>5. \A q : Forgotten(q, st, i + 1) => Forgotten(q, r, i)
  <2> SUFFICES ASSUME NEW q, \A k \in (i + 1)..Len(st) : st[k].update.build # q.build, NEW k \in i..Len(r)
               PROVE  r[k].update.build # q.build
    BY DEF Forgotten
  <2>1. k + 1 \in (i + 1)..Len(st) /\ k \in 1..(Len(st) - 1) BY <1>1, <1>2
  <2> QED BY <2>1, <1>1
<1> QED BY <1>2, <1>3, <1>4, <1>5 DEF Link

\* A step recorded on top of a stack, of which the oldest steps may be dropped.
LEMMA ChainPush ==
    ASSUME NEW dir, NEW m \in Moments, NEW n \in Moments, NEW st \in Seq(UndoStep), NEW r \in Seq(UndoStep),
           NEW p, NEW t, NEW s \in UndoStep,
           Len(r) <= Len(st), \A i \in 1..Len(r) : r[i] = st[i],
           Chain(dir, m, st, p, t), s.before = m, Moment(m, p, t), StepFits(s), Linked(s, n),
           Between(dir, s, n, t) \/ Forgotten(n.queues, <<s>> \o r, 1)
    PROVE  /\ <<s>> \o r \in Seq(UndoStep) /\ Len(<<s>> \o r) = Len(r) + 1
           /\ Chain(dir, n, <<s>> \o r, p, t)
<1> DEFINE x == <<s>> \o r
<1>1. Len(r) \in Nat /\ Len(st) \in Nat BY LenProperties
<1>2. x \in Seq(UndoStep) /\ Len(x) = Len(r) + 1 /\ x[1] = s /\ \A i \in 2..(Len(r) + 1) : x[i] = r[i - 1]
  <2> DEFINE h == <<s>>
  <2>1. h \in Seq(UndoStep) /\ Len(h) = 1 /\ h[1] = s OBVIOUS
  <2> HIDE DEF h
  <2>2. /\ h \o r \in Seq(UndoStep) /\ Len(h \o r) = Len(h) + Len(r)
        /\ \A i \in 1..(Len(h) + Len(r)) : (h \o r)[i] = IF i <= Len(h) THEN h[i] ELSE r[i - Len(h)]
    BY <2>1, ConcatProperties
  <2>3. Len(h \o r) = Len(r) + 1 BY <2>1, <2>2, <1>1
  <2>4. \A i \in 1..(Len(r) + 1) : (h \o r)[i] = IF i <= 1 THEN h[i] ELSE r[i - 1] BY <2>1, <2>2, <1>1
  <2>5. (h \o r)[1] = s
    <3>1. 1 \in 1..(Len(r) + 1) BY <1>1
    <3> QED BY <3>1, <2>1, <2>4
  <2>6. \A i \in 2..(Len(r) + 1) : (h \o r)[i] = r[i - 1]
    <3> TAKE i \in 2..(Len(r) + 1)
    <3>1. i \in 1..(Len(r) + 1) /\ ~(i <= 1) BY <1>1
    <3> QED BY <3>1, <2>4
  <2> QED BY <2>2, <2>3, <2>5, <2>6 DEF h
<1> HIDE DEF x
<1>3. ASSUME NEW i \in 1..Len(x) PROVE Link(dir, Late(n, x, i), x, i, p, t)
  <2>1. CASE i = 1
    <3>1. Late(n, x, 1) = n BY DEF Late
    <3>2. Between(dir, s, n, t) \/ Forgotten(n.queues, x, 1) BY DEF x
    <3> QED BY <3>1, <3>2, <2>1, <1>2 DEF Link
  <2>2. CASE i # 1
    <3> DEFINE j == i - 1
    <3>1. i \in 2..(Len(r) + 1) /\ j \in 1..Len(r) /\ j \in 1..Len(st) /\ j + 1 = i BY <2>2, <1>1, <1>2
    <3> HIDE DEF j
    <3>2. x[i] = st[j] BY <3>1, <1>2 DEF j
    <3>3. Link(dir, Late(m, st, j), st, j, p, t) BY <3>1 DEF Chain
    <3>4. Late(n, x, i) = Late(m, st, j)
      <4>1. Late(n, x, i) = x[j].before BY <2>2 DEF Late, j
      <4>2. CASE j = 1 BY <4>1, <4>2, <1>2 DEF Late
      <4>3. CASE j # 1
        <5>1. j \in 2..(Len(r) + 1) /\ j - 1 \in 1..Len(r) BY <4>3, <3>1, <1>1
        <5>2. x[j] = st[j - 1] BY <5>1, <1>2
        <5> QED BY <5>2, <4>1, <4>3 DEF Late
      <4> QED BY <4>2, <4>3
    <3>5. \A q : Forgotten(q, st, j) => Forgotten(q, x, i)
      <4> SUFFICES ASSUME NEW q, \A k \in j..Len(st) : st[k].update.build # q.build, NEW k \in i..Len(x)
                   PROVE  x[k].update.build # q.build
        BY DEF Forgotten
      <4>1. k \in 2..(Len(r) + 1) /\ k - 1 \in j..Len(st) /\ k - 1 \in 1..Len(r) BY <3>1, <1>1, <1>2
      <4>2. x[k] = st[k - 1] BY <4>1, <1>2
      <4> QED BY <4>1, <4>2
    <3> QED BY <3>2, <3>3, <3>4, <3>5 DEF Link
  <2> QED BY <2>1, <2>2
<1> QED BY <1>2, <1>3 DEF Chain, x

\* What is kept of a stack when a step comes on top.
LEMMA Taken ==
    ASSUME NEW st \in Seq(UndoStep), NEW n \in Nat
    PROVE  LET r == Take(st, n)
           IN /\ r \in Seq(UndoStep) /\ Len(r) <= Len(st) /\ Len(r) <= n /\ Len(r) \in Nat
              /\ \A i \in 1..Len(r) : r[i] = st[i]
<1> DEFINE k == IF Len(st) < n THEN Len(st) ELSE n
           r == SubSeq(st, 1, k)
<1>1. Len(st) \in Nat /\ k \in Nat /\ k <= Len(st) /\ k <= n BY LenProperties
<1> HIDE DEF k
<1>2. r \in Seq(UndoStep) /\ Len(r) = k /\ \A i \in 1..k : r[i] = st[i]
  <2>1. \A i \in 1..k : i \in 1..Len(st) BY <1>1
  <2>2. r \in Seq(UndoStep) BY <1>1, <2>1, SubSeqProperties
  <2>3. Len(r) = k BY <1>1, SubSeqProperties
  <2>4. \A i \in 1..k : r[i] = st[i] BY <1>1, SubSeqProperties
  <2> QED BY <2>2, <2>3, <2>4
<1>3. r = Take(st, n) BY DEF Take, k
<1> HIDE DEF r
<1> QED BY <1>1, <1>2, <1>3

----------------------------------------------------------------------------
(* Each action keeps the invariant.                                       *)

\* What the invariant says of the present.
LEMMA PresentFields ==
    ASSUME StudyInv
    PROVE  /\ Present \in Moments
           /\ card \in [Cards -> Card] /\ studied \in Counter
           /\ queues = NoQueues \/ (QueueShape(queues) /\ QueueFits(queues, now))
           /\ \A c \in Cards : card[c] \in Card /\ QueueFitsType(card[c])
           /\ preset \in Preset
<1>1. Moment(Present, preset, now) BY DEF StudyInv
<1>2. Present \in Moments /\ Present.card = card /\ Present.studied = studied /\ Present.queues = queues
  BY <1>1 DEF Moment, Present
<1>3. card \in [Cards -> Card] /\ studied \in Counter BY <1>2 DEF Moments
<1>4. queues = NoQueues \/ QueueFits(queues, now) BY <1>1, <1>2 DEF Moment
<1>5. \A c \in Cards : QueueFitsType(card[c]) BY <1>1, <1>2 DEF Moment
<1>6. preset \in Preset BY StudyAssumption DEF StudyInv, Preset
<1> QED BY <1>2, <1>3, <1>4, <1>5, <1>6 DEF QueueFits

\* An empty stack is linked to everything.
LEMMA EmptyChain ==
    ASSUME NEW dir, NEW top, NEW p, NEW t
    PROVE  Chain(dir, top, <<>>, p, t) /\ <<>> \in Seq(UndoStep) /\ Len(<<>>) = 0
<1>1. <<>> \in Seq(UndoStep) /\ Len(<<>>) = 0 /\ \A i \in 1..0 : FALSE OBVIOUS
<1> QED BY <1>1 DEF Chain

\* A moment without a queue: only the queues and the days of introduction count.
LEMMA MomentUnqueued ==
    ASSUME NEW m, NEW p, NEW t, Moment(m, p, t), NEW n \in Moments,
           \A c \in Cards : QueueFitsType(n.card[c]) /\ n.card[c].introduced = m.card[c].introduced,
           n.studied = m.studied, n.queues = NoQueues
    PROVE  Moment(n, p, t)
<1>1. CounterFits(n.card, n.studied, t)
  <2>1. \A day : IntroducedOn(n.card, day) = IntroducedOn(m.card, day) BY DEF IntroducedOn
  <2>2. CounterFits(m.card, m.studied, t) BY DEF Moment
  <2> QED BY <2>1, <2>2 DEF CounterFits
<1> QED BY <1>1 DEF Moment

\* A step that is recorded now agrees with the present.
LEMMA StepTyped ==
    ASSUME StudyInv, NEW op \in {"AnswerCard", "SetFlag", "suspended", "userburied"},
           NEW changed \in SUBSET Cards, changed # {}, NEW update \in {NoUpdate} \union Update,
           update # NoUpdate <=> op = "AnswerCard", update # NoUpdate => UpdateFits(update)
    PROVE  LET s == Step(op, changed, studied, update)
           IN /\ s \in UndoStep /\ StepFits(s) /\ s.before = Present /\ s.op = op /\ s.update = update
              /\ DOMAIN s.cards = changed
<1> DEFINE old == [c \in changed |-> card[c]]
           s == Step(op, changed, studied, update)
<1>1. Present \in Moments /\ card \in [Cards -> Card] /\ studied \in Counter BY PresentFields
<1>2. old \in [changed -> Card] /\ DOMAIN old = changed /\ \A c \in changed : old[c] = card[c] BY <1>1
<1>3. old \in UNION {[D -> Card] : D \in SUBSET Cards} BY <1>2
<1> HIDE DEF old
<1>4. s = [op |-> op, cards |-> old, studied |-> studied, update |-> update, before |-> Present]
  BY DEF Step, Present, old
<1>5. /\ s \in UndoStep /\ s.op = op /\ s.cards = old /\ s.studied = studied /\ s.update = update /\ s.before = Present
  BY <1>1, <1>3, <1>4 DEF UndoStep
<1> HIDE DEF s
<1>6. Present.card = card /\ Present.studied = studied BY DEF Present
<1>7. StepFits(s) BY <1>2, <1>5, <1>6 DEF StepFits
<1> QED BY <1>2, <1>5, <1>7 DEF s

\* The table a new day leaves holds the cards as they were or unburied.
LEMMA UnburyFits ==
    ASSUME StudyInv
    PROVE  LET table == unbury_on_day_rollover
           IN table \in [Cards -> Card] /\ \A c \in Cards : Unburied(table[c], card[c])
<1> DEFINE table == unbury_on_day_rollover
<1>1. table = [c \in Cards |-> IF card[c].queue \in Buried THEN restore_queue_from_type(card[c]) ELSE card[c]]
  BY DEF unbury_on_day_rollover
<1>2. \A c \in Cards : Unburied(table[c], card[c]) BY <1>1 DEF Unburied
<1>3. \A c \in Cards : table[c] \in Card BY <1>2, UnburiedFits, PresentFields
<1>4. table \in [Cards -> Card] BY <1>1, <1>3
<1> QED BY <1>2, <1>4

\* A build time that no kept step knows.
LEMMA FreshExists ==
    ASSUME StudyInv
    PROVE  /\ FreshBuild \in Nat \ {0}
           /\ \A i \in 1..Len(undoSteps) : undoSteps[i].update.build # FreshBuild
           /\ \A i \in 1..Len(redoSteps) : redoSteps[i].update.build # FreshBuild
<1> DEFINE builds(st) == {st[i].update.build : i \in DOMAIN st}
           U == builds(undoSteps)
           R == builds(redoSteps)
           I == 1..(2 * UndoLimit + 1)
<1>1. ASSUME NEW st \in Seq(UndoStep)
      PROVE  IsFiniteSet(builds(st)) /\ Cardinality(builds(st)) <= Len(st) /\ Len(st) \in Nat
  <2> DEFINE B == builds(st)
             f == [i \in 1..Len(st) |-> st[i].update.build]
  <2>1. Len(st) \in Nat /\ DOMAIN st = 1..Len(st) BY LenProperties
  <2>2. f \in Surjection(1..Len(st), B)
    <3>1. B = {st[i].update.build : i \in 1..Len(st)} BY <2>1
    <3>2. f \in [1..Len(st) -> B] /\ \A b \in B : \E i \in 1..Len(st) : f[i] = b BY <3>1
    <3> HIDE DEF f, B
    <3> QED BY <3>2 DEF Surjection
  <2>3. IsFiniteSet(1..Len(st)) /\ Cardinality(1..Len(st)) = Len(st) BY <2>1, FS_Interval
  <2> HIDE DEF B, f
  <2>4. IsFiniteSet(B) /\ Cardinality(B) <= Cardinality(1..Len(st)) BY <2>2, <2>3, FS_Surjection
  <2> QED BY <2>1, <2>3, <2>4 DEF B
<1>2. /\ IsFiniteSet(U) /\ Cardinality(U) <= Len(undoSteps) /\ Len(undoSteps) \in Nat
      /\ IsFiniteSet(R) /\ Cardinality(R) <= Len(redoSteps) /\ Len(redoSteps) \in Nat
      /\ Len(undoSteps) + Len(redoSteps) <= UndoLimit
  <2>1. undoSteps \in Seq(UndoStep) /\ redoSteps \in Seq(UndoStep) /\ Len(undoSteps) + Len(redoSteps) <= UndoLimit
    BY DEF StudyInv
  <2> HIDE DEF builds
  <2> QED BY <2>1, <1>1
<1>3. UndoLimit \in Nat \ {0} BY StudyAssumption
<1>4. IsFiniteSet(I) /\ Cardinality(I) = 2 * UndoLimit + 1 BY <1>3, FS_Interval
<1> HIDE DEF U, R, I
<1>5. /\ Cardinality(U) \in Nat /\ Cardinality(R) \in Nat /\ Cardinality(U \intersect R) \in Nat
      /\ IsFiniteSet(U \union R)
      /\ Cardinality(U \union R) = Cardinality(U) + Cardinality(R) - Cardinality(U \intersect R)
  BY <1>2, FS_CardinalityType, FS_Union, FS_Intersection
<1>6. Cardinality(U \union R) <= UndoLimit BY <1>2, <1>3, <1>5
<1>7. \E b \in I : b \notin U \union R
  <2> SUFFICES ASSUME I \subseteq U \union R PROVE FALSE OBVIOUS
  <2>1. Cardinality(I) <= Cardinality(U \union R) BY <1>5, FS_Subset
  <2>2. Cardinality(U \union R) \in Nat BY <1>5, FS_CardinalityType
  <2> QED BY <2>1, <2>2, <1>3, <1>4, <1>6
<1>8. FreshBuild \in I /\ FreshBuild \notin U \union R BY <1>7 DEF FreshBuild, U, R, I
<1>9. FreshBuild \in Nat \ {0} BY <1>8, <1>3 DEF I
<1>10. DOMAIN undoSteps = 1..Len(undoSteps) /\ DOMAIN redoSteps = 1..Len(redoSteps)
  BY LenProperties DEF StudyInv
<1> QED BY <1>8, <1>9, <1>10 DEF U, R

\* A session begins with the invariant: no queue, no steps, no card studied.
LEMMA StudyInit ==
    ASSUME Init
    PROVE  StudyInv
<1> USE DEF Init
<1>1. now \in Nat /\ Epoch <= now /\ now <= Epoch + MaxTime BY StudyAssumption, DaysBelowEpoch DEF Epoch
<1>2. \A c \in Cards : InitialCard(c) \in Card /\ QueueFitsType(InitialCard(c)) /\ InitialCard(c).introduced = Never
  <2> TAKE c \in Cards
  <2>1. FirstQueue[c] \in {"new", "learn", "daylearn", "review"} BY StudyAssumption
  <2> DEFINE r == InitialCard(c)
  <2>2. r \in Card /\ r.introduced = Never /\ r.queue = FirstQueue[c]
    BY <2>1 DEF InitialCard, Card, CardQueue, CardType, Epoch, Never
  <2>3. QueueFitsType(r)
    <3>1. CASE FirstQueue[c] = "new"
      BY <3>1 DEF InitialCard, QueueFitsType, KindOf, restore_queue_from_type
    <3>2. CASE FirstQueue[c] = "learn"
      BY <3>2 DEF InitialCard, QueueFitsType, KindOf, restore_queue_from_type, is_unix_epoch_timestamp, Epoch
    <3>3. CASE FirstQueue[c] = "daylearn"
      BY <3>3 DEF InitialCard, QueueFitsType, KindOf, restore_queue_from_type, is_unix_epoch_timestamp, Epoch
    <3>4. CASE FirstQueue[c] = "review"
      BY <3>4 DEF InitialCard, QueueFitsType, KindOf, restore_queue_from_type
    <3> QED BY <2>1, <3>1, <3>2, <3>3, <3>4
  <2> QED BY <2>2, <2>3
<1> DEFINE m == Present
<1>3. m.card = card /\ m.studied = studied /\ m.queues = NoQueues BY DEF Present
<1>4. card \in [Cards -> Card] /\ \A c \in Cards : card[c] = InitialCard(c) BY <1>2
<1>5. studied \in Counter /\ studied.day = 0 /\ studied.new = 0 BY DEF Counter
<1>6. m \in Moments BY <1>4, <1>5 DEF Moments, Present
<1>7. CounterFits(card, studied, now)
  <2>1. DayOf(now) \in Nat BY <1>1, DayGrows
  <2>2. \A c \in Cards : card[c].introduced = Never BY <1>2, <1>4
  <2>3. \A day \in Nat : IntroducedOn(card, day) = {} BY <2>2 DEF IntroducedOn, Never
  <2>4. \A day \in Nat : Cardinality(IntroducedOn(card, day)) = 0 BY <2>3, FS_EmptySet
  <2>5. NewPerDay \in Nat BY StudyAssumption
  <2> HIDE DEF Init
  <2>6. \A c \in Cards : ~(card[c].introduced >= DayOf(now)) BY <2>1, <2>2 DEF Never
  <2> QED BY <2>1, <2>4, <2>5, <2>6, <1>5 DEF CounterFits
<1>8. Moment(m, preset, now) BY <1>2, <1>3, <1>4, <1>6, <1>7 DEF Moment
<1>9. UndoLimit \in Nat BY StudyAssumption
<1>10. /\ \A dir : Chain(dir, m, <<>>, preset, now)
       /\ <<>> \in Seq(UndoStep) /\ Len(<<>>) = 0
  BY EmptyChain
<1> HIDE DEF m
<1> QED BY <1>1, <1>8, <1>9, <1>10 DEF StudyInv, m

\* Time passes: days only grow.
LEMMA TickKeeps ==
    ASSUME StudyInv, Tick
    PROVE  StudyInv'
<1> USE DEF Tick
<1>1. now' \in Nat /\ Epoch <= now' /\ now' <= Epoch + MaxTime /\ now <= now' /\ now \in Nat /\ Epoch <= now
  <2>1. now \in Nat /\ Epoch <= now /\ now < Epoch + MaxTime /\ now' = now + 1 BY DEF StudyInv
  <2>2. MaxTime \in Nat /\ Epoch \in Nat BY DaysBelowEpoch DEF Epoch
  <2> HIDE DEF Tick
  <2> QED BY <2>1, <2>2
<1>2. Present' = Present BY DEF Present
<1>3. Moment(Present, preset, now') BY <1>1, MomentLater DEF StudyInv
<1>4. Chain("undo", Present, undoSteps, preset, now') BY <1>1, ChainLater DEF StudyInv
<1>5. Chain("redo", Present, redoSteps, preset, now') BY <1>1, ChainLater DEF StudyInv
<1> QED BY <1>1, <1>2, <1>3, <1>4, <1>5 DEF StudyInv

\* The cards are unburied beside the queue, which holds none of them.
LEMMA UnburyKeeps ==
    ASSUME StudyInv, unbury_if_day_rolled_over
    PROVE  StudyInv'
<1> USE DEF unbury_if_day_rolled_over
<1> DEFINE m == Present
           n == [card |-> card', studied |-> studied', queues |-> queues']
<1>1. /\ Present \in Moments /\ \A c \in Cards : card[c] \in Card /\ QueueFitsType(card[c])
      /\ queues = NoQueues \/ QueueFits(queues, now)
      /\ queues = NoQueues \/ queues \in CardQueues
      /\ studied \in Counter
  BY PresentFields DEF QueueShape
<1>2. m.card = card /\ m.studied = studied /\ m.queues = queues BY DEF Present
<1>3. n.card = card' /\ n.studied = studied /\ n.queues = queues OBVIOUS
<1>4. card' \in [Cards -> Card] /\ \A c \in Cards : Unburied(card'[c], card[c]) BY UnburyFits
<1>5. n \in Moments BY <1>1, <1>4, PresentFields DEF Moments, QueueShape
<1> HIDE DEF m, n
<1>6. SameQueue(queues, queues) \/ queues = NoQueues BY DEF SameQueue
<1>7. Moment(n, preset, now)
  <2>1. \A c \in Cards : QueueFitsType(card'[c]) /\ SameStudy(card'[c], card[c]) BY <1>1, <1>4, UnburiedFits
  <2>2. Moment(m, preset, now) BY DEF StudyInv, m
  <2> QED BY <2>1, <2>2, <1>1, <1>2, <1>3, <1>5, <1>6, MomentKept
<1>8. \A st : Follows(n, m, st) BY <1>2, <1>3, <1>4, <1>6 DEF Follows
<1>9. m \in Moments BY <1>1 DEF m
<1>10. Chain("undo", n, undoSteps, preset, now) /\ Chain("redo", n, redoSteps, preset, now)
  BY <1>5, <1>8, <1>9, ChainFollows DEF StudyInv, m
<1>11. Present' = n BY DEF Present, n
<1> QED BY <1>7, <1>10, <1>11 DEF StudyInv

\* A failed answer leaves the cards, and neither queue nor steps.
LEMMA FailKeeps ==
    ASSUME StudyInv, answer_card_fails
    PROVE  StudyInv'
<1> USE DEF answer_card_fails, RollBack, begin_step_none
<1> DEFINE n == [card |-> card', studied |-> studied', queues |-> queues']
<1>1. /\ card \in [Cards -> Card] /\ studied \in Counter /\ \A c \in Cards : QueueFitsType(card[c]) BY PresentFields
<1>2. n \in Moments /\ n.card = card /\ n.studied = studied /\ n.queues = NoQueues BY <1>1 DEF Moments
<1>3. Present.card = card /\ Present.studied = studied BY DEF Present
<1> HIDE DEF n
<1>4. Moment(Present, preset, now) BY DEF StudyInv
<1>5. Moment(n, preset, now) BY <1>1, <1>2, <1>3, <1>4, MomentUnqueued
<1>6. \A dir : Chain(dir, n, <<>>, preset, now) /\ <<>> \in Seq(UndoStep) /\ Len(<<>>) = 0 BY EmptyChain
<1>7. Present' = n BY DEF Present, n
<1>8. UndoLimit \in Nat BY StudyAssumption
<1>9. /\ undoSteps' = <<>> /\ redoSteps' = <<>> /\ shown' = NoCard /\ preset' = preset /\ now' = now
      /\ fault' = fault
  OBVIOUS
<1> HIDE DEF answer_card_fails
<1>10. Len(<<>>) + Len(<<>>) <= UndoLimit BY <1>6, <1>8
<1> QED BY <1>5, <1>6, <1>7, <1>9, <1>10 DEF StudyInv

\* What is left to show of a step that ends an operation.
LEMMA EndStep ==
    ASSUME StudyInv, NEW s \in UndoStep, end_step(s), StepFits(s), s.before = Present,
           UNCHANGED <<preset, now>>,
           Moment(Present', preset, now), Linked(s, Present'),
           Between("undo", s, Present', now) \/ queues' = NoQueues
    PROVE  /\ undoSteps' \in Seq(UndoStep) /\ redoSteps' \in Seq(UndoStep)
           /\ Len(undoSteps') + Len(redoSteps') <= UndoLimit
           /\ Chain("undo", Present', undoSteps', preset, now)
           /\ Chain("redo", Present', redoSteps', preset, now)
<1> DEFINE n == Present'
           r == Take(undoSteps, UndoLimit - 1)
<1>1. UndoLimit \in Nat \ {0} /\ UndoLimit - 1 \in Nat BY StudyAssumption
<1>2. undoSteps \in Seq(UndoStep) BY DEF StudyInv
<1>3. /\ r \in Seq(UndoStep) /\ Len(r) <= Len(undoSteps) /\ Len(r) <= UndoLimit - 1 /\ Len(r) \in Nat
      /\ \A i \in 1..Len(r) : r[i] = undoSteps[i]
  BY <1>1, <1>2, Taken
<1>4. undoSteps' = <<s>> \o r /\ redoSteps' = <<>> BY DEF end_step
<1>5. Present \in Moments /\ Moment(Present, preset, now) /\ Chain("undo", Present, undoSteps, preset, now)
  BY PresentFields DEF StudyInv
<1>6. n \in Moments BY DEF Moment
<1>7. Between("undo", s, n, now) \/ Forgotten(n.queues, <<s>> \o r, 1)
  <2>1. n.queues = queues' BY DEF Present
  <2> QED BY <2>1 DEF Forgotten
<1> HIDE DEF n, r
<1>8. Linked(s, n) BY DEF n
<1>9. /\ <<s>> \o r \in Seq(UndoStep) /\ Len(<<s>> \o r) = Len(r) + 1
      /\ Chain("undo", n, <<s>> \o r, preset, now)
  BY <1>2, <1>3, <1>5, <1>6, <1>7, <1>8, ChainPush
<1>10. Chain("redo", n, <<>>, preset, now) /\ <<>> \in Seq(UndoStep) /\ Len(<<>>) = 0 BY EmptyChain
<1>11. Len(<<s>> \o r) + Len(<<>>) <= UndoLimit BY <1>1, <1>3, <1>9, <1>10
<1> QED BY <1>4, <1>9, <1>10, <1>11 DEF n

\* Burying or suspending a card drops the queue and records the present.
LEMMA BuryKeeps ==
    ASSUME StudyInv, NEW c \in Browsed, NEW q \in {"suspended", "userburied"}, bury_or_suspend(c, q)
    PROVE  StudyInv'
<1> USE DEF bury_or_suspend
<1> DEFINE n == Present'
           s == Step(q, {c}, studied, NoUpdate)
<1>1. /\ card \in [Cards -> Card] /\ studied \in Counter /\ c \in Cards
      /\ \A x \in Cards : card[x] \in Card /\ QueueFitsType(card[x])
  BY PresentFields, StudyAssumption
<1>2. now \in Nat BY DEF StudyInv
<1>3. card' \in [Cards -> Card] /\ card'[c].queue = q /\ card'[c].introduced = card[c].introduced
      /\ \A x \in Cards \ {c} : card'[x] = card[x]
  <2> DEFINE y == [card[c] EXCEPT !.queue = q, !.mtime = now]
  <2>1. card[c] \in Card BY <1>1
  <2>2. y \in Card /\ y.queue = q /\ y.introduced = card[c].introduced
    BY <2>1, <1>2 DEF Card, CardQueue, Buried
  <2>3. card' = [card EXCEPT ![c] = y] BY <1>1
  <2> HIDE DEF y
  <2> QED BY <1>1, <2>2, <2>3
<1>4. n.card = card' /\ n.studied = studied /\ n.queues = NoQueues /\ n \in Moments
  BY <1>1, <1>3 DEF Present, Moments
<1>5. Present.card = card /\ Present.studied = studied BY DEF Present
<1> HIDE DEF n
<1>6. \A x \in Cards : QueueFitsType(card'[x]) /\ card'[x].introduced = card[x].introduced
  BY <1>1, <1>3 DEF QueueFitsType, QueueKind
<1>7. Moment(Present, preset, now) BY DEF StudyInv
<1>8. Moment(n, preset, now)
  <2>1. \A x \in Cards : QueueFitsType(n.card[x]) /\ n.card[x].introduced = Present.card[x].introduced
    BY <1>4, <1>5, <1>6
  <2>2. n.studied = Present.studied BY <1>4, <1>5
  <2> QED BY <2>1, <2>2, <1>4, <1>7, MomentUnqueued
<1>9. /\ s \in UndoStep /\ StepFits(s) /\ s.before = Present /\ s.op = q /\ s.update = NoUpdate
      /\ DOMAIN s.cards = {c}
  BY <1>1, StepTyped
<1> HIDE DEF s
<1>10. Linked(s, n) BY <1>3, <1>4, <1>5, <1>9 DEF Linked, Unburied
<1>11. end_step(s) BY DEF s
<1>12. /\ undoSteps' \in Seq(UndoStep) /\ redoSteps' \in Seq(UndoStep)
       /\ Len(undoSteps') + Len(redoSteps') <= UndoLimit
       /\ Chain("undo", n, undoSteps', preset, now)
       /\ Chain("redo", n, redoSteps', preset, now)
  BY <1>8, <1>9, <1>10, <1>11, EndStep DEF n
<1> QED BY <1>8, <1>12 DEF StudyInv, n

\* A flag keeps the queue: neither the time nor the kind of the card changes.
LEMMA FlagKeeps ==
    ASSUME StudyInv, NEW c \in Browsed, set_card_flag(c)
    PROVE  StudyInv'
<1> USE DEF set_card_flag
<1> DEFINE n == Present'
           s == Step("SetFlag", {c}, studied, NoUpdate)
<1>1. /\ card \in [Cards -> Card] /\ studied \in Counter /\ c \in Cards /\ Present \in Moments
      /\ \A x \in Cards : card[x] \in Card /\ QueueFitsType(card[x])
      /\ queues = NoQueues \/ (QueueShape(queues) /\ QueueFits(queues, now))
  BY PresentFields, StudyAssumption
<1>2. /\ card' \in [Cards -> Card] /\ \A x \in Cards \ {c} : card'[x] = card[x]
      /\ SameStudy(card'[c], card[c]) /\ card'[c].queue = card[c].queue
  <2> DEFINE y == [card[c] EXCEPT !.flag = ~@]
  <2>1. card[c] \in Card BY <1>1
  <2>2. (~card[c].flag) \in BOOLEAN OBVIOUS
  <2>3. y \in Card /\ SameStudy(y, card[c]) /\ y.queue = card[c].queue
    BY <2>1, <2>2 DEF Card, SameStudy
  <2>4. card' = [card EXCEPT ![c] = y] BY <1>1
  <2> HIDE DEF y
  <2> QED BY <1>1, <2>3, <2>4
<1>3. n.card = card' /\ n.studied = studied /\ n.queues = queues /\ n \in Moments
  BY <1>1, <1>2 DEF Present, Moments, QueueShape
<1>4. Present.card = card /\ Present.studied = studied /\ Present.queues = queues BY DEF Present
<1> HIDE DEF n
<1>5. \A x \in Cards : QueueFitsType(card'[x]) /\ SameStudy(card'[x], card[x])
  <2> TAKE x \in Cards
  <2>1. CASE x = c
    <3>1. card'[c] \in Card /\ card[c] \in Card BY <1>1, <1>2
    <3>2. KindOf(card'[c]) = KindOf(card[c]) BY <3>1, <1>2, KindStays DEF SameStudy
    <3> QED BY <3>2, <2>1, <1>1, <1>2 DEF QueueFitsType
  <2>2. CASE x # c BY <2>2, <1>1, <1>2 DEF SameStudy
  <2> QED BY <2>1, <2>2
<1>6. Moment(Present, preset, now) BY DEF StudyInv
<1>7. queues = NoQueues \/ SameQueue(queues, queues) BY DEF SameQueue
<1>8. Moment(n, preset, now)
  BY <1>1, <1>3, <1>4, <1>5, <1>6, <1>7, MomentKept
<1>9. /\ s \in UndoStep /\ StepFits(s) /\ s.before = Present /\ s.op = "SetFlag" /\ s.update = NoUpdate
      /\ DOMAIN s.cards = {c}
  BY <1>1, StepTyped
<1> HIDE DEF s
<1>10. Linked(s, n) BY <1>2, <1>3, <1>4, <1>5, <1>9 DEF Linked, Unburied
<1>11. end_step(s) BY DEF s
<1>12. Between("undo", s, n, now) \/ queues' = NoQueues BY <1>3, <1>4, <1>7, <1>9 DEF Between, QueueLinked
<1>13. /\ undoSteps' \in Seq(UndoStep) /\ redoSteps' \in Seq(UndoStep)
       /\ Len(undoSteps') + Len(redoSteps') <= UndoLimit
       /\ Chain("undo", n, undoSteps', preset, now)
       /\ Chain("redo", n, redoSteps', preset, now)
  BY <1>8, <1>9, <1>10, <1>11, <1>12, EndStep DEF n
<1> QED BY <1>8, <1>13 DEF StudyInv, n

\* The counter of today as the queue and the answers read it.
LEMMA StudiedToday ==
    ASSUME StudyInv
    PROVE  /\ now \in Nat /\ now >= Epoch /\ today \in Nat /\ today = DayOf(now)
           /\ CounterFits(card, studied, now)
           /\ studied.day \in Nat /\ studied.new \in Nat /\ new_studied(studied, today) \in 0..NewPerDay
           /\ NewPerDay \in Nat
<1>1. now \in Nat /\ now >= Epoch BY DEF StudyInv, Epoch
<1>2. today \in Nat /\ today = DayOf(now) BY <1>1, NatTime
<1>3. CounterFits(card, studied, now)
  <2>1. Moment(Present, preset, now) BY DEF StudyInv
  <2>2. Present.card = card /\ Present.studied = studied BY DEF Present
  <2> QED BY <2>1, <2>2 DEF Moment
<1>4. studied.day \in Nat /\ studied.new \in Nat BY PresentFields DEF Counter
<1>5. NewPerDay \in Nat BY StudyAssumption
<1>6. new_studied(studied, today) \in 0..NewPerDay BY <1>3, <1>4, <1>5 DEF CounterFits, new_studied
<1> QED BY <1>1, <1>2, <1>3, <1>4, <1>5, <1>6

\* A queue that is built anew makes a moment with the cards it is built from.
LEMMA BuiltMoment ==
    ASSUME StudyInv, NEW table \in [Cards -> Card], \A c \in Cards : Unburied(table[c], card[c]),
           NEW b \in Nat \ {0}
    PROVE  LET q == build_queues(table, b)
           IN /\ QueueFits(q, now) /\ q.build = b
              /\ Moment([card |-> table, studied |-> studied, queues |-> q], preset, now)
<1> DEFINE q == build_queues(table, b)
           n == [card |-> table, studied |-> studied, queues |-> q]
           l == [card |-> table, studied |-> studied, queues |-> NoQueues]
<1>1. /\ card \in [Cards -> Card] /\ studied \in Counter /\ preset \in Preset
      /\ \A c \in Cards : card[c] \in Card /\ QueueFitsType(card[c])
  BY PresentFields
<1>2. \A c \in Cards : QueueFitsType(table[c]) /\ SameStudy(table[c], card[c]) BY <1>1, UnburiedFits
<1>3. /\ QueueFits(q, now) /\ q.build = b /\ KindsTrue(q, table) /\ Current(q, table)
      /\ CountKind(q.main, "new") <= NewPerDay - new_studied(studied, today)
      /\ Graded(preset) => SiblingsSpared(q, preset)
  BY <1>1, <1>2, StudiedToday, BuildFits
<1> HIDE DEF q
<1>4. q \in CardQueues /\ q.main \in Seq(QueueEntry) /\ Distinct(q.main)
  BY <1>3, ShapeOf DEF QueueFits, QueueShape
<1>5. n \in Moments /\ n.card = table /\ n.studied = studied /\ n.queues = q BY <1>1, <1>4 DEF Moments
<1>6. CountKind(q.main, "new") \in Nat BY <1>4, CountedKind
<1>7. RoomLeft(q, studied, now) BY <1>3, <1>6, StudiedToday DEF RoomLeft, new_studied
<1>8. CounterFits(table, studied, now)
  <2>1. l \in Moments /\ l.card = table /\ l.studied = studied /\ l.queues = NoQueues BY <1>1 DEF Moments
  <2>2. Moment(Present, preset, now) BY DEF StudyInv
  <2>3. Present.card = card /\ Present.studied = studied BY DEF Present
  <2> HIDE DEF l
  <2>4. \A c \in Cards : QueueFitsType(l.card[c]) /\ SameStudy(l.card[c], Present.card[c]) BY <1>2, <2>1, <2>3
  <2>5. l.studied = Present.studied BY <2>1, <2>3
  <2>6. Moment(l, preset, now) BY <2>1, <2>2, <2>4, <2>5, MomentKept
  <2> QED BY <2>1, <2>6 DEF Moment
<1> HIDE DEF n
<1>9. Moment(n, preset, now) BY <1>2, <1>3, <1>5, <1>7, <1>8 DEF Moment
<1> QED BY <1>3, <1>9 DEF q, n

\* Reading the queue builds it, moves its cutoff, or neither: a step the new queue could take back
\* is not in the stacks, since no kept step has its build time.
LEMMA GetKeeps ==
    ASSUME StudyInv, get_queued_cards, fault = "none"
    PROVE  StudyInv'
<1> DEFINE m == Present
           n == [card |-> card', studied |-> studied', queues |-> queues']
           built == IF queues = NoQueues \/ is_stale THEN build_queues(card', FreshBuild) ELSE queues
           l == [card |-> card', studied |-> studied, queues |-> built]
<1>1. /\ shown = NoCard /\ clear_queues_if_day_changed
      /\ queues' = IF all_zero(built) THEN update_learning_cutoff_and_count(built) ELSE built
      /\ studied' = studied /\ preset' = preset /\ now' = now /\ ops' = ops
      /\ IF Finished(queues') THEN UNCHANGED <<shown, fault>>
         ELSE LET next == front(queues') IN
              IF card'[next.id].mtime = next.mtime
              THEN /\ shown' = [id |-> next.id, state |-> current_card_state(card'[next.id], today)]
                   /\ UNCHANGED fault
              ELSE fault' = "stale entry" /\ UNCHANGED shown
  BY DEF get_queued_cards, get_queues
<1>2. /\ m \in Moments /\ card \in [Cards -> Card] /\ studied \in Counter
      /\ queues = NoQueues \/ QueueFits(queues, now)
      /\ \A c \in Cards : card[c] \in Card /\ QueueFitsType(card[c])
      /\ now \in Nat /\ now >= Epoch
      /\ undoSteps \in Seq(UndoStep) /\ redoSteps \in Seq(UndoStep)
      /\ Moment(m, preset, now)
      /\ Chain("undo", m, undoSteps, preset, now) /\ Chain("redo", m, redoSteps, preset, now)
  BY PresentFields, StudiedToday DEF StudyInv
<1>3. card' \in [Cards -> Card] /\ \A c \in Cards : Unburied(card'[c], card[c])
  BY <1>1, <1>2, UnburyFits DEF clear_queues_if_day_changed, Unburied
<1>4. m.card = card /\ m.studied = studied /\ m.queues = queues BY DEF Present
<1>5. l.card = card' /\ l.studied = studied /\ l.queues = built OBVIOUS
<1> HIDE DEF m, l, built
<1>6. Moment(l, preset, now) /\ QueueFits(built, now)
  <2>1. CASE queues = NoQueues \/ is_stale
    <3>1. built = build_queues(card', FreshBuild) BY <2>1 DEF built
    <3>2. FreshBuild \in Nat \ {0} BY FreshExists
    <3>3. l = [card |-> card', studied |-> studied, queues |-> build_queues(card', FreshBuild)] BY <3>1 DEF l
    <3> QED BY <3>1, <3>2, <3>3, <1>3, BuiltMoment
  <2>2. CASE ~(queues = NoQueues \/ is_stale)
    <3>1. built = queues /\ card' = card BY <2>2, <1>1 DEF built, clear_queues_if_day_changed
    <3>2. l = m BY <3>1 DEF l, m, Present
    <3> QED BY <3>1, <3>2, <2>2, <1>2
  <2> QED BY <2>1, <2>2
<1>7. built # NoQueues BY <1>6, ShapeOf DEF QueueFits
<1>8. QueueFits(queues', now) /\ SameQueue(queues', built)
  <2>1. CASE all_zero(built)
    <3>1. queues' = update_learning_cutoff_and_count(built) BY <2>1, <1>1
    <3>2. now <= now BY <1>2
    <3> QED BY <3>1, <3>2, <1>2, <1>6, UpdateCutoff
  <2>2. CASE ~all_zero(built) BY <2>2, <1>1, <1>6, <1>7 DEF SameQueue
  <2> QED BY <2>1, <2>2
<1>9. n.card = card' /\ n.studied = studied /\ n.queues = queues' /\ n \in Moments
  BY <1>1, <1>2, <1>3, <1>8 DEF Moments, QueueFits, QueueShape
<1> HIDE DEF n
<1>10. Moment(n, preset, now)
  <2>1. \A c \in Cards : QueueFitsType(n.card[c]) /\ SameStudy(n.card[c], l.card[c])
    BY <1>5, <1>6, <1>9 DEF Moment, SameStudy
  <2>2. n.studied = l.studied /\ SameQueue(n.queues, l.queues) /\ QueueFits(n.queues, now) BY <1>5, <1>8, <1>9
  <2> QED BY <2>1, <2>2, <1>6, <1>9, MomentKept
<1>11. /\ undoSteps' \in Seq(UndoStep) /\ redoSteps' \in Seq(UndoStep)
       /\ Len(undoSteps') + Len(redoSteps') <= UndoLimit
       /\ Chain("undo", n, undoSteps', preset, now) /\ Chain("redo", n, redoSteps', preset, now)
  <2>1. CASE is_stale
    <3>1. undoSteps' = <<>> /\ redoSteps' = <<>> BY <2>1, <1>1 DEF clear_queues_if_day_changed, begin_step_none
    <3>2. \A dir : Chain(dir, n, <<>>, preset, now) /\ <<>> \in Seq(UndoStep) /\ Len(<<>>) = 0 BY EmptyChain
    <3>3. Len(<<>>) + Len(<<>>) <= UndoLimit BY <3>2, StudyAssumption
    <3> QED BY <3>1, <3>2, <3>3
  <2>2. CASE ~is_stale
    <3>1. undoSteps' = undoSteps /\ redoSteps' = redoSteps BY <2>2, <1>1 DEF clear_queues_if_day_changed
    <3>2. Follows(n, m, undoSteps) /\ Follows(n, m, redoSteps)
      <4>1. CASE queues = NoQueues
        <5>1. queues'.build = FreshBuild
          <6>1. built = build_queues(card', FreshBuild) BY <4>1 DEF built
          <6>2. built.build = FreshBuild BY <6>1 DEF build_queues
          <6> QED BY <6>2, <1>8 DEF SameQueue
        <5>2. Forgotten(queues', undoSteps, 1) /\ Forgotten(queues', redoSteps, 1)
          BY <5>1, FreshExists DEF Forgotten
        <5> QED BY <5>2, <1>3, <1>4, <1>9 DEF Follows
      <4>2. CASE queues # NoQueues
        <5>1. built = queues BY <4>2, <2>2 DEF built
        <5> QED BY <5>1, <1>3, <1>4, <1>8, <1>9 DEF Follows
      <4> QED BY <4>1, <4>2
    <3>3. Chain("undo", n, undoSteps, preset, now) /\ Chain("redo", n, redoSteps, preset, now)
      BY <3>2, <1>2, <1>9, ChainFollows
    <3> QED BY <3>1, <3>3, <1>2 DEF StudyInv
  <2> QED BY <2>1, <2>2
<1>12. /\ shown' = NoCard \/ shown'.id \in Cards
       /\ shown' # NoCard /\ fault' = "none" =>
             queues' # NoQueues /\ ~Finished(queues') /\ front(queues').id = shown'.id
       /\ fault' \in {"none", "stale entry", "no operation"}
       /\ Graded(preset) => fault' # "stale entry"
  <2>1. CASE Finished(queues') BY <2>1, <1>1 DEF StudyInv
  <2>2. CASE ~Finished(queues')
    <3> DEFINE next == front(queues')
    <3>1. QueueShape(queues') BY <1>8 DEF QueueFits
    <3>2. next \in EntriesIn(queues') /\ queues' # NoQueues BY <2>2, <3>1, FrontIsTop, ShapeOf
    <3>3. next \in QueueEntry BY <3>1, <3>2, ShapeOf
    <3>4. next.id \in Cards BY <3>3 DEF QueueEntry
    <3>5. Graded(preset) => card'[next.id].mtime = next.mtime
      BY <1>9, <1>10, <3>2 DEF Moment, Current
    <3> HIDE DEF next
    <3>6. CASE card'[next.id].mtime = next.mtime
      <4>1. fault' = fault /\ shown'.id = next.id BY <3>6, <2>2, <1>1 DEF next
      <4>2. fault' = "none" BY <4>1
      <4> QED BY <4>1, <4>2, <3>2, <3>4, <2>2 DEF next
    <3>7. CASE card'[next.id].mtime # next.mtime
      <4>1. fault' = "stale entry" /\ shown' = NoCard BY <3>7, <2>2, <1>1 DEF next
      <4> QED BY <4>1, <3>5, <3>7
    <3> QED BY <3>6, <3>7
  <2> QED BY <2>1, <2>2
<1>13. Present' = n BY DEF Present, n
<1> QED BY <1>1, <1>10, <1>11, <1>12, <1>13 DEF StudyInv

\* A learning due is a time or a day, and the queue says which.
LEMMA LearningFits ==
    ASSUME NEW old \in Card, NEW type \in {"learn", "relearn"},
           now \in Nat, Epoch <= now, now <= Epoch + MaxTime
    PROVE  LET r == LearningFrom(old, type)
           IN r \in Card /\ QueueFitsType(r) /\ r.introduced = old.introduced
<1> DEFINE r == LearningFrom(old, type)
           over == LearnStep - (next_day_at - now)
           d == today + 1 + over \div DayLength
           late == now + LearnStep
<1>1. /\ today \in Nat /\ next_day_at \in Nat /\ now < next_day_at /\ DayLength \in Nat \ {0} /\ LearnStep \in Nat \ {0}
      /\ MaxTime \in Nat /\ MaxTime + LearnStep < Epoch /\ Epoch = 1000
  BY NatTime, StudyAssumption, DaysBelowEpoch DEF Epoch
<1>2. CASE LearnStep >= next_day_at - now
  <2>1. over \in Nat BY <1>1, <1>2
  <2>2. today + 1 <= (today + 1) * DayLength /\ (today + 1) * DayLength \in Nat
    <3>1. \A a \in Nat, b \in Nat \ {0} : a <= a * b /\ a * b \in Nat
      <4> TAKE a \in Nat, b \in Nat \ {0}
      <4>1. b - 1 \in Nat OBVIOUS
      <4>2. a * (b - 1) \in Nat BY <4>1
      <4>3. a * b = a * (b - 1) + a OBVIOUS
      <4> DEFINE x == a * (b - 1)
                 y == a * b
      <4>4. y = x + a /\ x \in Nat BY <4>2, <4>3
      <4> HIDE DEF x, y
      <4>5. a <= y /\ y \in Nat BY <4>4
      <4> QED BY <4>5 DEF y
    <3>2. today + 1 \in Nat BY <1>1
    <3> QED BY <1>1, <3>1, <3>2
  <2>3. over \div DayLength \in Nat /\ over \div DayLength <= over
    <3>1. \A a \in Nat, b \in Nat \ {0} : a \div b \in Nat /\ a \div b <= a OBVIOUS
    <3> HIDE DEF over
    <3> QED BY <1>1, <2>1, <3>1
  <2>4. d \in Nat /\ d <= Epoch
    <3> DEFINE x == (today + 1) * DayLength
               k == over \div DayLength
    <3>1. next_day_at = Epoch + x BY DEF next_day_at
    <3>2. k \in Nat /\ x \in Nat /\ today + 1 <= x /\ k <= LearnStep - (next_day_at - now) BY <2>2, <2>3
    <3>3. d = today + 1 + k OBVIOUS
    <3> HIDE DEF x, k, d
    <3> QED BY <1>1, <3>1, <3>2, <3>3
  <2> HIDE DEF d
  <2>5. r = [old EXCEPT !.queue = "daylearn", !.type = type, !.due = d] BY <1>2 DEF LearningFrom, d
  <2>6. /\ r \in Card /\ r.queue = "daylearn" /\ r.type = type /\ r.due = d /\ r.introduced = old.introduced
    BY <2>4, <2>5 DEF Card, CardQueue, CardType
  <2> HIDE DEF r
  <2>7. ~(d > Epoch) BY <2>4, <1>1
  <2>8. QueueFitsType(r)
    BY <2>6, <2>7 DEF QueueFitsType, KindOf, restore_queue_from_type, is_unix_epoch_timestamp, Card
  <2> QED BY <2>6, <2>8 DEF r
<1>3. CASE ~(LearnStep >= next_day_at - now)
  <2>1. late \in Nat /\ late > Epoch BY <1>1
  <2> HIDE DEF late
  <2>2. r = [old EXCEPT !.queue = "learn", !.type = type, !.due = late] BY <1>3 DEF LearningFrom, late
  <2>3. /\ r \in Card /\ r.queue = "learn" /\ r.type = type /\ r.due = late /\ r.introduced = old.introduced
    BY <2>1, <2>2 DEF Card, CardQueue, CardType
  <2> HIDE DEF r
  <2>4. QueueFitsType(r)
    BY <2>1, <2>3 DEF QueueFitsType, KindOf, restore_queue_from_type, is_unix_epoch_timestamp, Card
  <2> QED BY <2>3, <2>4 DEF r
<1> QED BY <1>2, <1>3

\* The card after an answer: modified now, in the queue of its type, introduced if it was new.
LEMMA AnsweredFits ==
    ASSUME NEW old \in Card, NEW rating, now \in Nat, Epoch <= now, now <= Epoch + MaxTime
    PROVE  LET r == Answered(old, rating)
           IN /\ r \in Card /\ QueueFitsType(r) /\ r.mtime = now
              /\ r.introduced = IF old.queue = "new" THEN today ELSE old.introduced
<1> DEFINE a == apply_review_state(old)
           r == Answered(old, rating)
           next == CASE rating = "again" /\ old.type \in {"review", "relearn"} -> LearningFrom(old, "relearn")
                     [] rating = "again" -> LearningFrom(old, "learn")
                     [] OTHER -> a
<1>0. today \in Nat BY NatTime DEF Epoch
<1>1. a \in Card /\ QueueFitsType(a) /\ a.introduced = old.introduced
  <2> DEFINE d == today + 1
  <2>1. d \in Nat BY <1>0
  <2> HIDE DEF d
  <2>2. a = [old EXCEPT !.queue = "review", !.type = "review", !.due = d] BY DEF apply_review_state, d
  <2>3. a \in Card /\ a.queue = "review" /\ a.type = "review" /\ a.introduced = old.introduced
    BY <2>1, <2>2 DEF Card, CardQueue, CardType
  <2> HIDE DEF a
  <2>4. QueueFitsType(a) BY <2>3 DEF QueueFitsType, KindOf, restore_queue_from_type, Card
  <2> QED BY <2>3, <2>4
<1>2. \A type \in {"learn", "relearn"} :
         /\ LearningFrom(old, type) \in Card /\ QueueFitsType(LearningFrom(old, type))
         /\ LearningFrom(old, type).introduced = old.introduced
  BY LearningFits
<1> HIDE DEF a
<1>3. next \in Card /\ QueueFitsType(next) /\ next.introduced = old.introduced BY <1>1, <1>2
<1> HIDE DEF next
<1> DEFINE i == IF old.queue = "new" THEN today ELSE next.introduced
<1>4. i \in Int /\ i = IF old.queue = "new" THEN today ELSE old.introduced BY <1>0, <1>3, CardFields
<1>5. r = [next EXCEPT !.mtime = now, !.introduced = i] BY DEF Answered, next, a
<1> HIDE DEF i, r
<1>6. /\ r \in Card /\ r.mtime = now /\ r.introduced = i
      /\ r.queue = next.queue /\ r.type = next.type /\ r.due = next.due
  BY <1>3, <1>4, <1>5 DEF Card
<1>7. KindOf(r) = KindOf(next) BY <1>3, <1>6, KindStays
<1>8. QueueFitsType(r) BY <1>3, <1>6, <1>7 DEF QueueFitsType
<1> QED BY <1>4, <1>6, <1>8 DEF r

\* Siblings are buried only from a kind the preset buries.
LEMMA BuriedSiblings ==
    ASSUME preset \in Preset, NEW c \in Cards
    PROVE  /\ siblings_for_bury(c) \subseteq Cards \ {c}
           /\ \A x \in siblings_for_bury(c) :
                 /\ NoteOf[x] = NoteOf[c]
                 /\ card[x].queue \in {"new", "review", "daylearn"} /\ preset[card[x].queue]
<1> DEFINE mode == exclude_earlier_gathered_queues(card[c].queue)
<1>1. /\ DOMAIN mode = {"new", "review", "daylearn"}
      /\ \A k \in {"new", "review", "daylearn"} : mode[k] => preset[k]
  <2>1. DOMAIN preset = {"new", "review", "daylearn"} BY DEF Preset
  <2> QED BY <2>1 DEF exclude_earlier_gathered_queues
<1> HIDE DEF mode
<1>2. siblings_for_bury(c) = {s \in Cards \ {c} : /\ NoteOf[s] = NoteOf[c]
                                                  /\ card[s].queue \in DOMAIN mode /\ mode[card[s].queue]}
  BY DEF siblings_for_bury, mode
<1> QED BY <1>1, <1>2

\* The counter after an answer, when there was room for it.
LEMMA AnswerCounter ==
    ASSUME StudyInv, NEW c \in Cards, NEW table \in [Cards -> Card],
           \A x \in Cards \ {c} : table[x].introduced = card[x].introduced,
           table[c].introduced = (IF card[c].queue = "new" THEN today ELSE card[c].introduced),
           update_deck_stats(c).new <= NewPerDay
    PROVE  update_deck_stats(c) \in Counter /\ CounterFits(table, update_deck_stats(c), now)
<1> DEFINE u == update_deck_stats(c)
           one == IF card[c].queue = "new" THEN 1 ELSE 0
           k == new_studied(studied, today)
<1>1. /\ now \in Nat /\ now >= Epoch /\ today \in Nat /\ today = DayOf(now)
      /\ CounterFits(card, studied, now)
      /\ studied.day \in Nat /\ studied.new \in Nat /\ k \in 0..NewPerDay /\ NewPerDay \in Nat
  BY StudiedToday
<1>2. k \in Nat BY <1>1
<1>3. u \in Counter /\ u.day = today /\ u.new = k + one
  <2> DEFINE j == k + one
  <2> HIDE DEF k
  <2>1. j \in Nat BY <1>2
  <2>2. u = [day |-> today, new |-> j] BY DEF update_deck_stats, k
  <2> HIDE DEF j, u
  <2>3. u \in Counter /\ u.day = today /\ u.new = j BY <1>1, <2>1, <2>2 DEF Counter
  <2> QED BY <2>3 DEF j
<1>4. \A x \in Cards : card[x].introduced \in Int BY PresentFields, CardFields
<1>5. IsFiniteSet(Cards) BY StudyAssumption
<1>6. \A t, day : IsFiniteSet(IntroducedOn(t, day)) /\ Cardinality(IntroducedOn(t, day)) \in Nat
  BY <1>5, FS_Subset, FS_CardinalityType DEF IntroducedOn
<1>7. Cardinality(IntroducedOn(card, today)) <= k
  <2>1. CASE studied.day = today BY <2>1, <1>1 DEF CounterFits, new_studied
  <2>2. CASE studied.day # today
    <3>1. \A x \in Cards : card[x].introduced # today
      <4> SUFFICES ASSUME NEW x \in Cards, card[x].introduced = today PROVE FALSE OBVIOUS
      <4>1. card[x].introduced >= DayOf(now) BY <1>1
      <4>2. card[x].introduced = studied.day BY <4>1, <1>1 DEF CounterFits
      <4> QED BY <4>2, <2>2
    <3>2. IntroducedOn(card, today) = {} BY <3>1 DEF IntroducedOn
    <3>3. Cardinality(IntroducedOn(card, today)) = 0 BY <3>2, FS_EmptySet
    <3> QED BY <3>3, <1>2
  <2> QED BY <2>1, <2>2
<1>8. Cardinality(IntroducedOn(table, today)) <= k + one
  <2>1. CASE card[c].queue = "new"
    <3>1. IntroducedOn(table, today) \subseteq IntroducedOn(card, today) \union {c} BY DEF IntroducedOn
    <3>2. /\ IsFiniteSet(IntroducedOn(card, today) \union {c})
          /\ Cardinality(IntroducedOn(card, today) \union {c}) <= Cardinality(IntroducedOn(card, today)) + 1
      <4> DEFINE A == IntroducedOn(card, today)
      <4>1. IsFiniteSet(A) /\ Cardinality(A) \in Nat BY <1>6
      <4> HIDE DEF A
      <4>2. /\ IsFiniteSet(A \union {c})
            /\ Cardinality(A \union {c}) = IF c \in A THEN Cardinality(A) ELSE Cardinality(A) + 1
        BY <4>1, FS_AddElement
      <4>3. Cardinality(A \union {c}) <= Cardinality(A) + 1 BY <4>1, <4>2
      <4> QED BY <4>2, <4>3 DEF A
    <3>3. Cardinality(IntroducedOn(table, today)) <= Cardinality(IntroducedOn(card, today) \union {c})
      BY <3>1, <3>2, FS_Subset
    <3>4. Cardinality(IntroducedOn(card, today) \union {c}) \in Nat BY <3>2, FS_CardinalityType
    <3> HIDE DEF k
    <3> QED BY <2>1, <3>2, <3>3, <3>4, <1>2, <1>6, <1>7
  <2>2. CASE card[c].queue # "new"
    <3>1. IntroducedOn(table, today) = IntroducedOn(card, today) BY <2>2 DEF IntroducedOn
    <3> HIDE DEF k
    <3> QED BY <3>1, <2>2, <1>2, <1>6, <1>7
  <2> QED BY <2>1, <2>2
<1>9. \A day \in Nat : Cardinality(IntroducedOn(table, day)) <= NewPerDay
  <2> TAKE day \in Nat
  <2>1. CASE day = today
    <3> HIDE DEF k
    <3> QED BY <2>1, <1>1, <1>2, <1>3, <1>6, <1>8
  <2>2. CASE day # today
    <3>1. IntroducedOn(table, day) \subseteq IntroducedOn(card, day) BY <2>2 DEF IntroducedOn
    <3>2. Cardinality(IntroducedOn(table, day)) <= Cardinality(IntroducedOn(card, day)) BY <3>1, <1>6, FS_Subset
    <3>3. Cardinality(IntroducedOn(card, day)) <= NewPerDay BY <1>1 DEF CounterFits
    <3> QED BY <3>2, <3>3, <1>1, <1>6
  <2> QED BY <2>1, <2>2
<1>10. \A x \in Cards : table[x].introduced >= DayOf(now) => table[x].introduced = today
  <2> TAKE x \in Cards
  <2>1. card[x].introduced >= today => card[x].introduced = today
    <3> HAVE card[x].introduced >= today
    <3>1. card[x].introduced = studied.day BY <1>1 DEF CounterFits
    <3>2. studied.day <= today BY <1>1 DEF CounterFits
    <3> QED BY <3>1, <3>2, <1>1, <1>4
  <2> QED BY <2>1, <1>1
<1>11. u.day <= DayOf(now) BY <1>1, <1>3
<1>12. Cardinality(IntroducedOn(table, u.day)) <= u.new BY <1>3, <1>8
<1>13. u.new <= NewPerDay OBVIOUS
<1>14. \A x \in Cards : table[x].introduced >= DayOf(now) => table[x].introduced = u.day BY <1>3, <1>10
<1> HIDE DEF u
<1>15. CounterFits(table, u, now) BY <1>9, <1>11, <1>12, <1>13, <1>14 DEF CounterFits
<1> QED BY <1>3, <1>15 DEF u

\* An answer: the queue changes in place as the recorded update says, the card and its buried
\* siblings change in the table, and under graded options none of the siblings is in the queue.
LEMMA AnswerKeeps ==
    ASSUME StudyInv, NEW rating \in {"again", "good"}, answer_card(rating), fault = "none"
    PROVE  StudyInv'
<1> DEFINE c == shown.id
           e == front(queues)
           old == card[c]
           next == Answered(old, rating)
           siblings == siblings_for_bury(c)
           popped == pop_entry(queues, c)
           requeue == learning_requeue(popped, c, next)
           placed == Requeued(popped, requeue)
           update == [build |-> queues.build, entry |-> TopEntry(queues, c),
                      requeue |-> requeue, learning |-> placed.learning, cutoff |-> placed.cutoff]
           post == update_learning_cutoff_and_count(placed)
           s == Step("AnswerCard", {c} \union siblings, studied, update)
           n == Present'
<1>1. /\ shown # NoCard
      /\ card' = [x \in Cards |-> CASE x = c -> next
                                    [] x \in siblings -> [card[x] EXCEPT !.queue = "schedburied", !.mtime = now]
                                    [] OTHER -> card[x]]
      /\ studied' = update_deck_stats(c) /\ queues' = post /\ end_step(s)
      /\ shown' = NoCard /\ preset' = preset /\ now' = now /\ fault' = fault
  BY DEF answer_card
<1>2. /\ queues # NoQueues /\ ~Finished(queues) /\ e.id = c /\ c \in Cards BY <1>1 DEF StudyInv
<1>3. /\ card \in [Cards -> Card] /\ studied \in Counter /\ preset \in Preset /\ Present \in Moments
      /\ QueueShape(queues) /\ QueueFits(queues, now)
      /\ \A x \in Cards : card[x] \in Card /\ QueueFitsType(card[x])
  BY <1>2, PresentFields
<1>4. now \in Nat /\ Epoch <= now /\ now <= Epoch + MaxTime BY DEF StudyInv
<1>5. /\ KindsTrue(queues, card) /\ RoomLeft(queues, studied, now)
      /\ Graded(preset) => Current(queues, card) /\ SiblingsSpared(queues, preset)
  <2>1. Moment(Present, preset, now) BY DEF StudyInv
  <2>2. Present.card = card /\ Present.studied = studied /\ Present.queues = queues BY DEF Present
  <2> QED BY <2>1, <2>2, <1>2 DEF Moment
<1> HIDE DEF e, c, n
<1>6. /\ next \in Card /\ QueueFitsType(next) /\ next.mtime = now
      /\ next.introduced = IF old.queue = "new" THEN today ELSE old.introduced
  BY <1>2, <1>3, <1>4, AnsweredFits
<1> HIDE DEF next
<1>7. QueueShape(popped) /\ e \in EntriesIn(queues)
  <2>1. e \in EntriesIn(queues) /\ IsTop(queues, e) BY <1>2, <1>3, FrontIsTop DEF e
  <2>2. QueueShape(pop_entry(queues, e.id)) BY <2>1, <1>3, PopTop
  <2> QED BY <2>1, <2>2, <1>2
<1>8. \/ requeue = NoEntry
      \/ /\ next.queue = "learn" /\ requeue \in QueueEntry /\ requeue.kind = "learn"
         /\ requeue.id = c /\ requeue.mtime = next.mtime
  <2> HIDE DEF popped
  <2> QED BY <1>2, <1>6, <1>7, RequeuedEntry
<1>9. /\ e \in QueueEntry /\ update.entry = e
      /\ QueueFits(post, now) /\ UpdateFits(update) /\ Moved(queues, update, post, now)
      /\ EntriesIn(post) = (EntriesIn(queues) \ {e}) \union (IF requeue = NoEntry THEN {} ELSE {requeue})
      /\ \A x \in EntriesIn(queues) \ {e} : x.id # c
      /\ CountKind(queues.main, "new") = CountKind(post.main, "new") + IF e.kind = "new" THEN 1 ELSE 0
  <2> DEFINE r == requeue
  <2>1. r = NoEntry \/ (r \in QueueEntry /\ r.kind = "learn" /\ r.id = front(queues).id) BY <1>2, <1>8 DEF e
  <2> HIDE DEF r
  <2>2. LET placed2 == Requeued(pop_entry(queues, e.id), r)
            u == [build |-> queues.build, entry |-> TopEntry(queues, e.id), requeue |-> r,
                  learning |-> placed2.learning, cutoff |-> placed2.cutoff]
            post2 == update_learning_cutoff_and_count(placed2)
        IN /\ e \in QueueEntry /\ u.entry = e
           /\ QueueFits(post2, now) /\ UpdateFits(u) /\ Moved(queues, u, post2, now)
           /\ EntriesIn(post2) = (EntriesIn(queues) \ {e}) \union (IF r = NoEntry THEN {} ELSE {r})
           /\ \A x \in EntriesIn(queues) \ {e} : x.id # e.id
           /\ CountKind(queues.main, "new") = CountKind(post2.main, "new") + IF e.kind = "new" THEN 1 ELSE 0
    BY <2>1, <1>2, <1>3, <1>4, AnswerQueue DEF e
  <2> QED BY <2>2, <1>2 DEF r
<1>10. /\ siblings \subseteq Cards \ {c}
       /\ \A x \in siblings : /\ NoteOf[x] = NoteOf[c]
                              /\ card[x].queue \in {"new", "review", "daylearn"} /\ preset[card[x].queue]
  BY <1>2, <1>3, BuriedSiblings
<1>11. update \in Update /\ update # NoUpdate
  <2>1. /\ queues.build \in Nat \ {0} /\ update.learning \in Nat /\ update.cutoff \in Nat /\ update.entry \in QueueEntry
        /\ requeue \in {NoEntry} \union QueueEntry /\ update.build \in Nat \ {0}
    BY <1>8, <1>9 DEF UpdateFits
  <2> HIDE DEF requeue, placed
  <2>2. update \in Update BY <2>1 DEF Update
  <2>3. NoUpdate.build = 0 BY DEF NoUpdate
  <2> QED BY <2>1, <2>2, <2>3
<1> HIDE DEF siblings, popped, requeue, placed, update, post
<1>12. /\ s \in UndoStep /\ StepFits(s) /\ s.before = Present /\ s.op = "AnswerCard" /\ s.update = update
       /\ DOMAIN s.cards = {c} \union siblings
  <2>1. {c} \union siblings \in SUBSET Cards /\ {c} \union siblings # {} BY <1>2, <1>10
  <2> QED BY <2>1, <1>9, <1>11, StepTyped
<1> HIDE DEF s
<1>13. /\ card' \in [Cards -> Card] /\ card'[c] = next
       /\ \A x \in siblings : /\ card'[x].queue = "schedburied" /\ card'[x].introduced = card[x].introduced
                              /\ card'[x].type = card[x].type /\ card'[x].due = card[x].due
       /\ \A x \in Cards : x \notin siblings /\ x # c => card'[x] = card[x]
  <2>1. \A x \in Cards : LET y == [card[x] EXCEPT !.queue = "schedburied", !.mtime = now]
                         IN /\ y \in Card /\ y.queue = "schedburied" /\ y.introduced = card[x].introduced
                            /\ y.type = card[x].type /\ y.due = card[x].due
    BY <1>3, <1>4 DEF Card, CardQueue, Buried
  <2>2. \A x \in Cards : card'[x] = (CASE x = c -> next
                                       [] x \in siblings -> [card[x] EXCEPT !.queue = "schedburied", !.mtime = now]
                                       [] OTHER -> card[x])
    BY <1>1
  <2>3. \A x \in Cards : card'[x] \in Card BY <2>1, <2>2, <1>3, <1>6
  <2>4. card' \in [Cards -> Card] BY <2>3, <1>1
  <2>5. \A x \in siblings : card'[x] = [card[x] EXCEPT !.queue = "schedburied", !.mtime = now] BY <2>2, <1>10
  <2>6. siblings \subseteq Cards BY <1>10
  <2>7. card'[c] = next BY <2>2, <1>2, <1>10
  <2>8. \A x \in Cards : x \notin siblings /\ x # c => card'[x] = card[x] BY <2>2
  <2>9. \A x \in siblings : /\ card'[x].queue = "schedburied" /\ card'[x].introduced = card[x].introduced
                            /\ card'[x].type = card[x].type /\ card'[x].due = card[x].due
    BY <2>1, <2>5, <2>6
  <2> QED BY <2>4, <2>7, <2>8, <2>9
<1>14. \A x \in Cards : QueueFitsType(card'[x])
  BY <1>3, <1>6, <1>13 DEF QueueFitsType, QueueKind
<1>15. \A x \in Cards \ {c} : /\ card'[x].introduced = card[x].introduced
                              /\ KindOf(card'[x]) = KindOf(card[x])
  <2> TAKE x \in Cards \ {c}
  <2>1. card'[x] \in Card /\ card[x] \in Card BY <1>3, <1>13
  <2>2. card'[x].introduced = card[x].introduced /\ card'[x].type = card[x].type /\ card'[x].due = card[x].due
    BY <1>13
  <2> QED BY <2>1, <2>2, KindStays
<1>16. e.kind = KindOf(old) /\ (old.queue = "new" => e.kind = "new")
  <2>1. e.kind = KindOf(card[e.id]) BY <1>5, <1>7 DEF KindsTrue
  <2>2. QueueFitsType(old) BY <1>2, <1>3
  <2> QED BY <2>1, <2>2, <1>2 DEF QueueFitsType, QueueKind
<1>17. /\ update_deck_stats(c) \in Counter
       /\ CountKind(post.main, "new") + update_deck_stats(c).new <= NewPerDay
       /\ CountKind(post.main, "new") <= NewPerDay
       /\ update_deck_stats(c).new <= NewPerDay
       /\ CounterFits(card', update_deck_stats(c), now)
  <2> DEFINE k == new_studied(studied, today)
             one == IF old.queue = "new" THEN 1 ELSE 0
             a == CountKind(queues.main, "new")
             b == CountKind(post.main, "new")
  <2>1. k \in Nat /\ NewPerDay \in Nat BY StudiedToday
  <2>2. a \in Nat /\ b \in Nat
    <3>1. QueueShape(post) BY <1>9 DEF QueueFits
    <3> QED BY <3>1, <1>3, ShapeOf, CountedKind
  <2>3. a + k <= NewPerDay BY <2>1, <2>2, <1>5, StudiedToday DEF RoomLeft, new_studied
  <2>4. a = b + IF e.kind = "new" THEN 1 ELSE 0 BY <1>9
  <2>5. update_deck_stats(c).new = k + one BY DEF update_deck_stats
  <2> HIDE DEF k, a, b
  <2>6. b + (k + one) <= NewPerDay /\ b <= NewPerDay /\ k + one <= NewPerDay
    BY <2>1, <2>2, <2>3, <2>4, <1>16
  <2>7. \A x \in Cards \ {c} : card'[x].introduced = card[x].introduced BY <1>15
  <2>8. card'[c].introduced = IF card[c].queue = "new" THEN today ELSE card[c].introduced BY <1>6, <1>13
  <2>9. update_deck_stats(c).new <= NewPerDay BY <2>5, <2>6
  <2>10. update_deck_stats(c) \in Counter /\ CounterFits(card', update_deck_stats(c), now)
    BY <2>7, <2>8, <2>9, <1>2, <1>13, AnswerCounter
  <2> QED BY <2>5, <2>6, <2>9, <2>10 DEF b
<1>18. \A x \in EntriesIn(queues) : x.id \in Cards
  <2>1. EntriesIn(queues) \subseteq QueueEntry BY <1>3, ShapeOf
  <2> QED BY <2>1 DEF QueueEntry
<1>19. KindsTrue(post, card')
  <2> SUFFICES ASSUME NEW x \in EntriesIn(post) PROVE x.kind = KindOf(card'[x.id]) BY DEF KindsTrue
  <2>1. CASE x \in EntriesIn(queues) \ {e}
    <3>1. x.id \in Cards \ {c} BY <2>1, <1>9, <1>18
    <3> QED BY <2>1, <3>1, <1>5, <1>15 DEF KindsTrue
  <2>2. CASE requeue # NoEntry /\ x = requeue
    <3>1. x.id = c /\ x.kind = "learn" /\ next.queue = "learn" BY <2>2, <1>8
    <3> QED BY <3>1, <1>6, <1>13 DEF QueueFitsType, QueueKind
  <2> QED BY <2>1, <2>2, <1>9
<1>20. ASSUME Graded(preset) PROVE Current(post, card') /\ SiblingsSpared(post, preset)
  <2>1. Current(queues, card) /\ SiblingsSpared(queues, preset) BY <1>5, <1>20
  <2>2. ASSUME NEW x \in EntriesIn(queues) \ {e} PROVE x.id \notin siblings
    <3> SUFFICES ASSUME x.id \in siblings PROVE FALSE OBVIOUS
    <3>1. NoteOf[x.id] = NoteOf[c] /\ card[x.id].queue \in {"new", "review", "daylearn"} /\ preset[card[x.id].queue]
      BY <1>10
    <3>2. QueueFitsType(card[x.id]) BY <1>3, <1>18
    <3>3. card[x.id].queue = x.kind BY <3>1, <3>2, <1>5 DEF QueueFitsType, QueueKind, KindsTrue
    <3>4. x.id # e.id /\ NoteOf[x.id] = NoteOf[e.id] BY <3>1, <1>2, <1>9
    <3>5. x.kind = "learn" \/ ~preset[x.kind] BY <3>4, <2>1, <1>7 DEF SiblingsSpared
    <3> QED BY <3>1, <3>3, <3>5
  <2>3. Current(post, card')
    <3> SUFFICES ASSUME NEW x \in EntriesIn(post) PROVE card'[x.id].mtime = x.mtime BY DEF Current
    <3>1. CASE x \in EntriesIn(queues) \ {e}
      <4>1. x.id \in Cards /\ x.id # c /\ x.id \notin siblings BY <3>1, <2>2, <1>9, <1>18
      <4> QED BY <4>1, <3>1, <2>1, <1>13 DEF Current
    <3>2. CASE requeue # NoEntry /\ x = requeue BY <3>2, <1>8, <1>13
    <3> QED BY <3>1, <3>2, <1>9
  <2>4. SiblingsSpared(post, preset)
    <3> SUFFICES ASSUME NEW x \in EntriesIn(post), NEW y \in EntriesIn(post),
                        x.id # y.id, NoteOf[x.id] = NoteOf[y.id]
                 PROVE  x.kind = "learn" \/ ~preset[x.kind]
      BY DEF SiblingsSpared
    <3>1. CASE requeue # NoEntry /\ x = requeue BY <3>1, <1>8
    <3>2. CASE x \in EntriesIn(queues) \ {e}
      <4>1. CASE y \in EntriesIn(queues) \ {e} BY <4>1, <3>2, <2>1 DEF SiblingsSpared
      <4>2. CASE requeue # NoEntry /\ y = requeue
        <5>1. y.id = e.id BY <4>2, <1>2, <1>8
        <5> QED BY <5>1, <3>2, <2>1, <1>7 DEF SiblingsSpared
      <4> QED BY <4>1, <4>2, <1>9
    <3> QED BY <3>1, <3>2, <1>9
  <2> QED BY <2>3, <2>4
<1>21. RoomLeft(post, update_deck_stats(c), now) BY <1>17 DEF RoomLeft
<1>22. /\ n \in Moments /\ n.card = card' /\ n.studied = update_deck_stats(c) /\ n.queues = post
  <2>1. post \in CardQueues BY <1>9 DEF QueueFits, QueueShape
  <2>2. n = [card |-> card', studied |-> update_deck_stats(c), queues |-> post] BY <1>1 DEF Present, n
  <2> QED BY <2>1, <2>2, <1>13, <1>17 DEF Moments
<1>23. Moment(n, preset, now) BY <1>9, <1>14, <1>17, <1>19, <1>20, <1>21, <1>22 DEF Moment
<1>24. Linked(s, n)
  <2>1. Present.card = card BY DEF Present
  <2> QED BY <2>1, <1>11, <1>12, <1>13, <1>22 DEF Linked, Unburied
<1>25. Between("undo", s, n, now)
  <2>1. Present.queues = queues BY DEF Present
  <2> QED BY <2>1, <1>9, <1>11, <1>12, <1>22 DEF Between, QueueLinked
<1>26. /\ undoSteps' \in Seq(UndoStep) /\ redoSteps' \in Seq(UndoStep)
       /\ Len(undoSteps') + Len(redoSteps') <= UndoLimit
       /\ Chain("undo", n, undoSteps', preset, now)
       /\ Chain("redo", n, redoSteps', preset, now)
  BY <1>1, <1>12, <1>23, <1>24, <1>25, EndStep DEF n
<1> QED BY <1>1, <1>23, <1>26 DEF StudyInv, n

\* The stack on which a step of a stack is recorded when it is taken back.
Other(dir) == IF dir = "undo" THEN "redo" ELSE "undo"

\* The top step of a stack and the present.
LEMMA TopStep ==
    ASSUME StudyInv, NEW dir, NEW st \in Seq(UndoStep), st # <<>>, Chain(dir, Present, st, preset, now)
    PROVE  LET step == Head(st)
               b == step.before
           IN /\ step \in UndoStep /\ StepFits(step) /\ Linked(step, Present)
              /\ Between(dir, step, Present, now) \/ Forgotten(queues, st, 1)
              /\ Moment(b, preset, now) /\ b \in Moments
              /\ \A c \in Cards : b.card[c] \in Card /\ QueueFitsType(b.card[c])
              /\ b.queues # NoQueues => QueueShape(b.queues)
              /\ step.studied = b.studied /\ b.studied \in Counter
              /\ DOMAIN step.cards \in SUBSET Cards /\ DOMAIN step.cards # {}
              /\ \A c \in DOMAIN step.cards : step.cards[c] = b.card[c]
              /\ step.update \in {NoUpdate} \union Update /\ (step.update # NoUpdate <=> step.op = "AnswerCard")
<1> DEFINE step == Head(st)
           b == step.before
<1>1. 1 \in 1..Len(st) /\ step = st[1] /\ step \in UndoStep BY StackOf
<1>2. Link(dir, Present, st, 1, preset, now) BY <1>1 DEF Chain, Late
<1>3. Present.queues = queues BY DEF Present
<1> HIDE DEF step
<1>4. /\ StepFits(step) /\ Linked(step, Present) /\ Moment(b, preset, now)
      /\ Between(dir, step, Present, now) \/ Forgotten(queues, st, 1)
  BY <1>1, <1>2, <1>3 DEF Link
<1>5. b \in Moments /\ \A c \in Cards : QueueFitsType(b.card[c]) BY <1>4 DEF Moment
<1>6. b.studied \in Counter /\ \A c \in Cards : b.card[c] \in Card BY <1>5 DEF Moments
<1>7. b.queues # NoQueues => QueueShape(b.queues) BY <1>4 DEF Moment, QueueFits
<1>8. /\ step.cards \in UNION {[D -> Card] : D \in SUBSET Cards} /\ step.update \in {NoUpdate} \union Update
  BY <1>1 DEF UndoStep
<1>9. DOMAIN step.cards \in SUBSET Cards BY <1>8
<1>10. /\ step.studied = b.studied /\ DOMAIN step.cards # {}
       /\ \A c \in DOMAIN step.cards : step.cards[c] = b.card[c]
       /\ step.update # NoUpdate <=> step.op = "AnswerCard"
  BY <1>4 DEF StepFits
<1> QED BY <1>1, <1>4, <1>5, <1>6, <1>7, <1>8, <1>9, <1>10 DEF step

\* The cards as they come back, from a table that is the present one or unburied.
LEMMA RevertedCards ==
    ASSUME StudyInv, NEW dir, NEW st \in Seq(UndoStep), st # <<>>, Chain(dir, Present, st, preset, now),
           NEW table, \A c \in Cards : Unburied(table[c], card[c])
    PROVE  LET step == Head(st)
               r == Reverted(table, step)
           IN /\ r \in [Cards -> Card] /\ \A c \in Cards : Unburied(r[c], step.before.card[c])
              /\ \A c \in Cards : QueueFitsType(r[c]) /\ SameStudy(r[c], step.before.card[c])
              /\ \A c \in Cards : c \notin DOMAIN step.cards => r[c] = table[c]
<1> DEFINE step == Head(st)
           b == step.before
           r == Reverted(table, step)
<1>1. /\ Linked(step, Present) /\ \A c \in Cards : b.card[c] \in Card /\ QueueFitsType(b.card[c])
      /\ \A c \in DOMAIN step.cards : step.cards[c] = b.card[c]
  BY TopStep
<1>2. Present.card = card BY DEF Present
<1>3. r = [c \in Cards |-> IF c \in DOMAIN step.cards THEN step.cards[c] ELSE table[c]] BY DEF Reverted
<1> HIDE DEF step, r
<1>4. ASSUME NEW c \in Cards PROVE Unburied(r[c], b.card[c])
  <2>1. CASE c \in DOMAIN step.cards BY <2>1, <1>1, <1>3 DEF Unburied
  <2>2. CASE c \notin DOMAIN step.cards
    <3>1. Unburied(card[c], b.card[c]) BY <2>2, <1>1, <1>2 DEF Linked
    <3>2. Unburied(r[c], card[c]) BY <2>2, <1>3
    <3> QED BY <3>1, <3>2, <1>1, UnburiedTwice
  <2> QED BY <2>1, <2>2
<1>5. \A c \in Cards : r[c] \in Card /\ QueueFitsType(r[c]) /\ SameStudy(r[c], b.card[c])
  BY <1>1, <1>4, UnburiedFits
<1>6. r \in [Cards -> Card] BY <1>3, <1>5
<1> QED BY <1>3, <1>4, <1>5, <1>6 DEF step, r

\* An undo that meets a new day forgets the queue and all steps.
LEMMA PanicKeeps ==
    ASSUME StudyInv, NEW dir, NEW st \in Seq(UndoStep), st # <<>>, Chain(dir, Present, st, preset, now),
           undo_panics(Head(st))
    PROVE  StudyInv'
<1> DEFINE step == Head(st)
           b == step.before
           n == Present'
<1>1. /\ card' = Reverted(unbury_on_day_rollover, step) /\ studied' = step.studied /\ queues' = NoQueues
      /\ undoSteps' = <<>> /\ redoSteps' = <<>> /\ fault' = "no operation"
      /\ preset' = preset /\ shown' = shown /\ now' = now
  BY DEF undo_panics, begin_step_none
<1>2. /\ Moment(b, preset, now) /\ step.studied = b.studied /\ b.studied \in Counter BY TopStep
<1>3. \A c \in Cards : Unburied(unbury_on_day_rollover[c], card[c]) BY UnburyFits
<1>4. /\ card' \in [Cards -> Card]
      /\ \A c \in Cards : QueueFitsType(card'[c]) /\ SameStudy(card'[c], b.card[c])
  BY <1>1, <1>3, RevertedCards
<1>5. n \in Moments /\ n.card = card' /\ n.studied = b.studied /\ n.queues = NoQueues
  BY <1>1, <1>2, <1>4 DEF Present, Moments
<1> HIDE DEF n, b
<1>6. Moment(n, preset, now) BY <1>2, <1>4, <1>5, MomentKept
<1>7. \A d : Chain(d, n, <<>>, preset, now) /\ <<>> \in Seq(UndoStep) /\ Len(<<>>) = 0 BY EmptyChain
<1>8. Len(<<>>) + Len(<<>>) <= UndoLimit BY <1>7, StudyAssumption
<1> QED BY <1>1, <1>6, <1>7, <1>8 DEF StudyInv, n

\* A step taken back: what it leaves, and the step recorded on the other stack.
LEMMA TakeBack ==
    ASSUME StudyInv, NEW dir \in {"undo", "redo"}, NEW st \in Seq(UndoStep), st # <<>>,
           Chain(dir, Present, st, preset, now),
           card' = Reverted(card, Head(st)), studied' = Head(st).studied,
           \/ queues' = NoQueues
           \/ Head(st).op = "SetFlag" /\ queues' = queues
           \/ /\ Head(st).update # NoUpdate /\ Between(dir, Head(st), Present, now)
              /\ QueueFits(queues', now) /\ SameQueue(queues', Head(st).before.queues)
    PROVE  /\ Moment(Present', preset, now) /\ Chain(dir, Present', Tail(st), preset, now)
           /\ TakenBack(Head(st)) \in UndoStep /\ StepFits(TakenBack(Head(st)))
           /\ TakenBack(Head(st)).before = Present /\ Linked(TakenBack(Head(st)), Present')
           /\ Between(Other(dir), TakenBack(Head(st)), Present', now) \/ queues' = NoQueues
<1> DEFINE step == Head(st)
           b == step.before
           n == Present'
           s == TakenBack(step)
<1>1. /\ step \in UndoStep /\ StepFits(step) /\ Linked(step, Present)
      /\ Between(dir, step, Present, now) \/ Forgotten(queues, st, 1)
      /\ Moment(b, preset, now) /\ b \in Moments
      /\ step.studied = b.studied /\ b.studied \in Counter
      /\ DOMAIN step.cards \in SUBSET Cards /\ DOMAIN step.cards # {}
      /\ step.update \in {NoUpdate} \union Update /\ (step.update # NoUpdate <=> step.op = "AnswerCard")
  BY TopStep
<1>2. \A c \in Cards : Unburied(card[c], card[c]) BY DEF Unburied
<1>3. /\ card' \in [Cards -> Card] /\ \A c \in Cards : Unburied(card'[c], b.card[c])
      /\ \A c \in Cards : QueueFitsType(card'[c]) /\ SameStudy(card'[c], b.card[c])
      /\ \A c \in Cards : c \notin DOMAIN step.cards => card'[c] = card[c]
  BY <1>2, RevertedCards
<1>4. /\ Present \in Moments
      /\ (queues = NoQueues \/ (QueueShape(queues) /\ QueueFits(queues, now)))
      /\ Moment(Present, preset, now)
  BY PresentFields DEF StudyInv
<1>5. Present.card = card /\ Present.studied = studied /\ Present.queues = queues BY DEF Present
<1>6. /\ step.op = "SetFlag" => \A c \in Cards : SameStudy(card[c], b.card[c])
      /\ step.update = NoUpdate => studied = b.studied
  BY <1>1, <1>5 DEF Linked
<1>7. queues' = NoQueues \/ queues' \in CardQueues BY <1>4 DEF QueueFits, QueueShape
<1>8. n \in Moments /\ n.card = card' /\ n.studied = b.studied /\ n.queues = queues'
  BY <1>1, <1>3, <1>7 DEF Present, Moments
<1> HIDE DEF n
<1>9. \/ queues' = NoQueues
      \/ step.op = "SetFlag" /\ queues' = queues
      \/ /\ step.update # NoUpdate /\ Between(dir, step, Present, now)
         /\ QueueFits(queues', now) /\ SameQueue(queues', b.queues)
  OBVIOUS
<1>10. step \in UndoStep => step.op \in {"AnswerCard", "SetFlag", "suspended", "userburied"} BY DEF UndoStep
<1> HIDE DEF step
<1>11. SameQueue(queues, queues) \/ queues = NoQueues BY DEF SameQueue
<1>12. step.op = "SetFlag" => \A c \in Cards : SameStudy(card'[c], card[c])
  BY <1>3, <1>6 DEF SameStudy
<1>13. Moment(n, preset, now)
  <2>1. CASE queues' = NoQueues \/ (QueueFits(queues', now) /\ SameQueue(queues', b.queues))
    <3> HIDE DEF b
    <3> QED BY <2>1, <1>1, <1>3, <1>8, MomentKept
  <2>2. CASE step.op = "SetFlag" /\ queues' = queues
    <3>1. \A c \in Cards : QueueFitsType(n.card[c]) /\ SameStudy(n.card[c], Present.card[c])
      BY <2>2, <1>3, <1>5, <1>8, <1>12
    <3>2. n.studied = Present.studied BY <2>2, <1>1, <1>5, <1>6, <1>8
    <3>3. n.queues = NoQueues \/ (SameQueue(n.queues, Present.queues) /\ QueueFits(n.queues, now))
      BY <2>2, <1>4, <1>5, <1>8, <1>11
    <3> QED BY <3>1, <3>2, <3>3, <1>4, <1>8, MomentKept
  <2> QED BY <2>1, <2>2, <1>9
<1>14. Chain(dir, n, Tail(st), preset, now)
  <2>1. Chain(dir, b, Tail(st), preset, now) /\ Tail(st) \in Seq(UndoStep) BY ChainDrop, StackOf DEF step
  <2>2. Forgotten(queues, st, 1) => Forgotten(queues, Tail(st), 1)
    <3> DEFINE r == Tail(st)
    <3>1. Len(st) \in Nat \ {0} /\ Len(r) = Len(st) - 1 /\ \A i \in 1..(Len(st) - 1) : r[i] = st[i + 1] BY StackOf
    <3> HIDE DEF r
    <3>2. ASSUME \A k \in 1..Len(st) : st[k].update.build # queues.build, NEW k \in 1..Len(r)
          PROVE  r[k].update.build # queues.build
      <4>1. k + 1 \in 1..Len(st) /\ k \in 1..(Len(st) - 1) BY <3>1
      <4> QED BY <4>1, <3>1, <3>2
    <3> QED BY <3>2 DEF Forgotten, r
  <2>3. Follows(n, b, Tail(st))
    <3>1. CASE queues' = NoQueues \/ SameQueue(queues', b.queues) BY <3>1, <1>3, <1>8 DEF Follows
    <3>2. CASE step.op = "SetFlag" /\ queues' = queues
      <4>1. step.update = NoUpdate BY <3>2, <1>1
      <4>2. SameQueue(queues, b.queues) \/ Forgotten(queues, st, 1)
        BY <4>1, <1>1, <1>5 DEF Between, QueueLinked, SameQueue
      <4> QED BY <3>2, <4>2, <2>2, <1>3, <1>8 DEF Follows
    <3> QED BY <3>1, <3>2, <1>9
  <2> QED BY <2>1, <2>3, <1>1, <1>8, ChainFollows
<1>15. /\ s \in UndoStep /\ StepFits(s) /\ s.before = Present /\ s.op = step.op /\ s.update = step.update
       /\ DOMAIN s.cards = DOMAIN step.cards
  <2>1. step.update # NoUpdate => UpdateFits(step.update) BY <1>1 DEF StepFits
  <2> DEFINE op == step.op
             changed == DOMAIN step.cards
             update == step.update
  <2>2. /\ op \in {"AnswerCard", "SetFlag", "suspended", "userburied"}
        /\ changed \in SUBSET Cards /\ changed # {} /\ update \in {NoUpdate} \union Update
        /\ update # NoUpdate <=> op = "AnswerCard"
        /\ update # NoUpdate => UpdateFits(update)
    BY <1>1, <1>10, <2>1
  <2>3. s = Step(op, changed, studied, update) BY DEF TakenBack
  <2> HIDE DEF op, changed, update, s
  <2>4. /\ s \in UndoStep /\ StepFits(s) /\ s.before = Present /\ s.op = op /\ s.update = update
        /\ DOMAIN s.cards = changed
    BY <2>2, <2>3, StepTyped
  <2> QED BY <2>4 DEF op, changed, update
<1> HIDE DEF s
<1>16. Linked(s, n) BY <1>3, <1>5, <1>6, <1>8, <1>12, <1>15 DEF Linked, Unburied
<1>17. Between(Other(dir), s, n, now) \/ queues' = NoQueues
  <2>1. CASE step.op = "SetFlag" /\ queues' = queues
    <3>1. step.update = NoUpdate BY <2>1, <1>1
    <3> QED BY <2>1, <3>1, <1>5, <1>8, <1>11, <1>15 DEF Between, QueueLinked
  <2>2. CASE /\ step.update # NoUpdate /\ Between(dir, step, Present, now)
             /\ QueueFits(queues', now) /\ SameQueue(queues', b.queues)
    <3>1. CASE dir = "undo"
      <4>1. Moved(b.queues, step.update, queues, now) BY <2>2, <3>1, <1>5 DEF Between, QueueLinked
      <4>2. Moved(queues', step.update, queues, now)
        BY <4>1, <2>2 DEF Moved, SameQueue, IsTop, MainAfter, IntradayAfter
      <4> QED BY <4>2, <2>2, <3>1, <1>5, <1>8, <1>15 DEF Between, QueueLinked, Other
    <3>2. CASE dir = "redo"
      <4>1. Moved(queues, step.update, b.queues, now) BY <2>2, <3>2, <1>5 DEF Between, QueueLinked
      <4>2. Moved(queues, step.update, queues', now)
        BY <4>1, <2>2 DEF Moved, SameQueue, LearningDue
      <4> QED BY <4>2, <2>2, <3>2, <1>5, <1>8, <1>15 DEF Between, QueueLinked, Other
    <3> QED BY <3>1, <3>2
  <2> QED BY <2>1, <2>2, <1>9
<1> QED BY <1>13, <1>14, <1>15, <1>16, <1>17 DEF step, n, s

\* The queue when a step is taken back, on a changed queue that is that of the step's moment.
LEMMA QueueTakenBack ==
    ASSUME StudyInv, NEW dir \in {"undo", "redo"}, NEW st \in Seq(UndoStep), st # <<>>,
           Chain(dir, Present, st, preset, now), NEW changed,
           undo_inner(Head(st), changed),
           ~SameBuild(Head(st).update) => changed = NoQueues,
           SameBuild(Head(st).update) /\ Head(st).update # NoUpdate /\ Between(dir, Head(st), Present, now)
              => QueueFits(changed, now) /\ SameQueue(changed, Head(st).before.queues)
    PROVE  /\ \/ queues' = NoQueues
              \/ Head(st).op = "SetFlag" /\ queues' = queues
              \/ /\ Head(st).update # NoUpdate /\ Between(dir, Head(st), Present, now)
                 /\ QueueFits(queues', now) /\ SameQueue(queues', Head(st).before.queues)
           /\ card' = Reverted(card, Head(st)) /\ studied' = Head(st).studied
           /\ preset' = preset /\ now' = now /\ fault' = fault
           /\ shown' = NoCard \/ (shown' = shown /\ queues' = queues)
<1> DEFINE step == Head(st)
<1>1. /\ step \in UndoStep
      /\ Between(dir, step, Present, now) \/ Forgotten(queues, st, 1)
      /\ DOMAIN step.cards # {}
      /\ step.update \in {NoUpdate} \union Update /\ (step.update # NoUpdate <=> step.op = "AnswerCard")
  BY TopStep
<1>2. step = st[1] /\ 1 \in 1..Len(st) BY StackOf
<1>3. /\ card' = Reverted(card, step) /\ studied' = step.studied /\ queues' = QueuesAfter(step, changed)
      /\ shown' = (IF step.op = "SetFlag" THEN shown ELSE NoCard)
      /\ preset' = preset /\ now' = now /\ fault' = fault
  BY DEF undo_inner
<1>4. step.op \in {"AnswerCard", "SetFlag", "suspended", "userburied"} BY <1>1 DEF UndoStep
<1> HIDE DEF step
<1>5. CASE step.update # NoUpdate
  <2>1. step.op # "SetFlag" BY <1>1, <1>5
  <2>2. step.op = "AnswerCard" BY <1>1, <1>5
  <2>3. ~RebuildsQueue(step.op, DOMAIN step.cards) BY <2>2 DEF RebuildsQueue
  <2>4. queues' = changed BY <2>3, <1>3, <1>5 DEF QueuesAfter
  <2>5. queues' = changed /\ shown' = NoCard BY <2>1, <2>4, <1>3
  <2>6. CASE ~SameBuild(step.update) BY <2>5, <2>6, <1>3 DEF step
  <2>7. CASE SameBuild(step.update)
    <3>1. queues # NoQueues /\ queues.build = st[1].update.build BY <2>7, <1>2 DEF SameBuild
    <3>2. ~Forgotten(queues, st, 1) BY <3>1, <1>2 DEF Forgotten
    <3>3. Between(dir, step, Present, now) BY <3>2, <1>1
    <3> QED BY <2>5, <2>7, <3>3, <1>3, <1>5 DEF step
  <2> QED BY <2>6, <2>7
<1>6. CASE step.update = NoUpdate
  <2>1. CASE step.op = "SetFlag"
    <3>1. ~RebuildsQueue(step.op, DOMAIN step.cards) BY <2>1 DEF RebuildsQueue
    <3>2. queues' = queues BY <3>1, <1>3, <1>6 DEF QueuesAfter
    <3> QED BY <2>1, <3>2, <1>3 DEF step
  <2>2. CASE step.op # "SetFlag"
    <3>1. RebuildsQueue(step.op, DOMAIN step.cards) BY <2>2, <1>1, <1>4, <1>6 DEF RebuildsQueue
    <3>2. queues' = NoQueues BY <3>1, <1>3, <1>6 DEF QueuesAfter
    <3> QED BY <2>2, <3>2, <1>3 DEF step
  <2> QED BY <2>1, <2>2
<1> QED BY <1>5, <1>6

\* Undo takes the top step back and records the present on the other stack.
LEMMA UndoKeeps ==
    ASSUME StudyInv, undo
    PROVE  StudyInv'
<1> DEFINE step == Head(undoSteps)
           u == step.update
           n == Present'
           s == TakenBack(step)
<1>1. /\ undoSteps \in Seq(UndoStep) /\ redoSteps \in Seq(UndoStep) /\ undoSteps # <<>>
      /\ Chain("undo", Present, undoSteps, preset, now) /\ Chain("redo", Present, redoSteps, preset, now)
      /\ Len(undoSteps) + Len(redoSteps) <= UndoLimit
      /\ Present \in Moments /\ Moment(Present, preset, now)
  BY PresentFields DEF undo, StudyInv
<1>2. CASE undo_panics(step) BY <1>1, <1>2, PanicKeeps
<1>3. CASE /\ undo_inner(step, undo_queue_change(u)) /\ undoSteps' = Tail(undoSteps)
           /\ redoSteps' = <<s>> \o redoSteps
  <2>1. ~SameBuild(u) => undo_queue_change(u) = NoQueues BY DEF undo_queue_change
  <2>2. SameBuild(u) /\ u # NoUpdate /\ Between("undo", step, Present, now)
           => QueueFits(undo_queue_change(u), now) /\ SameQueue(undo_queue_change(u), step.before.queues)
    <3> HAVE SameBuild(u) /\ u # NoUpdate /\ Between("undo", step, Present, now)
    <3>1. Present.queues = queues BY DEF Present
    <3>2. Moved(step.before.queues, u, queues, now) BY <3>1 DEF Between, QueueLinked
    <3>3. step.before.queues # NoQueues /\ queues # NoQueues BY <3>2 DEF Moved
    <3>4. QueueShape(step.before.queues) /\ UpdateFits(u) BY <3>3, <1>1, TopStep DEF StepFits
    <3>5. QueueShape(queues) BY <3>3, PresentFields
    <3> HIDE DEF u
    <3>6. QueueFits(undo_queue_change(u), now) /\ SameQueue(undo_queue_change(u), step.before.queues)
      BY <3>2, <3>4, <3>5, UndoQueue
    <3> QED BY <3>6
  <2>3. /\ \/ queues' = NoQueues
           \/ step.op = "SetFlag" /\ queues' = queues
           \/ /\ step.update # NoUpdate /\ Between("undo", step, Present, now)
              /\ QueueFits(queues', now) /\ SameQueue(queues', step.before.queues)
        /\ card' = Reverted(card, step) /\ studied' = step.studied
        /\ preset' = preset /\ now' = now /\ fault' = fault
        /\ shown' = NoCard \/ (shown' = shown /\ queues' = queues)
    BY <2>1, <2>2, <1>1, <1>3, QueueTakenBack
  <2>4. /\ Moment(n, preset, now) /\ Chain("undo", n, Tail(undoSteps), preset, now)
        /\ s \in UndoStep /\ StepFits(s) /\ s.before = Present /\ Linked(s, n)
        /\ Between("redo", s, n, now) \/ queues' = NoQueues
    BY <2>3, <1>1, TakeBack DEF Other
  <2> HIDE DEF s
  <2>5. n.queues = queues' BY DEF Present
  <2> HIDE DEF n
  <2>6. Between("redo", s, n, now) \/ Forgotten(n.queues, <<s>> \o redoSteps, 1) BY <2>4, <2>5 DEF Forgotten
  <2>7. n \in Moments BY <2>4 DEF Moment
  <2>8. Len(redoSteps) \in Nat /\ Len(redoSteps) <= Len(redoSteps) BY <1>1, StackOf
  <2>9. /\ <<s>> \o redoSteps \in Seq(UndoStep) /\ Len(<<s>> \o redoSteps) = Len(redoSteps) + 1
        /\ Chain("redo", n, <<s>> \o redoSteps, preset, now)
    BY <2>4, <2>6, <2>7, <2>8, <1>1, ChainPush
  <2>10. Tail(undoSteps) \in Seq(UndoStep) /\ Len(Tail(undoSteps)) = Len(undoSteps) - 1 /\ Len(undoSteps) \in Nat
    BY <1>1, StackOf
  <2>11. /\ undoSteps' \in Seq(UndoStep) /\ redoSteps' \in Seq(UndoStep)
         /\ Len(undoSteps') + Len(redoSteps') <= UndoLimit
    <3>1. UndoLimit \in Nat BY StudyAssumption
    <3>2. Len(undoSteps') = Len(undoSteps) - 1 /\ Len(redoSteps') = Len(redoSteps) + 1 BY <2>9, <2>10, <1>3
    <3> QED BY <3>1, <3>2, <2>8, <2>9, <2>10, <1>1, <1>3
  <2>12. /\ Chain("undo", n, undoSteps', preset, now) /\ Chain("redo", n, redoSteps', preset, now)
    BY <2>4, <2>9, <1>3
  <2> QED BY <2>3, <2>4, <2>11, <2>12 DEF StudyInv, n
<1> QED BY <1>2, <1>3 DEF undo

\* Redo does the same in the other direction.
LEMMA RedoKeeps ==
    ASSUME StudyInv, redo
    PROVE  StudyInv'
<1> DEFINE step == Head(redoSteps)
           u == step.update
           n == Present'
           s == TakenBack(step)
           r == Take(undoSteps, UndoLimit - 1)
<1>1. /\ undoSteps \in Seq(UndoStep) /\ redoSteps \in Seq(UndoStep) /\ redoSteps # <<>>
      /\ Chain("undo", Present, undoSteps, preset, now) /\ Chain("redo", Present, redoSteps, preset, now)
      /\ Len(undoSteps) + Len(redoSteps) <= UndoLimit
      /\ Present \in Moments /\ Moment(Present, preset, now)
  BY PresentFields DEF redo, StudyInv
<1>2. CASE undo_panics(step) BY <1>1, <1>2, PanicKeeps
<1>3. CASE /\ undo_inner(step, redo_queue_change(u))
           /\ undoSteps' = <<s>> \o r /\ redoSteps' = Tail(redoSteps)
  <2>1. ~SameBuild(u) => redo_queue_change(u) = NoQueues BY DEF redo_queue_change
  <2>2. SameBuild(u) /\ u # NoUpdate /\ Between("redo", step, Present, now)
           => QueueFits(redo_queue_change(u), now) /\ SameQueue(redo_queue_change(u), step.before.queues)
    <3> HAVE SameBuild(u) /\ u # NoUpdate /\ Between("redo", step, Present, now)
    <3>1. Present.queues = queues BY DEF Present
    <3>2. Moved(queues, u, step.before.queues, now) BY <3>1 DEF Between, QueueLinked
    <3>3. queues # NoQueues BY <3>2 DEF Moved
    <3>4. UpdateFits(u) BY <1>1, TopStep DEF StepFits
    <3>5. QueueShape(queues) BY <3>3, PresentFields
    <3> HIDE DEF u
    <3>6. QueueFits(redo_queue_change(u), now) /\ SameQueue(redo_queue_change(u), step.before.queues)
      BY <3>2, <3>4, <3>5, RedoQueue
    <3> QED BY <3>6
  <2>3. /\ \/ queues' = NoQueues
           \/ step.op = "SetFlag" /\ queues' = queues
           \/ /\ step.update # NoUpdate /\ Between("redo", step, Present, now)
              /\ QueueFits(queues', now) /\ SameQueue(queues', step.before.queues)
        /\ card' = Reverted(card, step) /\ studied' = step.studied
        /\ preset' = preset /\ now' = now /\ fault' = fault
        /\ shown' = NoCard \/ (shown' = shown /\ queues' = queues)
    BY <2>1, <2>2, <1>1, <1>3, QueueTakenBack
  <2>4. /\ Moment(n, preset, now) /\ Chain("redo", n, Tail(redoSteps), preset, now)
        /\ s \in UndoStep /\ StepFits(s) /\ s.before = Present /\ Linked(s, n)
        /\ Between("undo", s, n, now) \/ queues' = NoQueues
    BY <2>3, <1>1, TakeBack DEF Other
  <2>5. /\ r \in Seq(UndoStep) /\ Len(r) <= Len(undoSteps) /\ Len(r) \in Nat
        /\ \A i \in 1..Len(r) : r[i] = undoSteps[i]
    <3>1. UndoLimit - 1 \in Nat BY StudyAssumption
    <3> QED BY <3>1, <1>1, Taken
  <2>6. n.queues = queues' BY DEF Present
  <2> HIDE DEF s, n, r
  <2>7. Between("undo", s, n, now) \/ Forgotten(n.queues, <<s>> \o r, 1) BY <2>4, <2>6 DEF Forgotten
  <2>8. n \in Moments BY <2>4 DEF Moment
  <2>9. /\ <<s>> \o r \in Seq(UndoStep) /\ Len(<<s>> \o r) = Len(r) + 1
        /\ Chain("undo", n, <<s>> \o r, preset, now)
    BY <2>4, <2>5, <2>7, <2>8, <1>1, ChainPush
  <2>10. /\ Tail(redoSteps) \in Seq(UndoStep) /\ Len(Tail(redoSteps)) = Len(redoSteps) - 1
         /\ Len(redoSteps) \in Nat /\ Len(undoSteps) \in Nat
    BY <1>1, StackOf
  <2>11. /\ undoSteps' \in Seq(UndoStep) /\ redoSteps' \in Seq(UndoStep)
         /\ Len(undoSteps') + Len(redoSteps') <= UndoLimit
    <3>1. UndoLimit \in Nat BY StudyAssumption
    <3>2. Len(undoSteps') = Len(r) + 1 /\ Len(redoSteps') = Len(redoSteps) - 1 BY <2>9, <2>10, <1>3
    <3> QED BY <3>1, <3>2, <2>5, <2>9, <2>10, <1>1, <1>3
  <2>12. /\ Chain("undo", n, undoSteps', preset, now) /\ Chain("redo", n, redoSteps', preset, now)
    BY <2>4, <2>9, <1>3
  <2> QED BY <2>3, <2>4, <2>11, <2>12 DEF StudyInv, n
<1> QED BY <1>2, <1>3 DEF redo

----------------------------------------------------------------------------
(* The theorems about a session.                                          *)

\* Every step keeps the invariant.
LEMMA StudyNext ==
    ASSUME StudyInv, [Next]_vars
    PROVE  StudyInv'
<1>1. CASE Tick BY <1>1, TickKeeps
<1>2. CASE get_queued_cards /\ fault = "none" BY <1>2, GetKeeps
<1>3. ASSUME NEW rating \in {"again", "good"}, answer_card(rating), fault = "none" PROVE StudyInv'
  BY <1>3, AnswerKeeps
<1>4. CASE answer_card_fails BY <1>4, FailKeeps
<1>5. ASSUME NEW c \in Browsed, NEW q \in {"suspended", "userburied"}, bury_or_suspend(c, q) PROVE StudyInv'
  BY <1>5, BuryKeeps
<1>6. ASSUME NEW c \in Browsed, set_card_flag(c) PROVE StudyInv' BY <1>6, FlagKeeps
<1>7. CASE unbury_if_day_rolled_over BY <1>7, UnburyKeeps
<1>8. CASE undo BY <1>8, UndoKeeps
<1>9. CASE redo BY <1>9, RedoKeeps
<1>10. CASE UNCHANGED vars BY <1>10 DEF vars, StudyInv, Present
<1> QED BY <1>1, <1>2, <1>3, <1>4, <1>5, <1>6, <1>7, <1>8, <1>9, <1>10 DEF Next

\* The cards, the counter, the queue and every undo and redo step agree with each
\* other in every state.
THEOREM StudyAgrees == Spec => []StudyInv
<1>1. Init => StudyInv BY StudyInit
<1>2. StudyInv /\ [Next]_vars => StudyInv' BY StudyNext
<1> QED BY <1>1, <1>2, PTL DEF Spec

\* Every state is built of cards, entries and steps of the right shape, and the kept
\* undo steps never exceed the limit.
THEOREM StudyTypes == Spec => []TypeOK
<1>1. StudyInv => TypeOK
  <2> SUFFICES ASSUME StudyInv PROVE TypeOK OBVIOUS
  <2>1. /\ card \in [Cards -> Card] /\ (queues = NoQueues \/ QueueShape(queues)) BY PresentFields
  <2>2. Len(undoSteps) \in Nat /\ Len(redoSteps) \in Nat BY StackOf DEF StudyInv
  <2>3. Len(undoSteps) <= UndoLimit
    <3>1. Len(undoSteps) + Len(redoSteps) <= UndoLimit /\ UndoLimit \in Nat BY StudyAssumption DEF StudyInv
    <3> QED BY <3>1, <2>2
  <2>4. queues # NoQueues => /\ Entries \subseteq QueueEntry
                             /\ {queues.new, queues.review, queues.learning} \subseteq Nat
    <3> HAVE queues # NoQueues
    <3>1. QueueShape(queues) BY <2>1
    <3>2. queues \in CardQueues BY <3>1 DEF QueueShape
    <3>3. EntriesIn(queues) \subseteq QueueEntry BY <3>1, ShapeOf
    <3> QED BY <3>2, <3>3 DEF CardQueues, Entries
  <2>5. /\ preset \in BuryModes /\ (shown = NoCard \/ shown.id \in Cards)
        /\ fault \in {"none", "stale entry", "no operation"}
    BY DEF StudyInv
  <2> QED BY <2>1, <2>3, <2>4, <2>5 DEF TypeOK
<1> QED BY <1>1, StudyAgrees, PTL

\* The queue in memory is in order and its counts are right.
THEOREM QueueAlwaysHonest == Spec => []QueueHonest
<1>1. StudyInv => QueueHonest
  <2> SUFFICES ASSUME StudyInv, queues # NoQueues PROVE CountsHonest(queues) /\ QueueOrdered(queues)
    BY DEF QueueHonest
  <2>1. QueueFits(queues, now) BY PresentFields
  <2> QED BY <2>1 DEF QueueFits, QueueShape, CountsHonest, LearningDue
<1> QED BY <1>1, StudyAgrees, PTL

\* No day sees more new cards begun than the preset allows.
THEOREM NewLimitAlwaysKept == Spec => []NewLimitKept
<1>1. StudyInv => NewLimitKept
  <2> SUFFICES ASSUME StudyInv, NEW day \in 0..today
               PROVE  Cardinality({c \in Cards : card[c].introduced = day}) <= NewPerDay
    BY DEF NewLimitKept
  <2>1. today \in Nat /\ CounterFits(card, studied, now) BY StudiedToday
  <2>2. day \in Nat BY <2>1
  <2> QED BY <2>1, <2>2 DEF CounterFits, IntroducedOn
<1> QED BY <1>1, StudyAgrees, PTL

\* Under graded burying options every entry of the queue carries the modification
\* time its card has in the database.
THEOREM EntriesAlwaysCurrent ==
    ASSUME \A p \in BuryModes : Graded(p)
    PROVE  Spec => []EntriesCurrent
<1>1. StudyInv => EntriesCurrent
  <2> SUFFICES ASSUME StudyInv, queues # NoQueues, NEW e \in Entries PROVE card[e.id].mtime = e.mtime
    BY DEF EntriesCurrent
  <2>1. Moment(Present, preset, now) /\ Graded(preset) BY DEF StudyInv
  <2>2. Present.card = card /\ Present.queues = queues BY DEF Present
  <2>3. Current(queues, card) BY <2>1, <2>2 DEF Moment
  <2> QED BY <2>3 DEF Current, Entries
<1> QED BY <1>1, StudyAgrees, PTL

\* Under graded burying options a session never meets the error of a stale entry.
THEOREM NoStaleEntry ==
    ASSUME \A p \in BuryModes : Graded(p)
    PROVE  Spec => [](fault # "stale entry")
<1>1. StudyInv => fault # "stale entry" BY DEF StudyInv
<1> QED BY <1>1, StudyAgrees, PTL

\* The step undo takes back, and what tells its action from every other.
LEMMA UndoneStep ==
    ASSUME StudyInv, NEW step \in ToSet(Take(undoSteps, 1)), Next,
           fault' = "none", undoSteps' = Tail(undoSteps), Len(redoSteps') = Len(redoSteps) + 1
    PROVE  /\ undoSteps # <<>> /\ step = Head(undoSteps)
           /\ undo_inner(step, undo_queue_change(step.update))
<1>1. /\ undoSteps \in Seq(UndoStep) /\ redoSteps \in Seq(UndoStep) BY DEF StudyInv
<1>2. Len(undoSteps) \in Nat /\ Len(redoSteps) \in Nat BY <1>1, StackOf
<1>3. undoSteps # <<>> /\ step = Head(undoSteps)
  <2> DEFINE r == Take(undoSteps, 1)
  <2>1. r \in Seq(UndoStep) /\ Len(r) <= Len(undoSteps) /\ Len(r) \in Nat /\ \A i \in 1..Len(r) : r[i] = undoSteps[i]
    BY <1>1, Taken
  <2>2. Len(r) <= 1 BY <1>1, Taken
  <2>3. PICK i \in 1..Len(r) : step = r[i]
    <3>1. DOMAIN r = 1..Len(r) BY <2>1, LenProperties
    <3> QED BY <3>1 DEF ToSet
  <2> HIDE DEF r
  <2>4. i = 1 /\ Len(undoSteps) >= 1 BY <2>1, <2>2, <2>3, <1>2
  <2>5. undoSteps # <<>> BY <2>4
  <2> QED BY <2>1, <2>3, <2>4, <2>5, <1>1, StackOf
<1>4. Len(<<>>) = 0 /\ 0 # Len(redoSteps) + 1 /\ Len(redoSteps) # Len(redoSteps) + 1 BY <1>2
<1>5. redoSteps' # <<>> /\ redoSteps' # redoSteps BY <1>4
<1>6. undo
  <2>1. ~Tick BY <1>5 DEF Tick
  <2>2. ~get_queued_cards BY <1>5 DEF get_queued_cards, clear_queues_if_day_changed, begin_step_none
  <2>3. \A rating : ~answer_card(rating) BY <1>5 DEF answer_card, end_step
  <2>4. ~answer_card_fails BY <1>5 DEF answer_card_fails, RollBack, begin_step_none
  <2>5. \A c, q : ~bury_or_suspend(c, q) BY <1>5 DEF bury_or_suspend, end_step
  <2>6. \A c : ~set_card_flag(c) BY <1>5 DEF set_card_flag, end_step
  <2>7. ~unbury_if_day_rolled_over BY <1>5 DEF unbury_if_day_rolled_over
  <2>8. ~redo
    <3> SUFFICES ASSUME redo PROVE FALSE OBVIOUS
    <3>1. redoSteps' = <<>> \/ (redoSteps # <<>> /\ redoSteps' = Tail(redoSteps))
      BY DEF redo, undo_panics, begin_step_none
    <3>2. redoSteps # <<>> => Len(Tail(redoSteps)) = Len(redoSteps) - 1 BY <1>1, StackOf
    <3> QED BY <3>1, <3>2, <1>2, <1>5
  <2> QED BY <2>1, <2>2, <2>3, <2>4, <2>5, <2>6, <2>7, <2>8 DEF Next
<1>7. ~undo_panics(step) BY DEF undo_panics
<1> QED BY <1>3, <1>6, <1>7 DEF undo

\* Undo and redo bring back the cards and the day's counter as they were before the
\* step, except that a card a new day has unburied since stays unburied.
THEOREM UndoAlwaysRestores == Spec => UndoRestores
<1> DEFINE Restored(step) ==
               /\ studied' = step.before.studied
               /\ \A c \in Cards :
                     LET old == step.before.card[c]
                     IN card'[c] = old \/ (old.queue \in Buried /\ card'[c] = restore_queue_from_type(old))
<1>1. ASSUME StudyInv, NEW step \in ToSet(Take(undoSteps, 1)), Next,
             fault' = "none", undoSteps' = Tail(undoSteps), Len(redoSteps') = Len(redoSteps) + 1
      PROVE  Restored(step)
  <2>1. undoSteps # <<>> /\ step = Head(undoSteps) /\ undo_inner(step, undo_queue_change(step.update))
    BY <1>1, UndoneStep
  <2>2. card' = Reverted(card, step) /\ studied' = step.studied BY <2>1 DEF undo_inner
  <2>3. undoSteps \in Seq(UndoStep) /\ Chain("undo", Present, undoSteps, preset, now) BY <1>1 DEF StudyInv
  <2>4. step.studied = step.before.studied BY <2>1, <2>3, <1>1, TopStep
  <2>5. \A c \in Cards : Unburied(card[c], card[c]) BY DEF Unburied
  <2>6. \A c \in Cards : Unburied(card'[c], step.before.card[c]) BY <2>1, <2>2, <2>3, <2>5, <1>1, RevertedCards
  <2> QED BY <2>2, <2>4, <2>6 DEF Unburied
<1> DEFINE A == \A step \in ToSet(Take(undoSteps, 1)) :
                    fault' = "none" /\ undoSteps' = Tail(undoSteps) /\ Len(redoSteps') = Len(redoSteps) + 1
                    => Restored(step)
<1>2. StudyInv /\ [Next]_vars => [A]_vars BY <1>1
<1>3. UndoRestores <=> [][A]_vars BY DEF UndoRestores
<1> QED BY <1>2, <1>3, StudyAgrees, PTL DEF Spec

\* The queue after an answer taken back is the queue it was given from, entry by
\* entry, unless the queue has been built anew since.
THEOREM UndoRestoresQueue ==
    Spec => [][\A step \in ToSet(Take(undoSteps, 1)) :
                  /\ fault' = "none" /\ undoSteps' = Tail(undoSteps) /\ Len(redoSteps') = Len(redoSteps) + 1
                  /\ step.op = "AnswerCard" /\ SameBuild(step.update)
                  => SameQueue(queues', step.before.queues)]_vars
<1> DEFINE A == \A step \in ToSet(Take(undoSteps, 1)) :
                  /\ fault' = "none" /\ undoSteps' = Tail(undoSteps) /\ Len(redoSteps') = Len(redoSteps) + 1
                  /\ step.op = "AnswerCard" /\ SameBuild(step.update)
                  => SameQueue(queues', step.before.queues)
<1>1. ASSUME StudyInv, NEW step \in ToSet(Take(undoSteps, 1)), Next,
             fault' = "none", undoSteps' = Tail(undoSteps), Len(redoSteps') = Len(redoSteps) + 1,
             step.op = "AnswerCard", SameBuild(step.update)
      PROVE  SameQueue(queues', step.before.queues)
  <2> DEFINE u == step.update
             b == step.before
  <2>1. undoSteps # <<>> /\ step = Head(undoSteps) /\ undo_inner(step, undo_queue_change(u))
    BY <1>1, UndoneStep
  <2>2. undoSteps \in Seq(UndoStep) /\ Chain("undo", Present, undoSteps, preset, now) BY <1>1 DEF StudyInv
  <2>3. /\ u # NoUpdate /\ StepFits(step)
        /\ Between("undo", step, Present, now) \/ Forgotten(queues, undoSteps, 1)
        /\ b.queues # NoQueues => QueueShape(b.queues)
    BY <2>1, <2>2, <1>1, TopStep
  <2>4. Between("undo", step, Present, now)
    <3>1. step = undoSteps[1] /\ 1 \in 1..Len(undoSteps) BY <2>1, <2>2, StackOf
    <3>2. queues # NoQueues /\ queues.build = undoSteps[1].update.build BY <3>1, <1>1 DEF SameBuild
    <3> QED BY <3>1, <3>2, <2>3 DEF Forgotten
  <2>5. Moved(b.queues, u, queues, now)
    <3>1. Present.queues = queues BY DEF Present
    <3> QED BY <3>1, <2>3, <2>4 DEF Between, QueueLinked
  <2>6. b.queues # NoQueues /\ queues # NoQueues BY <2>5 DEF Moved
  <2>7. QueueShape(queues) /\ UpdateFits(u) BY <2>3, <2>6, <1>1, PresentFields DEF StepFits
  <2>8. QueueShape(b.queues) BY <2>3, <2>6
  <2>9. queues' = undo_queue_change(u)
    <3>1. ~RebuildsQueue(step.op, DOMAIN step.cards) BY <1>1 DEF RebuildsQueue
    <3>2. queues' = QueuesAfter(step, undo_queue_change(u)) BY <2>1 DEF undo_inner
    <3> QED BY <3>1, <3>2, <2>3 DEF QueuesAfter
  <2>10. SameBuild(u) BY <1>1
  <2> HIDE DEF u, b
  <2>11. SameQueue(undo_queue_change(u), b.queues) BY <2>5, <2>7, <2>8, <2>10, UndoQueue
  <2> QED BY <2>9, <2>11 DEF b
<1>2. StudyInv /\ [Next]_vars => [A]_vars BY <1>1
<1> QED BY <1>2, StudyAgrees, PTL DEF Spec

\* A step that can be redone on the queue in memory finds its entry where the answer
\* took it from, so that redoing never fails for want of it.
THEOREM RedoFindsEntry == Spec => [](redoSteps # <<>> => RedoFits(Head(redoSteps)))
<1>1. StudyInv => (redoSteps # <<>> => RedoFits(Head(redoSteps)))
  <2> SUFFICES ASSUME StudyInv, redoSteps # <<>>, SameBuild(Head(redoSteps).update)
               PROVE  AtTop(queues, Head(redoSteps).update.entry.id)
    BY DEF RedoFits
  <2> DEFINE step == Head(redoSteps)
             u == step.update
  <2>1. redoSteps \in Seq(UndoStep) /\ Chain("redo", Present, redoSteps, preset, now) BY DEF StudyInv
  <2>2. /\ u \in {NoUpdate} \union Update
        /\ Between("redo", step, Present, now) \/ Forgotten(queues, redoSteps, 1)
    BY <2>1, TopStep
  <2>3. step = redoSteps[1] /\ 1 \in 1..Len(redoSteps) BY <2>1, StackOf
  <2>4. queues # NoQueues /\ queues.build = u.build BY DEF SameBuild
  <2>5. QueueShape(queues) BY <2>4, PresentFields
  <2>6. u # NoUpdate BY <2>4, <2>5, ShapeOf DEF NoUpdate
  <2>7. Between("redo", step, Present, now) BY <2>2, <2>3, <2>4 DEF Forgotten
  <2>8. Moved(queues, u, step.before.queues, now) BY <2>6, <2>7 DEF Between, QueueLinked, Present
  <2> HIDE DEF u
  <2>9. IsTop(queues, u.entry) BY <2>8 DEF Moved
  <2>10. queues.intraday \in Seq(QueueEntry) BY <2>5, ShapeOf
  <2>11. queues.intraday # <<>> => 1 \in DOMAIN queues.intraday /\ Head(queues.intraday) = queues.intraday[1]
    BY <2>10, TailOf
  <2> QED BY <2>9, <2>11 DEF IsTop, AtTop, InIntraday, u
<1> QED BY <1>1, StudyAgrees, PTL
============================================================================
