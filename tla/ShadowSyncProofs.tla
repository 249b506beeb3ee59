-------------------------- MODULE ShadowSyncProofs --------------------------
(***************************************************************************)
(* Theorems about ShadowSync, for any services, notes, decks and starts,   *)
(* any cap on deletions and every bound.                                   *)
(***************************************************************************)
EXTENDS ShadowSync, FiniteSetTheorems, WellFoundedInduction, TLAPS

-----------------------------------------------------------------------------
(* The inductive invariant.                                                *)

Stages == {"idle", "open", "push", "carry", "sync", "pull", "back", "save"}
Opened == Stages \ {"idle", "open"}
Synced == {"pull", "back", "save"}
Prints == UNION {[decks -> Fingerprints] : decks \in SUBSET Decks}

\* The service that a dual sync is at.
S == First(queue)

Types ==
    /\ master \in Collections /\ present \subseteq Decks
    /\ shadow \in [ServiceSet -> Collections \union {NoFile}]
    /\ known \in [ServiceSet -> Collections] /\ server \in [ServiceSet -> Collections]
    /\ state \in [ServiceSet -> [m : Prints, s : Prints, guids : SUBSET Guids]]
    /\ route \in [ServiceSet -> SUBSET Decks] /\ full \subseteq ServiceSet
    /\ run \in [services : SUBSET ServiceSet, pass : 0..2, pulled : BOOLEAN]
    /\ queue \subseteq run.services
    /\ at \in Stages /\ (at # "idle" => queue # {})
    /\ pull \in [decks : SUBSET Decks, any : BOOLEAN]
    /\ now \in 1..MaxTime /\ stops \in 0..MaxStops
    /\ given \subseteq Guids /\ moved \subseteq Guids /\ partly \in BOOLEAN

\* What may be missing.
Gone(G, M, p) == G \union (IF p THEN M ELSE {})

\* Nothing bears a time to come, and what nobody moved is in the deck it began in.
Sound(c, home, M, time) == Past(c, time) /\ \A g \in DOMAIN c \ M : c[g].deck = home[g]

Everywhere(home) ==
    /\ Sound(master, home, moved, now)
    /\ \A s \in ServiceSet :
         /\ Sound(server[s], home, moved, now)
         /\ shadow[s] # NoFile => Sound(shadow[s], home, moved, now)

Housed == \E home \in [Guids -> Decks] : Everywhere(home)

\* What a service's state and the shadow's memory of its last sync say is there, is.
Kept(c, sh, sv, kn, gs, missing, isFull) ==
    /\ sh = NoFile => isFull /\ DOMAIN kn = {} /\ gs = {}
    /\ sh # NoFile =>
         /\ gs \ missing \subseteq DOMAIN c \intersect DOMAIN sv \intersect DOMAIN sh
         /\ DOMAIN kn \ missing \subseteq DOMAIN sv \intersect DOMAIN sh
Remembered ==
    \A s \in ServiceSet : Kept(master, shadow[s], server[s], known[s], state[s].guids,
                               Gone(given, moved, partly), s \in full)

\* Decks are known to the desktop, and routed everywhere as long as nobody routes them.
Routed ==
    /\ \A g \in DOMAIN master : master[g].deck \in present
    /\ ~partly => \A s \in ServiceSet : route[s] = Decks

\* What a sync has in hand.
Staged ==
    /\ at \in Opened => shadow[S] # NoFile
    /\ at \in Synced =>
         /\ shadow[S] = server[S]
         /\ ~partly => \A g \in DOMAIN shadow[S] : shadow[S][g].deck \in pull.decks

IInv == Types /\ Housed /\ Remembered /\ Routed /\ Staged
-----------------------------------------------------------------------------
(* Collections, and what the operators make of them.                       *)

LEMMA CollectionMeans ==
    ASSUME NEW c
    PROVE  c \in Collections <=> c \in [DOMAIN c -> Note] /\ DOMAIN c \subseteq Guids
BY DEF Collections

LEMMA EmptyCollection == Empty \in Collections /\ DOMAIN Empty = {}
<1>1. Empty \in [{} -> Note] /\ DOMAIN Empty = {} BY DEF Empty
<1> QED BY <1>1 DEF Collections

LEMMA NoteMeans ==
    \A n \in Note : n.deck \in Decks /\ n.mod \in 0..MaxTime /\ n.card \in 0..MaxTime
BY DEF Note

\* A note with another text, or another schedule.
LEMMA NewText ==
    ASSUME NEW n \in Note, NEW t \in 0..MaxTime, NEW r, r = [n EXCEPT !.mod = t]
    PROVE  r \in Note /\ r.mod = t /\ r.deck = n.deck /\ r.card = n.card
BY DEF Note

LEMMA NewSchedule ==
    ASSUME NEW n \in Note, NEW t \in 0..MaxTime, NEW r, r = [n EXCEPT !.card = t]
    PROVE  r \in Note /\ r.card = t /\ r.deck = n.deck /\ r.mod = n.mod
BY DEF Note

\* Some numbers have a least one, and below a bound a greatest one.
LEMMA LeastOfSome == ASSUME NEW T, T \subseteq Nat, T # {} PROVE \E i \in T : \A j \in T : i <= j
<1>1. PICK i \in T : \A j \in T : ~(<<j, i>> \in OpToRel(<, Nat))
  BY NatLessThanWellFounded, WFMin
<1>2. \A j \in T : i <= j
  <2> TAKE j \in T
  <2>1. <<j, i>> \in Nat \X Nat /\ <<j, i>>[1] = j /\ <<j, i>>[2] = i OBVIOUS
  <2>2. ~(j < i) BY <1>1, <2>1 DEF OpToRel
  <2> QED BY <2>2
<1> QED BY <1>2

LEMMA LatestIsOne ==
    ASSUME NEW times, times \subseteq 0..MaxTime
    PROVE  Latest(times) \in 0..MaxTime
<1> DEFINE T == times \union {0}
           before == {k \in Nat : \E t \in T : t + k = MaxTime}
<1>1. MaxTime \in Nat BY BoundsAssumption
<1>2. T \subseteq 0..MaxTime BY <1>1
<1>3. MaxTime \in before BY <1>1
<1>4. PICK k \in before : \A j \in before : k <= j
  <2>1. before \subseteq Nat /\ before # {} BY <1>3
  <2> HIDE DEF before
  <2> QED BY <2>1, LeastOfSome
<1>5. PICK t \in T : t + k = MaxTime BY <1>4
<1>6. \A u \in T : u <= t
  <2> TAKE u \in T
  <2>1. u \in 0..MaxTime /\ t \in 0..MaxTime BY <1>2
  <2>2. MaxTime - u \in before BY <1>1, <2>1
  <2>3. k <= MaxTime - u BY <1>4, <2>2
  <2> QED BY <1>1, <1>5, <2>1, <2>3
<1>7. \E v \in times \union {0} : \A u \in times : u <= v BY <1>6
<1>8. Latest(times) \in times \union {0} BY <1>7 DEF Latest
<1> QED BY <1>2, <1>8

\* What a collection says of a deck.
LEMMA FingerprintMeans ==
    ASSUME NEW c \in Collections, NEW d
    PROVE  fingerprint(c, d) \in Fingerprints
<1>1. In(c, {d}) \subseteq Guids /\ In(c, {d}) \subseteq DOMAIN c
  BY CollectionMeans DEF In
<1>2. Cardinality(In(c, {d})) \in 0..Cardinality(Guids)
  <2>1. IsFiniteSet(In(c, {d})) /\ IsFiniteSet(Guids) BY <1>1, NotesAssumption, FS_Subset
  <2>2. Cardinality(In(c, {d})) \in Nat /\ Cardinality(Guids) \in Nat BY <2>1, FS_CardinalityType
  <2>3. Cardinality(In(c, {d})) <= Cardinality(Guids) BY <1>1, <2>1, FS_Subset
  <2> QED BY <2>2, <2>3
<1>3. \A g \in In(c, {d}) : c[g].card \in 0..MaxTime /\ c[g].mod \in 0..MaxTime
  BY <1>1, CollectionMeans, NoteMeans
<1>4. Latest({c[g].card : g \in In(c, {d})}) \in 0..MaxTime BY <1>3, LatestIsOne
<1>5. Latest({c[g].mod : g \in In(c, {d})}) \in 0..MaxTime BY <1>3, LatestIsOne
<1> QED BY <1>2, <1>4, <1>5 DEF fingerprint, Fingerprints

LEMMA UpdatedPrints ==
    ASSUME NEW prints \in Prints, NEW c \in Collections, NEW decks \in SUBSET Decks
    PROVE  Updated(prints, c, decks) \in Prints
<1>1. PICK seen \in SUBSET Decks : prints \in [seen -> Fingerprints] BY DEF Prints
<1>2. \A d \in decks : fingerprint(c, d) \in Fingerprints BY FingerprintMeans
<1>3. Updated(prints, c, decks) \in [seen \union decks -> Fingerprints] BY <1>1, <1>2 DEF Updated
<1> QED BY <1>3 DEF Prints

\* The first of some services is one of them.
LEMMA FirstOfSome == ASSUME NEW Q, Q \subseteq ServiceSet, Q # {} PROVE First(Q) \in Q
<1> DEFINE places == {Place[s] : s \in Q}
<1>1. DOMAIN Services = 1..Len(Services) /\ Len(Services) \in Nat
  BY ServicesAssumption
<1>2. \A s \in ServiceSet : Place[s] \in Nat
  <2> TAKE s \in ServiceSet
  <2>1. \E i \in DOMAIN Services : Services[i] = s BY <1>1 DEF ServiceSet, ToSet
  <2>2. Place[s] = CHOOSE i \in DOMAIN Services : Services[i] = s BY DEF Place
  <2> QED BY <1>1, <2>1, <2>2
<1>3. PICK i \in places : \A j \in places : i <= j
  <2>1. places \subseteq Nat /\ places # {} BY <1>2
  <2> HIDE DEF places
  <2> QED BY <2>1, LeastOfSome
<1>4. \E s \in Q : \A r \in Q : Place[s] <= Place[r] BY <1>3
<1> QED BY <1>4 DEF First

\* Nothing but what may be missing goes, and nothing gets older.
Safe(c, d, missing) ==
    /\ DOMAIN c \ missing \subseteq DOMAIN d
    /\ \A g \in DOMAIN c \intersect DOMAIN d : c[g].mod <= d[g].mod /\ c[g].card <= d[g].card

LEMMA SafeSame == ASSUME NEW c \in Collections, NEW missing PROVE Safe(c, c, missing)
BY CollectionMeans, NoteMeans DEF Safe

LEMMA SafeMore ==
    ASSUME NEW c, NEW d, NEW missing, NEW more, Safe(c, d, missing), missing \subseteq more
    PROVE  Safe(c, d, more)
BY DEF Safe

\* The package import adds notes and makes texts newer.
LEMMA Reconciled ==
    ASSUME NEW src \in Collections, NEW dst \in Collections, NEW decks
    PROVE  LET r == reconcile_decks(src, dst, decks)
           IN  /\ r \in Collections
               /\ DOMAIN r = DOMAIN dst \union In(src, decks)
               /\ Safe(dst, r, {})
               /\ \A home, M, time : Sound(src, home, M, time) /\ Sound(dst, home, M, time)
                                        => Sound(r, home, M, time)
<1> DEFINE r == reconcile_decks(src, dst, decks)
<1>1. DOMAIN r = DOMAIN dst \union In(src, decks) /\ In(src, decks) \subseteq DOMAIN src
  BY DEF reconcile_decks, In
<1>2. \A g \in DOMAIN dst : dst[g] \in Note BY CollectionMeans
<1>3. \A g \in DOMAIN src : src[g] \in Note BY CollectionMeans
<1>4. \A g \in DOMAIN r :
        \/ g \notin DOMAIN dst /\ g \in DOMAIN src /\ r[g] = src[g]
        \/ /\ g \in DOMAIN dst /\ g \in DOMAIN src /\ dst[g].mod < src[g].mod
           /\ r[g] = [dst[g] EXCEPT !.mod = src[g].mod]
        \/ g \in DOMAIN dst /\ r[g] = dst[g]
  BY <1>1 DEF reconcile_decks
<1> HIDE DEF r
<1>5. \A g \in DOMAIN r :
        \/ g \notin DOMAIN dst /\ g \in DOMAIN src /\ r[g] = src[g]
        \/ /\ g \in DOMAIN dst /\ r[g].deck = dst[g].deck /\ r[g].card = dst[g].card
           /\ r[g] \in Note
           /\ r[g].mod = dst[g].mod \/ (g \in DOMAIN src /\ r[g].mod = src[g].mod /\ dst[g].mod < src[g].mod)
  <2> TAKE g \in DOMAIN r
  <2>1. CASE /\ g \in DOMAIN dst /\ g \in DOMAIN src /\ dst[g].mod < src[g].mod
             /\ r[g] = [dst[g] EXCEPT !.mod = src[g].mod]
    <3>1. dst[g] \in Note /\ src[g].mod \in 0..MaxTime BY <1>2, <1>3, <2>1, NoteMeans
    <3> QED BY <2>1, <3>1, NewText
  <2> QED BY <1>2, <1>4, <2>1
<1>6. \A g \in DOMAIN r : r[g] \in Note
  BY <1>3, <1>5
<1>7. r \in [DOMAIN r -> Note]
  <2>1. r = [g \in DOMAIN r |-> r[g]] BY DEF r, reconcile_decks
  <2> QED BY <1>6, <2>1
<1>8. DOMAIN r \subseteq Guids
  BY <1>1, CollectionMeans
<1>9. Safe(dst, r, {})
  BY <1>1, <1>2, <1>3, <1>5, NoteMeans DEF Safe
<1>10. ASSUME NEW home, NEW M, NEW time, Sound(src, home, M, time), Sound(dst, home, M, time)
       PROVE  Sound(r, home, M, time)
  BY <1>5, <1>10 DEF Sound, Past
<1>11. r \in Collections BY <1>7, <1>8, CollectionMeans
<1> QED BY <1>1, <1>9, <1>10, <1>11 DEF r

LEMMA ReconciledDecks ==
    ASSUME NEW src \in Collections, NEW dst \in Collections, NEW decks
    PROVE  \A g \in DOMAIN reconcile_decks(src, dst, decks) :
             \/ g \in DOMAIN dst /\ reconcile_decks(src, dst, decks)[g].deck = dst[g].deck
             \/ g \in In(src, decks) /\ reconcile_decks(src, dst, decks)[g].deck = src[g].deck
<1> DEFINE r == reconcile_decks(src, dst, decks)
<1>1. \A g \in DOMAIN dst : dst[g] \in Note BY CollectionMeans
<1>2. \A g \in DOMAIN src : src[g] \in Note BY CollectionMeans
<1> SUFFICES ASSUME NEW g \in DOMAIN r
             PROVE  \/ g \in DOMAIN dst /\ r[g].deck = dst[g].deck
                    \/ g \in In(src, decks) /\ r[g].deck = src[g].deck
  OBVIOUS
<1>3. \/ g \in In(src, decks) /\ r[g] = src[g]
      \/ g \in DOMAIN dst /\ g \in DOMAIN src /\ r[g] = [dst[g] EXCEPT !.mod = src[g].mod]
      \/ g \in DOMAIN dst /\ r[g] = dst[g]
  BY DEF reconcile_decks, In
<1> HIDE DEF r
<1>4. CASE g \in DOMAIN dst /\ g \in DOMAIN src /\ r[g] = [dst[g] EXCEPT !.mod = src[g].mod]
  <2>1. dst[g] \in Note /\ src[g].mod \in 0..MaxTime BY <1>1, <1>2, <1>4, NoteMeans
  <2> QED BY <1>4, <2>1, NewText
<1> QED BY <1>3, <1>4

\* Scheduling makes cards newer, and nothing else.
LEMMA Scheduled ==
    ASSUME NEW src \in Collections, NEW dst \in Collections, NEW decks
    PROVE  LET r == sync_scheduling(src, dst, decks)
           IN  /\ r \in Collections /\ DOMAIN r = DOMAIN dst
               /\ Safe(dst, r, {})
               /\ \A g \in DOMAIN dst : r[g].deck = dst[g].deck
               /\ \A home, M, time : Sound(src, home, M, time) /\ Sound(dst, home, M, time)
                                        => Sound(r, home, M, time)
<1> DEFINE r == sync_scheduling(src, dst, decks)
<1>1. DOMAIN r = DOMAIN dst BY DEF sync_scheduling
<1>2. \A g \in DOMAIN dst : dst[g] \in Note BY CollectionMeans
<1>3. \A g \in DOMAIN src : src[g] \in Note BY CollectionMeans
<1>4. \A g \in DOMAIN r :
        \/ /\ g \in DOMAIN src /\ dst[g].card < src[g].card
           /\ r[g] = [dst[g] EXCEPT !.card = src[g].card]
        \/ r[g] = dst[g]
  BY DEF sync_scheduling, Rescheduled, In
<1> HIDE DEF r
<1>5. \A g \in DOMAIN r :
        /\ r[g] \in Note /\ r[g].deck = dst[g].deck /\ r[g].mod = dst[g].mod
        /\ r[g].card = dst[g].card \/ (g \in DOMAIN src /\ r[g].card = src[g].card /\ dst[g].card < src[g].card)
  <2> TAKE g \in DOMAIN r
  <2>1. CASE g \in DOMAIN src /\ dst[g].card < src[g].card /\ r[g] = [dst[g] EXCEPT !.card = src[g].card]
    <3>1. dst[g] \in Note /\ src[g].card \in 0..MaxTime BY <1>1, <1>2, <1>3, <2>1, NoteMeans
    <3> QED BY <2>1, <3>1, NewSchedule
  <2> QED BY <1>1, <1>2, <1>4, <2>1
<1>6. r \in [DOMAIN r -> Note]
  <2>1. r = [g \in DOMAIN r |-> r[g]] BY DEF r, sync_scheduling
  <2> QED BY <1>5, <2>1
<1>7. DOMAIN r \subseteq Guids BY <1>1, CollectionMeans
<1>8. Safe(dst, r, {}) BY <1>1, <1>2, <1>3, <1>5, NoteMeans DEF Safe
<1>9. ASSUME NEW home, NEW M, NEW time, Sound(src, home, M, time), Sound(dst, home, M, time)
      PROVE  Sound(r, home, M, time)
  BY <1>1, <1>5, <1>9 DEF Sound, Past
<1> QED BY <1>1, <1>5, <1>6, <1>7, <1>8, <1>9, CollectionMeans DEF r

\* Deletions take only what is to be deleted and in one of the decks.
LEMMA Removed ==
    ASSUME NEW c \in Collections, NEW guids, NEW decks
    PROVE  LET r == remove_guids(c, guids, decks)
           IN  /\ r \in Collections /\ DOMAIN r \subseteq DOMAIN c
               /\ \A g \in DOMAIN r : r[g] = c[g]
               /\ DOMAIN c \ DOMAIN r \subseteq guids \intersect In(c, decks)
               /\ \A home, M, time : Sound(c, home, M, time) => Sound(r, home, M, time)
<1> DEFINE r == remove_guids(c, guids, decks)
<1>1. Removable(c, guids, decks) \subseteq guids \intersect In(c, decks)
  BY DEF Removable
<1>2. DOMAIN r = DOMAIN c \ Removable(c, guids, decks) /\ \A g \in DOMAIN r : r[g] = c[g]
  BY DEF remove_guids
<1>3. r = [g \in DOMAIN r |-> r[g]] BY DEF remove_guids
<1> HIDE DEF r
<1>4. r \in Collections
  BY <1>2, <1>3, CollectionMeans
<1>5. ASSUME NEW home, NEW M, NEW time, Sound(c, home, M, time) PROVE Sound(r, home, M, time)
  BY <1>2, <1>5 DEF Sound, Past
<1> QED BY <1>1, <1>2, <1>4, <1>5 DEF r

\* A merge takes away what one of the sides has lost since the last sync.
LEMMA MergedRows ==
    ASSUME NEW here \in Collections, NEW there \in Collections, NEW base \in Collections
    PROVE  LET r == Merged(here, there, base)
           IN  /\ r \in Collections
               /\ (DOMAIN here \union DOMAIN there) \ DOMAIN r
                     \subseteq DOMAIN base \ (DOMAIN here \intersect DOMAIN there)
               /\ DOMAIN r \subseteq DOMAIN here \union DOMAIN there
               /\ \A g \in DOMAIN there \intersect DOMAIN r :
                     there[g].mod <= r[g].mod /\ there[g].card <= r[g].card
               /\ \A home, M, time : Sound(here, home, M, time) /\ Sound(there, home, M, time)
                                        => Sound(r, home, M, time)
<1> DEFINE r == Merged(here, there, base)
           gone == (DOMAIN base \ DOMAIN here) \union (DOMAIN base \ DOMAIN there)
<1>1. DOMAIN r = (DOMAIN here \union DOMAIN there) \ gone BY DEF Merged
<1>2. \A g \in DOMAIN here : here[g] \in Note BY CollectionMeans
<1>3. \A g \in DOMAIN there : there[g] \in Note BY CollectionMeans
<1>4. \A g \in DOMAIN r :
        \/ g \notin DOMAIN there /\ g \in DOMAIN here /\ r[g] = here[g]
        \/ g \notin DOMAIN here /\ g \in DOMAIN there /\ r[g] = there[g]
        \/ g \in DOMAIN here /\ g \in DOMAIN there /\ r[g] = Newer(here[g], there[g])
  BY <1>1 DEF Merged
<1>5. \A a \in Note, b \in Note :
        LET n == Newer(a, b)
        IN  /\ n \in Note /\ n.deck \in {a.deck, b.deck} /\ n.mod \in {a.mod, b.mod} /\ n.card \in {a.card, b.card}
            /\ b.mod <= n.mod /\ b.card <= n.card
  <2> TAKE a \in Note, b \in Note
  <2> DEFINE row == IF a.card >= b.card THEN a ELSE b
             t == IF a.mod >= b.mod THEN a.mod ELSE b.mod
  <2>1. row \in Note /\ t \in 0..MaxTime /\ row.card >= b.card /\ t >= b.mod BY NoteMeans
  <2>2. Newer(a, b) = [row EXCEPT !.mod = t] BY DEF Newer
  <2>3. row \in {a, b} /\ t \in {a.mod, b.mod} OBVIOUS
  <2> HIDE DEF row, t
  <2>4. Newer(a, b) \in Note /\ Newer(a, b).mod = t /\ Newer(a, b).deck = row.deck /\ Newer(a, b).card = row.card
    BY <2>1, <2>2, NewText
  <2> QED BY <2>1, <2>3, <2>4
<1>6. r = [g \in DOMAIN r |-> r[g]] BY DEF Merged
<1> HIDE DEF r
<1>7. \A g \in DOMAIN r : r[g] \in Note BY <1>2, <1>3, <1>4, <1>5
<1>8. r \in [DOMAIN r -> Note] BY <1>6, <1>7
<1>9. r \in Collections BY <1>1, <1>8, CollectionMeans
<1>10. \A g \in DOMAIN there \intersect DOMAIN r :
          there[g].mod <= r[g].mod /\ there[g].card <= r[g].card
  BY <1>2, <1>3, <1>4, <1>5, NoteMeans
<1>11. ASSUME NEW home, NEW M, NEW time, Sound(here, home, M, time), Sound(there, home, M, time)
       PROVE  Sound(r, home, M, time)
  <2> SUFFICES ASSUME NEW g \in DOMAIN r
               PROVE  r[g].mod <= time /\ r[g].card <= time /\ (g \notin M => r[g].deck = home[g])
    BY DEF Sound, Past
  <2>1. CASE g \notin DOMAIN there BY <1>4, <1>11, <2>1 DEF Sound, Past
  <2>2. CASE g \notin DOMAIN here BY <1>4, <1>11, <2>2 DEF Sound, Past
  <2>3. CASE g \in DOMAIN here /\ g \in DOMAIN there
    <3>1. r[g] = Newer(here[g], there[g]) /\ here[g] \in Note /\ there[g] \in Note
      BY <1>2, <1>3, <1>4, <2>3
    <3>2. /\ r[g].mod \in {here[g].mod, there[g].mod} /\ r[g].card \in {here[g].card, there[g].card}
          /\ r[g].deck \in {here[g].deck, there[g].deck}
      BY <1>5, <3>1
    <3> QED BY <1>11, <2>3, <3>2 DEF Sound, Past
  <2> QED BY <2>1, <2>2, <2>3
<1> QED BY <1>1, <1>9, <1>10, <1>11 DEF r

\* What is kept goes on to be kept while nothing goes but what may be missing.
LEMMA KeptGrows ==
    ASSUME NEW c, NEW sh, NEW sv, NEW kn, NEW gs, NEW missing, NEW isFull,
           NEW c2, NEW sh2, NEW sv2, NEW missing2, NEW isFull2,
           Kept(c, sh, sv, kn, gs, missing, isFull),
           missing \subseteq missing2, isFull => isFull2,
           DOMAIN c \ missing2 \subseteq DOMAIN c2, DOMAIN sv \ missing2 \subseteq DOMAIN sv2,
           sh # NoFile => sh2 # NoFile /\ DOMAIN sh \ missing2 \subseteq DOMAIN sh2
    PROVE  Kept(c2, sh2, sv2, kn, gs, missing2, isFull2)
BY DEF Kept

LEMMA SoundMore ==
    ASSUME NEW c \in Collections, NEW home, NEW M, NEW time \in Int, NEW home2, NEW M2, NEW time2 \in Int,
           Sound(c, home, M, time), M \subseteq M2, time <= time2,
           \A g \in DOMAIN c : home2[g] = home[g]
    PROVE  Sound(c, home2, M2, time2)
BY CollectionMeans, NoteMeans DEF Sound, Past

\* The native sync makes both sides the same, out of what either had.
LEMMA NativeSync ==
    ASSUME IInv, NEW s \in ServiceSet, NEW here \in Collections, run_native_sync(s, here),
           \/ shadow[s] = NoFile /\ here = Empty
           \/ shadow[s] # NoFile /\ here = shadow[s]
    PROVE  \E both \in Collections :
             /\ shadow' = [shadow EXCEPT ![s] = both] /\ server' = [server EXCEPT ![s] = both]
             /\ known' = [known EXCEPT ![s] = both] /\ full' = full \ {s}
             /\ Safe(server[s], both, Gone(given, moved, partly))
             /\ Kept(master, both, both, both, state[s].guids, Gone(given, moved, partly), FALSE)
             /\ \A home : Everywhere(home) => Sound(both, home, moved, now)
<1> DEFINE missing == Gone(given, moved, partly)
           both == IF s \notin full THEN Merged(here, server[s], known[s])
                   ELSE IF server[s] = Empty THEN here ELSE server[s]
<1>1. /\ server[s] \in Collections /\ known[s] \in Collections
      /\ \A home : Everywhere(home) => Sound(server[s], home, moved, now) /\ Sound(here, home, moved, now)
      /\ NoFile \notin Collections
  BY NotesAssumption, EmptyCollection DEF IInv, Types, Everywhere, Sound, Past
<1>2. Kept(master, shadow[s], server[s], known[s], state[s].guids, missing, s \in full)
  BY DEF IInv, Remembered
<1>3. /\ both \in Collections
      /\ Safe(server[s], both, missing)
      /\ Kept(master, both, both, both, state[s].guids, missing, FALSE)
      /\ \A home : Everywhere(home) => Sound(both, home, moved, now)
  <2>1. CASE s \notin full
    <3>1. both = Merged(here, server[s], known[s]) BY <2>1
    <3> HIDE DEF both
    <3>2. shadow[s] # NoFile /\ here = shadow[s] BY <1>2, <2>1 DEF Kept
    <3>3. DOMAIN known[s] \ missing \subseteq DOMAIN here \intersect DOMAIN server[s]
      BY <1>2, <3>2 DEF Kept
    <3>4. (DOMAIN here \union DOMAIN server[s]) \ missing \subseteq DOMAIN both
      BY <1>1, <3>1, <3>3, MergedRows
    <3>5. Safe(server[s], both, missing)
      BY <1>1, <3>1, <3>4, MergedRows DEF Safe
    <3>6. both \in Collections /\ \A home : Everywhere(home) => Sound(both, home, moved, now)
      BY <1>1, <3>1, MergedRows
    <3>7. Kept(master, both, both, both, state[s].guids, missing, FALSE)
      BY <1>1, <1>2, <3>2, <3>4, <3>6 DEF Kept
    <3> QED BY <3>5, <3>6, <3>7
  <2>2. CASE s \in full /\ server[s] = Empty
    <3>1. both = here BY <2>2
    <3> HIDE DEF both, missing
    <3>2. Safe(server[s], both, missing) BY <2>2, EmptyCollection DEF Safe
    <3>3. Kept(master, both, both, both, state[s].guids, missing, FALSE)
      BY <1>1, <1>2, <3>1 DEF Kept
    <3> QED BY <1>1, <3>1, <3>2, <3>3
  <2>3. CASE s \in full /\ server[s] # Empty
    <3>1. both = server[s] BY <2>3
    <3> HIDE DEF both, missing
    <3>2. Kept(master, both, both, both, state[s].guids, missing, FALSE)
      BY <1>1, <1>2, <3>1 DEF Kept
    <3> QED BY <1>1, <3>1, <3>2, SafeSame
  <2> QED BY <2>1, <2>2, <2>3
<1>4. /\ shadow' = [shadow EXCEPT ![s] = both] /\ server' = [server EXCEPT ![s] = both]
      /\ known' = [known EXCEPT ![s] = both] /\ full' = full \ {s}
  BY DEF run_native_sync
<1> HIDE DEF both
<1> QED BY <1>3, <1>4

-----------------------------------------------------------------------------
(* What the steps do.                                                      *)

\* Neither the desktop nor a server loses anything but what may be missing.
Harmless ==
    /\ Safe(master, master', Gone(given, moved, partly)')
    /\ \A s \in ServiceSet : Safe(server[s], server'[s], Gone(given, moved, partly)')

LEMMA Unharmed ==
    ASSUME Types, UNCHANGED <<master, server>>
    PROVE  Harmless
BY SafeSame DEF Types, Harmless

LEMMA StartsSound == Init => IInv
<1> SUFFICES ASSUME Init PROVE IInv
  OBVIOUS
<1>1. PICK start \in Starts :
        /\ master = start.master /\ server = start.server /\ route = start.route
        /\ moved = Displaced({start.master} \union {start.server[s] : s \in ServiceSet})
        /\ partly = (start.route # [s \in ServiceSet |-> Decks])
  BY DEF Init
<1>2. /\ master \in Collections /\ Past(master, 1)
      /\ server \in [ServiceSet -> Collections]
      /\ \A s \in ServiceSet : Past(server[s], 1)
      /\ route \in [ServiceSet -> SUBSET Decks]
  BY <1>1, StartsAssumption DEF ServiceSet
<1>3. /\ present = {master[g].deck : g \in DOMAIN master}
      /\ shadow = [s \in ServiceSet |-> NoFile] /\ known = [s \in ServiceSet |-> Empty]
      /\ full = ServiceSet
      /\ state = [s \in ServiceSet |-> [m |-> NeverSeen, s |-> NeverSeen, guids |-> {}]]
      /\ queue = {} /\ run = Idle /\ at = "idle" /\ pull = NoPull
      /\ now = 1 /\ stops = 0 /\ given = {}
  BY DEF Init
<1>4. present \subseteq Decks
  BY <1>2, <1>3, CollectionMeans, NoteMeans
<1>5. NeverSeen \in Prints
  <2>1. Empty \in [{} -> Fingerprints] BY DEF Empty
  <2> QED BY <2>1 DEF Prints, NeverSeen
<1>6. Types
  <2>1. moved \subseteq Guids BY <1>1 DEF Displaced
  <2> QED BY <1>1, <1>2, <1>3, <1>4, <1>5, <2>1, EmptyCollection, BoundsAssumption DEF Types, Idle, NoPull, Stages
<1>7. Housed
  <2> DEFINE sides == {master} \union {server[s] : s \in ServiceSet}
             Where(g) == {d \in Decks : \E c \in sides : g \in DOMAIN c /\ c[g].deck = d}
             home == [g \in Guids |-> IF Where(g) # {} THEN CHOOSE d \in Where(g) : TRUE
                                      ELSE CHOOSE d \in Decks : TRUE]
  <2>1. \A c \in sides : \A g \in DOMAIN c \ moved : c[g].deck = home[g]
    <3> TAKE c \in sides
    <3> TAKE g \in DOMAIN c \ moved
    <3>1. c \in Collections BY <1>2
    <3>2. g \in Guids /\ c[g].deck \in Decks BY <3>1, CollectionMeans, NoteMeans
    <3>3. c[g].deck \in Where(g) BY <3>2
    <3>4. \A d \in Where(g) : d = c[g].deck BY <1>1, <3>2 DEF Displaced
    <3> QED BY <3>2, <3>3, <3>4
  <2>2. \A s \in ServiceSet : shadow[s] = NoFile BY <1>3
  <2>3. home \in [Guids -> Decks] BY NotesAssumption
  <2>4. Everywhere(home)
    <3> HIDE DEF home
    <3> QED BY <1>2, <1>3, <2>1, <2>2 DEF Everywhere, Sound
  <2> QED BY <2>3, <2>4 DEF Housed
<1>8. Remembered
  BY <1>2, <1>3, EmptyCollection DEF Remembered, Kept
<1>9. Routed
  BY <1>1, <1>3 DEF Routed
<1>10. Staged
  BY <1>3 DEF Staged, Opened, Stages, Synced
<1> QED BY <1>6, <1>7, <1>8, <1>9, <1>10 DEF IInv

\* The next service, the next pass, or the end.
LEMMA Proceeded ==
    ASSUME Types, at # "idle", NEW pulled \in BOOLEAN, Proceed(S, pulled)
    PROVE  /\ run' \in [services : SUBSET ServiceSet, pass : 0..2, pulled : BOOLEAN]
           /\ queue' \subseteq run'.services
           /\ at' \in {"idle", "open"} /\ (at' # "idle" => queue' # {})
           /\ pull' = NoPull
<1> DEFINE any == run.pulled \/ pulled
<1>1. any \in BOOLEAN BY DEF Types
<1>2. CASE queue # {S} /\ queue' = queue \ {S} /\ at' = "open" /\ run' = [run EXCEPT !.pulled = any]
  <2>1. queue' # {} BY <1>2 DEF Types
  <2>2. run'.services = run.services BY <1>2 DEF Types
  <2> QED BY <1>1, <1>2, <2>1, <2>2 DEF Types, Proceed
<1>3. CASE /\ Again(any) /\ queue' = run.services /\ at' = "open"
           /\ run' = [run EXCEPT !.pass = @ + 1, !.pulled = FALSE]
  <2>1. run.services # {} /\ run.pass = 1 BY <1>3 DEF Types, Again
  <2>2. run' = [[run EXCEPT !.pass = 2] EXCEPT !.pulled = FALSE] BY <1>3, <2>1
  <2>3. run \in [services : SUBSET ServiceSet, pass : 0..2, pulled : BOOLEAN] BY DEF Types
  <2>4. run' \in [services : SUBSET ServiceSet, pass : 0..2, pulled : BOOLEAN] /\ run'.services = run.services
    <3> DEFINE second == [run EXCEPT !.pass = 2]
    <3>1. /\ second \in [services : SUBSET ServiceSet, pass : 0..2, pulled : BOOLEAN]
          /\ second.services = run.services
      BY <2>3
    <3> HIDE DEF second
    <3>2. run' = [second EXCEPT !.pulled = FALSE] BY <2>2 DEF second
    <3> QED BY <3>1, <3>2
  <2>5. queue' = run'.services /\ queue' # {} /\ at' = "open" BY <1>3, <2>1, <2>4
  <2> QED BY <2>4, <2>5 DEF Proceed
<1>4. CASE queue' = {} /\ at' = "idle" /\ run' = Idle
  BY <1>4 DEF Proceed, Idle
<1> QED BY <1>2, <1>3, <1>4 DEF Proceed

\* The beginning of a dual sync.
LEMMA Begins == IInv /\ dual_sync => IInv' /\ Harmless
<1> SUFFICES ASSUME IInv, dual_sync PROVE IInv' /\ Harmless
  OBVIOUS
<1> USE DEF dual_sync, collections, history
<1>1. active_services \subseteq ServiceSet BY DEF active_services
<1>2. Types' BY <1>1 DEF IInv, Types, Stages
<1>3. Housed' BY DEF IInv, Housed, Everywhere
<1>4. Remembered' BY DEF IInv, Remembered, Gone
<1>5. Routed' BY DEF IInv, Routed
<1>6. Staged' BY DEF Staged, Opened, Stages, Synced
<1>7. Harmless BY Unharmed DEF IInv
<1> QED BY <1>2, <1>3, <1>4, <1>5, <1>6, <1>7 DEF IInv

LEMMA NativeStep ==
    ASSUME IInv, NEW s \in ServiceSet, NEW here \in Collections, run_native_sync(s, here),
           \/ shadow[s] = NoFile /\ here = Empty
           \/ shadow[s] # NoFile /\ here = shadow[s],
           UNCHANGED <<master, state, given, moved, partly, now>>
    PROVE  /\ shadow' \in [ServiceSet -> Collections \union {NoFile}]
           /\ known' \in [ServiceSet -> Collections] /\ server' \in [ServiceSet -> Collections]
           /\ full' \subseteq full
           /\ shadow'[s] # NoFile /\ shadow'[s] = server'[s]
           /\ Housed' /\ Remembered' /\ Harmless
<1> DEFINE missing == Gone(given, moved, partly)
<1>1. PICK both \in Collections :
        /\ shadow' = [shadow EXCEPT ![s] = both] /\ server' = [server EXCEPT ![s] = both]
        /\ known' = [known EXCEPT ![s] = both] /\ full' = full \ {s}
        /\ Safe(server[s], both, missing)
        /\ Kept(master, both, both, both, state[s].guids, missing, FALSE)
        /\ \A home : Everywhere(home) => Sound(both, home, moved, now)
  BY NativeSync
<1>2. /\ shadow \in [ServiceSet -> Collections \union {NoFile}]
      /\ known \in [ServiceSet -> Collections] /\ server \in [ServiceSet -> Collections]
      /\ master \in Collections
  BY DEF IInv, Types
<1>3. /\ shadow'[s] = both /\ server'[s] = both /\ known'[s] = both /\ s \notin full'
      /\ \A r \in ServiceSet \ {s} :
            /\ shadow'[r] = shadow[r] /\ server'[r] = server[r] /\ known'[r] = known[r]
            /\ r \in full' <=> r \in full
  BY <1>1, <1>2
<1>4. Gone(given, moved, partly)' = missing
  BY DEF Gone
<1>5. Housed'
  <2>1. PICK home \in [Guids -> Decks] : Everywhere(home) BY DEF IInv, Housed
  <2>2. Everywhere(home)'
    BY <1>1, <1>3, <2>1 DEF Everywhere
  <2> QED BY <2>2 DEF Housed
<1>6. Remembered'
  <2> SUFFICES ASSUME NEW r \in ServiceSet
               PROVE  Kept(master, shadow'[r], server'[r], known'[r], state[r].guids, missing, r \in full')
    BY <1>4 DEF Remembered
  <2>1. CASE r = s
    <3>1. (r \in full') = FALSE BY <1>3, <2>1
    <3> QED BY <1>1, <1>3, <2>1, <3>1
  <2>2. CASE r # s
    <3>1. Kept(master, shadow[r], server[r], known[r], state[r].guids, missing, r \in full)
      BY DEF IInv, Remembered
    <3>2. (r \in full') = (r \in full) BY <1>3, <2>2
    <3> QED BY <1>3, <2>2, <3>1, <3>2
  <2> QED BY <2>1, <2>2
<1>7. Harmless
  <2>1. Safe(master, master', missing) BY <1>2, SafeSame
  <2>2. \A r \in ServiceSet : Safe(server[r], server'[r], missing)
    BY <1>1, <1>2, <1>3, SafeSame
  <2> QED BY <1>4, <2>1, <2>2 DEF Harmless
<1>8. both # NoFile BY NotesAssumption
<1> HIDE DEF missing
<1> QED BY <1>1, <1>2, <1>3, <1>5, <1>6, <1>7, <1>8

\* The service of a running sync.
LEMMA Current == ASSUME Types, at # "idle" PROVE S \in ServiceSet
BY FirstOfSome DEF Types, S

LEMMA Opens == IInv /\ OpenShadow(S) => IInv' /\ Harmless
<1> SUFFICES ASSUME IInv, OpenShadow(S) PROVE IInv' /\ Harmless
  OBVIOUS
<1>1. /\ at = "open" /\ at' = "push" /\ queue' = queue /\ S' = S
      /\ UNCHANGED <<run, route, now, stops, given, moved, partly, master, present, state, pull>>
  BY DEF OpenShadow, Stage, S
<1>2. S \in ServiceSet BY <1>1, Current DEF IInv
<1>3. CASE shadow[S] = NoFile
  <2>1. run_native_sync(S, Empty) BY <1>3 DEF OpenShadow
  <2>2. /\ shadow' \in [ServiceSet -> Collections \union {NoFile}]
        /\ known' \in [ServiceSet -> Collections] /\ server' \in [ServiceSet -> Collections]
        /\ full' \subseteq full /\ shadow'[S] # NoFile
        /\ Housed' /\ Remembered' /\ Harmless
    BY <1>1, <1>2, <1>3, <2>1, NativeStep, EmptyCollection
  <2>3. Types' BY <1>1, <2>2 DEF IInv, Types, Stages
  <2>4. Routed' BY <1>1 DEF IInv, Routed
  <2>5. Staged' BY <1>1, <2>2 DEF Staged, Synced
  <2> QED BY <2>2, <2>3, <2>4, <2>5 DEF IInv
<1>4. CASE shadow[S] # NoFile
  <2>1. UNCHANGED <<shadow, server, known, full>> BY <1>4 DEF OpenShadow
  <2>2. Types' BY <1>1, <2>1 DEF IInv, Types, Stages
  <2>3. Housed' /\ Remembered' /\ Routed'
    BY <1>1, <2>1 DEF IInv, Housed, Everywhere, Remembered, Routed, Gone
  <2>4. Staged' BY <1>1, <1>4, <2>1 DEF Staged, Synced
  <2>5. Harmless BY <1>1, <2>1, Unharmed DEF IInv
  <2> QED BY <2>2, <2>3, <2>4, <2>5 DEF IInv
<1> QED BY <1>3, <1>4

LEMMA Syncs == IInv /\ SyncShadow(S) => IInv' /\ Harmless
<1> SUFFICES ASSUME IInv, SyncShadow(S) PROVE IInv' /\ Harmless
  OBVIOUS
<1>1. /\ at = "sync" /\ at' = "pull" /\ queue' = queue /\ S' = S
      /\ UNCHANGED <<run, route, now, stops, given, moved, partly, master, present, state>>
  BY DEF SyncShadow, Stage, S
<1>2. S \in ServiceSet BY <1>1, Current DEF IInv
<1>3. shadow[S] # NoFile /\ shadow[S] \in Collections
  BY <1>1, <1>2 DEF IInv, Staged, Types, Opened, Stages
<1>4. run_native_sync(S, shadow[S]) BY DEF SyncShadow
<1>5. /\ shadow' \in [ServiceSet -> Collections \union {NoFile}]
      /\ known' \in [ServiceSet -> Collections] /\ server' \in [ServiceSet -> Collections]
      /\ full' \subseteq full /\ shadow'[S] # NoFile /\ shadow'[S] = server'[S]
      /\ Housed' /\ Remembered' /\ Harmless
  BY <1>1, <1>2, <1>3, <1>4, NativeStep
<1> DEFINE c == shadow'[S]
<1>6. c \in Collections BY <1>2, <1>5
<1>7. pull' = [pull EXCEPT !.decks = routed(S) \union ({c[g].deck : g \in DOMAIN c} \ present)]
  BY DEF SyncShadow
<1>8. \A g \in DOMAIN c : c[g].deck \in Decks BY <1>6, CollectionMeans, NoteMeans
<1>9. /\ pull' \in [decks : SUBSET Decks, any : BOOLEAN]
      /\ pull'.decks = routed(S) \union ({c[g].deck : g \in DOMAIN c} \ present)
  <2>1. routed(S) \subseteq Decks BY DEF IInv, Types, routed
  <2>2. routed(S) \union ({c[g].deck : g \in DOMAIN c} \ present) \in SUBSET Decks BY <1>8, <2>1
  <2>3. pull \in [decks : SUBSET Decks, any : BOOLEAN] BY DEF IInv, Types
  <2> HIDE DEF c
  <2> QED BY <1>7, <2>2, <2>3
<1>10. Types' BY <1>1, <1>5, <1>9 DEF IInv, Types, Stages
<1>11. Routed' BY <1>1 DEF IInv, Routed
<1>12. Staged'
  <2>1. ASSUME ~partly, NEW g \in DOMAIN c PROVE c[g].deck \in pull'.decks
    <3>1. route[S] = Decks BY <1>2, <2>1 DEF IInv, Routed
    <3> QED BY <1>8, <1>9, <3>1 DEF routed
  <2> QED BY <1>1, <1>5, <2>1 DEF Staged
<1> QED BY <1>5, <1>10, <1>11, <1>12 DEF IInv

\* Whatever a push makes of the shadow, as long as it is all there.
LEMMA PushStep ==
    ASSUME IInv, at \in {"push", "carry"}, at' \in {"carry", "sync"},
           UNCHANGED <<queue, run, route, now, stops, given, moved, partly>>,
           UNCHANGED <<master, present, known, server, full, state, pull>>,
           NEW sh \in Collections, shadow' = [shadow EXCEPT ![S] = sh],
           DOMAIN shadow[S] \ Gone(given, moved, partly) \subseteq DOMAIN sh,
           \A home : Everywhere(home) => Sound(sh, home, moved, now)
    PROVE  IInv' /\ Harmless
<1>1. S \in ServiceSet /\ S' = S BY Current DEF IInv, S
<1>2. shadow \in [ServiceSet -> Collections \union {NoFile}] /\ shadow[S] # NoFile
  BY DEF IInv, Types, Staged, Opened, Stages
<1>3. shadow'[S] = sh /\ \A r \in ServiceSet \ {S} : shadow'[r] = shadow[r]
  BY <1>1, <1>2
<1>4. sh # NoFile BY NotesAssumption
<1>5. Types' BY <1>1, <1>2 DEF IInv, Types, Stages
<1>6. Housed'
  <2>1. PICK home \in [Guids -> Decks] : Everywhere(home) BY DEF IInv, Housed
  <2>2. Everywhere(home)' BY <1>3, <2>1 DEF Everywhere
  <2> QED BY <2>2 DEF Housed
<1>7. Remembered'
  <2> DEFINE missing == Gone(given, moved, partly)
  <2>1. Gone(given, moved, partly)' = missing BY DEF Gone
  <2> HIDE DEF missing
  <2> SUFFICES ASSUME NEW r \in ServiceSet
               PROVE  Kept(master, shadow'[r], server[r], known[r], state[r].guids, missing, r \in full)
    BY <2>1 DEF Remembered
  <2>2. Kept(master, shadow[r], server[r], known[r], state[r].guids, missing, r \in full)
    BY DEF IInv, Remembered, missing
  <2>3. DOMAIN shadow[r] \ missing \subseteq DOMAIN shadow'[r] /\ (shadow[r] # NoFile => shadow'[r] # NoFile)
    BY <1>3, <1>4 DEF missing
  <2> QED BY <2>2, <2>3, KeptGrows
<1>8. Routed' BY DEF IInv, Routed
<1>9. Staged' BY <1>1, <1>3, <1>4 DEF Staged, Synced
<1>10. Harmless BY Unharmed DEF IInv
<1> QED BY <1>5, <1>6, <1>7, <1>8, <1>9, <1>10 DEF IInv

LEMMA PushesDecks == IInv /\ PushChangedDecks(S) => IInv' /\ Harmless
<1> SUFFICES ASSUME IInv, PushChangedDecks(S) PROVE IInv' /\ Harmless
  OBVIOUS
<1> DEFINE to_push == changed(master, routed(S), state[S].m) \union HasMore(master, shadow[S], routed(S))
           sh == reconcile_decks(master, shadow[S], to_push)
<1>1. /\ at = "push" /\ at' = "carry"
      /\ UNCHANGED <<queue, run, route, now, stops, given, moved, partly>>
      /\ UNCHANGED <<master, present, known, server, full, state, pull>>
      /\ shadow' = [shadow EXCEPT ![S] = sh]
  BY DEF PushChangedDecks, Stage
<1>2. S \in ServiceSet BY <1>1, Current DEF IInv
<1>3. master \in Collections /\ shadow[S] \in Collections /\ shadow[S] # NoFile
  BY <1>1, <1>2 DEF IInv, Types, Staged, Opened, Stages
<1>4. /\ sh \in Collections /\ DOMAIN shadow[S] \subseteq DOMAIN sh
      /\ \A home : Everywhere(home) => Sound(sh, home, moved, now)
  <2> HIDE DEF to_push
  <2>1. /\ sh \in Collections /\ DOMAIN sh = DOMAIN shadow[S] \union In(master, to_push)
        /\ \A home, M, time : Sound(master, home, M, time) /\ Sound(shadow[S], home, M, time)
                                 => Sound(sh, home, M, time)
    BY <1>3, Reconciled
  <2> HIDE DEF sh
  <2> QED BY <1>2, <1>3, <2>1 DEF Everywhere
<1> HIDE DEF sh
<1> QED BY <1>1, <1>4, PushStep

LEMMA PushesRest == IInv /\ PushRest(S) => IInv' /\ Harmless
<1> SUFFICES ASSUME IInv, PushRest(S) PROVE IInv' /\ Harmless
  OBVIOUS
<1> DEFINE gone == state[S].guids \ routed_guids(master, routed(S))
           studied == sync_scheduling(master, shadow[S], routed(S))
           sh == remove_guids(studied, gone, routed(S))
           missing == Gone(given, moved, partly)
<1>1. /\ at = "carry" /\ at' = "sync"
      /\ UNCHANGED <<queue, run, route, now, stops, given, moved, partly>>
      /\ UNCHANGED <<master, present, known, server, full, state, pull>>
      /\ shadow' = [shadow EXCEPT ![S] = sh]
  BY DEF PushRest, Stage
<1>2. S \in ServiceSet BY <1>1, Current DEF IInv
<1>3. master \in Collections /\ shadow[S] \in Collections /\ shadow[S] # NoFile
  BY <1>1, <1>2 DEF IInv, Types, Staged, Opened, Stages
<1>4. /\ studied \in Collections /\ DOMAIN studied = DOMAIN shadow[S]
      /\ \A g \in DOMAIN studied : studied[g].deck = shadow[S][g].deck
      /\ \A home : Everywhere(home) => Sound(studied, home, moved, now)
  BY <1>2, <1>3, Scheduled DEF Everywhere
<1>5. /\ sh \in Collections /\ DOMAIN studied \ DOMAIN sh \subseteq gone \intersect In(studied, routed(S))
      /\ \A home : Everywhere(home) => Sound(sh, home, moved, now)
  <2> HIDE DEF gone, studied
  <2> QED BY <1>4, Removed
\* What the shadow is to lose, the desktop has lost.
<1>6. gone \intersect In(studied, routed(S)) \subseteq missing
  <2> SUFFICES ASSUME NEW g \in gone \intersect In(studied, routed(S)), g \notin missing PROVE FALSE
    OBVIOUS
  <2>1. g \in state[S].guids /\ g \notin In(master, routed(S)) /\ g \in DOMAIN shadow[S] /\ shadow[S][g].deck \in routed(S)
    BY <1>4 DEF In, routed_guids
  <2>2. g \in DOMAIN master
    BY <1>2, <1>3, <2>1 DEF IInv, Remembered, Kept
  <2>3. master[g].deck \notin routed(S) BY <2>1, <2>2 DEF In
  <2>4. CASE ~partly
    <3>1. master[g].deck \in present /\ route[S] = Decks /\ present \subseteq Decks
      BY <1>2, <2>2, <2>4 DEF IInv, Routed, Types
    <3> QED BY <2>3, <3>1 DEF routed
  <2>5. CASE partly
    <3>1. g \notin moved BY <2>5 DEF Gone
    <3>2. PICK home \in [Guids -> Decks] : Everywhere(home) BY DEF IInv, Housed
    <3>3. master[g].deck = home[g] /\ shadow[S][g].deck = home[g]
      BY <1>2, <1>3, <2>1, <2>2, <3>1, <3>2 DEF Everywhere, Sound
    <3> QED BY <2>1, <2>3, <3>3
  <2> QED BY <2>4, <2>5 DEF IInv, Types
<1>7. DOMAIN shadow[S] \ missing \subseteq DOMAIN sh
  BY <1>4, <1>5, <1>6
<1> HIDE DEF sh
<1> QED BY <1>1, <1>5, <1>7, PushStep

\* Whatever a pull makes of the collection of the user, as long as it is safe.
LEMMA PullStep ==
    ASSUME IInv, at \in {"pull", "back"}, at' \in {"back", "save"},
           UNCHANGED <<queue, run, route, now, stops, given, moved, partly>>,
           UNCHANGED <<shadow, known, server, full, state>>,
           present' \subseteq Decks, \A g \in DOMAIN master' : master'[g].deck \in present',
           pull' \in [decks : SUBSET Decks, any : BOOLEAN], pull'.decks = pull.decks,
           master' \in Collections, Safe(master, master', Gone(given, moved, partly)),
           \A home : Everywhere(home) => Sound(master', home, moved, now)
    PROVE  IInv' /\ Harmless
<1>1. S \in ServiceSet /\ S' = S BY Current DEF IInv, S
<1>2. Types' BY DEF IInv, Types, Stages
<1>3. Housed'
  <2>1. PICK home \in [Guids -> Decks] : Everywhere(home) BY DEF IInv, Housed
  <2>2. Everywhere(home)' BY <2>1 DEF Everywhere
  <2> QED BY <2>2 DEF Housed
<1>4. Gone(given, moved, partly)' = Gone(given, moved, partly) BY DEF Gone
<1>5. Remembered'
  <2> SUFFICES ASSUME NEW r \in ServiceSet
               PROVE  Kept(master', shadow[r], server[r], known[r], state[r].guids,
                           Gone(given, moved, partly), r \in full)
    BY <1>4 DEF Remembered
  <2>1. Kept(master, shadow[r], server[r], known[r], state[r].guids, Gone(given, moved, partly), r \in full)
    BY DEF IInv, Remembered
  <2> QED BY <2>1, KeptGrows DEF Safe
<1>6. Routed' BY DEF IInv, Routed
<1>7. Staged'
  BY <1>1 DEF IInv, Staged, Synced, Opened, Stages
<1>8. Harmless
  BY <1>4, SafeSame DEF IInv, Types, Harmless
<1> QED BY <1>2, <1>3, <1>5, <1>6, <1>7, <1>8 DEF IInv

LEMMA PullsDecks == IInv /\ PullChangedDecks(S) => IInv' /\ Harmless
<1> SUFFICES ASSUME IInv, PullChangedDecks(S) PROVE IInv' /\ Harmless
  OBVIOUS
<1> DEFINE to_pull == changed(shadow[S], pull.decks, state[S].s) \union HasMore(shadow[S], master, pull.decks)
           sent == In(shadow[S], to_pull)
<1>1. /\ at = "pull" /\ at' = "back"
      /\ UNCHANGED <<queue, run, route, now, stops, given, moved, partly>>
      /\ UNCHANGED <<shadow, known, server, full, state>>
      /\ master' = reconcile_decks(shadow[S], master, to_pull)
      /\ present' = present \union {shadow[S][g].deck : g \in sent}
      /\ pull' = [pull EXCEPT !.any = sent # {}]
  BY DEF PullChangedDecks, Stage
<1>2. S \in ServiceSet BY <1>1, Current DEF IInv
<1>3. master \in Collections /\ shadow[S] \in Collections /\ shadow[S] # NoFile
  BY <1>1, <1>2 DEF IInv, Types, Staged, Opened, Stages
<1>4. /\ master' \in Collections /\ Safe(master, master', {})
      /\ DOMAIN master' = DOMAIN master \union sent
      /\ \A g \in DOMAIN master' : \/ g \in DOMAIN master /\ master'[g].deck = master[g].deck
                                   \/ g \in sent /\ master'[g].deck = shadow[S][g].deck
      /\ \A home : Everywhere(home) => Sound(master', home, moved, now)
  <2> HIDE DEF to_pull
  <2> DEFINE r == reconcile_decks(shadow[S], master, to_pull)
  <2>1. /\ r \in Collections /\ Safe(master, r, {}) /\ DOMAIN r = DOMAIN master \union sent
        /\ \A g \in DOMAIN r : \/ g \in DOMAIN master /\ r[g].deck = master[g].deck
                               \/ g \in sent /\ r[g].deck = shadow[S][g].deck
    <3>1. r \in Collections /\ Safe(master, r, {}) /\ DOMAIN r = DOMAIN master \union sent
      BY <1>3, Reconciled
    <3>2. \A g \in DOMAIN r : \/ g \in DOMAIN master /\ r[g].deck = master[g].deck
                              \/ g \in sent /\ r[g].deck = shadow[S][g].deck
      BY <1>3, ReconciledDecks
    <3> QED BY <3>1, <3>2
  <2>2. \A home, M, time : Sound(shadow[S], home, M, time) /\ Sound(master, home, M, time)
                              => Sound(r, home, M, time)
    BY <1>3, Reconciled
  <2>3. master' = r BY <1>1
  <2> HIDE DEF r, sent
  <2>4. \A home : Everywhere(home) => Sound(master', home, moved, now)
    BY <1>2, <1>3, <2>2, <2>3 DEF Everywhere
  <2> QED BY <2>1, <2>3, <2>4
<1>5. Safe(master, master', Gone(given, moved, partly)) BY <1>4, SafeMore
<1>6. pull' \in [decks : SUBSET Decks, any : BOOLEAN] /\ pull'.decks = pull.decks
  <2>1. pull \in [decks : SUBSET Decks, any : BOOLEAN] BY DEF IInv, Types
  <2>2. (sent # {}) \in BOOLEAN OBVIOUS
  <2> HIDE DEF sent
  <2> QED BY <1>1, <2>1, <2>2
<1>7. present' \subseteq Decks
  <2>1. sent \subseteq DOMAIN shadow[S] BY DEF In
  <2>2. \A g \in sent : shadow[S][g].deck \in Decks BY <1>3, <2>1, CollectionMeans, NoteMeans
  <2> HIDE DEF sent
  <2> QED BY <1>1, <2>2 DEF IInv, Types
<1>8. \A g \in DOMAIN master' : master'[g].deck \in present'
  <2> HIDE DEF sent
  <2> QED BY <1>1, <1>4 DEF IInv, Routed
<1> QED BY <1>1, <1>4, <1>5, <1>6, <1>7, <1>8, PullStep

LEMMA PullsRest == IInv /\ PullRest(S) => IInv' /\ Harmless
<1> SUFFICES ASSUME IInv, PullRest(S) PROVE IInv' /\ Harmless
  OBVIOUS
<1> DEFINE studied == sync_scheduling(shadow[S], master, pull.decks)
           gone == state[S].guids \ routed_guids(shadow[S], pull.decks)
           more == \/ pull.any \/ Rescheduled(shadow[S], master, pull.decks) # {}
                   \/ Removable(studied, gone, pull.decks) # {}
           missing == Gone(given, moved, partly)
<1>1. /\ at = "back" /\ at' = "save"
      /\ UNCHANGED <<queue, run, route, now, stops, given, moved, partly>>
      /\ UNCHANGED <<present, shadow, known, server, full, state>>
      /\ master' = remove_guids(studied, gone, pull.decks)
      /\ pull' = [pull EXCEPT !.any = more]
  BY DEF PullRest, Stage
<1>2. S \in ServiceSet BY <1>1, Current DEF IInv
<1>3. master \in Collections /\ shadow[S] \in Collections /\ shadow[S] # NoFile
  BY <1>1, <1>2 DEF IInv, Types, Staged, Opened, Stages
<1>4. /\ studied \in Collections /\ DOMAIN studied = DOMAIN master
      /\ Safe(master, studied, {})
      /\ \A g \in DOMAIN master : studied[g].deck = master[g].deck
      /\ \A home : Everywhere(home) => Sound(studied, home, moved, now)
  BY <1>2, <1>3, Scheduled DEF Everywhere
<1>5. /\ master' \in Collections /\ DOMAIN master' \subseteq DOMAIN studied
      /\ \A g \in DOMAIN master' : master'[g] = studied[g]
      /\ DOMAIN studied \ DOMAIN master' \subseteq gone \intersect In(studied, pull.decks)
      /\ \A home : Everywhere(home) => Sound(master', home, moved, now)
  <2> HIDE DEF gone, studied
  <2> QED BY <1>1, <1>4, Removed
\* What the desktop is to lose, the service has lost.
<1>6. gone \intersect In(studied, pull.decks) \subseteq missing
  <2> SUFFICES ASSUME NEW g \in gone \intersect In(studied, pull.decks), g \notin missing PROVE FALSE
    OBVIOUS
  <2>1. /\ g \in state[S].guids /\ g \notin In(shadow[S], pull.decks)
        /\ g \in DOMAIN master /\ master[g].deck \in pull.decks
    BY <1>4 DEF In, routed_guids
  <2>2. g \in DOMAIN shadow[S]
    BY <1>2, <1>3, <2>1 DEF IInv, Remembered, Kept
  <2>3. shadow[S][g].deck \notin pull.decks BY <2>1, <2>2 DEF In
  <2>4. CASE ~partly
    BY <1>1, <2>2, <2>3, <2>4 DEF IInv, Staged, Synced
  <2>5. CASE partly
    <3>1. g \notin moved BY <2>5 DEF Gone
    <3>2. PICK home \in [Guids -> Decks] : Everywhere(home) BY DEF IInv, Housed
    <3>3. master[g].deck = home[g] /\ shadow[S][g].deck = home[g]
      BY <1>2, <1>3, <2>1, <2>2, <3>1, <3>2 DEF Everywhere, Sound
    <3> QED BY <2>1, <2>3, <3>3
  <2> QED BY <2>4, <2>5 DEF IInv, Types
<1>7. Safe(master, master', missing)
  <2>1. DOMAIN master \ missing \subseteq DOMAIN master' BY <1>4, <1>5, <1>6
  <2>2. \A g \in DOMAIN master \intersect DOMAIN master' :
          master[g].mod <= master'[g].mod /\ master[g].card <= master'[g].card
    BY <1>4, <1>5 DEF Safe
  <2> QED BY <2>1, <2>2 DEF Safe
<1>8. pull' \in [decks : SUBSET Decks, any : BOOLEAN] /\ pull'.decks = pull.decks
  <2>1. pull \in [decks : SUBSET Decks, any : BOOLEAN] BY DEF IInv, Types
  <2>2. more \in BOOLEAN OBVIOUS
  <2> HIDE DEF more
  <2> QED BY <1>1, <2>1, <2>2
<1>9. present' \subseteq Decks /\ \A g \in DOMAIN master' : master'[g].deck \in present'
  BY <1>1, <1>4, <1>5 DEF IInv, Types, Routed
<1> HIDE DEF studied, gone, missing
<1> QED BY <1>1, <1>5, <1>7, <1>8, <1>9, PullStep DEF missing

LEMMA Saves == IInv /\ SaveState(S) => IInv' /\ Harmless
<1> SUFFICES ASSUME IInv, SaveState(S) PROVE IInv' /\ Harmless
  OBVIOUS
<1>1. /\ at = "save" /\ state' = [state EXCEPT ![S] = Baseline(S)] /\ Proceed(S, pull.any)
      /\ UNCHANGED <<master, present, shadow, known, server, full, route, now, stops, given, moved, partly>>
  BY DEF SaveState, history
<1>2. S \in ServiceSet BY <1>1, Current DEF IInv
<1>3. master \in Collections /\ shadow[S] \in Collections /\ shadow[S] # NoFile /\ shadow[S] = server[S]
  BY <1>1, <1>2 DEF IInv, Types, Staged, Opened, Stages, Synced
<1>4. converged(master, shadow[S], pull.decks) \subseteq DOMAIN master \intersect DOMAIN shadow[S]
  BY DEF converged, routed_guids, In
<1>5. Baseline(S) \in [m : Prints, s : Prints, guids : SUBSET Guids]
  <2>1. state[S] \in [m : Prints, s : Prints, guids : SUBSET Guids] BY <1>2 DEF IInv, Types
  <2>2. state[S].m \in Prints /\ state[S].s \in Prints /\ pull.decks \in SUBSET Decks
    BY <2>1 DEF IInv, Types
  <2>3. Updated(state[S].m, master, pull.decks) \in Prints BY <1>3, <2>2, UpdatedPrints
  <2>4. Updated(state[S].s, shadow[S], pull.decks) \in Prints BY <1>3, <2>2, UpdatedPrints
  <2>5. converged(master, shadow[S], pull.decks) \in SUBSET Guids BY <1>3, <1>4, CollectionMeans
  <2> QED BY <2>3, <2>4, <2>5 DEF Baseline
<1>6. /\ state'[S].guids \subseteq DOMAIN master \intersect DOMAIN shadow[S]
      /\ \A r \in ServiceSet \ {S} : state'[r] = state[r]
      /\ state' \in [ServiceSet -> [m : Prints, s : Prints, guids : SUBSET Guids]]
  <2>1. state \in [ServiceSet -> [m : Prints, s : Prints, guids : SUBSET Guids]] BY DEF IInv, Types
  <2>2. state'[S] = Baseline(S) BY <1>1, <1>2, <2>1
  <2>3. state'[S].guids = converged(master, shadow[S], pull.decks) BY <2>2 DEF Baseline
  <2> QED BY <1>1, <1>4, <1>5, <2>1, <2>3
<1>7. Types'
  <2>1. pull.any \in BOOLEAN /\ at # "idle" BY <1>1 DEF IInv, Types
  <2>2. /\ run' \in [services : SUBSET ServiceSet, pass : 0..2, pulled : BOOLEAN]
        /\ queue' \subseteq run'.services
        /\ at' \in {"idle", "open"} /\ (at' # "idle" => queue' # {})
        /\ pull' = NoPull
    BY <1>1, <2>1, Proceeded DEF IInv
  <2> QED BY <1>1, <1>6, <2>2 DEF IInv, Types, Stages, NoPull
<1>8. Housed' /\ Routed' BY <1>1 DEF IInv, Housed, Everywhere, Routed
<1>9. Remembered'
  <2> DEFINE missing == Gone(given, moved, partly)
  <2>1. Gone(given, moved, partly)' = missing BY <1>1 DEF Gone
  <2> HIDE DEF missing
  <2> SUFFICES ASSUME NEW r \in ServiceSet
               PROVE  Kept(master, shadow[r], server[r], known[r], state'[r].guids, missing, r \in full)
    BY <1>1, <2>1 DEF Remembered
  <2>2. Kept(master, shadow[r], server[r], known[r], state[r].guids, missing, r \in full)
    BY DEF IInv, Remembered, missing
  <2>3. CASE r # S BY <1>6, <2>2, <2>3
  <2>4. CASE r = S BY <1>3, <1>6, <2>2, <2>4 DEF Kept
  <2> QED BY <2>3, <2>4
<1>10. Staged'
  <2>1. at' \in {"idle", "open"} BY <1>1, Proceeded DEF IInv, Types
  <2> QED BY <2>1 DEF Staged, Opened, Synced
<1>11. Harmless BY <1>1, Unharmed DEF IInv
<1> QED BY <1>7, <1>8, <1>9, <1>10, <1>11 DEF IInv

\* What fails, fails without harm: the next service, or none, is in order.
LEMMA StopStep ==
    ASSUME IInv, at # "idle", stops < MaxStops, stops' = stops + 1,
           UNCHANGED <<master, present, known, server, full, state, route, now, given, moved, partly>>,
           shadow' = shadow \/ shadow' = OpenFiles(S),
           run' \in [services : SUBSET ServiceSet, pass : 0..2, pulled : BOOLEAN],
           queue' \subseteq run'.services,
           at' \in {"idle", "open"}, at' # "idle" => queue' # {},
           pull' = NoPull
    PROVE  IInv' /\ Harmless
<1>1. S \in ServiceSet /\ shadow \in [ServiceSet -> Collections \union {NoFile}]
  BY Current DEF IInv, Types
<1>2. /\ shadow' \in [ServiceSet -> Collections \union {NoFile}]
      /\ \A r \in ServiceSet : shadow'[r] = shadow[r] \/ (shadow[r] = NoFile /\ shadow'[r] = Empty)
  BY <1>1, EmptyCollection DEF OpenFiles
<1>3. Types'
  BY <1>2, BoundsAssumption DEF IInv, Types, Stages, NoPull
<1>4. Housed'
  <2>1. PICK home \in [Guids -> Decks] : Everywhere(home) BY DEF IInv, Housed
  <2>2. Sound(Empty, home, moved, now) BY EmptyCollection DEF Sound, Past
  <2>3. Everywhere(home)' BY <1>2, <2>1, <2>2 DEF Everywhere
  <2> QED BY <2>3 DEF Housed
<1>5. Remembered'
  <2> DEFINE missing == Gone(given, moved, partly)
  <2>1. Gone(given, moved, partly)' = missing BY DEF Gone
  <2> HIDE DEF missing
  <2> SUFFICES ASSUME NEW r \in ServiceSet
               PROVE  Kept(master, shadow'[r], server[r], known[r], state[r].guids, missing, r \in full)
    BY <2>1 DEF Remembered
  <2>2. Kept(master, shadow[r], server[r], known[r], state[r].guids, missing, r \in full)
    BY DEF IInv, Remembered, missing
  <2>3. shadow[r] # NoFile => shadow'[r] = shadow[r] BY <1>2
  <2> QED BY <2>2, <2>3, KeptGrows
<1>6. Routed' BY DEF IInv, Routed
<1>7. Staged' BY DEF Staged, Opened, Synced
<1>8. Harmless BY Unharmed DEF IInv
<1> QED BY <1>3, <1>4, <1>5, <1>6, <1>7, <1>8 DEF IInv

LEMMA Stops == IInv /\ (SyncFails(S) \/ SaveFails(S) \/ Crash(S)) => IInv' /\ Harmless
<1>1. ASSUME IInv, SyncFails(S) PROVE IInv' /\ Harmless
  <2>1. Proceed(S, FALSE) /\ at # "idle" BY <1>1 DEF SyncFails
  <2>2. /\ run' \in [services : SUBSET ServiceSet, pass : 0..2, pulled : BOOLEAN]
        /\ queue' \subseteq run'.services
        /\ at' \in {"idle", "open"} /\ (at' # "idle" => queue' # {})
        /\ pull' = NoPull
    BY <1>1, <2>1, Proceeded DEF IInv
  <2> QED BY <1>1, <2>2, StopStep DEF SyncFails, Stop, history
<1>2. ASSUME IInv, SaveFails(S) PROVE IInv' /\ Harmless
  <2>1. Proceed(S, pull.any) /\ at # "idle" /\ pull.any \in BOOLEAN BY <1>2 DEF SaveFails, IInv, Types
  <2>2. /\ run' \in [services : SUBSET ServiceSet, pass : 0..2, pulled : BOOLEAN]
        /\ queue' \subseteq run'.services
        /\ at' \in {"idle", "open"} /\ (at' # "idle" => queue' # {})
        /\ pull' = NoPull
    BY <1>2, <2>1, Proceeded DEF IInv
  <2> QED BY <1>2, <2>1, <2>2, StopStep DEF SaveFails, Stop, history, collections
<1>3. ASSUME IInv, Crash(S) PROVE IInv' /\ Harmless
  <2>1. queue' = {} /\ at' = "idle" /\ run' = Idle /\ pull' = NoPull /\ at # "idle" BY <1>3 DEF Crash
  <2>2. Idle \in [services : SUBSET ServiceSet, pass : 0..2, pulled : BOOLEAN] BY DEF Idle
  <2> QED BY <1>3, <2>1, <2>2, StopStep DEF Crash, Stop, history
<1> QED BY <1>1, <1>2, <1>3

\* A change by a user, which bears the next second: a new note finds its first home.
LEMMA Changed ==
    ASSUME Types, now < MaxTime, NEW c \in Collections, DOMAIN c \intersect Unused = {},
           NEW home \in [Guids -> Decks], Sound(c, home, moved, now), NEW new \in Changes(c)
    PROVE  /\ new \in Collections
           /\ Safe(c, new, DOMAIN c \ DOMAIN new)
           /\ \E home2 \in [Guids -> Decks] :
                /\ \A g \in Guids \ Unused : home2[g] = home[g]
                /\ Sound(new, home2,
                         moved \union {g \in DOMAIN c \intersect DOMAIN new : c[g].deck # new[g].deck}, now + 1)
<1> DEFINE next == now + 1
           displaced == {g \in DOMAIN c \intersect DOMAIN new : c[g].deck # new[g].deck}
           Good(h) == /\ new \in Collections
                      /\ Safe(c, new, DOMAIN c \ DOMAIN new)
                      /\ Sound(new, h, moved \union displaced, next)
<1>1. /\ now \in Nat /\ next \in 0..MaxTime /\ now < next
      /\ \A g \in DOMAIN c : c[g] \in Note
      /\ DOMAIN c \subseteq Guids /\ c = [g \in DOMAIN c |-> c[g]]
  BY CollectionMeans, BoundsAssumption DEF Types
<1>2. \A g \in DOMAIN c : /\ c[g].deck \in Decks /\ c[g].mod \in 0..MaxTime /\ c[g].card \in 0..MaxTime
                          /\ c[g].mod <= now /\ c[g].card <= now
  BY <1>1, NoteMeans DEF Sound, Past
<1> HIDE DEF next
<1>3. CASE \E d \in Decks : new \in AddedTo(c, d)
  <2>1. PICK d \in Decks, g \in Unused : new = With(c, g, [deck |-> d, mod |-> now + 1, card |-> now + 1])
    BY <1>3 DEF AddedTo
  <2> DEFINE note == [deck |-> d, mod |-> next, card |-> next]
             home2 == [home EXCEPT ![g] = d]
  <2>2. g \in Guids /\ g \notin DOMAIN c BY <2>1 DEF Unused
  <2>3. note \in Note /\ note.deck = d /\ note.mod = next /\ note.card = next BY <1>1 DEF Note
  <2>4. new = [h \in DOMAIN c \union {g} |-> IF h = g THEN note ELSE c[h]] BY <2>1 DEF With, next
  <2> HIDE DEF note
  <2>5. DOMAIN new = DOMAIN c \union {g} /\ new[g] = note /\ \A h \in DOMAIN c : new[h] = c[h]
    BY <2>2, <2>4
  <2>6. new \in Collections
    <3>1. new \in [DOMAIN new -> Note] BY <1>1, <2>3, <2>4, <2>5
    <3> QED BY <1>1, <2>2, <2>5, <3>1, CollectionMeans
  <2>7. home2 \in [Guids -> Decks] /\ home2[g] = d /\ \A h \in Guids \ {g} : home2[h] = home[h]
    BY <2>2
  <2> HIDE DEF home2
  <2>8. Safe(c, new, DOMAIN c \ DOMAIN new) BY <1>2, <2>5 DEF Safe
  <2>9. Sound(new, home2, moved \union displaced, next)
    BY <1>1, <1>2, <2>2, <2>3, <2>5, <2>7 DEF Sound, Past
  <2>10. \A h \in Guids \ Unused : home2[h] = home[h] BY <2>1, <2>7
  <2> QED BY <2>6, <2>7, <2>8, <2>9, <2>10 DEF next
\* Another text, another schedule, another deck: of one note.
<1>4. ASSUME NEW g \in DOMAIN c, NEW note \in Note, new = [c EXCEPT ![g] = note],
             c[g].mod <= note.mod, c[g].card <= note.card, note.mod <= next, note.card <= next
      PROVE  Good(home)
  <2>1. DOMAIN new = DOMAIN c /\ new[g] = note /\ \A h \in DOMAIN c \ {g} : new[h] = c[h]
    BY <1>1, <1>4
  <2>2. new \in Collections
    <3>1. new \in [DOMAIN new -> Note] BY <1>1, <1>4, <2>1
    <3> QED BY <1>1, <2>1, <3>1, CollectionMeans
  <2>3. Safe(c, new, DOMAIN c \ DOMAIN new)
    BY <1>2, <1>4, <2>1 DEF Safe
  <2>4. Sound(new, home, moved \union displaced, next)
    <3> SUFFICES ASSUME NEW h \in DOMAIN new
                 PROVE  /\ new[h].mod <= next /\ new[h].card <= next
                        /\ h \notin moved \union displaced => new[h].deck = home[h]
      BY DEF Sound, Past
    <3>1. CASE h = g BY <1>4, <2>1, <3>1 DEF Sound
    <3>2. CASE h # g BY <1>1, <1>2, <2>1, <3>2 DEF Sound
    <3> QED BY <3>1, <3>2
  <2> QED BY <2>2, <2>3, <2>4
<1>5. CASE new \in Edited(c)
  <2>1. PICK g \in DOMAIN c : new = [c EXCEPT ![g].mod = now + 1] BY <1>5 DEF Edited
  <2> DEFINE note == [c[g] EXCEPT !.mod = next]
  <2>2. note \in Note /\ note.mod = next /\ note.card = c[g].card BY <1>1, NewText
  <2>3. new = [c EXCEPT ![g] = note] BY <2>1 DEF next
  <2> HIDE DEF note
  <2>4. c[g].mod <= note.mod /\ c[g].card <= note.card /\ note.mod <= next /\ note.card <= next
    BY <1>1, <1>2, <2>2
  <2>5. Good(home)
    <3> HIDE DEF Good
    <3> QED BY <1>4, <2>2, <2>3, <2>4
  <2> QED BY <2>5 DEF next
<1>6. CASE new \in Studied(c)
  <2>1. PICK g \in DOMAIN c : new = [c EXCEPT ![g].card = now + 1] BY <1>6 DEF Studied
  <2> DEFINE note == [c[g] EXCEPT !.card = next]
  <2>2. note \in Note /\ note.card = next /\ note.mod = c[g].mod BY <1>1, NewSchedule
  <2>3. new = [c EXCEPT ![g] = note] BY <2>1 DEF next
  <2> HIDE DEF note
  <2>4. c[g].mod <= note.mod /\ c[g].card <= note.card /\ note.mod <= next /\ note.card <= next
    BY <1>1, <1>2, <2>2
  <2>5. Good(home)
    <3> HIDE DEF Good
    <3> QED BY <1>4, <2>2, <2>3, <2>4
  <2> QED BY <2>5 DEF next
<1>7. ASSUME NEW d \in Decks, new \in MovedInto(c, d) PROVE Good(home)
  <2>1. PICK g \in DOMAIN c : new = [c EXCEPT ![g].deck = d, ![g].card = now + 1]
    BY <1>7 DEF MovedInto
  <2> DEFINE there == [c[g] EXCEPT !.deck = d]
             note == [there EXCEPT !.card = next]
  <2>2. c[g] \in Note BY <1>1
  <2>3. there \in Note /\ there.mod = c[g].mod BY <2>2 DEF Note
  <2>4. new = [c EXCEPT ![g] = note] BY <1>1, <2>1 DEF next
  <2> HIDE DEF there
  <2>5. note \in Note /\ note.card = next /\ note.mod = c[g].mod BY <1>1, <2>3, NewSchedule
  <2> HIDE DEF note
  <2>6. c[g].mod <= note.mod /\ c[g].card <= note.card /\ note.mod <= next /\ note.card <= next
    BY <1>1, <1>2, <2>5
  <2> HIDE DEF Good
  <2> QED BY <1>4, <2>4, <2>5, <2>6
<1>8. CASE new \in Deleted(c)
  <2>1. PICK g \in DOMAIN c : new = Without(c, g) BY <1>8 DEF Deleted
  <2>2. new = [h \in DOMAIN c \ {g} |-> c[h]] BY <2>1 DEF Without
  <2>3. DOMAIN new = DOMAIN c \ {g} /\ \A h \in DOMAIN new : new[h] = c[h] BY <2>2
  <2>4. new \in Collections
    <3>1. new \in [DOMAIN new -> Note] BY <1>1, <2>2, <2>3
    <3> QED BY <1>1, <2>3, <3>1, CollectionMeans
  <2>5. Safe(c, new, DOMAIN c \ DOMAIN new) BY <1>2, <2>3 DEF Safe
  <2>6. Sound(new, home, moved \union displaced, next)
    BY <1>1, <1>2, <2>3 DEF Sound, Past
  <2> QED BY <2>4, <2>5, <2>6 DEF next
<1>9. CASE \E d \in Decks : new \in MovedInto(c, d)
  <2>1. Good(home) BY <1>7, <1>9
  <2> QED BY <2>1 DEF next
<1> QED BY <1>3, <1>5, <1>6, <1>8, <1>9 DEF Changes

\* What a change by a user leaves true, in the collection and everywhere else.
LEMMA UserStep ==
    ASSUME IInv, Tick, UNCHANGED partly,
           NEW c, c = master \/ \E s \in ServiceSet : c = server[s],
           NEW new \in Changes(c), Change(c, new)
    PROVE  /\ new \in Collections /\ Safe(c, new, Gone(given, moved, partly)')
           /\ Gone(given, moved, partly) \subseteq Gone(given, moved, partly)'
           /\ given' \subseteq Guids /\ moved' \subseteq Guids /\ now' \in 1..MaxTime
           /\ \E home \in [Guids -> Decks] :
                /\ Sound(new, home, moved', now') /\ Sound(master, home, moved', now')
                /\ \A s \in ServiceSet :
                     /\ Sound(server[s], home, moved', now')
                     /\ shadow[s] # NoFile => Sound(shadow[s], home, moved', now')
<1>1. /\ Types /\ now < MaxTime /\ now' = now + 1 /\ now \in Int /\ now + 1 \in Int
      /\ given' = given \union (DOMAIN c \ DOMAIN new)
      /\ moved' = moved \union {g \in DOMAIN c \intersect DOMAIN new : c[g].deck # new[g].deck}
      /\ now' \in 1..MaxTime
  BY BoundsAssumption DEF IInv, Types, Tick, Change
<1>2. PICK home \in [Guids -> Decks] : Everywhere(home) BY DEF IInv, Housed
<1>3. /\ master \in Collections /\ \A s \in ServiceSet : server[s] \in Collections
      /\ \A s \in ServiceSet : shadow[s] # NoFile => shadow[s] \in Collections
  BY <1>1 DEF Types
<1>4. c \in Collections /\ Sound(c, home, moved, now)
  BY <1>2, <1>3 DEF Everywhere
<1>5. /\ DOMAIN master \intersect Unused = {}
      /\ \A s \in ServiceSet : /\ DOMAIN server[s] \intersect Unused = {}
                               /\ shadow[s] # NoFile => DOMAIN shadow[s] \intersect Unused = {}
  <2> DEFINE shadows == {s \in ServiceSet : shadow[s] # NoFile}
             A == {DOMAIN server[s] : s \in ServiceSet}
             B == {DOMAIN shadow[s] : s \in shadows}
  <2>1. /\ \A s \in ServiceSet : DOMAIN server[s] \in A
        /\ \A s \in ServiceSet : shadow[s] # NoFile => DOMAIN shadow[s] \in B
    OBVIOUS
  <2>2. Unused = Guids \ (given \union DOMAIN master \union (UNION A) \union (UNION B)) BY DEF Unused
  <2> HIDE DEF A, B
  <2>3. DOMAIN master \intersect Unused = {} BY <2>2
  <2>4. \A d \in A \union B : d \intersect Unused = {} BY <2>2
  <2> QED BY <2>1, <2>3, <2>4
<1>6. DOMAIN c \intersect Unused = {} BY <1>5
<1>7. /\ new \in Collections
      /\ Safe(c, new, DOMAIN c \ DOMAIN new)
      /\ \E home2 \in [Guids -> Decks] :
           /\ \A g \in Guids \ Unused : home2[g] = home[g]
           /\ Sound(new, home2,
                    moved \union {g \in DOMAIN c \intersect DOMAIN new : c[g].deck # new[g].deck}, now + 1)
  BY <1>1, <1>4, <1>6, Changed
<1>8. PICK home2 \in [Guids -> Decks] :
        /\ \A g \in Guids \ Unused : home2[g] = home[g]
        /\ Sound(new, home2, moved', now')
  BY <1>1, <1>7
<1>9. Gone(given, moved, partly) \subseteq Gone(given, moved, partly)'
  BY <1>1 DEF Gone
<1>10. Safe(c, new, Gone(given, moved, partly)')
  <2>1. DOMAIN c \ DOMAIN new \subseteq Gone(given, moved, partly)' BY <1>1 DEF Gone
  <2> QED BY <1>7, <2>1, SafeMore
<1>11. ASSUME NEW d \in Collections, DOMAIN d \intersect Unused = {}, Sound(d, home, moved, now)
       PROVE  Sound(d, home2, moved', now')
  <2>1. \A g \in DOMAIN d : home2[g] = home[g] BY <1>8, <1>11, CollectionMeans
  <2> QED BY <1>1, <1>11, <2>1, SoundMore
<1>12. /\ Sound(master, home2, moved', now')
       /\ \A s \in ServiceSet : /\ Sound(server[s], home2, moved', now')
                                /\ shadow[s] # NoFile => Sound(shadow[s], home2, moved', now')
  BY <1>2, <1>3, <1>5, <1>11 DEF Everywhere
<1>13. given' \subseteq Guids /\ moved' \subseteq Guids
  <2>1. DOMAIN c \subseteq Guids BY <1>4, CollectionMeans
  <2> QED BY <1>1, <2>1 DEF Types
<1> QED BY <1>1, <1>7, <1>8, <1>9, <1>10, <1>12, <1>13

LEMMA DesktopChanges == IInv /\ UserChanges => IInv' /\ Harmless
<1> SUFFICES ASSUME IInv, UserChanges PROVE IInv' /\ Harmless
  OBVIOUS
<1>1. PICK new \in Changes(master) :
        /\ Change(master, new) /\ master' = new
        /\ present' = present \union {new[g].deck : g \in DOMAIN new}
  BY DEF UserChanges
<1>2. /\ at = "idle" /\ Tick
      /\ UNCHANGED <<shadow, known, server, full, state, route, queue, run, at, pull, stops, partly>>
  BY DEF UserChanges, progress
<1>3. /\ new \in Collections /\ Safe(master, new, Gone(given, moved, partly)')
      /\ Gone(given, moved, partly) \subseteq Gone(given, moved, partly)'
      /\ given' \subseteq Guids /\ moved' \subseteq Guids /\ now' \in 1..MaxTime
      /\ \E home \in [Guids -> Decks] :
           /\ Sound(new, home, moved', now') /\ Sound(master, home, moved', now')
           /\ \A s \in ServiceSet :
                /\ Sound(server[s], home, moved', now')
                /\ shadow[s] # NoFile => Sound(shadow[s], home, moved', now')
  BY <1>1, <1>2, UserStep
<1>4. \A g \in DOMAIN new : new[g].deck \in Decks BY <1>3, CollectionMeans, NoteMeans
<1>5. Types' BY <1>1, <1>2, <1>3, <1>4 DEF IInv, Types
<1>6. Housed' BY <1>1, <1>2, <1>3 DEF Housed, Everywhere
<1>7. Remembered'
  <2> SUFFICES ASSUME NEW r \in ServiceSet
               PROVE  Kept(new, shadow[r], server[r], known[r], state[r].guids,
                           Gone(given, moved, partly)', r \in full)
    BY <1>1, <1>2 DEF Remembered
  <2>1. Kept(master, shadow[r], server[r], known[r], state[r].guids, Gone(given, moved, partly), r \in full)
    BY DEF IInv, Remembered
  <2> QED BY <1>3, <2>1, KeptGrows DEF Safe
<1>8. Routed' BY <1>1, <1>2 DEF IInv, Routed
<1>9. Staged' BY <1>2 DEF Staged, Opened, Synced
<1>10. Harmless
  <2>1. \A s \in ServiceSet : server[s] \in Collections BY DEF IInv, Types
  <2> QED BY <1>1, <1>2, <1>3, <2>1, SafeSame DEF Harmless
<1> QED BY <1>5, <1>6, <1>7, <1>8, <1>9, <1>10 DEF IInv

LEMMA ServerChanges == ASSUME NEW s \in ServiceSet PROVE IInv /\ ClientChanges(s) => IInv' /\ Harmless
<1> SUFFICES ASSUME IInv, ClientChanges(s) PROVE IInv' /\ Harmless
  OBVIOUS
<1>1. PICK new \in Changes(server[s]) : Change(server[s], new) /\ server' = [server EXCEPT ![s] = new]
  BY DEF ClientChanges
<1>2. /\ at \in {"idle", "open"} /\ Tick
      /\ UNCHANGED <<master, present, shadow, known, full, state, route, queue, run, at, pull, stops, partly>>
  BY DEF ClientChanges, BetweenServices, progress
<1>3. /\ new \in Collections /\ Safe(server[s], new, Gone(given, moved, partly)')
      /\ Gone(given, moved, partly) \subseteq Gone(given, moved, partly)'
      /\ given' \subseteq Guids /\ moved' \subseteq Guids /\ now' \in 1..MaxTime
      /\ \E home \in [Guids -> Decks] :
           /\ Sound(new, home, moved', now') /\ Sound(master, home, moved', now')
           /\ \A r \in ServiceSet :
                /\ Sound(server[r], home, moved', now')
                /\ shadow[r] # NoFile => Sound(shadow[r], home, moved', now')
  BY <1>1, <1>2, UserStep
<1>4. server \in [ServiceSet -> Collections] BY DEF IInv, Types
<1>5. /\ server' \in [ServiceSet -> Collections] /\ server'[s] = new
      /\ \A r \in ServiceSet \ {s} : server'[r] = server[r]
  BY <1>1, <1>3, <1>4
<1>6. Types' BY <1>2, <1>3, <1>5 DEF IInv, Types
<1>7. Housed' BY <1>2, <1>3, <1>5 DEF Housed, Everywhere
<1>8. Harmless
  <2>1. Safe(master, master', Gone(given, moved, partly)') BY <1>2, SafeSame DEF IInv, Types
  <2>2. \A r \in ServiceSet : Safe(server[r], server'[r], Gone(given, moved, partly)')
    BY <1>3, <1>4, <1>5, SafeSame
  <2> QED BY <2>1, <2>2 DEF Harmless
<1>9. Remembered'
  <2> SUFFICES ASSUME NEW r \in ServiceSet
               PROVE  Kept(master, shadow[r], server'[r], known[r], state[r].guids,
                           Gone(given, moved, partly)', r \in full)
    BY <1>2 DEF Remembered
  <2>1. Kept(master, shadow[r], server[r], known[r], state[r].guids, Gone(given, moved, partly), r \in full)
    BY DEF IInv, Remembered
  <2>2. DOMAIN server[r] \ Gone(given, moved, partly)' \subseteq DOMAIN server'[r]
    BY <1>8 DEF Harmless, Safe
  <2> QED BY <1>3, <2>1, <2>2, KeptGrows
<1>10. Routed' BY <1>2 DEF IInv, Routed
<1>11. Staged'
  BY <1>2 DEF Staged, Opened, Synced
<1> QED BY <1>6, <1>7, <1>8, <1>9, <1>10, <1>11 DEF IInv

\* Time passes without a change of a note.
LEMMA QuietStep ==
    ASSUME IInv, Tick, at \in {"idle", "open"}, moved' = moved, partly => partly', partly' \in BOOLEAN,
           UNCHANGED <<master, present, shadow, known, server, state, queue, run, at, pull, stops, given>>,
           full \subseteq full', full' \subseteq ServiceSet, route' \in [ServiceSet -> SUBSET Decks],
           ~partly' => route' = route
    PROVE  IInv' /\ Harmless
<1>1. now' = now + 1 /\ now' \in 1..MaxTime /\ now \in Int /\ now' \in Int /\ now <= now'
  BY BoundsAssumption DEF IInv, Types, Tick
<1>2. Types' BY <1>1 DEF IInv, Types
<1>3. Housed'
  <2>1. PICK home \in [Guids -> Decks] : Everywhere(home) BY DEF IInv, Housed
  <2>2. \A c \in Collections : Sound(c, home, moved, now) => Sound(c, home, moved, now')
    BY <1>1, SoundMore
  <2>3. Everywhere(home)' BY <2>1, <2>2 DEF Everywhere, IInv, Types
  <2> QED BY <2>3 DEF Housed
<1>4. Gone(given, moved, partly) \subseteq Gone(given, moved, partly)' BY DEF Gone, IInv, Types
<1>5. Remembered'
  <2> SUFFICES ASSUME NEW r \in ServiceSet
               PROVE  Kept(master, shadow[r], server[r], known[r], state[r].guids,
                           Gone(given, moved, partly)', r \in full')
    BY DEF Remembered
  <2>1. Kept(master, shadow[r], server[r], known[r], state[r].guids, Gone(given, moved, partly), r \in full)
    BY DEF IInv, Remembered
  <2> QED BY <1>4, <2>1, KeptGrows
<1>6. Routed' BY DEF IInv, Routed, Types
<1>7. Staged' BY DEF Staged, Opened, Synced
<1>8. Harmless BY Unharmed DEF IInv
<1> QED BY <1>2, <1>3, <1>5, <1>6, <1>7, <1>8 DEF IInv

LEMMA Reroutes == IInv /\ Reroute => IInv' /\ Harmless
<1> SUFFICES ASSUME IInv, Reroute PROVE IInv' /\ Harmless
  OBVIOUS
<1>1. PICK s \in ServiceSet, d \in present :
        route' = [route EXCEPT ![s] = IF d \in @ THEN @ \ {d} ELSE @ \union {d}]
  BY DEF Reroute
<1>2. route' \in [ServiceSet -> SUBSET Decks]
  BY <1>1 DEF IInv, Types
<1> QED BY <1>2, QuietStep DEF Reroute, collections, progress, IInv, Types

LEMMA SchemaChanges == ASSUME NEW s \in ServiceSet PROVE IInv /\ ClientChangesSchema(s) => IInv' /\ Harmless
<1> SUFFICES ASSUME IInv, ClientChangesSchema(s) PROVE IInv' /\ Harmless
  OBVIOUS
<1> QED BY QuietStep DEF ClientChangesSchema, BetweenServices, progress, history, IInv, Types

\* Nothing happens.
LEMMA Stutters == IInv /\ UNCHANGED vars => IInv' /\ Harmless
<1> SUFFICES ASSUME IInv, UNCHANGED vars PROVE IInv' /\ Harmless
  OBVIOUS
<1>1. UNCHANGED <<master, present, shadow, known, server, full, state, queue, run, at, pull,
                  route, now, stops, given, moved, partly>>
  BY DEF vars, collections, progress, history
<1>2. Harmless BY <1>1, Unharmed DEF IInv
<1>3. Types' /\ Housed' BY <1>1 DEF IInv, Types, Housed, Everywhere
<1>4. Remembered' /\ Routed' BY <1>1 DEF IInv, Remembered, Routed, Gone
<1>5. Staged' BY <1>1 DEF IInv, Staged, S
<1> QED BY <1>2, <1>3, <1>4, <1>5 DEF IInv

LEMMA AtFirst ==
    ASSUME NEW s, sync_service(s) \/ SyncFails(s) \/ SaveFails(s) \/ Crash(s)
    PROVE  s = S
BY DEF S, sync_service, OpenShadow, PushChangedDecks, PushRest, SyncShadow, PullChangedDecks, PullRest,
       SaveState, SyncFails, SaveFails, Crash, Stage

LEMMA EveryStep == IInv /\ [Next]_vars => IInv' /\ Harmless
<1> SUFFICES ASSUME IInv, [Next]_vars PROVE IInv' /\ Harmless
  OBVIOUS
<1>1. CASE dual_sync BY <1>1, Begins
<1>2. CASE \E s \in ServiceSet : sync_service(s)
  <2>1. sync_service(S) BY <1>2, AtFirst
  <2> QED BY <2>1, Opens, PushesDecks, PushesRest, Syncs, PullsDecks, PullsRest, Saves DEF sync_service
<1>3. CASE \E s \in ServiceSet : SyncFails(s) \/ SaveFails(s) \/ Crash(s)
  <2>1. SyncFails(S) \/ SaveFails(S) \/ Crash(S) BY <1>3, AtFirst
  <2> QED BY <2>1, Stops
<1>4. CASE UserChanges BY <1>4, DesktopChanges
<1>5. CASE Reroute BY <1>5, Reroutes
<1>6. CASE \E s \in ServiceSet : ClientChanges(s) \/ ClientChangesSchema(s)
  BY <1>6, ServerChanges, SchemaChanges
<1>7. CASE UNCHANGED vars BY <1>7, Stutters
<1> QED BY <1>1, <1>2, <1>3, <1>4, <1>5, <1>6, <1>7 DEF Next

-----------------------------------------------------------------------------
(* What follows.                                                           *)

LEMMA Inductive == Spec => []IInv
<1>1. Init => IInv BY StartsSound
<1>2. IInv /\ [Next]_vars => IInv' BY EveryStep
<1> QED BY <1>1, <1>2, PTL DEF Spec

\* Every collection of the dual sync, what it remembers of the last sync and where it
\* stands stay what the code takes them for (kelma/shadowsync.py, state.py).
THEOREM TypeCorrect == Spec => []TypeOK
<1>1. Types => TypeOK
  <2> SUFFICES ASSUME Types PROVE TypeOK
    OBVIOUS
  <2>1. ASSUME NEW s \in ServiceSet
        PROVE  /\ state[s].guids \subseteq Guids
               /\ \A side \in {state[s].m, state[s].s} : \A d \in DOMAIN side :
                    d \in Decks /\ side[d] \in Fingerprints
    <3>1. state[s].m \in Prints /\ state[s].s \in Prints /\ state[s].guids \subseteq Guids BY DEF Types
    <3>2. \A side \in Prints : \A d \in DOMAIN side : d \in Decks /\ side[d] \in Fingerprints
      BY DEF Prints
    <3> QED BY <3>1, <3>2
  <2> QED BY <2>1 DEF Types, TypeOK
<1>2. IInv => TypeOK BY <1>1 DEF IInv
<1> QED BY <1>2, Inductive, PTL

\* Nothing goes from the desktop or from a server unless a user has deleted it (or,
\* where decks are left out, moved it), and nothing becomes older: the deletions of
\* shadowsync.py and deletions.py never take a note that merely is not there.
THEOREM NothingIsLost == Spec => NothingLost
<1>1. ASSUME NEW c \in Collections, NEW d \in Collections, Safe(c, d, Gone(given, moved, partly)')
      PROVE  Lossless(c, d)
  <2>1. DOMAIN c \ DOMAIN d \subseteq given' \union (IF partly' THEN moved' ELSE {})
    BY <1>1 DEF Safe, Gone
  <2> QED BY <1>1, <2>1 DEF Safe, Lossless
<1>2. IInv /\ [Next]_vars =>
        [Lossless(master, master') /\ \A s \in ServiceSet : Lossless(server[s], server'[s])]_vars
  <2> SUFFICES ASSUME IInv, [Next]_vars
               PROVE  Lossless(master, master') /\ \A s \in ServiceSet : Lossless(server[s], server'[s])
    OBVIOUS
  <2>1. IInv' /\ Harmless BY EveryStep
  <2>2. /\ master \in Collections /\ master' \in Collections
        /\ \A s \in ServiceSet : server[s] \in Collections /\ server'[s] \in Collections
    BY <2>1 DEF IInv, Types
  <2> QED BY <1>1, <2>1, <2>2 DEF Harmless
<1> QED BY <1>2, Inductive, PTL DEF Spec, NothingLost
=============================================================================
