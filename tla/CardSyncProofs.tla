---------------------------- MODULE CardSyncProofs ----------------------------
(***************************************************************************)
(* Theorems about CardSync, for every set of clients and every bound.      *)
(***************************************************************************)
EXTENDS CardSync, TLAPS

USE PolicyAssumption, CardAssumption, NoCardAssumption

-----------------------------------------------------------------------------
(***************************************************************************)
(* Types.                                                                  *)
(***************************************************************************)
\* The time a record is stored under is one.
LEMMA StoredTime ==
    ASSUME NEW times \in Times, NEW wall \in Nat
    PROVE  SourceModified(times, wall) \in Nat
BY DEF SourceModified, ModifiedTimestamp, Times

\* A wall clock tells a time.
LEMMA WallTime == ASSUME TypeOK, NEW c \in Clients PROVE WallClock(c) \in Nat
BY DEF WallClock, TypeOK

\* apply_note makes a whole card.
LEMMA GeneratedCard ==
    ASSUME TypeOK, NEW c \in Clients PROVE Generated(c) \in LocalCards
BY WallTime DEF Generated, LocalCards, Contents, Decks

\* A pull is planned for cards that the manifest has, a push for local ones.
LEMMA PlanSides ==
    ASSUME NEW c \in Clients, NEW mine, NEW theirs
    PROVE  /\ Plan(c, mine, theirs) = "pull" => theirs # NoCard
           /\ Plan(c, mine, theirs) = "push" => mine # NoCard
BY DEF Plan

\* Types, and no manifest row without a server's card.
TypeInv ==
    /\ TypeOK
    /\ \A c \in Clients : seen[c] # NoCard => server # NoCard

\* Every first state is well typed.
LEMMA TypeInit == Init => TypeInv
<1> SUFFICES ASSUME Init PROVE TypeInv
  OBVIOUS
<1>1. PICK author \in Clients, deck \in UserDecks :
         local = [c \in Clients |->
                    IF c # author THEN NoCard
                    ELSE [card |-> [deck |-> deck, reviewed |-> FALSE,
                                    at |-> 1],
                          mod |-> WallClock(c), born |-> WallClock(c)]]
  BY DEF Init
<1>2. \A c \in Clients : WallClock(c) \in Nat
  BY DEF WallClock, Init
<1>3. local \in [Clients -> LocalCards \union {NoCard}]
  BY <1>1, <1>2 DEF LocalCards, Contents, Decks
<1> QED
  BY <1>3 DEF Init, TypeInv, TypeOK, Phases

\* No step, and no crash, leaves a card that is not a whole record.
LEMMA TypeStep == TypeInv /\ [Next]_vars => TypeInv'
<1> SUFFICES ASSUME TypeInv, [Next]_vars PROVE TypeInv'
  OBVIOUS
<1> USE DEF TypeInv, TypeOK, Idle, passVars
<1>0. CASE UNCHANGED vars
  BY <1>0 DEF vars
<1>1. CASE Tick
  BY <1>1 DEF Tick
<1> SUFFICES ASSUME NEW c \in Clients, Step(c) PROVE TypeInv'
  BY <1>0, <1>1 DEF Next
<1>2. CASE Review(c) \/ Move(c)
  <2>1. PICK deck \in Decks, reviewed \in BOOLEAN : Edit(c, deck, reviewed)
    BY <1>2 DEF Review, Move, LocalCards, Contents, Decks
  <2>2. WallClock(c) \in Nat /\ local[c] \in LocalCards
    BY <2>1, WallTime DEF Edit
  <2>3. [card |-> [deck |-> deck, reviewed |-> reviewed, at |-> clock],
         mod |-> WallClock(c), born |-> local[c].born] \in LocalCards
    BY <2>1, <2>2 DEF LocalCards, Contents
  <2> QED
    BY <2>1, <2>3 DEF Edit
<1>3. CASE FetchManifest(c)
  <2>1. FreshRestore(c) \in BOOLEAN
    BY DEF FreshRestore
  <2> QED
    BY <1>3, <2>1 DEF FetchManifest, Phases
<1>4. CASE PullNote(c)
  BY <1>4, GeneratedCard DEF PullNote, Phases
<1>5. CASE PushNote(c)
  BY <1>5 DEF PushNote, Phases
<1>6. CASE PullCard(c)
  <2>1. server \in ServerCards
    BY <1>6, PlanSides DEF PullCard
  <2>2. local[c] # NoCard =>
          [card |-> server.card, born |-> local[c].born,
           mod |-> SourceModified(server.times, WallClock(c))] \in LocalCards
    BY <2>1, WallTime, StoredTime DEF LocalCards, ServerCards
  <2> QED
    BY <1>6, <2>2 DEF PullCard, Phases
<1>7. CASE PushCard(c)
  <2>1. local[c] \in LocalCards
    BY <1>7, PlanSides DEF PushCard
  <2>2. [card |-> local[c].card,
         times |-> [source |-> local[c].mod, receipt |-> clock]] \in ServerCards
    BY <2>1 DEF LocalCards, ServerCards, Times
  <2> QED
    BY <1>7, <2>2 DEF PushCard, Phases
<1>8. CASE SkipCard(c)
  BY <1>8 DEF SkipCard, Phases
<1>9. CASE ConflictCard(c)
  BY <1>9 DEF ConflictCard, EndPass, Phases
<1>10. CASE SaveSnapshot(c)
  BY <1>10 DEF SaveSnapshot, EndPass, Phases
<1>11. CASE StopPass(c)
  BY <1>11 DEF StopPass, EndPass, Phases
<1> QED
  BY <1>2, <1>3, <1>4, <1>5, <1>6, <1>7, <1>8, <1>9, <1>10, <1>11
     DEF Step, PassStep

\* The type invariant: every card here, on the server and in a manifest is a
\* whole record, whatever the clocks say.
THEOREM TypeCorrect == Spec => []TypeOK
<1>1. Spec => []TypeInv
  BY TypeInit, TypeStep, PTL DEF Spec
<1>2. TypeInv => TypeOK
  BY DEF TypeInv
<1> QED
  BY <1>1, <1>2, PTL
-----------------------------------------------------------------------------
(***************************************************************************)
(* No work is lost, when no client's clock is ahead.                       *)
(***************************************************************************)
\* A step of one client changes nothing of another client.
LEMMA OtherClient ==
    ASSUME TypeOK, NEW c \in Clients, NEW d \in Clients, c # d, Step(c)
    PROVE  UNCHANGED <<local[d], phase[d], seen[d], seenAt[d], settled[d], fresh[d]>>
<1> USE DEF TypeOK, EndPass
<1>1. CASE Review(c) \/ Move(c)
  BY <1>1 DEF Review, Move, Edit, passVars
<1>2. CASE FetchManifest(c)
  BY <1>2 DEF FetchManifest
<1>3. CASE PullNote(c) \/ PushNote(c)
  BY <1>3 DEF PullNote, PushNote
<1>4. CASE PullCard(c) \/ PushCard(c) \/ SkipCard(c)
  BY <1>4 DEF PullCard, PushCard, SkipCard
<1>5. CASE ConflictCard(c) \/ SaveSnapshot(c) \/ StopPass(c)
  <2>1. EndPass(c) /\ UNCHANGED local
    BY <1>5 DEF ConflictCard, SaveSnapshot, StopPass
  <2> QED
    BY <2>1
<1> QED
  BY <1>1, <1>2, <1>3, <1>4, <1>5 DEF Step, PassStep

\* A client's step takes no time.
LEMMA SameClock ==
    ASSUME NEW c \in Clients, Step(c) PROVE clock' = clock
BY DEF Step, PassStep, Review, Move, Edit, FetchManifest, PullNote, PushNote,
       PullCard, PushCard, SkipCard, ConflictCard, SaveSnapshot, StopPass

\* A push writes the card of its client, and never over a newer one.
LEMMA ServerStep ==
    ASSUME TypeOK, NEW c \in Clients, Step(c)
    PROVE  \/ UNCHANGED server
           \/ /\ PushCard(c) /\ local[c] # NoCard
              /\ server # NoCard => server.times.source <= local[c].mod
              /\ server' # NoCard
              /\ server'.card = local[c].card
              /\ server'.times.source = local[c].mod
              /\ server'.times.receipt = clock
<1>1. CASE PushCard(c)
  <2>1. local[c] # NoCard /\ local[c] \in LocalCards
    BY <1>1, PlanSides DEF PushCard, TypeOK
  <2>2. [card |-> local[c].card,
         times |-> [source |-> local[c].mod, receipt |-> clock]] \in ServerCards
    BY <2>1 DEF LocalCards, ServerCards, Times, TypeOK
  <2> QED
    BY <1>1, <2>1, <2>2 DEF PushCard
<1> QED
  BY <1>1
     DEF Step, PassStep, Review, Move, Edit, FetchManifest, PullNote, PushNote,
         PullCard, SkipCard, ConflictCard, SaveSnapshot, StopPass

\* The server's card stays, bears the time of its work, and only gets newer.
LEMMA ServerLater ==
    ASSUME WorkInv, NEW c \in Clients, Step(c)
    PROVE  /\ OnServer(server)'
           /\ server # NoCard => /\ server' # NoCard
                                 /\ server'.times.source >= server.times.source
<1>1. clock' = clock /\ clock \in Nat
  BY SameClock DEF WorkInv, TypeOK
<1>2. server # NoCard => server.times.source \in Nat
  BY DEF WorkInv, TypeOK, ServerCards, Times
<1>3. CASE UNCHANGED server
  BY <1>1, <1>2, <1>3 DEF WorkInv, OnServer, Dated
<1>4. CASE /\ PushCard(c) /\ local[c] # NoCard
           /\ server # NoCard => server.times.source <= local[c].mod
           /\ server' # NoCard
           /\ server'.card = local[c].card
           /\ server'.times.source = local[c].mod
           /\ server'.times.receipt = clock
  <2>1. Dated(local[c].card, local[c].mod)
    BY <1>4 DEF WorkInv, WorkHere
  <2> QED
    BY <1>1, <1>2, <1>4, <2>1 DEF OnServer, Dated
<1> QED
  BY <1>3, <1>4, ServerStep DEF WorkInv

\* What a step leaves of the invariant of a client that keeps its state.
LEMMA WorkKeeps ==
    ASSUME WorkInv, TypeOK', NEW d \in Clients,
           UNCHANGED <<local[d], seen[d], seenAt[d], settled[d], fresh[d]>>,
           Planning(d)' => Planning(d),
           clock' >= clock,
           server # NoCard => /\ server' # NoCard
                              /\ server'.times.source >= server.times.source
    PROVE  WorkHere(d)'
<1>1. clock \in Nat /\ clock' \in Nat
  BY DEF WorkInv, TypeOK
<1>2. server # NoCard => server.times.source \in Nat /\ server'.times.source \in Nat
  BY DEF WorkInv, TypeOK, ServerCards, Times
<1>3. local[d] # NoCard => local[d].mod \in Nat
  BY DEF WorkInv, TypeOK, LocalCards
<1>4. seen[d] # NoCard => seen[d].times.source \in Nat /\ seen[d].times.receipt \in Nat
  BY DEF WorkInv, TypeOK, ServerCards, Times
<1>5. WorkHere(d)
  BY DEF WorkInv
<1>6. (local[d] # NoCard => Dated(local[d].card, local[d].mod))'
  BY <1>1, <1>5 DEF WorkHere, Dated
<1>7. OnServer(seen[d])'
  BY <1>1, <1>4, <1>5 DEF WorkHere, OnServer, Dated
<1>8. Copied(d, server)' /\ (Copied(d, seen[d]) => Copied(d, seen[d])')
  BY <1>2, <1>3, <1>5 DEF WorkHere, Copied, Pristine
<1>9. (seen[d] # NoCard => /\ server # NoCard
                           /\ seen[d].times.source <= server.times.source
                           /\ seen[d].times.source <= seenAt[d])'
  BY <1>2, <1>4, <1>5 DEF WorkHere
<1> QED
  BY <1>5, <1>6, <1>7, <1>8, <1>9 DEF WorkHere, Pristine

\* The client that takes the step.
LEMMA WorkSelf ==
    ASSUME Fast = {}, WorkInv, TypeOK', NEW c \in Clients, Step(c)
    PROVE  WorkHere(c)'
<1> USE DEF Idle
<1>1. /\ clock' = clock /\ clock \in Nat /\ clock > 0
      /\ WallClock(c) = clock
  BY SameClock DEF WorkInv, TypeOK, WallClock
<1>2. /\ OnServer(server) /\ OnServer(server)' /\ WorkHere(c)
      /\ server # NoCard => /\ server' # NoCard
                            /\ server'.times.source >= server.times.source
  BY ServerLater DEF WorkInv
<1>3. CASE Review(c) \/ Move(c)
  <2>1. PICK deck \in Decks, reviewed \in BOOLEAN : Edit(c, deck, reviewed)
    BY <1>3 DEF Review, Move, WorkInv, TypeOK, LocalCards, Contents, Decks
  <2>2. /\ local'[c] = [card |-> [deck |-> deck, reviewed |-> reviewed,
                                  at |-> clock],
                        mod |-> clock, born |-> local[c].born]
        /\ UNCHANGED <<server, phase, seen, seenAt>> /\ phase[c] = "idle"
    BY <1>1, <2>1 DEF Edit, passVars, WorkInv, TypeOK
  <2> QED
    BY <1>1, <1>2, <2>2
       DEF WorkHere, Dated, Copied, Pristine, Planning, OnServer
<1>4. CASE FetchManifest(c)
  <2>1. /\ UNCHANGED <<server, local>> /\ seen'[c] = server /\ seenAt'[c] = clock
        /\ settled'[c] = (server # NoCard /\ local[c] = NoCard)
        /\ fresh'[c] = FreshRestore(c)
    BY <1>4 DEF FetchManifest, WorkInv, TypeOK
  <2>2. server # NoCard => server.times.source \in 1..clock
    BY <1>2 DEF OnServer, Dated
  <2>3. local[c] # NoCard => local[c].mod \in 1..clock
    BY <1>2 DEF WorkHere, Dated
  <2>4. (fresh'[c] \/ settled'[c]) => local[c] = NoCard \/ ~local[c].card.reviewed
    BY <2>1 DEF FreshRestore
  <2>5. Copied(c, server) /\ Copied(c, server)' /\ Copied(c, seen[c])'
    BY <1>2, <2>1 DEF WorkHere, Copied, Pristine
  <2> QED
    BY <1>1, <1>2, <2>1, <2>2, <2>3, <2>4, <2>5
       DEF WorkHere, Dated, OnServer, Pristine
<1>5. CASE PullNote(c) /\ local'[c] = Generated(c)
  <2>1. UNCHANGED <<server, seen, seenAt, settled, fresh>> /\ phase[c] = "pull_note"
    BY <1>5 DEF PullNote
  <2> QED
    BY <1>1, <1>2, <1>5, <2>1
       DEF Generated, WorkHere, Dated, Copied, Pristine, Planning, OnServer
<1>6. CASE (PullNote(c) /\ UNCHANGED local) \/ PushNote(c)
  <2>1. /\ UNCHANGED <<server, local, seen, seenAt, settled, fresh>>
        /\ Planning(c)
    BY <1>6 DEF PullNote, PushNote, Planning
  <2> QED
    BY <1>1, <1>2, <2>1, WorkKeeps
<1>7. CASE PullCard(c) /\ local'[c] # local[c]
  <2>1. server # NoCard /\ server \in ServerCards
    BY <1>2, <1>7, PlanSides DEF PullCard, WorkHere, WorkInv, TypeOK
  <2>2. SourceModified(server.times, WallClock(c)) = server.times.source
    BY <1>1, <1>2, <2>1, PolicyAssumption
    DEF OnServer, Dated, ServerCards, Times, SourceModified, ModifiedTimestamp
  <2>3. /\ local'[c] = [card |-> server.card, born |-> local[c].born,
                        mod |-> server.times.source]
        /\ UNCHANGED <<server, seen, seenAt>> /\ phase'[c] = "save"
    BY <1>7, <2>2 DEF PullCard, WorkInv, TypeOK
  <2>4. server.times.source \in Nat
    BY <2>1 DEF ServerCards, Times
  <2> QED
    BY <1>1, <1>2, <2>1, <2>3, <2>4
       DEF WorkHere, Dated, Copied, Pristine, Planning, OnServer
<1>8. CASE /\ PullCard(c) \/ PushCard(c) \/ SkipCard(c)
           /\ local'[c] = local[c]
  <2>1. UNCHANGED <<seen, seenAt, settled, fresh>> /\ phase'[c] = "save"
    BY <1>8 DEF PullCard, PushCard, SkipCard, WorkInv, TypeOK
  <2> QED
    BY <1>1, <1>2, <1>8, <2>1, WorkKeeps DEF Planning
<1>9. CASE ConflictCard(c) \/ SaveSnapshot(c) \/ StopPass(c)
  <2>1. EndPass(c) /\ UNCHANGED <<server, local>>
    BY <1>9 DEF ConflictCard, SaveSnapshot, StopPass
  <2>2. phase'[c] = "idle" /\ seen'[c] = NoCard
    BY <2>1 DEF EndPass, WorkInv, TypeOK
  <2> QED
    BY <1>1, <1>2, <2>1, <2>2
       DEF WorkHere, Dated, Copied, Pristine, Planning, OnServer
<1> QED
  <2>1. CASE PullNote(c)
    <3>1. local'[c] = Generated(c) \/ UNCHANGED local
      BY <2>1 DEF PullNote, WorkInv, TypeOK
    <3> QED
      BY <1>5, <1>6, <2>1, <3>1
  <2>2. CASE PushCard(c) \/ SkipCard(c)
    BY <1>8, <2>2 DEF PushCard, SkipCard
  <2> QED
    BY <1>3, <1>4, <1>6, <1>7, <1>8, <1>9, <2>1, <2>2 DEF Step, PassStep

\* Every step keeps the invariant: time and other clients by WorkKeeps, the
\* client itself by WorkSelf.
LEMMA WorkStep == Fast = {} /\ WorkInv /\ [Next]_vars => WorkInv'
<1> SUFFICES ASSUME Fast = {}, WorkInv, [Next]_vars PROVE WorkInv'
  OBVIOUS
<1>1. TypeOK'
  BY TypeStep DEF WorkInv, WorkHere, TypeInv
<1>2. CASE UNCHANGED vars \/ Tick
  <2>1. /\ clock' >= clock /\ clock' > 0 /\ clock \in Nat
        /\ UNCHANGED <<server, local, phase, seen, seenAt, settled, fresh>>
    BY <1>2 DEF vars, passVars, Tick, WorkInv, TypeOK
  <2>2. server # NoCard => server.times.source \in Nat /\ server.times.receipt \in Nat
    BY DEF WorkInv, TypeOK, ServerCards, Times
  <2>3. OnServer(server)'
    BY <1>1, <2>1, <2>2 DEF WorkInv, OnServer, Dated, TypeOK
  <2>4. \A d \in Clients : WorkHere(d)'
    <3> TAKE d \in Clients
    <3>1. Planning(d)' => Planning(d)
      BY <2>1 DEF Planning
    <3> QED
      BY <1>1, <2>1, <2>2, <3>1, WorkKeeps
  <2> QED
    BY <1>1, <2>1, <2>3, <2>4 DEF WorkInv
<1>3. ASSUME NEW c \in Clients, Step(c) PROVE WorkInv'
  <2>1. clock' = clock /\ clock \in Nat /\ clock > 0
    BY <1>3, SameClock DEF WorkInv, TypeOK
  <2>2. /\ OnServer(server)'
        /\ server # NoCard => /\ server' # NoCard
                              /\ server'.times.source >= server.times.source
    BY <1>3, ServerLater
  <2>3. WorkHere(c)'
    BY <1>1, <1>3, WorkSelf
  <2>4. ASSUME NEW d \in Clients, d # c PROVE WorkHere(d)'
    <3>1. UNCHANGED <<local[d], phase[d], seen[d], seenAt[d], settled[d], fresh[d]>>
      BY <1>3, <2>4, OtherClient DEF WorkInv
    <3>2. Planning(d)' => Planning(d)
      BY <3>1 DEF Planning
    <3> QED
      BY <1>1, <2>1, <2>2, <3>1, <3>2, WorkKeeps
  <2> QED
    BY <1>1, <2>1, <2>2, <2>3, <2>4 DEF WorkInv
<1> QED
  BY <1>2, <1>3 DEF Next

\* The author's card is the only one, and bears the time it was made.
LEMMA WorkInit == Fast = {} /\ Init => WorkInv
<1> SUFFICES ASSUME Fast = {}, Init PROVE WorkInv
  OBVIOUS
<1>1. TypeOK
  BY TypeInit DEF TypeInv
<1>2. \A c \in Clients : WallClock(c) = 1
  BY DEF WallClock, Init
<1>3. PICK author \in Clients, deck \in UserDecks :
         local = [c \in Clients |->
                    IF c # author THEN NoCard
                    ELSE [card |-> [deck |-> deck, reviewed |-> FALSE,
                                    at |-> 1],
                          mod |-> WallClock(c), born |-> WallClock(c)]]
  BY DEF Init
<1>4. \A c \in Clients : WorkHere(c)
  <2> TAKE c \in Clients
  <2>1. seen[c] = NoCard /\ server = NoCard /\ ~Planning(c) /\ clock = 1
    BY DEF Init, Planning
  <2>2. CASE local[c] = NoCard
    BY <2>1, <2>2 DEF WorkHere, OnServer, Copied, Pristine
  <2>3. CASE local[c] # NoCard
    <3>1. local[c] = [card |-> [deck |-> deck, reviewed |-> FALSE, at |-> 1],
                      mod |-> 1, born |-> 1]
      BY <1>2, <1>3, <2>3
    <3> QED
      BY <2>1, <3>1 DEF WorkHere, OnServer, Copied, Pristine, Dated
  <2> QED
    BY <2>2, <2>3
<1> QED
  BY <1>1, <1>4 DEF Init, WorkInv, OnServer

\* With clocks that are right, what a plan follows is the later of the times.
LEMMA PlanTimes ==
    ASSUME WorkInv, NEW c \in Clients, seen[c] # NoCard, local[c] # NoCard,
           local[c].mod <= seenAt[c]
    PROVE  LET newest == NewestSide(LocalTimes(local[c].mod), seen[c].times,
                                    seenAt[c])
           IN  /\ newest = "local" => local[c].mod > seen[c].times.source
               /\ newest = "server" => seen[c].times.source > local[c].mod
               /\ newest \in {"local", "server", "none"}
<1>1. /\ local[c] \in LocalCards /\ seen[c] \in ServerCards
      /\ seenAt[c] \in Nat /\ clock \in Nat
  BY DEF WorkInv, TypeOK
<1>2. seen[c].times \in Times /\ local[c].mod \in Nat
  BY <1>1 DEF LocalCards, ServerCards
<1>3. /\ seen[c].times = [source |-> seen[c].times.source,
                          receipt |-> seen[c].times.receipt]
      /\ seen[c].times.source \in Nat /\ seen[c].times.receipt \in Nat
  BY <1>2 DEF Times
<1>4. local[c].mod \in 1..seenAt[c] /\ seen[c].times.source \in 1..seenAt[c]
  BY <1>1, <1>2, <1>3 DEF WorkInv, WorkHere, OnServer, Dated
<1> DEFINE mod == local[c].mod
           source == seen[c].times.source
           receipt == seen[c].times.receipt
           now == seenAt[c]
<1>5. /\ mod \in Nat /\ source \in Nat /\ receipt \in Nat /\ now \in Nat
      /\ mod \in 1..now /\ source \in 1..now
      /\ seen[c].times = [source |-> source, receipt |-> receipt]
  BY <1>1, <1>2, <1>3, <1>4
<1> HIDE DEF mod, source, receipt, now
<1>6. LET newest == NewestSide(LocalTimes(mod),
                               [source |-> source, receipt |-> receipt], now)
      IN  /\ newest = "local" => mod > source
          /\ newest = "server" => source > mod
          /\ newest \in {"local", "server", "none"}
  BY <1>5, PolicyAssumption DEF NewestSide, LocalTimes, ModifiedTimestamp, Apart
<1> QED
  BY <1>5, <1>6 DEF mod, source, now

\* A step that keeps to the plan replaces no work by earlier work.
LEMMA WorkStepStays == WorkInv /\ Fast = {} /\ [Next]_vars => [LaterWins]_vars
<1> SUFFICES ASSUME WorkInv, Fast = {}, [Next]_vars PROVE [LaterWins]_vars
  OBVIOUS
<1>1. /\ server # NoCard => server.card.at \in Nat
      /\ \A c \in Clients : local[c] # NoCard => local[c].card.at \in Nat
  BY DEF WorkInv, TypeOK, ServerCards, LocalCards, Contents
<1>2. CASE UNCHANGED vars
  BY <1>2
<1>3. CASE Tick
  BY <1>1, <1>3 DEF Tick, LaterWins
<1>4. ASSUME NEW c \in Clients, Step(c) PROVE LaterWins
  <2>1. (server # NoCard /\ server' # NoCard /\ server'.card.at > 0)
          => server'.card.at >= server.card.at
    <3>1. CASE UNCHANGED server
      BY <1>1, <3>1
    <3>2. CASE /\ local[c] # NoCard
               /\ server # NoCard => server.times.source <= local[c].mod
               /\ server'.card = local[c].card
      <4>1. /\ local[c].card.at > 0 => local[c].card.at = local[c].mod
            /\ local[c].mod \in Nat
        BY <3>2 DEF WorkInv, WorkHere, Dated
      <4>2. server # NoCard =>
              /\ server.card.at > 0 => server.card.at = server.times.source
              /\ server.times.source \in Nat
        BY DEF WorkInv, OnServer, Dated
      <4> QED
        BY <1>1, <3>2, <4>1, <4>2
    <3> QED
      BY <1>4, <3>1, <3>2, ServerStep DEF WorkInv
  <2>2. ASSUME local[c] # NoCard, local[c].card.reviewed,
               local'[c] # NoCard, local'[c].card.at > 0
        PROVE  local'[c].card.at >= local[c].card.at
    <3>1. /\ Dated(local[c].card, local[c].mod) /\ ~Pristine(c)
          /\ local[c].card.at = local[c].mod /\ local[c].mod \in 1..clock
          /\ clock \in Nat
      BY <2>2, <1>1 DEF WorkInv, WorkHere, Dated, Pristine, TypeOK
    <3>2. CASE UNCHANGED local
      BY <1>1, <2>2, <3>2
    <3>3. CASE Review(c) \/ Move(c)
      <4>1. local'[c].card.at = clock
        BY <3>3 DEF Review, Move, Edit, WorkInv, TypeOK
      <4> QED
        BY <3>1, <4>1
    <3>4. CASE PullCard(c)
      <4>1. /\ phase[c] = "cards" /\ Plan(c, local[c], seen[c]) = "pull"
            /\ local'[c].card = server.card
        BY <2>2, <3>4 DEF PullCard, WorkInv, TypeOK
      <4>2. /\ seen[c] # NoCard /\ server # NoCard /\ ~fresh[c] /\ ~settled[c]
            /\ seen[c].times.source <= server.times.source
            /\ local[c].mod <= seenAt[c]
        BY <2>2, <3>1, <4>1, PlanSides DEF WorkInv, WorkHere, Planning
      <4>3. NewestSide(LocalTimes(local[c].mod), seen[c].times, seenAt[c]) = "server"
        BY <2>2, <4>1, <4>2, PlanTimes DEF Plan, LooksInterrupted
      <4>4. seen[c].times.source > local[c].mod
        BY <2>2, <4>2, <4>3, PlanTimes
      <4>5. /\ server.card.at > 0 => server.card.at = server.times.source
            /\ server.times.source \in Nat /\ seen[c].times.source \in Nat
        BY <4>2 DEF WorkInv, WorkHere, OnServer, Dated
      <4> QED
        BY <2>2, <3>1, <4>1, <4>2, <4>4, <4>5
    <3> QED
      BY <1>4, <2>2, <3>2, <3>3, <3>4
         DEF Step, PassStep, FetchManifest, PullNote, PushNote, PushCard,
             SkipCard, ConflictCard, SaveSnapshot, StopPass
  <2>3. \A d \in Clients \ {c} : local'[d] = local[d]
    BY <1>4, OtherClient DEF WorkInv
  <2> QED
    BY <1>1, <2>1, <2>2, <2>3 DEF LaterWins
<1> QED
  BY <1>2, <1>3, <1>4 DEF Next

\* If no clock is ahead, the later work stays: on the server whatever the
\* clients did, and at a client what was studied there.
THEOREM LaterWorkStays == ASSUME Fast = {} PROVE Spec => NewestWins
<1>1. Spec => []WorkInv
  BY WorkInit, WorkStep, PTL DEF Spec
<1> QED
  BY <1>1, WorkStepStays, PTL DEF Spec, NewestWins

\* If no clock is ahead, no card that Anki generated for a pulled note is
\* pushed over a user's card out of Default.
THEOREM GeneratedCardYields ==
    ASSUME Fast = {} PROVE Spec => []InterruptedPullYields
<1>1. Spec => []WorkInv
  BY WorkInit, WorkStep, PTL DEF Spec
<1>2. WorkInv => InterruptedPullYields
  <2> SUFFICES ASSUME WorkInv, NEW c \in Clients,
                      phase[c] = "cards", Pristine(c),
                      seen[c] # NoCard, seen[c].card.deck # "Default",
                      ~fresh[c], ~settled[c], c \in Desktop
               PROVE  Plan(c, local[c], seen[c]) # "push"
    BY DEF InterruptedPullYields, Plan, Pristine, WorkInv, WorkHere, Dated
  <2>1. /\ local[c] # NoCard /\ local[c].card.deck = "Default"
        /\ ~local[c].card.reviewed
        /\ local[c].mod \in Nat /\ local[c].born \in Nat
    BY DEF Pristine, WorkInv, WorkHere, Dated, TypeOK, LocalCards
  <2>2. CASE local[c].mod = local[c].born
    BY <2>1, <2>2 DEF Plan, LooksInterrupted
  <2>3. CASE local[c].mod # local[c].born
    <3>1. /\ local[c].mod <= seen[c].times.source
          /\ seen[c].times.source <= seenAt[c]
          /\ seen[c].times.source \in Nat /\ seenAt[c] \in Nat
      BY <2>3 DEF WorkInv, WorkHere, Copied, Planning, TypeOK, ServerCards, Times
    <3>2. NewestSide(LocalTimes(local[c].mod), seen[c].times, seenAt[c]) # "local"
      BY <2>1, <3>1, PlanTimes
    <3>3. NewestSide(LocalTimes(local[c].mod), seen[c].times, seenAt[c])
             \in {"server", "none"}
      BY <2>1, <3>1, <3>2, PlanTimes
    <3> QED
      BY <2>1, <3>3 DEF Plan
  <2> QED
    BY <2>2, <2>3
<1> QED
  BY <1>1, <1>2, PTL
=============================================================================
