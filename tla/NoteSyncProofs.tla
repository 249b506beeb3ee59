---------------------------- MODULE NoteSyncProofs ----------------------------
(***************************************************************************)
(* Theorems about NoteSync, for every set of clients and every bound, and  *)
(* about the newest-wins rule that it shares with the other phases.         *)
(***************************************************************************)
EXTENDS NoteSync, TLAPS

-----------------------------------------------------------------------------
(***************************************************************************)
(* What the newest-wins rule promises, for all times and tolerances.       *)
(***************************************************************************)

\* Between credible times newest_side tells the strictly later one.
LEMMA NewestIsLater ==
    ASSUME NEW mod \in Nat, NEW source \in Nat, NEW receipt \in Nat,
           NEW now \in Nat, mod \in 1..now, source \in 1..now
    PROVE  LET newest == NewestSide(LocalTimes(mod),
                                    [source |-> source, receipt |-> receipt], now)
           IN  /\ newest = "local" => mod > source
               /\ newest = "server" => source > mod
               /\ newest \in {"local", "server", "none"}
BY PolicyAssumption DEF NewestSide, LocalTimes, ModifiedTimestamp, Apart

\* A pulled note keeps a credible time.
LEMMA ModIsSource ==
    ASSUME NEW times \in Times, NEW wall, times.source > 0,
           times.source <= times.receipt
    PROVE  SourceModified(times, wall) = times.source
BY PolicyAssumption DEF SourceModified, ModifiedTimestamp, Times

\* A local time beyond the tolerance of the server's clock never wins
\* ("instead of allowing a future timestamp to poison newest-wins forever").
THEOREM FutureLocalNeverWins ==
    ASSUME NEW l \in Times, NEW s \in Times, NEW now \in Nat \ {0},
           ModifiedTimestamp(l) > now + MaxSkew
    PROVE  NewestSide(l, s, now) # "local"
BY PolicyAssumption DEF NewestSide

\* Times closer than the resolution never decide, whatever the clock says of
\* them, unless the local one is in the future.
THEOREM TiesStayOpen ==
    ASSUME NEW l \in Times, NEW s \in Times, NEW now \in Nat,
           ~Apart(ModifiedTimestamp(l), ModifiedTimestamp(s)),
           now > 0 => /\ ModifiedTimestamp(l) <= now + MaxSkew
                      /\ ModifiedTimestamp(s) <= now + MaxSkew
    PROVE  NewestSide(l, s, now) = "none"
BY PolicyAssumption DEF NewestSide, ModifiedTimestamp, Times

\* Two writers never both win: if a's copy beats b's on the server, b's copy
\* cannot beat a's there, with any two readings of the clock.
THEOREM OneWinner ==
    ASSUME NEW a \in Nat, NEW b \in Nat, NEW ra \in Nat, NEW rb \in Nat,
           NEW now \in Nat \ {0}, NEW later \in Nat \ {0},
           a > 0, b > 0, a <= now + MaxSkew, b <= now + MaxSkew,
           a <= later + MaxSkew, b <= later + MaxSkew,
           NewestSide(LocalTimes(a), [source |-> b, receipt |-> rb], now) = "local"
    PROVE  NewestSide(LocalTimes(b), [source |-> a, receipt |-> ra], later)
             = "server"
BY PolicyAssumption DEF NewestSide, LocalTimes, ModifiedTimestamp, Apart

\* A record that was applied here is level with its server copy in any later
\* pass, if its source time was credible when the server received it ("so the
\* next KelmaSync pass sees the card as up-to-date instead of re-pulling it").
THEOREM SettledAfterPull ==
    ASSUME NEW s \in Times, NEW wallClock \in Nat, NEW now \in Nat \ {0},
           s.source > 0, s.receipt > 0, s.source <= s.receipt + MaxSkew,
           s.receipt <= now
    PROVE  NewestSide(LocalTimes(SourceModified(s, wallClock)), s, now) = "none"
BY PolicyAssumption
   DEF NewestSide, LocalTimes, SourceModified, ModifiedTimestamp, Apart, Times

USE PolicyAssumption, NoteAssumption, NoNoteAssumption

-----------------------------------------------------------------------------
(***************************************************************************)
(* Types.                                                                  *)
(***************************************************************************)
\* Storing a content changes its form only.
LEMMA StoredSame ==
    ASSUME NEW c \in Clients, NEW content \in Contents
    PROVE  /\ Stored(c, content) \in Contents
           /\ Stored(c, content).text = content.text
           /\ Stored(c, content).at = content.at
BY DEF Stored, Contents

\* apply_note stores the server's text, with a time that is one.
LEMMA AppliedSame ==
    ASSUME TypeOK, NEW c \in Clients, NEW record \in ServerNotes
    PROVE  /\ Applied(c, record) \in LocalNotes
           /\ Text(Applied(c, record)) = Text(record)
<1>1. record.content \in Contents /\ record.times \in Times
  BY DEF ServerNotes
<1>2. WallClock(c) \in Nat
  BY DEF WallClock, TypeOK
<1>3. SourceModified(record.times, WallClock(c)) \in Nat
  <2> DEFINE times == record.times
             wall  == WallClock(c)
  <2> SUFFICES ASSUME times \in Times, wall \in Nat
               PROVE  SourceModified(times, wall) \in Nat
    BY <1>1, <1>2
  <2> HIDE DEF times, wall
  <2> QED
    BY DEF SourceModified, ModifiedTimestamp, Times
<1>4. /\ Stored(c, record.content) \in Contents
      /\ Stored(c, record.content).text = record.content.text
      /\ Stored(c, record.content).at = record.content.at
  BY <1>1, StoredSame
<1> QED
  BY <1>3, <1>4 DEF Applied, LocalNotes, Text

\* A push writes the local text, dated by the local mod and received now.
LEMMA WrittenSame ==
    ASSUME TypeOK, NEW c \in Clients, local[c] # NoNote, NEW forced \in Nat
    PROVE  /\ Written(c, forced) \in ServerNotes
           /\ Written(c, forced).content = local[c].content
           /\ Written(c, forced).times = [source |-> local[c].mod,
                                          receipt |-> clock]
           /\ Written(c, forced) # NoNote
<1>1. local[c] \in LocalNotes
  BY DEF TypeOK
<1>2. local[c].content \in Contents /\ local[c].mod \in Nat
  BY <1>1 DEF LocalNotes
<1>3. Written(c, forced) \in ServerNotes
  BY <1>2 DEF Written, ServerNotes, Times, TypeOK
<1> QED
  BY <1>3 DEF Written

\* What the plan says of the two sides it is for.
LEMMA PlanSides ==
    ASSUME NEW c \in Clients, NEW mine, NEW theirs, NEW now
    PROVE  /\ Plan(c, mine, theirs, now) \in Phases
           /\ Plan(c, mine, theirs, now) \in {"hydrate", "pull"} => theirs # NoNote
           /\ Plan(c, mine, theirs, now) \in {"hydrate", "push"} => mine # NoNote
BY DEF Plan, Phases

\* No step leaves a broken record, or a pass without the notes it acts on.
LEMMA PlanStep == PlanInv /\ [Next]_vars => PlanInv'
<1> SUFFICES ASSUME PlanInv, [Next]_vars PROVE PlanInv'
  OBVIOUS
<1> USE DEF PlanInv, Idle
<1>0. CASE UNCHANGED vars
  BY <1>0 DEF vars, TypeOK
<1>1. CASE Tick
  BY <1>1 DEF Tick, TypeOK
<1> SUFFICES ASSUME NEW c \in Clients, Step(c) PROVE PlanInv'
  BY <1>0, <1>1 DEF Next
<1>2. CASE Edit(c)
  <2>1. PICK form \in {"raw", "nfc"} :
           local' = [local EXCEPT ![c] =
             [content |-> Stored(c, [text |-> edits + 1, at |-> clock,
                                     form |-> form]),
              mod |-> WallClock(c)]]
    BY <1>2 DEF Edit
  <2>2. Stored(c, [text |-> edits + 1, at |-> clock, form |-> form]) \in Contents
    BY StoredSame DEF Contents, TypeOK
  <2>3. WallClock(c) \in Nat
    BY DEF WallClock, TypeOK
  <2>4. local'[c] \in LocalNotes /\ local' \in [Clients -> LocalNotes \union {NoNote}]
    BY <2>1, <2>2, <2>3 DEF LocalNotes, TypeOK
  <2> QED
    BY <1>2, <2>1, <2>4 DEF Edit, TypeOK
<1>3. CASE AcceptServer(c)
  <2>1. Applied(c, server) \in LocalNotes
    BY <1>3, AppliedSame DEF AcceptServer, TypeOK
  <2> QED
    BY <1>3, <2>1 DEF AcceptServer, TypeOK
<1>4. CASE ForceLocal(c)
  <2>1. Written(c, clock) \in ServerNotes
    BY <1>4, WrittenSame DEF ForceLocal, TypeOK
  <2> QED
    BY <1>4, <2>1 DEF ForceLocal, Forced, TypeOK
<1>5. CASE FetchManifest(c)
  <2> DEFINE plan == Plan(c, local[c], server, clock)
  <2>1. /\ plan \in Phases
        /\ plan \in {"hydrate", "pull"} => server # NoNote
        /\ plan \in {"hydrate", "push"} => local[c] # NoNote
    BY PlanSides
  <2>2. /\ phase' = [phase EXCEPT ![c] = plan]
        /\ seen' = [seen EXCEPT ![c] = IF plan = "idle" THEN NoNote ELSE server]
        /\ UNCHANGED <<clock, server, local, overlap, edits, faults>>
    BY <1>5 DEF FetchManifest
  <2> HIDE DEF plan
  <2> QED
    BY <2>1, <2>2 DEF TypeOK
<1>6. CASE Hydrate(c)
  BY <1>6 DEF Hydrate, EndPass, Phases, TypeOK
<1>7. CASE PullNote(c)
  <2>1. Applied(c, server) \in LocalNotes
    BY <1>7, AppliedSame DEF PullNote, TypeOK
  <2> QED
    BY <1>7, <2>1 DEF PullNote, EndPass, Phases, TypeOK
<1>8. CASE PushNote(c)
  <2>1. Written(c, 0) \in ServerNotes
    BY <1>8, WrittenSame DEF PushNote
  <2>2. server' \in ServerNotes \union {NoNote} /\ (server # NoNote => server' # NoNote)
    BY <1>8, <2>1 DEF PushNote, TypeOK
  <2> QED
    BY <1>8, <2>2 DEF PushNote, EndPass, Forced, Phases, TypeOK
<1>9. CASE StopPass(c)
  BY <1>9 DEF StopPass, EndPass, Phases, TypeOK
<1> QED
  BY <1>2, <1>3, <1>4, <1>5, <1>6, <1>7, <1>8, <1>9 DEF Step, PassStep

\* Every first state is well typed, and no pass is running.
LEMMA PlanInit == Init => PlanInv
<1> SUFFICES ASSUME Init PROVE PlanInv
  OBVIOUS
<1>1. PICK content \in [text : {0}, at : {1}, form : {"raw", "nfc"}],
           here \in SUBSET Clients, there \in BOOLEAN :
         /\ local = [c \in Clients |->
                       IF c \in here THEN [content |-> Stored(c, content),
                                           mod |-> 1]
                       ELSE NoNote]
         /\ server = IF there THEN [content |-> content, forced |-> 0,
                                    times |-> [source |-> 1, receipt |-> 1]]
                     ELSE NoNote
  BY DEF Init
<1>2. content \in Contents
  BY DEF Contents
<1>3. \A c \in Clients : Stored(c, content) \in Contents
  BY <1>2, StoredSame
<1>4. local \in [Clients -> LocalNotes \union {NoNote}]
  BY <1>1, <1>3 DEF LocalNotes
<1>5. server \in ServerNotes \union {NoNote}
  BY <1>1, <1>2 DEF ServerNotes, Times
<1> QED
  BY <1>4, <1>5 DEF Init, PlanInv, TypeOK, Phases

\* The type invariant: every note here, on the server and in a manifest is a
\* whole record, and no pass acts on a note that is not there.
THEOREM TypeCorrect == Spec => []TypeOK
<1>1. Spec => []PlanInv
  BY PlanInit, PlanStep, PTL DEF Spec
<1>2. PlanInv => TypeOK
  BY DEF PlanInv
<1> QED
  BY <1>1, <1>2, PTL

-----------------------------------------------------------------------------
(***************************************************************************)
(* No edit is lost, when no client's clock is ahead.                       *)
(***************************************************************************)
\* The plan goes by the edits: a pull for the later text of the server, a push
\* for the later local one.
LEMMA PlanIsLater ==
    ASSUME EditInv, NEW c \in Clients, local[c] # NoNote, server # NoNote
    PROVE  LET plan == Plan(c, local[c], server, clock)
           IN  /\ plan = "pull" => local[c].content.at < server.content.at
               /\ plan = "push" => local[c].content.at > server.content.at
<1> DEFINE mod    == local[c].mod
           times  == server.times
           newest == NewestSide(LocalTimes(mod), times, clock)
<1>1. local[c] \in LocalNotes /\ server \in ServerNotes /\ clock \in Nat
  BY DEF EditInv, PlanInv, TypeOK
<1>2. /\ mod = local[c].content.at /\ mod \in 1..clock
      /\ times.source = server.content.at /\ times.source \in 1..clock
      /\ times = [source |-> times.source, receipt |-> times.receipt]
      /\ mod \in Nat /\ times.source \in Nat /\ times.receipt \in Nat
  BY <1>1 DEF EditInv, Dated, LocalNotes, ServerNotes, Times
<1>3. /\ newest = "local" => mod > times.source
      /\ newest = "server" => times.source > mod
      /\ newest \in {"local", "server", "none"}
  <2> HIDE DEF mod, times
  <2> QED
    BY <1>1, <1>2, NewestIsLater
<1>4. Winner(c, local[c], server, clock) \in {newest, "none"}
  BY DEF Winner, NewestOf
<1> HIDE DEF newest
<1> QED
  BY <1>2, <1>3, <1>4 DEF Plan

\* A client's step changes nothing of another client.
LEMMA OtherClient ==
    ASSUME PlanInv, NEW c \in Clients, NEW d \in Clients, c # d, Step(c)
    PROVE  UNCHANGED <<local[d], phase[d], seen[d]>>
<1> USE DEF PlanInv, TypeOK, EndPass
<1>1. CASE Edit(c) \/ AcceptServer(c) \/ ForceLocal(c)
  BY <1>1 DEF Edit, AcceptServer, ForceLocal
<1>2. CASE FetchManifest(c)
  BY <1>2 DEF FetchManifest
<1>3. CASE PassStep(c) \/ StopPass(c)
  BY <1>3 DEF PassStep, Hydrate, PullNote, PushNote, StopPass
<1> QED
  BY <1>1, <1>2, <1>3 DEF Step

\* The server's text only gets later, except by force and by the passes that
\* met a forced text.
LEMMA ServerLater ==
    ASSUME EditInv, NEW c \in Clients, Step(c), ~ForceLocal(c),
           c \in overlap => ~PushNote(c), server # NoNote
    PROVE  /\ server' # NoNote
           /\ \/ Text(server') = Text(server)
              \/ server'.content.at > server.content.at
<1>1. CASE UNCHANGED server
  BY <1>1 DEF Text
<1>2. CASE PushNote(c) /\ BaseAgrees(c) /\ server' = Written(c, 0)
  <2>1. /\ local[c] # NoNote /\ phase[c] = "push"
        /\ seen[c] # NoNote /\ server.content = seen[c].content
    BY <1>2 DEF PushNote, BaseAgrees, EditInv, PlanInv
  <2>2. /\ server' # NoNote
        /\ server'.content = local[c].content
    BY <1>2, <2>1, WrittenSame DEF EditInv, PlanInv
  <2>3. Ordered(c)
    BY <1>2 DEF EditInv
  <2>4. /\ server \in ServerNotes /\ server.content.at \in Nat
    BY DEF EditInv, PlanInv, TypeOK, ServerNotes, Contents
  <2> QED
    BY <2>1, <2>2, <2>3, <2>4 DEF Ordered, Text
<1> QED
  BY <1>1, <1>2
     DEF Step, PassStep, Edit, AcceptServer, FetchManifest, Hydrate, PullNote,
         PushNote, StopPass

\* Another client's step leaves a plan in order: the server's text only gets
\* later under it.
LEMMA OrderedOther ==
    ASSUME EditInv, PlanInv', NEW c \in Clients, NEW d \in Clients, c # d, Step(c),
           d \notin overlap'
    PROVE  Ordered(d)'
<1>1. UNCHANGED <<local[d], phase[d], seen[d]>>
  BY OtherClient DEF EditInv
<1>2. CASE seen[d] = NoNote
  BY <1>1, <1>2 DEF Ordered, EditInv, PlanInv
<1>3. CASE seen[d] # NoNote
  <2>1. ~Idle(d) /\ server # NoNote
    BY <1>3 DEF EditInv, PlanInv
  <2>2. ~ForceLocal(c) /\ (c \in overlap => ~PushNote(c))
    BY <2>1 DEF ForceLocal, PushNote, Forced
  <2>3. d \notin overlap
    BY <2>2 DEF Step, PassStep, Edit, AcceptServer, FetchManifest, Hydrate,
                PullNote, PushNote, StopPass
  <2>4. /\ server' # NoNote
        /\ \/ Text(server') = Text(server)
           \/ server'.content.at > server.content.at
    BY <2>1, <2>2, ServerLater
  <2>5. Ordered(d)
    BY <2>3 DEF EditInv
  <2>6. /\ server.content.at \in Nat /\ server'.content.at \in Nat
        /\ seen[d].content.at \in Nat
    BY <2>1, <2>4, <1>3
       DEF EditInv, PlanInv, TypeOK, ServerNotes, Contents
  <2> QED
    BY <1>1, <1>3, <2>4, <2>5, <2>6 DEF Ordered, Text
<1> QED
  BY <1>2, <1>3

\* The client that takes the step: its plan is ordered when it is made, and
\* a pass that is over has nothing to keep in order.
LEMMA OrderedSelf ==
    ASSUME EditInv, PlanInv', NEW c \in Clients, Step(c), c \notin overlap'
    PROVE  Ordered(c)'
<1>1. CASE seen'[c] = NoNote /\ phase'[c] # "pull"
  BY <1>1 DEF Ordered
<1>2. CASE FetchManifest(c)
  <2> DEFINE plan == Plan(c, local[c], server, clock)
  <2>1. /\ phase'[c] = plan /\ UNCHANGED <<server, local>>
        /\ seen'[c] = IF plan = "idle" THEN NoNote ELSE server
    BY <1>2 DEF FetchManifest, EditInv, PlanInv, TypeOK
  <2>2. CASE seen'[c] = NoNote
    BY <2>1, <2>2 DEF Ordered, PlanInv
  <2>3. CASE seen'[c] = server /\ server # NoNote
    <3>1. /\ (plan = "pull" /\ local[c] # NoNote) =>
                local[c].content.at < server.content.at
          /\ plan = "push" => local[c].content.at > server.content.at
      BY <2>3, PlanIsLater, PlanSides
    <3>2. server.content.at \in Nat
      BY <2>3 DEF EditInv, PlanInv, TypeOK, ServerNotes, Contents
    <3> HIDE DEF plan
    <3> QED
      BY <2>1, <2>3, <3>1, <3>2 DEF Ordered, Text
  <2> QED
    BY <2>1, <2>2, <2>3
<1>3. CASE Hydrate(c) /\ Equivalent(local[c], server)
  <2>1. /\ phase[c] = "hydrate" /\ phase'[c] = "push"
        /\ UNCHANGED <<seen, server, local, overlap>>
    BY <1>3 DEF Hydrate, EditInv, PlanInv, TypeOK
  <2>2. Ordered(c) /\ seen[c] # NoNote /\ server # NoNote
    BY <2>1 DEF EditInv, PlanInv
  <2>3. server.content.at \in Nat /\ seen[c].content.at \in Nat
    BY <2>2 DEF EditInv, PlanInv, TypeOK, ServerNotes, Contents
  <2>4. Text(local[c]) = Text(server)
    BY <1>3 DEF Equivalent, Text
  <2> QED
    BY <2>1, <2>2, <2>3, <2>4 DEF Ordered, Text
<1>4. CASE Edit(c) \/ AcceptServer(c) \/ ForceLocal(c)
  <2>1. Idle(c) /\ seen[c] = NoNote /\ UNCHANGED <<phase, seen>>
    BY <1>4 DEF Edit, AcceptServer, ForceLocal, EditInv, PlanInv
  <2> QED
    BY <1>1, <2>1 DEF Idle
<1>5. CASE EndPass(c)
  BY <1>1, <1>5 DEF EndPass, EditInv, PlanInv, TypeOK
<1> QED
  BY <1>2, <1>3, <1>4, <1>5
     DEF Step, PassStep, Hydrate, PullNote, PushNote, StopPass

\* Every record bears the time of its edit.
LEMMA DatedStep ==
    ASSUME Fast = {}, EditInv, PlanInv', NEW c \in Clients, Step(c)
    PROVE  /\ Dated(server, server.times.source)'
           /\ (server # NoNote => server.times.receipt \in server.times.source..clock)'
           /\ \A d \in Clients : Dated(local[d], local[d].mod)'
<1>1. clock \in Nat /\ clock > 0 /\ clock' = clock
  BY DEF EditInv, PlanInv, TypeOK, Step, PassStep, Edit, AcceptServer, ForceLocal,
         FetchManifest, Hydrate, PullNote, PushNote, StopPass
<1>2. ASSUME NEW forced \in Nat, local[c] # NoNote, server' = Written(c, forced)
      PROVE  /\ Dated(server, server.times.source)'
             /\ (server # NoNote =>
                    server.times.receipt \in server.times.source..clock)'
  <2>1. server'.content = local[c].content
        /\ server'.times = [source |-> local[c].mod, receipt |-> clock]
    BY <1>2, WrittenSame DEF EditInv, PlanInv
  <2>2. local[c].content.at = local[c].mod /\ local[c].mod \in 1..clock
    BY <1>2 DEF EditInv, Dated
  <2> QED
    BY <1>1, <2>1, <2>2 DEF Dated
<1>3. ASSUME server # NoNote
      PROVE  Applied(c, server).content.at = server.content.at
             /\ Applied(c, server).mod = server.content.at
             /\ server.content.at \in 1..clock
  <2>1. server \in ServerNotes
    BY <1>3 DEF EditInv, PlanInv, TypeOK
  <2>2. /\ server.content.at = server.times.source
        /\ server.times.source \in 1..clock
        /\ server.times.receipt \in server.times.source..clock
    BY <1>3 DEF EditInv, Dated
  <2>3. SourceModified(server.times, WallClock(c)) = server.times.source
    BY <1>1, <2>1, <2>2, ModIsSource DEF ServerNotes, Times
  <2>4. Text(Applied(c, server)) = Text(server)
    BY <2>1, AppliedSame DEF EditInv, PlanInv
  <2> QED
    BY <2>2, <2>3, <2>4 DEF Text, Applied
<1>4. CASE Edit(c)
  <2>1. PICK form \in {"raw", "nfc"} :
           local' = [local EXCEPT ![c] =
             [content |-> Stored(c, [text |-> edits + 1, at |-> clock,
                                     form |-> form]),
              mod |-> WallClock(c)]]
    BY <1>4 DEF Edit
  <2>2. Stored(c, [text |-> edits + 1, at |-> clock, form |-> form]).at = clock
    BY StoredSame DEF Contents, EditInv, PlanInv, TypeOK
  <2>3. WallClock(c) = clock
    BY DEF WallClock
  <2>4. \A d \in Clients : Dated(local[d], local[d].mod)'
    BY <1>1, <2>1, <2>2, <2>3 DEF EditInv, Dated, PlanInv, TypeOK
  <2> QED
    BY <1>1, <1>4, <2>4 DEF Edit, EditInv, Dated
<1>5. CASE (AcceptServer(c) \/ PullNote(c)) /\ UNCHANGED server
           /\ local' = [local EXCEPT ![c] = Applied(c, server)]
  <2>1. server # NoNote
    BY <1>5 DEF AcceptServer, PullNote, EditInv, PlanInv
  <2>2. \A d \in Clients : Dated(local[d], local[d].mod)'
    BY <1>1, <1>3, <1>5, <2>1 DEF EditInv, Dated, PlanInv, TypeOK
  <2> QED
    BY <1>1, <1>5, <2>2 DEF EditInv, Dated
<1>6. CASE (ForceLocal(c) /\ server' = Written(c, clock))
           \/ (PushNote(c) /\ server' = Written(c, 0))
  <2>1. local[c] # NoNote /\ UNCHANGED local
    BY <1>6 DEF ForceLocal, PushNote, EditInv, PlanInv
  <2>2. /\ Dated(server, server.times.source)'
        /\ (server # NoNote =>
               server.times.receipt \in server.times.source..clock)'
    BY <1>1, <1>2, <1>6, <2>1
  <2> QED
    BY <1>1, <2>1, <2>2 DEF EditInv, Dated
<1>7. CASE UNCHANGED <<server, local>>
  BY <1>1, <1>7 DEF EditInv, Dated
<1> QED
  BY <1>4, <1>5, <1>6, <1>7
     DEF Step, PassStep, AcceptServer, ForceLocal, FetchManifest, Hydrate,
         PullNote, PushNote, StopPass

\* Every step keeps the edits in order.
LEMMA EditStep == Fast = {} /\ EditInv /\ [Next]_vars => EditInv'
<1> SUFFICES ASSUME Fast = {}, EditInv, [Next]_vars PROVE EditInv'
  OBVIOUS
<1>1. PlanInv'
  BY PlanStep DEF EditInv
<1>2. CASE UNCHANGED vars
  BY <1>1, <1>2 DEF vars, EditInv, Dated, Ordered, Text
<1>3. CASE Tick
  BY <1>1, <1>3 DEF Tick, EditInv, Dated, Ordered, Text, PlanInv, TypeOK,
                    ServerNotes, LocalNotes, Contents, Times
<1>4. ASSUME NEW c \in Clients, Step(c) PROVE EditInv'
  <2>1. clock' > 0
    BY <1>4 DEF EditInv, Step, PassStep, Edit, AcceptServer, ForceLocal,
                FetchManifest, Hydrate, PullNote, PushNote, StopPass
  <2>2. \A d \in Clients : d \notin overlap' => Ordered(d)'
    BY <1>1, <1>4, OrderedSelf, OrderedOther
  <2> QED
    BY <1>1, <1>4, <2>1, <2>2, DatedStep DEF EditInv
<1> QED
  BY <1>2, <1>3, <1>4 DEF Next

\* The first texts bear the time of the first edit, and nothing is planned.
LEMMA EditInit == Init => EditInv
<1> SUFFICES ASSUME Init PROVE EditInv
  OBVIOUS
<1>1. PICK content \in [text : {0}, at : {1}, form : {"raw", "nfc"}],
           here \in SUBSET Clients, there \in BOOLEAN :
         /\ local = [c \in Clients |->
                       IF c \in here THEN [content |-> Stored(c, content),
                                           mod |-> 1]
                       ELSE NoNote]
         /\ server = IF there THEN [content |-> content, forced |-> 0,
                                    times |-> [source |-> 1, receipt |-> 1]]
                     ELSE NoNote
  BY DEF Init
<1>2. content \in Contents /\ content.at = 1
  BY DEF Contents
<1>3. \A c \in Clients : Stored(c, content).at = 1
  BY <1>2, StoredSame
<1>4. clock = 1
  BY DEF Init
<1>5. \A c \in Clients : Dated(local[c], local[c].mod)
  BY <1>1, <1>3, <1>4 DEF Dated
<1>6. /\ Dated(server, server.times.source)
      /\ server # NoNote => server.times.receipt \in server.times.source..clock
  BY <1>1, <1>2, <1>4 DEF Dated
<1>7. \A c \in Clients : Ordered(c)
  <2>1. \A c \in Clients : seen[c] = NoNote /\ phase[c] = "idle"
    BY DEF Init
  <2> QED
    BY <2>1 DEF Ordered
<1>8. PlanInv
  BY PlanInit
<1> QED
  BY <1>4, <1>5, <1>6, <1>7, <1>8 DEF EditInv

\* What the invariant makes of a step: a later text replaces, or none does.
LEMMA LaterStep == EditInv /\ [Next]_vars => [LaterReplaces]_vars
<1> SUFFICES ASSUME EditInv, Next, edits' = edits, NEW d \in Clients \ overlap
             PROVE
      /\ (/\ phase[d] = "push" /\ phase'[d] = "idle"
          /\ server # NoNote /\ Text(server') # Text(server))
           => server'.content.at > server.content.at
      /\ (/\ local[d] # NoNote /\ local'[d] # NoNote
          /\ Text(local'[d]) # Text(local[d]))
           => local'[d].content.at > local[d].content.at
  BY DEF LaterReplaces
<1>1. CASE Tick
  BY <1>1 DEF Tick
<1>2. ASSUME NEW c \in Clients, Step(c), c # d
      PROVE  UNCHANGED <<local[d], phase[d]>>
  BY <1>2, OtherClient DEF EditInv
<1>3. CASE Step(d)
  <2>1. ~Edit(d) /\ ~AcceptServer(d) /\ ~ForceLocal(d)
    BY DEF Edit, AcceptServer, ForceLocal, EditInv, PlanInv, TypeOK
  <2>2. CASE FetchManifest(d) \/ Hydrate(d) \/ StopPass(d)
    BY <2>2 DEF FetchManifest, Hydrate, StopPass
  <2>3. CASE PullNote(d)
    <3>1. /\ UNCHANGED server /\ phase[d] = "pull"
          /\ local'[d] \in {local[d], Applied(d, server)}
      BY <2>3 DEF PullNote, EditInv, PlanInv, TypeOK
    <3>2. /\ server # NoNote /\ seen[d] # NoNote /\ Ordered(d)
      BY <3>1 DEF EditInv, PlanInv
    <3>3. Text(Applied(d, server)) = Text(server)
      BY <3>2, AppliedSame DEF EditInv, PlanInv, TypeOK
    <3>4. /\ server.content.at \in Nat /\ seen[d].content.at \in Nat
          /\ local[d] # NoNote => local[d].content.at \in Nat
      BY <3>2 DEF EditInv, PlanInv, TypeOK, ServerNotes, LocalNotes, Contents
    <3> QED
      BY <3>1, <3>2, <3>3, <3>4 DEF Ordered, Text
  <2>4. CASE PushNote(d)
    BY <2>1, <2>4, <1>3, ServerLater DEF PushNote
  <2> QED
    BY <1>3, <2>1, <2>2, <2>3, <2>4 DEF Step, PassStep
<1>4. CASE ~Step(d) /\ \E c \in Clients : c # d /\ Step(c)
  BY <1>2, <1>4
<1> QED
  BY <1>1, <1>3, <1>4 DEF Next

\* Among clients whose clocks are right, no pass replaces a text on the server
\* or here by an earlier one, or by one of the same second, however passes
\* interleave, stop and lose answers (sync_notes_once: "local-newer writes use
\* the observed server checksum as their concurrency base, so a concurrent
\* server update still becomes a conflict"); passes that a forced text
\* overtakes excepted.
THEOREM EditsSurvive == ASSUME Fast = {} PROVE Spec => NoLostEdit
<1>1. Init => EditInv
  BY EditInit
<1>2. EditInv /\ [Next]_vars => EditInv'
  BY EditStep
<1>3. EditInv /\ [Next]_vars => [LaterReplaces]_vars
  BY LaterStep
<1> QED
  BY <1>1, <1>2, <1>3, PTL DEF Spec, NoLostEdit
=============================================================================
