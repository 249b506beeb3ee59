-------------------------- MODULE ContentSyncProofs --------------------------
(***************************************************************************)
(* Theorems about ContentSync, for every set of clients and notes and for  *)
(* every bound.                                                            *)
(***************************************************************************)
EXTENDS ContentSync, FiniteSetTheorems, TLAPS

USE BoundsAssumption, ScopesAssumption

-----------------------------------------------------------------------------
(***************************************************************************)
(* Types.                                                                  *)
(***************************************************************************)
\* Every step of a client, its user or its pass, keeps the types.
LEMMA TypeStep == TypeOK /\ [Next]_vars => TypeOK'
<1> USE DEF TypeOK, LocalPlace, ServerPlace, Snapshots, NoSnapshot, Phases,
            NoManifest, EndPass, passVars, Idle
<1> SUFFICES ASSUME TypeOK, [Next]_vars PROVE TypeOK'
  OBVIOUS
<1>0. CASE UNCHANGED vars
  BY <1>0 DEF vars
<1> SUFFICES ASSUME NEW c \in Clients, Step(c) PROVE TypeOK'
  BY <1>0 DEF Next
<1>1. CASE \E n \in Notes, place \in LocalPlace : Place(c, n, place)
  BY <1>1 DEF Place
<1>2. CASE Reroute(c)
  BY <1>2 DEF Reroute
<1>3. CASE Approve(c)
  BY <1>3 DEF Approve
<1>4. CASE ResetNotes(c)
  BY <1>4 DEF ResetNotes
<1>5. CASE ResetFiles(c)
  BY <1>5 DEF ResetFiles
<1>6. CASE FetchManifest(c)
  <2>1. ScopedManifest(routing[c]) \in [Notes -> ServerPlace]
    BY DEF ScopedManifest
  <2>2. ScopedTombstones(c) \in SUBSET Notes
    BY DEF ScopedTombstones
  <2> QED
    BY <1>6, <2>1, <2>2 DEF FetchManifest
<1>7. CASE PlanPass(c)
  <2> DEFINE applied == {n \in doomed[c] : local[c][n] # "absent"}
             kept    == [n \in Notes |-> IF n \in doomed[c] THEN "absent"
                                         ELSE local[c][n]]
             here    == Scoped(kept, routing[c])
             lost    == LocalDeletes(c, here, applied)
  <2>1. kept \in [Notes -> LocalPlace] /\ lost \in SUBSET Notes
    BY DEF LocalDeletes, HasNote
  <2>2. HasCard(manifest[c]) \ here \in SUBSET Notes
    BY DEF HasCard
  <2>3. \A restore \in FreshChoices(c, here) : restore \in BOOLEAN
    BY DEF FreshChoices
  <2>4. local' \in [Clients -> [Notes -> LocalPlace]]
    BY <1>7, <2>1 DEF PlanPass
  <2>5. touch' \in [Clients -> [Notes -> {"user", "stale", "sync", "reset"}]]
    BY <1>7 DEF PlanPass
  <2> HIDE DEF applied, kept, here, lost
  <2>6. CASE EndPass(c) /\ dirty' = [dirty EXCEPT ![c] = TRUE]
    BY <1>7, <2>4, <2>5, <2>6 DEF PlanPass
  <2>7. CASE \E restore \in FreshChoices(c, here) :
               /\ phase' = [phase EXCEPT ![c] =
                     IF lost = {} THEN "pull_notes" ELSE "push_deletes"]
               /\ doomed' = [doomed EXCEPT ![c] = {}]
               /\ deletes' = [deletes EXCEPT ![c] = lost]
               /\ settled' = [settled EXCEPT ![c] =
                                HasCard(manifest[c]) \ here]
               /\ fresh' = [fresh EXCEPT ![c] = restore]
               /\ UNCHANGED <<manifest, dirty>>
    BY <1>7, <2>1, <2>2, <2>3, <2>4, <2>5, <2>7 DEF PlanPass
  <2> QED
    BY <1>7, <2>6, <2>7 DEF PlanPass, applied, kept, here, lost
<1>8. CASE PushDeletes(c)
  BY <1>8 DEF PushDeletes, HasNote
<1>9. CASE RefetchManifest(c)
  BY <1>9 DEF RefetchManifest, ScopedManifest
<1>10. CASE PullNotes(c)
  BY <1>10 DEF PullNotes
<1>11. CASE PushNotes(c)
  BY <1>11 DEF PushNotes, Supersede
<1>12. CASE PullCards(c)
  BY <1>12 DEF PullCards, HasCard, Contested, Scoped
<1>13. CASE PushCards(c)
  BY <1>13 DEF PushCards, Supersede
<1>14. CASE SaveSnapshot(c)
  BY <1>14 DEF SaveSnapshot, Baseline, Scoped
<1>15. CASE StopPass(c)
  BY <1>15 DEF StopPass
<1>16. CASE TornSave(c)
  BY <1>16 DEF TornSave
<1>17. CASE FinishTask(c)
  BY <1>17 DEF FinishTask
<1> QED
  BY <1>1, <1>2, <1>3, <1>4, <1>5, <1>6, <1>7, <1>8, <1>9, <1>10, <1>11,
     <1>12, <1>13, <1>14, <1>15, <1>16, <1>17 DEF Step, PassStep

\* The initial states: shared notes, joined clients and new ones.
LEMMA TypeInit == Init => TypeOK
BY DEF Init, Shared, TypeOK, LocalPlace, ServerPlace, Snapshots, NoSnapshot, Phases,
       NoManifest

\* The type invariant holds of every behaviour: the values the code stores in
\* the collection, the state file and the server are of the kinds it reads.
THEOREM TypeCorrect == Spec => []TypeOK
BY TypeInit, TypeStep, PTL DEF Spec

-----------------------------------------------------------------------------
\* A client's step changes nothing of another client but the history of who
\* touched its notes, and that only from "user" to "stale".
LEMMA OtherClient ==
    ASSUME TypeOK, NEW c \in Clients, NEW d \in Clients, c # d, Step(c)
    PROVE  /\ UNCHANGED <<local[d], routing[d], snapshot[d], dirty[d]>>
           /\ UNCHANGED <<phase[d], manifest[d], doomed[d], deletes[d]>>
           /\ \A n \in Notes : \/ touch'[d][n] = touch[d][n]
                               \/ touch[d][n] = "user" /\ touch'[d][n] = "stale"
<1> USE DEF TypeOK, EndPass, passVars
<1>1. CASE \/ \E n \in Notes, place \in LocalPlace : Place(c, n, place)
           \/ Reroute(c) \/ Approve(c) \/ ResetNotes(c) \/ ResetFiles(c)
  BY <1>1 DEF Place, Reroute, Approve, ResetNotes, ResetFiles
<1>2. CASE FetchManifest(c) \/ RefetchManifest(c) \/ PushDeletes(c)
  BY <1>2 DEF FetchManifest, RefetchManifest, PushDeletes
<1>3. CASE PlanPass(c)
  BY <1>3 DEF PlanPass
<1>4. CASE PullNotes(c)
  BY <1>4 DEF PullNotes
<1>5. CASE PushNotes(c)
  BY <1>5 DEF PushNotes, Supersede
<1>6. CASE PullCards(c)
  BY <1>6 DEF PullCards
<1>7. CASE PushCards(c)
  BY <1>7 DEF PushCards, Supersede
<1>8. CASE SaveSnapshot(c) \/ FinishTask(c) \/ StopPass(c) \/ TornSave(c)
  BY <1>8 DEF SaveSnapshot, FinishTask, StopPass, TornSave
<1> QED
  BY <1>1, <1>2, <1>3, <1>4, <1>5, <1>6, <1>7, <1>8 DEF Step, PassStep


-----------------------------------------------------------------------------
(***************************************************************************)
(* A baseline lists only notes the server has or remembers deleting.       *)
(***************************************************************************)
\* The server never forgets: a note leaves it for its tombstone only, and a
\* tombstone goes when the note is back.
LEMMA KnownGrows ==
    ASSUME TypeOK, [Next]_vars PROVE Known \subseteq Known'
<1> USE DEF Known, HasNote
<1>0. CASE UNCHANGED vars
  BY <1>0 DEF vars
<1>1. CASE UNCHANGED <<server, tombstones>>
  BY <1>1
<1>2. ASSUME NEW c \in Clients, PushDeletes(c) PROVE Known \subseteq Known'
  BY <1>2 DEF PushDeletes
<1>3. ASSUME NEW c \in Clients, PushNotes(c) PROVE Known \subseteq Known'
  BY <1>3 DEF PushNotes, Scoped
<1>4. ASSUME NEW c \in Clients, PushCards(c) PROVE Known \subseteq Known'
  <2> DEFINE missing == (Scoped(local[c], routing[c]) \ HasCard(manifest[c])) \ settled[c]
             rivals  == (Contested(c) \intersect HasNote(server))
                           \union (missing \intersect HasCard(server))
             bare    == {n \in missing : server[n] = "bare"}
             moved(newer) == IF fresh[c] THEN {}
                      ELSE {n \in bare \union newer : server[n] # local[c][n]}
  <2>1. PICK newer \in SUBSET rivals :
               server' = [n \in Notes |-> IF n \in moved(newer)
                                           THEN local[c][n] ELSE server[n]]
    BY <1>4 DEF PushCards
  <2>2. missing \union Contested(c) \subseteq Scoped(local[c], routing[c])
    BY DEF Contested
  <2>3. \A n \in Scoped(local[c], routing[c]) :
           n \in Notes /\ local[c][n] # "absent"
    BY DEF Scoped, InScope
  <2>4. moved(newer) \subseteq Scoped(local[c], routing[c])
    BY <2>2
  <2>5. tombstones' = tombstones
    BY <1>4 DEF PushCards
  <2> HIDE DEF moved
  <2> QED
    BY <2>1, <2>3, <2>4, <2>5
<1>5. ASSUME NEW c \in Clients,
             \/ \E n \in Notes, place \in LocalPlace : Place(c, n, place)
             \/ Reroute(c) \/ Approve(c) \/ ResetNotes(c) \/ ResetFiles(c)
             \/ FetchManifest(c) \/ RefetchManifest(c) \/ PlanPass(c)
             \/ PullNotes(c) \/ PullCards(c) \/ SaveSnapshot(c)
             \/ FinishTask(c) \/ StopPass(c) \/ TornSave(c)
      PROVE  UNCHANGED <<server, tombstones>>
  BY <1>5 DEF Place, Reroute, Approve, ResetNotes, ResetFiles, FetchManifest,
              PlanPass, RefetchManifest, PullNotes, PullCards, SaveSnapshot,
              FinishTask, StopPass, TornSave
<1> QED
  BY <1>0, <1>1, <1>2, <1>3, <1>4, <1>5 DEF Next, Step, PassStep

\* KnownInv is inductive: what the client sees or holds enters its manifest
\* or baseline only once the server knows it, and Known only grows.
LEMMA KnownStep == KnownInv /\ [Next]_vars => KnownInv'
<1> SUFFICES ASSUME KnownInv, [Next]_vars PROVE KnownInv'
  OBVIOUS
<1>1. TypeOK /\ TypeOK'
  BY TypeStep DEF KnownInv
<1>2. Known \subseteq Known'
  BY <1>1, KnownGrows
<1> DEFINE Own(c) == /\ snapshot[c].notes \subseteq Known
                     /\ HasNote(manifest[c]) \subseteq Known
                     /\ phase[c] \in {"pull_cards", "push_cards", "save"}
                          => Scoped(local[c], routing[c]) \subseteq Known
<1>3. \A c \in Clients : Own(c)
  BY DEF KnownInv, BaselineKnown
<1> SUFFICES ASSUME NEW d \in Clients PROVE Own(d)'
  BY <1>1 DEF KnownInv, BaselineKnown
<1>4. CASE UNCHANGED <<local[d], routing[d], snapshot[d], phase[d], manifest[d]>>
  BY <1>2, <1>3, <1>4 DEF HasNote, Scoped
<1>5. CASE UNCHANGED vars
  BY <1>4, <1>5 DEF vars, passVars
<1>6. CASE \E c \in Clients \ {d} : Step(c)
  BY <1>1, <1>4, <1>6, OtherClient
<1>7. ASSUME Step(d) PROVE Own(d)'
  <2> USE <1>1, <1>2, <1>3 DEF TypeOK
  <2>0. (/\ ~(phase[d] \in {"pull_cards", "push_cards", "save"})'
         /\ (snapshot[d].notes \subseteq Known)'
         /\ (HasNote(manifest[d]) \subseteq Known)') => Own(d)'
    OBVIOUS
  <2>1. CASE \/ \E n \in Notes, place \in LocalPlace : Place(d, n, place)
             \/ Reroute(d) \/ Approve(d) \/ ResetNotes(d)
    BY <2>1 DEF Place, Reroute, Approve, ResetNotes, Idle, passVars, HasNote
  <2>2. CASE ResetFiles(d)
    BY <2>2 DEF ResetFiles, NoSnapshot, HasNote
  <2>3. CASE FetchManifest(d) \/ RefetchManifest(d)
    <3>1. manifest'[d] = ScopedManifest(routing[d]) /\ snapshot' = snapshot
      BY <2>3 DEF FetchManifest, RefetchManifest
    <3>2. phase'[d] \in {"plan", "pull_notes"}
      BY <2>3 DEF FetchManifest, RefetchManifest
    <3>3. HasNote(ScopedManifest(routing[d])) \subseteq HasNote(server)
      BY DEF HasNote, ScopedManifest
    <3> QED
      BY <3>1, <3>2, <3>3 DEF Known, HasNote
  <2>4. CASE PlanPass(d)
    <3>1. phase'[d] \in {"idle", "pull_notes", "push_deletes"}
      BY <2>4 DEF PlanPass, EndPass
    <3>2. snapshot' = snapshot
      BY <2>4 DEF PlanPass
    <3>3. manifest'[d] \in {manifest[d], NoManifest}
      BY <2>4 DEF PlanPass, EndPass
    <3> QED
      BY <3>1, <3>2, <3>3 DEF HasNote, NoManifest
  <2>5. CASE PushDeletes(d)
    BY <2>5 DEF PushDeletes, HasNote
  <2>6. CASE PullNotes(d)
    <3>1. phase'[d] = "push_notes" /\ snapshot' = snapshot /\ manifest' = manifest
      BY <2>6 DEF PullNotes
    <3> QED
      BY <3>1 DEF HasNote
  <2>7. CASE PushNotes(d)
    <3>1. /\ snapshot' = snapshot /\ manifest' = manifest
          /\ local' = local /\ routing' = routing
      BY <2>7 DEF PushNotes
    <3>2. Scoped(local[d], routing[d]) \ HasNote(manifest[d])
             \subseteq HasNote(server')
      BY <2>7 DEF PushNotes, HasNote, Scoped
    <3>3. Scoped(local[d], routing[d]) \subseteq Known'
      BY <3>2 DEF Known, HasNote
    <3> QED
      BY <3>1, <3>3 DEF HasNote, Scoped
  <2>8. CASE PullCards(d)
    <3>1. /\ snapshot' = snapshot /\ manifest' = manifest
          /\ server' = server /\ tombstones' = tombstones /\ routing' = routing
      BY <2>8 DEF PullCards
    <3>2. \A n \in Notes : local'[d][n] # local[d][n] => n \in HasCard(server)
      BY <2>8 DEF PullCards
    <3>3. HasCard(server) \subseteq Known
      BY DEF HasCard, Known, HasNote
    <3>4. phase[d] = "pull_cards"
      BY <2>8 DEF PullCards
    <3>5. Scoped(local'[d], routing[d]) \subseteq Known
      BY <3>2, <3>3, <3>4 DEF Scoped
    <3> QED
      BY <3>1, <3>5 DEF HasNote, Known, Scoped
  <2>9. CASE PushCards(d)
    <3>1. /\ snapshot' = snapshot /\ manifest' = manifest
          /\ local' = local /\ routing' = routing /\ phase[d] = "push_cards"
      BY <2>9 DEF PushCards
    <3> QED
      BY <3>1 DEF HasNote, Scoped
  <2>10. CASE SaveSnapshot(d)
    <3>1. snapshot'[d] = Baseline(d) /\ phase[d] = "save"
      BY <2>10 DEF SaveSnapshot
    <3>2. manifest' = manifest /\ phase'[d] = "finish"
      BY <2>10 DEF SaveSnapshot
    <3> QED
      BY <3>1, <3>2 DEF Baseline, HasNote
  <2>11. CASE FinishTask(d) \/ StopPass(d) \/ TornSave(d)
    BY <2>11 DEF FinishTask, StopPass, TornSave, EndPass, NoSnapshot,
                 NoManifest, HasNote
  <2> QED
    BY <1>7, <2>1, <2>2, <2>3, <2>4, <2>5, <2>6, <2>7, <2>8, <2>9, <2>10,
       <2>11 DEF Step, PassStep
<1> QED
  BY <1>5, <1>6, <1>7 DEF Next

\* A client can always learn the fate of what its baseline lists: every entry
\* is on the server or has a tombstone there.
THEOREM BaselineIsKnown == Spec => []BaselineKnown
<1>1. Init => KnownInv
  <2> SUFFICES ASSUME Init PROVE KnownInv
    OBVIOUS
  <2>1. TypeOK
    BY TypeInit
  <2>2. PICK shared \in SUBSET Notes, joined \in SUBSET Clients,
             scope \in [Clients -> Scopes] : Shared(shared, joined, scope)
    BY DEF Init
  <2>3. shared \subseteq Known
    BY <2>2 DEF Shared, Known, HasNote
  <2>4. BaselineKnown
    <3> SUFFICES ASSUME NEW c \in Clients PROVE snapshot[c].notes \subseteq Known
      BY DEF BaselineKnown
    <3>1. snapshot[c] \in {[scope |-> scope[c], notes |-> shared], NoSnapshot}
      BY <2>2 DEF Shared
    <3>2. snapshot[c].notes \in {shared, {}}
      BY <3>1 DEF NoSnapshot
    <3> QED
      BY <2>3, <3>2
  <2>5. \A c \in Clients : manifest[c] = NoManifest /\ phase[c] = "idle"
    BY DEF Init
  <2> QED
    BY <2>1, <2>4, <2>5 DEF KnownInv, HasNote, NoManifest
<1>2. KnownInv => BaselineKnown
  BY DEF KnownInv
<1> QED
  BY <1>1, <1>2, KnownStep, PTL DEF Spec

-----------------------------------------------------------------------------
(***************************************************************************)
(* Only what the user took away is read, and pushed, as a local delete.    *)
(***************************************************************************)
\* HonestInv is inductive: a pass that changes the collection ends with a new
\* baseline of it, with no baseline, or marked as stopped halfway.
LEMMA HonestStep == HonestInv /\ [Next]_vars => HonestInv'
<1> SUFFICES ASSUME HonestInv, [Next]_vars PROVE HonestInv'
  OBVIOUS
<1>1. TypeOK /\ TypeOK'
  BY TypeStep DEF HonestInv
<1> DEFINE Missing(c) == snapshot[c].notes
                            \ Scoped(local[c], snapshot[c].scope)
           Own(c) == /\ deletes[c] # {} => phase[c] = "push_deletes"
                     /\ ~dirty[c] => \A n \in deletes[c] : ByUser(c, n)
                     /\ (phase[c] \in {"idle", "plan", "finish"} /\ ~dirty[c]) =>
                           \A n \in Missing(c) : ByUser(c, n)
<1>2. \A c \in Clients : Own(c)
  BY DEF HonestInv
<1> SUFFICES ASSUME NEW d \in Clients PROVE Own(d)'
  BY <1>1 DEF HonestInv
<1>3. deletes[d] \subseteq Notes /\ snapshot[d].notes \subseteq Notes
  BY <1>1 DEF TypeOK, Snapshots
<1>4. CASE UNCHANGED vars
  BY <1>2, <1>4 DEF vars, passVars, Scoped, ByUser
<1>5. CASE \E c \in Clients \ {d} : Step(c)
  <2>1. /\ UNCHANGED <<local[d], snapshot[d], dirty[d], phase[d], deletes[d]>>
        /\ \A n \in Notes : \/ touch'[d][n] = touch[d][n]
                            \/ touch[d][n] = "user" /\ touch'[d][n] = "stale"
    BY <1>1, <1>5, OtherClient
  <2>2. \A n \in Notes : ByUser(d, n) => ByUser(d, n)'
    BY <2>1 DEF ByUser
  <2>3. Missing(d)' = Missing(d)
    BY <2>1 DEF Scoped
  <2> QED
    BY <1>2, <1>3, <2>1, <2>2, <2>3
<1>6. ASSUME Step(d) PROVE Own(d)'
  <2> USE <1>1, <1>2, <1>3 DEF TypeOK
  <2>1. CASE \E n \in Notes, place \in LocalPlace : Place(d, n, place)
    <3>1. PICK n \in Notes, place \in LocalPlace : Place(d, n, place)
      BY <2>1
    <3>2. deletes[d] = {} /\ deletes' = deletes /\ snapshot' = snapshot
            /\ phase[d] = "idle" /\ dirty' = dirty
      BY <3>1 DEF Place, Idle, passVars
    <3>3. touch'[d][n] = "user"
      BY <3>1 DEF Place
    <3>4. \A m \in Notes \ {n} : /\ local'[d][m] = local[d][m]
                                 /\ touch'[d][m] = touch[d][m]
      BY <3>1 DEF Place
    <3> QED
      BY <3>2, <3>3, <3>4 DEF Scoped, ByUser
  <2>2. CASE Reroute(d) \/ Approve(d) \/ FetchManifest(d)
    BY <2>2 DEF Reroute, Approve, FetchManifest, Idle, passVars, Scoped, ByUser
  <2>3. CASE ResetNotes(d)
    <3>1. phase[d] = "idle" /\ deletes' = deletes /\ phase'[d] = "reset"
      BY <2>3 DEF ResetNotes, Idle
    <3> QED
      BY <3>1
  <2>4. CASE ResetFiles(d)
    <3>1. phase[d] = "reset" /\ deletes' = deletes
      BY <2>4 DEF ResetFiles
    <3>2. snapshot'[d] = NoSnapshot
      BY <2>4 DEF ResetFiles
    <3>3. Missing(d)' = {}
      BY <3>2 DEF NoSnapshot
    <3>4. deletes'[d] = {}
      BY <3>1
    <3> QED
      BY <3>3, <3>4
  <2>5. CASE PlanPass(d)
    <3> DEFINE applied == {n \in doomed[d] : local[d][n] # "absent"}
               kept    == [n \in Notes |-> IF n \in doomed[d] THEN "absent"
                                           ELSE local[d][n]]
               here    == Scoped(kept, routing[d])
               lost    == LocalDeletes(d, here, applied)
    <3>1. phase[d] = "plan" /\ deletes[d] = {}
      BY <2>5 DEF PlanPass
    <3>2. \/ phase'[d] = "idle" /\ dirty'[d] = TRUE /\ deletes'[d] = {}
          \/ /\ phase'[d] = IF lost = {} THEN "pull_notes" ELSE "push_deletes"
             /\ deletes'[d] = lost /\ dirty' = dirty
      <4> lost \in SUBSET Notes
        BY DEF LocalDeletes, HasNote
      <4> HIDE DEF applied, kept, here, lost
      <4>1. \/ EndPass(d) /\ dirty' = [dirty EXCEPT ![d] = TRUE]
            \/ /\ phase' = [phase EXCEPT ![d] = IF lost = {} THEN "pull_notes"
                                                ELSE "push_deletes"]
               /\ deletes' = [deletes EXCEPT ![d] = lost]
               /\ UNCHANGED <<manifest, dirty>>
        BY <2>5 DEF PlanPass, applied, kept, here, lost
      <4> QED
        BY <4>1 DEF EndPass
    <3>3. ASSUME NEW n \in lost, ~dirty[d] PROVE ByUser(d, n)'
      <4>1. n \in snapshot[d].notes /\ n \notin here /\ n \notin applied
        BY DEF LocalDeletes
      <4>2. snapshot[d].scope = routing[d]
        BY DEF LocalDeletes, ScopeMatches
      <4>3. ~InScope(local[d][n], routing[d])
        BY <4>1 DEF Scoped, InScope
      <4>4. n \in Missing(d)
        BY <4>1, <4>2, <4>3 DEF Scoped
      <4>5. touch'[d][n] = touch[d][n]
        BY <2>5, <4>1 DEF PlanPass
      <4> QED
        BY <3>1, <3>3, <4>4, <4>5 DEF ByUser
    <3> HIDE DEF lost
    <3> QED
      BY <3>2, <3>3
  <2>6. CASE PushDeletes(d)
    BY <2>6 DEF PushDeletes
  <2>7. CASE \/ RefetchManifest(d) \/ PullNotes(d) \/ PushNotes(d)
             \/ PullCards(d) \/ PushCards(d)
    <3>1. phase[d] # "push_deletes" /\ deletes' = deletes
      BY <2>7 DEF RefetchManifest, PullNotes, PushNotes, PullCards, PushCards
    <3>2. phase'[d] \notin {"idle", "plan", "finish"}
      BY <2>7 DEF RefetchManifest, PullNotes, PushNotes, PullCards, PushCards
    <3> QED
      BY <3>1, <3>2
  <2>8. CASE SaveSnapshot(d)
    <3>1. /\ phase[d] = "save" /\ deletes' = deletes
          /\ snapshot'[d] = Baseline(d) /\ local' = local
      BY <2>8 DEF SaveSnapshot
    <3>2. Missing(d)' = {}
      BY <3>1 DEF Baseline, Scoped
    <3> QED
      BY <3>1, <3>2
  <2>9. CASE StopPass(d)
    <3>1. /\ deletes'[d] = {} /\ phase'[d] = "idle"
          /\ dirty'[d] = (dirty[d] \/ phase[d] # "finish")
          /\ UNCHANGED <<local, snapshot, touch>>
      BY <2>9 DEF StopPass, EndPass
    <3>2. Missing(d)' = Missing(d)
      BY <3>1 DEF Scoped
    <3> QED
      BY <3>1, <3>2 DEF ByUser
  <2>10. CASE TornSave(d)
    BY <2>10 DEF TornSave, EndPass, NoSnapshot
  <2>11. CASE FinishTask(d)
    BY <2>11 DEF FinishTask, EndPass, Scoped, ByUser
  <2> QED
    BY <1>6, <2>1, <2>2, <2>3, <2>4, <2>5, <2>6, <2>7, <2>8, <2>9, <2>10,
       <2>11 DEF Step, PassStep
<1> QED
  BY <1>4, <1>5, <1>6 DEF Next

\* At the start a baseline lists what its client has.
LEMMA HonestInit == Init => HonestInv
<1> SUFFICES ASSUME Init PROVE HonestInv
  OBVIOUS
<1>1. TypeOK
  BY TypeInit
<1>2. PICK shared \in SUBSET Notes, joined \in SUBSET Clients,
           scope \in [Clients -> Scopes] : Shared(shared, joined, scope)
  BY DEF Init
<1>3. ASSUME NEW c \in Clients
      PROVE  snapshot[c].notes \ Scoped(local[c], snapshot[c].scope) = {}
  <2>1. CASE c \in joined
    <3>1. snapshot[c].notes = shared
      BY <1>2, <2>1 DEF Shared
    <3>2. \A n \in shared : local[c][n] = "routed"
      BY <1>2, <2>1 DEF Shared
    <3> QED
      BY <3>1, <3>2 DEF Scoped, InScope
  <2>2. CASE c \notin joined
    <3>1. snapshot[c] = NoSnapshot
      BY <1>2, <2>2 DEF Shared
    <3> QED
      BY <3>1 DEF NoSnapshot
  <2> QED
    BY <2>1, <2>2
<1>4. \A c \in Clients : deletes[c] = {}
  BY DEF Init
<1> QED
  BY <1>1, <1>3, <1>4 DEF HonestInv

\* While no pass or reset stopped halfway, what the baseline lists and the
\* collection lacks was taken away by the user.
THEOREM BaselineIsHonest == Spec => []BaselineHonest
<1>1. HonestInv => BaselineHonest
  BY DEF HonestInv, BaselineHonest, Idle, ScopeMatches
<1> QED
  BY <1>1, HonestInit, HonestStep, PTL DEF Spec

\* A pass pushes no deletion that its user did not make, unless an earlier
\* pass or reset stopped halfway.
THEOREM DeletesAreByUser == Spec => []DeletesByUser
<1>1. HonestInv => DeletesByUser
  BY DEF HonestInv, DeletesByUser
<1> QED
  BY <1>1, HonestInit, HonestStep, PTL DEF Spec

-----------------------------------------------------------------------------
(***************************************************************************)
(* A pass does not bring back what the user removed.                       *)
(***************************************************************************)
\* Another client that changes the place of a note on the server, other than
\* to remove it, supersedes what this client's user did.
LEMMA OthersSupersede ==
    ASSUME TypeOK, NEW c \in Clients, NEW d \in Clients, c # d, Step(c),
           NEW n \in Notes, touch'[d][n] = "user"
    PROVE  server'[n] \in {server[n], "absent"}
<1> USE DEF TypeOK
<1>1. CASE UNCHANGED server
  BY <1>1
<1>2. CASE PushDeletes(c)
  BY <1>2 DEF PushDeletes
<1>3. CASE PushNotes(c)
  BY <1>3 DEF PushNotes, Supersede
<1>4. CASE PushCards(c)
  <2>1. PICK moved : /\ server' = [m \in Notes |-> IF m \in moved
                                   THEN local[c][m] ELSE server[m]]
                     /\ touch' = Supersede(c, moved)
    BY <1>4 DEF PushCards
  <2> QED
    BY <2>1 DEF Supersede
<1>5. ASSUME \/ \E m \in Notes, place \in LocalPlace : Place(c, m, place)
             \/ Reroute(c) \/ Approve(c) \/ ResetNotes(c) \/ ResetFiles(c)
             \/ FetchManifest(c) \/ RefetchManifest(c) \/ PlanPass(c)
             \/ PullNotes(c) \/ PullCards(c) \/ SaveSnapshot(c)
             \/ FinishTask(c) \/ StopPass(c) \/ TornSave(c)
      PROVE  UNCHANGED server
  BY <1>5 DEF Place, Reroute, Approve, ResetNotes, ResetFiles, FetchManifest,
              PlanPass, RefetchManifest, PullNotes, PullCards, SaveSnapshot,
              FinishTask, StopPass, TornSave
<1> QED
  BY <1>1, <1>2, <1>3, <1>4, <1>5 DEF Step, PassStep

\* RemovalInv is inductive: from the fetch to the pulls the server holds none
\* of what the user removed, but for what is waiting among the deletes.
LEMMA RemovalStep == RemovalInv /\ [Next]_vars => RemovalInv'
<1> SUFFICES ASSUME RemovalInv, [Next]_vars PROVE RemovalInv'
  OBVIOUS
<1>1. TypeOK /\ TypeOK'
  BY TypeStep DEF RemovalInv
<1> DEFINE Own(c, n) ==
             /\ (/\ phase[c] \in {"plan", "push_deletes"}
                 /\ touch[c][n] = "user" /\ manifest[c][n] = "absent")
                   => ~InScope(server[n], routing[c])
             /\ n \in Withdrawn(c) =>
                  /\ (phase[c] = "push_deletes" /\ manifest[c][n] # "absent")
                        => n \in deletes[c]
                  /\ phase[c] = "refetch" => ~InScope(server[n], routing[c])
                  /\ phase[c] = "pull_notes" => manifest[c][n] = "absent"
<1>2. \A c \in Clients, n \in Notes : Own(c, n)
  BY DEF RemovalInv
<1> SUFFICES ASSUME NEW d \in Clients, NEW n \in Notes PROVE Own(d, n)'
  BY <1>1 DEF RemovalInv
<1>3. CASE UNCHANGED vars
  BY <1>2, <1>3 DEF vars, passVars, Withdrawn, ScopeMatches
<1>4. CASE \E c \in Clients \ {d} : Step(c)
  <2>1. PICK c \in Clients \ {d} : Step(c)
    BY <1>4
  <2>2. /\ UNCHANGED <<local[d], routing[d], snapshot[d]>>
        /\ UNCHANGED <<phase[d], manifest[d], deletes[d]>>
    BY <1>1, <2>1, OtherClient
  <2>3. touch'[d][n] = "user" => touch[d][n] = "user"
    BY <1>1, <2>1, OtherClient
  <2>4. touch'[d][n] = "user" => server'[n] \in {server[n], "absent"}
    BY <1>1, <2>1, OthersSupersede
  <2>5. touch'[d][n] = "user" /\ ~InScope(server[n], routing[d])
          => ~InScope(server'[n], routing[d])
    BY <2>4 DEF InScope
  <2>6. n \in Withdrawn(d)' => n \in Withdrawn(d) /\ touch'[d][n] = "user"
    BY <2>2, <2>3 DEF Withdrawn, ScopeMatches
  <2> QED
    BY <1>2, <2>2, <2>3, <2>5, <2>6
<1>5. ASSUME Step(d) PROVE Own(d, n)'
  <2> USE <1>1, <1>2 DEF TypeOK
  <2>1. CASE phase'[d] \notin {"plan", "push_deletes", "refetch", "pull_notes"}
    BY <2>1
  <2>2. CASE \/ \E m \in Notes, place \in LocalPlace : Place(d, m, place)
             \/ Reroute(d) \/ Approve(d) \/ ResetNotes(d) \/ ResetFiles(d)
             \/ PullNotes(d) \/ PushNotes(d) \/ PullCards(d) \/ PushCards(d)
             \/ SaveSnapshot(d) \/ FinishTask(d) \/ StopPass(d) \/ TornSave(d)
    <3>1. phase'[d] \notin {"plan", "push_deletes", "refetch", "pull_notes"}
      BY <2>2 DEF Place, Reroute, Approve, ResetNotes, ResetFiles, PullNotes,
                  PushNotes, PullCards, PushCards, SaveSnapshot, FinishTask,
                  StopPass, TornSave, EndPass, Idle, passVars
    <3> QED
      BY <3>1, <2>1
  <2>3. CASE FetchManifest(d)
    <3>1. phase'[d] = "plan" /\ server' = server /\ routing' = routing
      BY <2>3 DEF FetchManifest
    <3>2. manifest'[d] = ScopedManifest(routing[d])
      BY <2>3 DEF FetchManifest
    <3>3. manifest'[d][n] = "absent" => ~InScope(server[n], routing[d])
      BY <3>2 DEF ScopedManifest, InScope
    <3> QED
      BY <3>1, <3>3
  <2>4. CASE PlanPass(d)
    <3> DEFINE applied == {m \in doomed[d] : local[d][m] # "absent"}
               kept    == [m \in Notes |-> IF m \in doomed[d] THEN "absent"
                                           ELSE local[d][m]]
               here    == Scoped(kept, routing[d])
               lost    == LocalDeletes(d, here, applied)
    <3>1. /\ phase[d] = "plan" /\ server' = server /\ routing' = routing
          /\ snapshot' = snapshot /\ local'[d] = kept
          /\ touch'[d][n] = IF n \in applied THEN "sync" ELSE touch[d][n]
      BY <2>4 DEF PlanPass
    <3>2. \/ phase'[d] = "idle"
          \/ /\ phase'[d] = IF lost = {} THEN "pull_notes" ELSE "push_deletes"
             /\ deletes'[d] = lost /\ manifest' = manifest
      <4> lost \in SUBSET Notes
        BY DEF LocalDeletes, HasNote
      <4> HIDE DEF applied, kept, here, lost
      <4>1. \/ EndPass(d)
            \/ /\ phase' = [phase EXCEPT ![d] = IF lost = {} THEN "pull_notes"
                                                ELSE "push_deletes"]
               /\ deletes' = [deletes EXCEPT ![d] = lost]
               /\ UNCHANGED <<manifest, dirty>>
        BY <2>4 DEF PlanPass, applied, kept, here, lost
      <4> QED
        BY <4>1 DEF EndPass
    <3>3. CASE phase'[d] = "idle"
      BY <3>3, <2>1
    <3>4. CASE phase'[d] # "idle"
      <4>1. n \in Withdrawn(d)' /\ manifest[d][n] # "absent" => n \in lost
        <5> SUFFICES ASSUME n \in Withdrawn(d)', manifest[d][n] # "absent"
                     PROVE  n \in lost
          OBVIOUS
        <5>1. ScopeMatches(d) /\ n \in snapshot[d].notes /\ n \notin applied
          BY <3>1 DEF Withdrawn, ScopeMatches
        <5>2. n \notin here
          BY <3>1 DEF Withdrawn, Scoped
        <5> HIDE DEF applied, here
        <5> QED
          BY <5>1, <5>2 DEF LocalDeletes, HasNote
      <4>2. touch'[d][n] = "user" => touch[d][n] = "user"
        BY <3>1
      <4> HIDE DEF lost, applied, kept, here
      <4> QED
        BY <3>1, <3>2, <3>4, <4>1, <4>2
    <3> QED
      BY <3>3, <3>4
  <2>5. CASE PushDeletes(d)
    <3>1. /\ phase[d] = "push_deletes" /\ phase'[d] = "refetch"
          /\ server'[n] = IF n \in deletes[d] THEN "absent" ELSE server[n]
          /\ local' = local /\ routing' = routing /\ snapshot' = snapshot
          /\ touch' = touch
      BY <2>5 DEF PushDeletes
    <3>2. n \in Withdrawn(d)' => n \in Withdrawn(d) /\ touch[d][n] = "user"
      BY <3>1 DEF Withdrawn, ScopeMatches
    <3>3. n \in Withdrawn(d) => ~InScope(server'[n], routing[d])
      BY <3>1, <3>2 DEF InScope, Withdrawn
    <3> QED
      BY <3>1, <3>2, <3>3
  <2>6. CASE RefetchManifest(d)
    <3>1. /\ phase[d] = "refetch" /\ phase'[d] = "pull_notes"
          /\ local' = local /\ routing' = routing /\ snapshot' = snapshot
          /\ touch' = touch /\ manifest'[d] = ScopedManifest(routing[d])
      BY <2>6 DEF RefetchManifest
    <3>2. n \in Withdrawn(d)' => n \in Withdrawn(d)
      BY <3>1 DEF Withdrawn, ScopeMatches
    <3>3. ~InScope(server[n], routing[d]) => manifest'[d][n] = "absent"
      BY <3>1 DEF ScopedManifest
    <3> QED
      BY <3>1, <3>2, <3>3
  <2> QED
    BY <1>5, <2>2, <2>3, <2>4, <2>5, <2>6 DEF Step, PassStep
<1> QED
  BY <1>3, <1>4, <1>5 DEF Next

\* At the start every client is idle.
LEMMA RemovalInit == Init => RemovalInv
BY TypeInit DEF Init, RemovalInv

\* Only the client's own PullNotes adds notes in that phase, and it adds what
\* its manifest shows.
LEMMA RemovalKept == RemovalInv /\ [Next]_vars => [KeepsRemovals]_vars
<1> SUFFICES ASSUME RemovalInv, Next, NEW d \in Clients, NEW n \in Notes,
                    phase[d] = "pull_notes", local[d][n] = "absent",
                    local'[d][n] # "absent",
                    ScopeMatches(d), n \in snapshot[d].notes
             PROVE  touch[d][n] # "user"
  BY DEF KeepsRemovals
<1>1. TypeOK
  BY DEF RemovalInv
<1>2. PICK c \in Clients : Step(c)
  BY DEF Next
<1>3. c = d
  BY <1>1, <1>2, OtherClient
<1>4. PullNotes(d)
  BY <1>2, <1>3 DEF Step, PassStep, Place, Reroute, Approve, ResetNotes,
     ResetFiles, FetchManifest, PlanPass, PushDeletes, RefetchManifest,
     PushNotes, PullCards, PushCards, SaveSnapshot, FinishTask, StopPass,
     TornSave, Idle
<1>5. manifest[d][n] # "absent"
  BY <1>1, <1>4 DEF PullNotes, HasNote, TypeOK
<1>6. touch[d][n] = "user" => n \in Withdrawn(d)
  BY DEF Withdrawn, InScope
<1> QED
  BY <1>5, <1>6 DEF RemovalInv

\* No pass brings back a note that its user removed after the baseline was
\* taken and nobody has put on the server again since.
THEOREM RemovalsStay == Spec => NoResurrection
BY RemovalInit, RemovalStep, RemovalKept, PTL DEF Spec, NoResurrection
-----------------------------------------------------------------------------
(***************************************************************************)
(* Approvals.                                                              *)
(***************************************************************************)
\* What needs no approval with the cards of the notes is not large without
\* them: the code rounds the share down and counts whole records.
LEMMA SmallEnough ==
    ASSUME NEW lost, NEW known, NEW cards \in Nat, IsFiniteSet(lost), IsFiniteSet(known),
           ~NeedsApproval(lost, cards, known)
    PROVE  ~Large(Cardinality(lost), Cardinality(known))
<1> DEFINE n == Cardinality(lost)
           k == Cardinality(known)
           share == 2 * k * DeletePercent
<1>1. n \in Nat /\ k \in Nat
  BY FS_CardinalityType
<1> HIDE DEF n, k
<1>2. share \in Nat /\ share = 2 * DeletePercent * k
  BY <1>1
<1>3. /\ n + cards <= DeleteTotal
      /\ n + cards <= DeleteFloor \/ n + cards <= share \div 100
  BY <1>1, <1>2 DEF NeedsApproval, n, k
<1> HIDE DEF share
<1>4. 100 * (share \div 100) <= share
  BY <1>2
<1>5. share \div 100 \in Int
  BY <1>2
<1>6. n <= DeleteTotal /\ (n <= DeleteFloor \/ 100 * n <= share)
  BY <1>1, <1>2, <1>3, <1>4, <1>5
<1> QED
  BY <1>1, <1>2, <1>6 DEF Large, n, k

LEMMA FiniteNotes ==
    ASSUME NEW S \in SUBSET Notes, NEW T, T \subseteq S
    PROVE  /\ IsFiniteSet(S) /\ IsFiniteSet(T)
           /\ Cardinality(S) \in Nat /\ Cardinality(T) \in Nat
           /\ Cardinality(T) <= Cardinality(S)
BY NotesAssumption, FS_Subset, FS_CardinalityType

\* Only PlanPass makes deletes to push, under the rule of approval; until they
\* are pushed the snapshot and the approval stay.
LEMMA ApprovalStep == ApprovalInv /\ [Next]_vars => ApprovalInv'
<1> SUFFICES ASSUME ApprovalInv, [Next]_vars PROVE ApprovalInv'
  OBVIOUS
<1>1. TypeOK /\ TypeOK'
  BY TypeStep DEF ApprovalInv
<1> SUFFICES ASSUME NEW d \in Clients, phase'[d] = "push_deletes", ~approved'[d]
             PROVE  ~Large(Cardinality(deletes'[d]), Cardinality(snapshot'[d].notes))
  BY <1>1 DEF ApprovalInv
<1>2. ASSUME UNCHANGED <<phase[d], approved[d], deletes[d], snapshot[d]>>
      PROVE  ~Large(Cardinality(deletes'[d]), Cardinality(snapshot'[d].notes))
  BY <1>2 DEF ApprovalInv
<1>3. CASE UNCHANGED vars
  BY <1>2, <1>3 DEF vars, passVars
<1> SUFFICES ASSUME NEW c \in Clients, Step(c)
             PROVE  ~Large(Cardinality(deletes'[d]), Cardinality(snapshot'[d].notes))
  BY <1>3 DEF Next
<1>4. CASE c # d
  <2>1. UNCHANGED <<snapshot[d], phase[d], deletes[d]>>
    BY <1>1, <1>4, OtherClient
  <2>2. approved'[d] = approved[d]
    BY <1>1, <1>4 DEF TypeOK, Step, PassStep, Place, Reroute, Approve, ResetNotes, ResetFiles,
       FetchManifest, PlanPass, PushDeletes, RefetchManifest, PullNotes, PushNotes,
       PullCards, PushCards, SaveSnapshot, FinishTask, StopPass, TornSave
  <2> QED
    BY <1>2, <2>1, <2>2
<1>5. CASE c = d
  <2> USE <1>5
  <2>1. CASE (\E n \in Notes, place \in LocalPlace : Place(c, n, place)) \/ Reroute(c) \/ Approve(c)
    BY <2>1 DEF Place, Reroute, Approve, Idle, passVars
  <2>2. CASE PlanPass(c)
    <3> DEFINE applied == {n \in doomed[c] : local[c][n] # "absent"}
               kept    == [n \in Notes |-> IF n \in doomed[c] THEN "absent"
                                           ELSE local[c][n]]
               here    == Scoped(kept, routing[c])
               lost    == LocalDeletes(c, here, applied)
    <3>1. lost \subseteq Notes /\ IsFiniteSet(lost) /\ Cardinality(lost) \in Nat
      BY FiniteNotes DEF LocalDeletes, HasNote
    <3>2. snapshot[c].notes \in SUBSET Notes
      BY <1>1 DEF TypeOK, Snapshots, NoSnapshot
    <3>3. snapshot' = snapshot /\ approved' = approved
      BY <2>2 DEF PlanPass
    <3> HIDE DEF applied, kept, here, lost
    <3>4. PICK cards \in 0..Cardinality(lost), restore \in FreshChoices(c, here) :
            IF NeedsApproval(lost, cards, snapshot[c].notes) /\ ~approved[c]
            THEN EndPass(c)
            ELSE deletes' = [deletes EXCEPT ![c] = lost]
      BY <2>2 DEF PlanPass, applied, kept, here, lost
    <3>5. CASE NeedsApproval(lost, cards, snapshot[c].notes) /\ ~approved[c]
      BY <1>1, <3>4, <3>5 DEF EndPass, TypeOK
    <3>6. CASE ~NeedsApproval(lost, cards, snapshot[c].notes)
      <4>1. deletes'[c] = lost
        BY <1>1, <3>4, <3>6 DEF TypeOK
      <4>2. cards \in Nat
        BY <3>1
      <4> QED
        BY <3>1, <3>2, <3>3, <3>6, <4>1, <4>2, SmallEnough, FiniteNotes
    <3> QED
      BY <3>3, <3>5, <3>6
  <2>3. CASE \/ ResetNotes(c) \/ ResetFiles(c) \/ FetchManifest(c) \/ PushDeletes(c) \/ RefetchManifest(c)
             \/ PullNotes(c) \/ PushNotes(c) \/ PullCards(c) \/ PushCards(c) \/ SaveSnapshot(c)
    BY <1>1, <2>3 DEF TypeOK, ResetNotes, ResetFiles, FetchManifest, PushDeletes, RefetchManifest,
       PullNotes, PushNotes, PullCards, PushCards, SaveSnapshot
  <2>4. CASE FinishTask(c) \/ StopPass(c) \/ TornSave(c)
    BY <1>1, <2>4 DEF TypeOK, FinishTask, StopPass, TornSave, EndPass
  <2> QED
    BY <2>1, <2>2, <2>3, <2>4 DEF Step, PassStep
<1> QED
  BY <1>4, <1>5

LEMMA ApprovalInit == Init => ApprovalInv
BY TypeInit DEF Init, ApprovalInv

\* Only PushDeletes turns a pass from the deletes to the next manifest, and it
\* takes no more from the server than the deletes.
LEMMA ApprovalKept ==
    ASSUME ApprovalInv, [Next]_vars, NEW d \in Clients,
           phase[d] = "push_deletes", phase'[d] = "refetch",
           Large(Cardinality(HasNote(server) \ HasNote(server')),
                 Cardinality(snapshot[d].notes))
    PROVE  approved[d]
<1>1. TypeOK
  BY DEF ApprovalInv
<1>2. PICK c \in Clients : Step(c)
  BY DEF Next, vars, passVars
<1>3. c = d
  BY <1>1, <1>2, OtherClient
<1>4. PushDeletes(d)
  BY <1>1, <1>2, <1>3 DEF TypeOK, Step, PassStep, Place, Reroute, Approve, ResetNotes, ResetFiles,
     FetchManifest, PlanPass, RefetchManifest, PullNotes, PushNotes,
     PullCards, PushCards, SaveSnapshot, FinishTask, StopPass, TornSave, EndPass, Idle, passVars
<1>5. HasNote(server) \ HasNote(server') \subseteq deletes[d]
  BY <1>4 DEF PushDeletes, HasNote
<1>6. deletes[d] \in SUBSET Notes /\ snapshot[d].notes \in SUBSET Notes
  BY <1>1 DEF TypeOK, Snapshots, NoSnapshot
<1> DEFINE gone == Cardinality(HasNote(server) \ HasNote(server'))
           planned == Cardinality(deletes[d])
           known == Cardinality(snapshot[d].notes)
<1>7. gone \in Nat /\ planned \in Nat /\ known \in Nat /\ gone <= planned
  BY <1>5, <1>6, FiniteNotes
<1>8. Large(gone, known)
  OBVIOUS
<1> HIDE DEF gone, planned, known
<1>9. Large(planned, known)
  <2>1. 2 * DeletePercent * known \in Nat
    BY <1>7
  <2> QED
    BY <1>7, <1>8, <2>1 DEF Large
<1> QED
  BY <1>9 DEF ApprovalInv, planned, known

\* A request that takes much from the server is one the user approved: a
\* collection that lost its notes cannot empty the server.
THEOREM LargeDeletesAreApproved == Spec => LargeDeletesApproved
<1>1. ApprovalInv /\ [Next]_vars =>
        [\A c \in Clients :
            (/\ phase[c] = "push_deletes" /\ phase'[c] = "refetch"
             /\ Large(Cardinality(HasNote(server) \ HasNote(server')),
                      Cardinality(snapshot[c].notes)))
               => approved[c]]_vars
  BY ApprovalKept
<1> QED
  BY <1>1, ApprovalInit, ApprovalStep, PTL DEF Spec, LargeDeletesApproved
=============================================================================
