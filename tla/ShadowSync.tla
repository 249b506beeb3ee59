----------------------------- MODULE ShadowSync -----------------------------
(***************************************************************************)
(* The dual sync of the add-on (kelma/engine.py, shadowsync.py,            *)
(* reconcile.py, scheduling.py, deletions.py, state.py).                   *)
(*                                                                         *)
(* The user studies in the master collection.  Each service has a shadow   *)
(* collection on the same computer, which the native sync of Anki keeps    *)
(* equal to the server of the service.  A dual sync takes the services in  *)
(* turn: it pushes master into shadow, syncs the shadow, and pulls shadow  *)
(* into master.  A deck moves only if its fingerprint has changed since    *)
(* the last complete sync; a note goes only if it was on both sides then.  *)
(*                                                                         *)
(* Abstractions: a note has one card, and no deck contains another.  Each  *)
(* change by a user takes a second of its own, so that a modification time *)
(* stands for the content of a note and for the scheduling of a card.  The *)
(* native sync is one step: what it does when it is cut off is the subject *)
(* of CollectionSync.                                                      *)
(***************************************************************************)
EXTENDS Integers, FiniteSets, Sequences, SequencesExt

CONSTANTS
    Services,   \* the services in the order of their syncs
    Guids,      \* what identifies a note in every collection
    Decks,      \* names of decks
    CapMin,     \* deletions allowed in any collection, 100 in the code
    NoFile,     \* no shadow collection yet
    Starts,     \* before the add-on is used: records [master, server, route]
    MaxTime,    \* bound: changes by users
    MaxStops    \* bound: failures and crashes

Fingerprints == [count : 0..Cardinality(Guids), card : 0..MaxTime, note : 0..MaxTime]
Note == [deck : Decks, mod : 0..MaxTime, card : 0..MaxTime]
Collections == UNION {[guids -> Note] : guids \in SUBSET Guids}

Past(c, time) == \A g \in DOMAIN c : c[g].mod <= time /\ c[g].card <= time

ASSUME ServicesAssumption ==
    Services \in Seq(ToSet(Services)) /\ IsInjective(Services) /\ Services # <<>>
\* A collection always has its default deck.
ASSUME NotesAssumption == IsFiniteSet(Guids) /\ Decks # {} /\ NoFile \notin Collections
ASSUME StartsAssumption ==
    \A s \in Starts : /\ s.master \in Collections /\ Past(s.master, 1)
                      /\ s.server \in [ToSet(Services) -> Collections]
                      /\ \A r \in ToSet(Services) : Past(s.server[r], 1)
                      /\ s.route \in [ToSet(Services) -> SUBSET Decks]
ASSUME BoundsAssumption == {CapMin, MaxStops} \subseteq Nat /\ MaxTime \in Nat \ {0}

VARIABLES
    master,  \* the collection of the user
    present, \* the decks it has
    shadow,  \* shadow[s]
    known,   \* known[s]: the shadow after its last native sync; what differs is pending
    server,  \* server[s]
    full,    \* services whose server has another schema than the shadow
    state,   \* kelma_state.json: fingerprints per deck, the converged guids
    route,   \* route[s]: decks synced with s
    queue,   \* services still to sync in the current pass of the dual sync
    run,     \* the dual sync: its services, its pass, and whether it pulled anything
    at,      \* where the sync of the first of them stands
    pull,    \* the decks it pulls, and whether anything came
    now,     \* seconds
    stops,   \* failures so far
    given,   \* history: notes that a user has deleted
    moved,   \* history: notes that a user has moved to another deck, on one side at first
    partly,  \* history: has a deck been left out of a service?
    lost     \* history: has a full download replaced what was pending in a shadow?

collections == <<master, present, shadow, known, server, full, state>>
history == <<given, moved, partly, lost>>
progress == <<queue, run, at, pull>>
vars == <<collections, progress, route, now, stops, history>>

ServiceSet == ToSet(Services)

----------------------------------------------------------------------------
(* Collections. *)

Empty == [g \in {} |-> 0]
In(c, decks) == {g \in DOMAIN c : c[g].deck \in decks}
routed_guids(c, decks) == In(c, decks)
Latest(times) == CHOOSE t \in times \union {0} : \A u \in times : u <= t

fingerprint(c, d) ==
    [count |-> Cardinality(In(c, {d})), card |-> Latest({c[g].card : g \in In(c, {d})}),
     note |-> Latest({c[g].mod : g \in In(c, {d})})]
NeverSeen == Empty

\* Decks whose fingerprint is not the one of the baseline.
changed(c, decks, prints) == {d \in decks : d \notin DOMAIN prints \/ prints[d] # fingerprint(c, d)}

\* Mutant: only fingerprints are compared.
HasMoreNever(c, other, decks) == {}

\* Decks of which one collection has more cards than the other.
HasMore(c, other, decks) ==
    {d \in decks : fingerprint(c, d).count > fingerprint(other, d).count}

\* Mutant: an existing note takes the imported text whatever its age.
ImportedAlways(src, dst, decks) ==
    [g \in DOMAIN dst \union In(src, decks) |->
        IF g \notin DOMAIN dst THEN src[g]
        ELSE IF g \in In(src, decks) THEN [dst[g] EXCEPT !.mod = src[g].mod] ELSE dst[g]]

\* The package import: new notes come with their card; a note that exists takes
\* the newer text and keeps its card, in the deck where that is.
reconcile_decks(src, dst, decks) ==
    [g \in DOMAIN dst \union In(src, decks) |->
        IF g \notin DOMAIN dst THEN src[g]
        ELSE IF g \in In(src, decks) /\ dst[g].mod < src[g].mod THEN [dst[g] EXCEPT !.mod = src[g].mod]
        ELSE dst[g]]

Rescheduled(src, dst, decks) ==
    {g \in In(src, decks) \intersect In(dst, decks) : dst[g].card < src[g].card}
sync_scheduling(src, dst, decks) ==
    [g \in DOMAIN dst |-> IF g \in Rescheduled(src, dst, decks) THEN [dst[g] EXCEPT !.card = src[g].card]
                          ELSE dst[g]]

\* Deletions beyond a quarter of the routed notes, and more than CapMin, are skipped.
Removable(c, guids, decks) ==
    LET target == guids \intersect In(c, decks)
        quarter == Cardinality(In(c, decks)) \div 4
    IN IF Cardinality(target) > CapMin /\ Cardinality(target) > quarter THEN {} ELSE target
remove_guids(c, guids, decks) ==
    [g \in DOMAIN c \ Removable(c, guids, decks) |-> c[g]]

----------------------------------------------------------------------------
(* The native sync of a shadow, as what it makes of the two sides. *)

Newer(a, b) ==
    LET row == IF a.card >= b.card THEN a ELSE b
    IN [row EXCEPT !.mod = IF a.mod >= b.mod THEN a.mod ELSE b.mod]
Merged(here, there, base) ==
    LET gone == (DOMAIN base \ DOMAIN here) \union (DOMAIN base \ DOMAIN there)
    IN [g \in (DOMAIN here \union DOMAIN there) \ gone |->
            IF g \notin DOMAIN there THEN here[g]
            ELSE IF g \notin DOMAIN here THEN there[g]
            ELSE Newer(here[g], there[g])]

\* A first sync, or one after a change of the schema, is a full one: up to an empty
\* server, down from any other.
run_native_sync(s, here) ==
    LET there == server[s]
        both == IF s \notin full THEN Merged(here, there, known[s])
                ELSE IF there = Empty THEN here ELSE there
    IN /\ shadow' = [shadow EXCEPT ![s] = both]
       /\ server' = [server EXCEPT ![s] = both]
       /\ known' = [known EXCEPT ![s] = both]
       /\ full' = full \ {s}
       /\ lost' = (lost \/ (s \in full /\ there # Empty /\ here # known[s]))

----------------------------------------------------------------------------
(* dual_sync. *)

active_services == {s \in ServiceSet : route[s] \intersect present # {}}
NoPull == [decks |-> {}, any |-> FALSE]
Idle == [services |-> {}, pass |-> 0, pulled |-> FALSE]

\* The first of some services in the order of their syncs.
Place == [s \in ServiceSet |-> CHOOSE i \in DOMAIN Services : Services[i] = s]
First(services) == CHOOSE s \in services : \A r \in services : Place[s] <= Place[r]

dual_sync ==
    /\ queue = {} /\ active_services # {}
    /\ queue' = active_services /\ at' = "open"
    /\ run' = [services |-> active_services, pass |-> 1, pulled |-> FALSE]
    /\ UNCHANGED <<collections, pull, route, now, stops, history>>

\* Mutant: passes go on for as long as they pull something.
AgainForever(any) == any /\ Cardinality(run.services) > 1

\* With more than one service, a pass that pulled anything is followed by a second.
Again(any) == any /\ Cardinality(run.services) > 1 /\ run.pass = 1

\* On to the next service, or the next pass.
Proceed(s, pulled) ==
    LET any == run.pulled \/ pulled
    IN /\ pull' = NoPull
       /\ IF queue # {s} THEN queue' = queue \ {s} /\ at' = "open" /\ run' = [run EXCEPT !.pulled = any]
          ELSE IF Again(any) THEN /\ queue' = run.services /\ at' = "open"
                                  /\ run' = [run EXCEPT !.pass = @ + 1, !.pulled = FALSE]
          ELSE queue' = {} /\ at' = "idle" /\ run' = Idle

----------------------------------------------------------------------------
(* sync_service of the first service left, an action for each stage at which it may fail. *)

Stage(s, stage, next) ==
    /\ at = stage /\ s = First(queue)
    /\ at' = next /\ UNCHANGED <<queue, run, route, now, stops, given, moved, partly>>
routed(s) == route[s] \intersect present

OpenShadow(s) ==
    /\ Stage(s, "open", "push")
    /\ IF shadow[s] = NoFile THEN run_native_sync(s, Empty)
       ELSE UNCHANGED <<shadow, server, known, full, lost>>
    /\ UNCHANGED <<master, present, state, pull>>

PushChangedDecks(s) ==
    /\ Stage(s, "push", "carry")
    /\ LET to_push == changed(master, routed(s), state[s].m) \union HasMore(master, shadow[s], routed(s))
       IN shadow' = [shadow EXCEPT ![s] = reconcile_decks(master, @, to_push)]
    /\ UNCHANGED <<master, present, known, server, full, state, pull, lost>>

\* The scheduling of all routed cards, and the deletions.
PushRest(s) ==
    /\ Stage(s, "carry", "sync")
    /\ LET gone == state[s].guids \ routed_guids(master, routed(s))
       IN shadow' = [shadow EXCEPT ![s] = remove_guids(sync_scheduling(master, @, routed(s)), gone, routed(s))]
    /\ UNCHANGED <<master, present, known, server, full, state, pull, lost>>

\* Decks that only the service has are pulled as well.
SyncShadow(s) ==
    /\ Stage(s, "sync", "pull")
    /\ run_native_sync(s, shadow[s])
    /\ LET c == shadow'[s]
       IN pull' = [pull EXCEPT !.decks = routed(s) \union ({c[g].deck : g \in DOMAIN c} \ present)]
    /\ UNCHANGED <<master, present, state>>

PullChangedDecks(s) ==
    /\ Stage(s, "pull", "back")
    /\ LET to_pull == changed(shadow[s], pull.decks, state[s].s) \union HasMore(shadow[s], master, pull.decks)
           sent == In(shadow[s], to_pull)
       IN /\ master' = reconcile_decks(shadow[s], master, to_pull)
          /\ present' = present \union {shadow[s][g].deck : g \in sent}
          /\ pull' = [pull EXCEPT !.any = sent # {}]
    /\ UNCHANGED <<shadow, known, server, full, state, lost>>

PullRest(s) ==
    /\ Stage(s, "back", "save")
    /\ LET studied == sync_scheduling(shadow[s], master, pull.decks)
           gone == state[s].guids \ routed_guids(shadow[s], pull.decks)
       IN /\ master' = remove_guids(studied, gone, pull.decks)
          /\ pull' = [pull EXCEPT !.any = @ \/ Rescheduled(shadow[s], master, pull.decks) # {}
                                            \/ Removable(studied, gone, pull.decks) # {}]
    /\ UNCHANGED <<present, shadow, known, server, full, state, lost>>

\* Mutant: the guids of either side count as converged.
converged_either(c, d, decks) == routed_guids(c, decks) \union routed_guids(d, decks)

\* What is on both sides: what is then missing on one was deleted there.
converged(c, d, decks) == routed_guids(c, decks) \intersect routed_guids(d, decks)

\* The baseline for the next time.
Updated(prints, c, decks) ==
    [d \in DOMAIN prints \union decks |-> IF d \in decks THEN fingerprint(c, d) ELSE prints[d]]
Baseline(s) ==
    [m |-> Updated(state[s].m, master, pull.decks),
     s |-> Updated(state[s].s, shadow[s], pull.decks),
     guids |-> converged(master, shadow[s], pull.decks)]
SaveState(s) ==
    /\ at = "save" /\ s = First(queue)
    /\ state' = [state EXCEPT ![s] = Baseline(s)]
    /\ Proceed(s, pull.any)
    /\ UNCHANGED <<master, present, shadow, known, server, full, route, now, stops, history>>

----------------------------------------------------------------------------
(* What goes wrong. *)

Stop == stops < MaxStops /\ stops' = stops + 1 /\ UNCHANGED <<route, now, history>>

\* The file of a shadow exists from the moment it is opened.
OpenFiles(s) == [shadow EXCEPT ![s] = IF @ = NoFile THEN Empty ELSE @]

\* An exception ends the sync of this service, and not that of the other.
SyncFails(s) ==
    /\ at # "idle" /\ s = First(queue) /\ Stop /\ Proceed(s, FALSE)
    /\ shadow' = OpenFiles(s)
    /\ UNCHANGED <<master, present, known, server, full, state>>

\* That the state file cannot be written is no failure to the code.
SaveFails(s) ==
    /\ at = "save" /\ s = First(queue) /\ Stop /\ Proceed(s, pull.any)
    /\ UNCHANGED collections

\* The desktop is closed in the middle of the sync of a service.
Crash(s) ==
    /\ at # "idle" /\ s = First(queue) /\ Stop
    /\ queue' = {} /\ at' = "idle" /\ run' = Idle /\ pull' = NoPull
    /\ shadow' = OpenFiles(s)
    /\ UNCHANGED <<master, present, known, server, full, state>>

----------------------------------------------------------------------------
(* Users: of the desktop, between two syncs, and of other clients. *)

With(c, g, note) == [h \in DOMAIN c \union {g} |-> IF h = g THEN note ELSE c[h]]
Without(c, g) == [h \in DOMAIN c \ {g} |-> c[h]]

\* No guid is used a second time.
Unused ==
    LET shadows == {s \in ServiceSet : shadow[s] # NoFile}
    IN Guids \ (given \union DOMAIN master \union (UNION {DOMAIN server[s] : s \in ServiceSet})
                \union (UNION {DOMAIN shadow[s] : s \in shadows}))

AddedTo(c, d) == {With(c, g, [deck |-> d, mod |-> now + 1, card |-> now + 1]) : g \in Unused}
Edited(c) == {[c EXCEPT ![g].mod = now + 1] : g \in DOMAIN c}
Studied(c) == {[c EXCEPT ![g].card = now + 1] : g \in DOMAIN c}
MovedInto(c, d) == {[c EXCEPT ![g].deck = d, ![g].card = now + 1] : g \in DOMAIN c \ In(c, {d})}
Deleted(c) == {Without(c, g) : g \in DOMAIN c}

\* Somebody makes `new` of a collection, in a second of its own.
Change(old, new) ==
    /\ given' = given \union (DOMAIN old \ DOMAIN new)
    /\ moved' = moved \union {g \in DOMAIN old \intersect DOMAIN new : old[g].deck # new[g].deck}
Tick == now < MaxTime /\ now' = now + 1

Changes(c) ==
    Edited(c) \union Studied(c) \union Deleted(c) \union UNION {AddedTo(c, d) \union MovedInto(c, d) : d \in Decks}

UserChanges ==
    /\ at = "idle" /\ Tick
    /\ \E new \in Changes(master) :
         /\ Change(master, new)
         /\ master' = new
         /\ present' = present \union {new[g].deck : g \in DOMAIN new}
    /\ UNCHANGED <<shadow, known, server, full, state, route, progress, stops, partly, lost>>

\* The server is used in one stage only, so that a change at any other moment is as
\* one between two services.
BetweenServices == at \in {"idle", "open"}
ClientChanges(s) ==
    /\ BetweenServices /\ Tick
    /\ \E new \in Changes(server[s]) : Change(server[s], new) /\ server' = [server EXCEPT ![s] = new]
    /\ UNCHANGED <<master, present, shadow, known, full, state, route, progress, stops, partly, lost>>

\* A client changes the layout of notes, and with it the schema.
ClientChangesSchema(s) ==
    /\ BetweenServices /\ s \notin full /\ Tick
    /\ full' = full \union {s}
    /\ UNCHANGED <<master, present, shadow, known, server, state, route, progress, stops, history>>

Reroute ==
    /\ at = "idle" /\ Tick
    /\ \E s \in ServiceSet, d \in present :
         route' = [route EXCEPT ![s] = IF d \in @ THEN @ \ {d} ELSE @ \union {d}]
    /\ partly' = TRUE
    /\ UNCHANGED <<collections, progress, stops, given, moved, lost>>

----------------------------------------------------------------------------
\* Notes that are not in the same deck everywhere.
Displaced(sides) ==
    {g \in Guids : \E c, d \in sides : g \in DOMAIN c \intersect DOMAIN d /\ c[g].deck # d[g].deck}

Init ==
    /\ \E start \in Starts :
         /\ master = start.master
         /\ server = start.server
         /\ route = start.route
         /\ moved = Displaced({start.master} \union {start.server[s] : s \in ServiceSet})
         /\ partly = (start.route # [s \in ServiceSet |-> Decks])
    /\ present = {master[g].deck : g \in DOMAIN master}
    /\ shadow = [s \in ServiceSet |-> NoFile]
    /\ known = [s \in ServiceSet |-> Empty]
    /\ full = ServiceSet
    /\ state = [s \in ServiceSet |-> [m |-> NeverSeen, s |-> NeverSeen, guids |-> {}]]
    /\ queue = {} /\ run = Idle /\ at = "idle" /\ pull = NoPull
    /\ now = 1 /\ stops = 0
    /\ given = {} /\ lost = FALSE

\* The body of sync_service, stage by stage.
sync_service(s) ==
    \/ OpenShadow(s) \/ PushChangedDecks(s) \/ PushRest(s) \/ SyncShadow(s)
    \/ PullChangedDecks(s) \/ PullRest(s) \/ SaveState(s)

Next ==
    \/ dual_sync \/ UserChanges \/ Reroute
    \/ \E s \in ServiceSet :
         \/ sync_service(s) \/ SyncFails(s) \/ SaveFails(s) \/ Crash(s)
         \/ ClientChanges(s) \/ ClientChangesSchema(s)

Spec == Init /\ [][Next]_vars

\* Dual syncs go on, and most of them complete.
FairSpec == Spec /\ WF_vars(dual_sync \/ \E s \in ServiceSet : sync_service(s))

----------------------------------------------------------------------------
(* Properties. *)

TypeOK ==
    /\ master \in Collections /\ present \subseteq Decks
    /\ \A s \in ServiceSet :
         /\ shadow[s] \in Collections \union {NoFile}
         /\ {known[s], server[s]} \subseteq Collections
         /\ state[s].guids \subseteq Guids
         /\ \A side \in {state[s].m, state[s].s} : \A d \in DOMAIN side : d \in Decks /\ side[d] \in Fingerprints
         /\ route[s] \subseteq Decks
    /\ full \subseteq ServiceSet
    /\ queue \subseteq run.services /\ run.services \subseteq ServiceSet /\ pull.decks \subseteq Decks /\ run.pass \in 0..2
    /\ now \in 0..MaxTime /\ stops \in 0..MaxStops

\* A collection loses only what some user has deleted (or, with decks that are not
\* synced everywhere, moved), and no text and no schedule becomes an older one.
Lossless(old, new) ==
    /\ DOMAIN old \ DOMAIN new \subseteq given' \union (IF partly' THEN moved' ELSE {})
    /\ \A g \in DOMAIN old \intersect DOMAIN new : old[g].mod <= new[g].mod /\ old[g].card <= new[g].card

\* So it is with the desktop and with every server, whatever failed before: a note that
\* is missing on one side because it has never come there, or because its deck is no
\* longer routed, is never taken for a deletion.
NothingLost ==
    [][Lossless(master, master') /\ \A s \in ServiceSet : Lossless(server[s], server'[s])]_vars

\* Two collections have the same notes in the decks, and the same schedule for them.
SameNotes(c, d, decks) ==
    /\ In(c, decks) \subseteq DOMAIN d /\ In(d, decks) \subseteq DOMAIN c
    /\ \A g \in In(c, decks) \intersect In(d, decks) : c[g].card = d[g].card

\* When users and failures pause, the desktop and the server of every service that
\* is synced come to have the same notes and schedules in the routed decks,
\* whatever was left half done.  (A deck may have equally many but other cards on
\* each side, and stay so, when cards were moved, which never crosses, or when a
\* full download replaced what had just been pushed: both are left out.)
Converges ==
    <>[](lost \/ moved # {} \/ \A s \in active_services : SameNotes(master, server[s], route[s]))

\* The text of an edit arrives: shadowsync.py:113 says of a full download that
\* "reconcile will push the master's routed decks back up on the (incremental)
\* sync that follows".
EditsArrive ==
    <>[](\A s \in active_services :
            \A g \in In(master, route[s]) \intersect In(server[s], route[s]) : master[g].mod <= server[s][g].mod)
=============================================================================
