------------------------ MODULE CollectionSyncProofs ------------------------
(***************************************************************************)
(* The collection sync, for any number of devices and objects and with     *)
(* every interleaving of their requests: the update sequence numbers miss  *)
(* nothing but what a device is uncertain about, no other sanity check     *)
(* fails, and every sync is one atomic merge of the committed collections. *)
(*                                                                         *)
(* A sync treats objects one at a time, so the argument is about the row   *)
(* and the grave that the device and the server keep of one object: what   *)
(* they are between syncs (RowsLinked), what each stage turns them into    *)
(* (Unmerged, Pulled, Settled), and that what the last stage leaves may be *)
(* committed on both sides, or on the server only (SettledKept,            *)
(* OutcomeRows).  Two kinds of object need less: of one that the device is *)
(* blind to, the two sides may differ unnoticed; of a doubtful one, and of *)
(* all objects when the server's collection was replaced between the       *)
(* device's meta and start, it is only known which of the two versions a   *)
(* side can end with (Mixed).                                              *)
(***************************************************************************)
EXTENDS CollectionSync, FiniteSetTheorems, TLAPS

-----------------------------------------------------------------------------
(* One object: at a device the row v and the grave g, under the            *)
(* collection's number u; at the server the row w and the grave h, n.  The *)
(* device gives what it sends and receives the number k that its meta      *)
(* request was told.  bl: the device is blind to the object; un: the       *)
(* object is sent unchunked.                                               *)

Held(v) == v.mtime # 0

\* The device has something to send; the server has something that a device at u lacks.
Due(v, g) == (Held(v) /\ v.usn = Unsynced) \/ g = Unsynced
Recent(w, h, u) == (Held(w) /\ w.usn >= u) \/ h >= u

\* An old grave of either side is known to the other, a sent object that is gone has a new
\* grave, and a difference is due or recent unless the device is blind to it.  Of an object
\* sent unchunked, the side that wins a merge holds the later version.
RowsLinked(bl, un, v, g, w, h, u) ==
    /\ Held(v) => g = NoGrave
    /\ (h # NoGrave /\ h < u) => g # NoGrave
    /\ g >= 0 => h # NoGrave
    /\ (Held(v) /\ v.usn # Unsynced /\ ~Held(w)) => h >= u
    /\ (un /\ Held(w) /\ v.usn # Unsynced) => v.mtime <= w.mtime
    /\ ~bl => /\ v.mtime # w.mtime => Due(v, g) \/ Recent(w, h, u)
              /\ (un /\ Held(v) /\ v.usn = Unsynced /\ ~Recent(w, h, u)) => w.mtime <= v.mtime

\* The version a sync agrees on: 0 when the object is deleted.
Won(v, g, w, h, u) ==
    IF ~Due(v, g) THEN w.mtime
    ELSE IF ~Recent(w, h, u) THEN v.mtime
    ELSE IF v.mtime = 0 \/ w.mtime = 0 THEN 0
    ELSE IF v.mtime > w.mtime THEN v.mtime ELSE w.mtime

\* What the graves of the other side leave of a row, and of a grave.
Spared(v, hit) == IF hit THEN Absent ELSE v
MarkedGrave(g, k) == IF g = Unsynced THEN k ELSE g
ClientGrave(g, h, u, k) == IF h >= u /\ g = NoGrave THEN k ELSE MarkedGrave(g, k)
ServerGrave(g, h, n) == IF g = Unsynced /\ h = NoGrave THEN n ELSE h

\* The rows a and b in the two open transactions, whatever the stage: each is one of the two
\* versions or none, and what changed on the server is what the device had to send.
Mixed(v, g, w, k, a, b) ==
    /\ a.usn >= Unsynced /\ b.usn >= 0
    /\ a.mtime \in {v.mtime, w.mtime, 0}
    /\ (Held(a) /\ a.usn = Unsynced) => a = v
    /\ \/ b = w
       \/ ~Held(b) /\ g = Unsynced
       \/ Held(b) /\ b.usn = k /\ b.mtime = v.mtime /\ v.usn = Unsynced

\* After the graves were exchanged, ...
Unmerged(v, g, w, h, u, a, b) ==
    a = Spared(v, h >= u) /\ b = Spared(w, g = Unsynced)

\* ... when the server has sent what it has: the device agrees, or its own version wins, ...
Pulled(bl, v, g, w, h, u, a, b) ==
    /\ b = Spared(w, g = Unsynced)
    /\ \/ /\ ~bl => a.mtime = b.mtime /\ a.mtime = Won(v, g, w, h, u)
          /\ Held(a) => Held(b) /\ a.usn # Unsynced /\ g = NoGrave /\ h < u
       \/ /\ a = v /\ Held(v) /\ v.usn = Unsynced /\ h < u
          /\ (Held(b) /\ b.usn >= u) => b.mtime <= v.mtime

\* ... and when the device has sent its own: both hold the winner, and nothing is pending.
Settled(bl, un, v, g, w, h, u, a, b) ==
    /\ ~bl => a.mtime = b.mtime /\ a.mtime = Won(v, g, w, h, u)
    /\ Held(a) => Held(b) /\ a.usn # Unsynced /\ g = NoGrave /\ h < u
    /\ Held(b) => h = NoGrave /\ g # Unsynced
    /\ (un /\ Held(b)) => a.mtime <= b.mtime
    /\ (b # w /\ Held(b)) => a.mtime = b.mtime /\ (un => w.mtime <= b.mtime)

-----------------------------------------------------------------------------
(* The inductive invariant.                                                *)

\* No full sync is due.
Linked(c) == col[c].scm = col[Server].scm

\* Rows bear numbers or are pending; at the server none is.
Numbers == /\ \A s \in Sites, x \in Objects : col[s].obj[x].usn >= Unsynced
           /\ \A x \in Objects : col[Server].obj[x].usn >= 0 /\ col[Server].grave[x] # Unsynced

\* What the server holds has no grave.
ServerKept == \A x \in Objects \ doubtful : Held(col[Server].obj[x]) => col[Server].grave[x] = NoGrave

ClientsLinked ==
    \A c \in Clients : Linked(c) =>
        /\ col[c].usn <= col[Server].usn
        /\ \A x \in Objects \ doubtful :
              RowsLinked(x \in blind[c], x \in Unchunked, col[c].obj[x], col[c].grave[x],
                         col[Server].obj[x], col[Server].grave[x], col[c].usn)

\* The committed collections.
RowsInv == Numbers /\ ServerKept /\ ClientsLinked

\* The numbers a client got from its meta request still hold, or it is late.
Numbered(c) ==
    /\ sync[c].clientUsn = col[c].usn
    /\ Linked(c) => col[c].usn <= sync[c].serverUsn /\ sync[c].serverUsn <= col[Server].usn
    /\ ~sync[c].late => Linked(c) /\ sync[c].serverUsn = col[Server].usn

\* The client syncs and the server's session is its own.
InSession(c) == Syncing(c) /\ session.skey = c

\* What is known of an object in a session: neither is it doubtful, nor was the server's
\* collection replaced.
Sound(c, x) == Linked(c) /\ x \notin doubtful

\* What the two open transactions hold of x at each stage of a session after the graves.
Staged(c, x) ==
    LET v == col[c].obj[x]
        g == col[c].grave[x]
        w == col[Server].obj[x]
        h == col[Server].grave[x]
        u == col[c].usn
        a == work[c].obj[x]
        b == work[Server].obj[x]
        bl == x \in blind[c]
        un == x \in Unchunked
        stage == sync[c].stage
    IN  /\ stage = "unchunked" => Unmerged(v, g, w, h, u, a, b)
        /\ stage = "pull" =>
               IF un THEN Settled(bl, un, v, g, w, h, u, a, b)
               ELSE IF ~session.listed THEN Unmerged(v, g, w, h, u, a, b)
               ELSE IF x \in session.ids THEN Unmerged(v, g, w, h, u, a, b) /\ Held(b) /\ b.usn >= u
               ELSE Pulled(bl, v, g, w, h, u, a, b)
        /\ stage = "push" =>
               IF ~un /\ x \in sync[c].ids THEN Pulled(bl, v, g, w, h, u, a, b)
               ELSE Settled(bl, un, v, g, w, h, u, a, b)
        /\ stage \in {"sanity", "finish"} => Settled(bl, un, v, g, w, h, u, a, b)

AtStage(c, x) ==
    LET v == col[c].obj[x]
        g == col[c].grave[x]
        w == col[Server].obj[x]
        h == col[Server].grave[x]
        u == col[c].usn
        n == col[Server].usn
        k == sync[c].serverUsn
        a == work[c].obj[x]
        b == work[Server].obj[x]
        stage == sync[c].stage
    IN  IF stage = "graves"
        THEN /\ a = v /\ b = w
             /\ work[c].grave[x] = MarkedGrave(g, k) /\ work[Server].grave[x] = h
             /\ x \in sync[c].graves <=> h >= u
             /\ x \in sync[c].ids <=> g = Unsynced
        ELSE /\ work[c].grave[x] = ClientGrave(g, h, u, k)
             /\ work[Server].grave[x] = ServerGrave(g, h, n)
             /\ Mixed(v, g, w, k, a, b)
             /\ (stage = "push" /\ x \in sync[c].ids) => Held(a) /\ a.usn = Unsynced
             /\ stage = "finish" => ~Due(a, work[c].grave[x])
             /\ Sound(c, x) => Staged(c, x)

Opened(c) ==
    /\ Numbered(c) /\ sync[c].stage # "start"
    /\ session.serverUsn = col[Server].usn /\ session.clientUsn = col[c].usn
    /\ work[c].scm = col[c].scm /\ work[Server].scm = col[Server].scm
    /\ work[Server].usn = col[Server].usn
    /\ \A x \in Objects : AtStage(c, x)
    /\ sync[c].stage = "push" => sync[c].ids \subseteq Chunked
    /\ session.listed => session.ids \subseteq Chunked /\ sync[c].stage \notin {"graves", "unchunked"}

\* A client with whom nobody interfered knows what the transactions hold; every other one
\* works on what it committed, or is about to be told that its session is gone.
ClientStands(c) ==
    /\ ~Syncing(c) => work[c] = col[c]
    /\ sync[c].full # {} => ~Syncing(c) /\ ~Linked(c)
    /\ sync[c].stage = "start" => Numbered(c) /\ work[c] = col[c]
    /\ InSession(c) => Opened(c)

NobodyServed == session.skey = None => work[Server] = col[Server]

\* The open transactions.
Stands == NobodyServed /\ \A c \in Clients : ClientStands(c)

IInv == TypeOK /\ Stands /\ RowsInv

-----------------------------------------------------------------------------
(* What a sync does to one object.                                         *)

Row == [mtime : Nat, usn : Int]

\* A device and the server before a sync: of any object, ...
Apiece(v, g, w, h, u, k, n) ==
    /\ v \in Row /\ w \in Row /\ g \in Int /\ h \in Int
    /\ u \in Nat /\ k \in Nat /\ n \in Nat
    /\ g >= NoGrave /\ h >= NoGrave /\ h # Unsynced
    /\ v.usn >= Unsynced /\ w.usn >= 0

\* ... and of one that is not doubtful, when no full sync is due.
Before(bl, un, v, g, w, h, u, k, n) ==
    /\ Apiece(v, g, w, h, u, k, n)
    /\ bl \in BOOLEAN /\ un \in BOOLEAN
    /\ u <= k /\ k <= n
    /\ Held(w) => h = NoGrave
    /\ RowsLinked(bl, un, v, g, w, h, u)

LEMMA UnmergedMeans ==
    ASSUME NEW v, NEW g, NEW w, NEW h, NEW u, NEW k, NEW n, NEW a, NEW b,
           Apiece(v, g, w, h, u, k, n), Unmerged(v, g, w, h, u, a, b)
    PROVE  a \in Row /\ b \in Row /\ Mixed(v, g, w, k, a, b)
BY DEF Apiece, Unmerged, Spared, Absent, Row, Mixed, Held, Unsynced

\* Whatever a stage merges, each side ends with one of the two versions.
LEMMA MixedMerge ==
    ASSUME NEW v, NEW g, NEW w, NEW h, NEW u, NEW k, NEW n, NEW a \in Row, NEW b \in Row,
           NEW a2, NEW b2, NEW m, NEW due \in BOOLEAN,
           Apiece(v, g, w, h, u, k, n), Mixed(v, g, w, k, a, b),
           due => Held(a) /\ a.usn = Unsynced,
           m = IF due THEN [a EXCEPT !.usn = k] ELSE a,
           a2 \in {b, m}, b2 = b \/ (due /\ b2 = m)
    PROVE  Mixed(v, g, w, k, a2, b2)
BY DEF Apiece, Row, Mixed, Held, Unsynced

LEMMA NothingToPull ==
    ASSUME NEW bl, NEW un, NEW v, NEW g, NEW w, NEW h, NEW u, NEW k, NEW n, NEW a, NEW b,
           Before(bl, un, v, g, w, h, u, k, n), Unmerged(v, g, w, h, u, a, b),
           ~(Held(b) /\ b.usn >= u)
    PROVE  Pulled(bl, v, g, w, h, u, a, b)
BY DEF Before, Apiece, Unmerged, Pulled, Spared, Absent, Row, Held, Due, Recent, Won, RowsLinked, NoGrave, Unsynced

LEMMA PullRow ==
    ASSUME NEW bl, NEW un, NEW v, NEW g, NEW w, NEW h, NEW u, NEW k, NEW n, NEW a, NEW b, NEW a2,
           Before(bl, un, v, g, w, h, u, k, n), Unmerged(v, g, w, h, u, a, b),
           Held(b), b.usn >= u,
           a2 = IF ~Held(a) \/ a.usn # Unsynced \/ a.mtime < b.mtime THEN b ELSE a
    PROVE  Pulled(bl, v, g, w, h, u, a2, b)
BY DEF Before, Apiece, Unmerged, Pulled, Spared, Absent, Row, Held, Due, Recent, Won, RowsLinked, NoGrave, Unsynced

LEMMA NothingToPush ==
    ASSUME NEW bl, NEW un, NEW v, NEW g, NEW w, NEW h, NEW u, NEW k, NEW n, NEW a, NEW b,
           Before(bl, un, v, g, w, h, u, k, n), Pulled(bl, v, g, w, h, u, a, b),
           ~(Held(a) /\ a.usn = Unsynced)
    PROVE  Settled(bl, FALSE, v, g, w, h, u, a, b)
BY DEF Before, Apiece, Settled, Pulled, Spared, Absent, Row, Held, Due, Recent, Won, RowsLinked, NoGrave, Unsynced

LEMMA PushRow ==
    ASSUME NEW bl, NEW un, NEW v, NEW g, NEW w, NEW h, NEW u, NEW k, NEW n, NEW a, NEW b, NEW a2, NEW b2,
           Before(bl, un, v, g, w, h, u, k, n), Pulled(bl, v, g, w, h, u, a, b),
           Held(a), a.usn = Unsynced,
           a2 = [a EXCEPT !.usn = k],
           b2 = IF ~Held(b) \/ ~(b.usn >= u) \/ b.mtime < a2.mtime THEN a2 ELSE b
    PROVE  Settled(bl, FALSE, v, g, w, h, u, a2, b2)
BY DEF Before, Apiece, Settled, Pulled, Spared, Absent, Row, Held, Due, Recent, Won, RowsLinked, NoGrave, Unsynced

LEMMA MergeRow ==
    ASSUME NEW bl, NEW v, NEW g, NEW w, NEW h, NEW u, NEW k, NEW n, NEW a, NEW b,
           NEW m, NEW a2, NEW b2, NEW due \in BOOLEAN,
           Before(bl, TRUE, v, g, w, h, u, k, n), Unmerged(v, g, w, h, u, a, b),
           due <=> Held(a) /\ a.usn = Unsynced,
           m = IF due THEN [a EXCEPT !.usn = k] ELSE a,
           a2 = IF Held(b) /\ b.usn >= u /\ m.mtime <= b.mtime THEN b ELSE m,
           b2 = IF due /\ b.mtime <= m.mtime THEN m ELSE b
    PROVE  Settled(bl, TRUE, v, g, w, h, u, a2, b2)
BY DEF Before, Apiece, Settled, Unmerged, Spared, Absent, Row, Held, Due, Recent, Won, RowsLinked, NoGrave, Unsynced

\* What a sync leaves is linked again, also for a blind device if the server changed.
LEMMA SettledKept ==
    ASSUME NEW bl, NEW un, NEW v, NEW g, NEW w, NEW h, NEW u, NEW k, NEW n,
           NEW a \in Row, NEW b \in Row, NEW bl2 \in BOOLEAN,
           Before(bl, un, v, g, w, h, u, k, n), Mixed(v, g, w, k, a, b),
           Settled(bl, un, v, g, w, h, u, a, b),
           bl /\ b = w => bl2
    PROVE  RowsLinked(bl2, un, a, ClientGrave(g, h, u, k), b, ServerGrave(g, h, n), k + 1)
BY DEF Before, Apiece, Mixed, Settled, ClientGrave, ServerGrave, MarkedGrave, Row, Held, Due, Recent, Won,
       RowsLinked, NoGrave, Unsynced


-----------------------------------------------------------------------------
(* The operators of CollectionSync.                                        *)

\* There are more tokens than sites.
LEMMA FreshIsNew ==
    ASSUME NEW f \in [Sites -> Nat]
    PROVE  LET used == {f[s] : s \in Sites}
           IN  Fresh(used) \in Nat /\ Fresh(used) \notin used
<1> DEFINE used == {f[s] : s \in Sites}
           n == Cardinality(Sites)
<1>1. IsFiniteSet(Sites) /\ n \in Nat
  BY SitesAssumption, FS_AddElement, FS_CardinalityType DEF Sites
<1>2. f \in Surjection(Sites, used) BY DEF Surjection
<1>3. IsFiniteSet(used) /\ Cardinality(used) <= n /\ Cardinality(used) \in Nat
  <2> HIDE DEF used
  <2> QED BY <1>1, <1>2, FS_Surjection, FS_CardinalityType
<1>4. Cardinality(0..n) = n + 1 BY <1>1, FS_Interval
<1>5. ~(0..n \subseteq used)
  <2> SUFFICES ASSUME 0..n \in SUBSET used PROVE FALSE OBVIOUS
  <2> HIDE DEF used, n
  <2>1. Cardinality(0..n) <= Cardinality(used) BY <1>3, FS_Subset
  <2> QED BY <1>1, <1>3, <1>4, <2>1
<1>6. \E t \in 0..n : t \notin used BY <1>5
<1>7. Fresh(used) \in 0..n /\ Fresh(used) \notin used
  <2> HIDE DEF used
  <2> QED BY <1>6 DEF Fresh
<1>8. Fresh(used) \in Nat
  <2> HIDE DEF used, n
  <2> QED BY <1>1, <1>7
<1> HIDE DEF n
<1> QED BY <1>7, <1>8

SameStamps(C, D) == D.usn = C.usn /\ D.mod = C.mod /\ D.own = C.own /\ D.scm = C.scm

LEMMA MarkGraves ==
    ASSUME NEW C \in Collection, NEW n \in Nat
    PROVE  LET D == UpdatePendingGraveUsns(C, n)
           IN  /\ D \in Collection /\ SameStamps(C, D) /\ D.obj = C.obj
               /\ \A x \in Objects : D.grave[x] = MarkedGrave(C.grave[x], n)
BY DEF UpdatePendingGraveUsns, Collection, Usns, SameStamps, MarkedGrave, NoGrave

LEMMA MarkObjects ==
    ASSUME NEW C \in Collection, NEW n \in Nat, NEW X
    PROVE  LET D == UpdateObjectUsns(C, X, n)
           IN  /\ D \in Collection /\ SameStamps(C, D) /\ D.grave = C.grave
               /\ \A x \in Objects : D.obj[x] = IF x \in X THEN [C.obj[x] EXCEPT !.usn = n] ELSE C.obj[x]
BY DEF UpdateObjectUsns, Collection, Usns, SameStamps, NoGrave, Version

LEMMA RemoveObjects ==
    ASSUME NEW C \in Collection, NEW n \in Nat \union {Unsynced}, NEW X
    PROVE  LET D == ApplyGraves(C, X, n)
           IN  /\ D \in Collection /\ SameStamps(C, D)
               /\ \A x \in Objects :
                    /\ D.obj[x] = Spared(C.obj[x], x \in X)
                    /\ D.grave[x] = IF x \in X /\ C.grave[x] = NoGrave THEN n ELSE C.grave[x]
<1>1. Absent \in Version BY BoundsAssumption DEF Absent, Version, Usns, NoGrave
<1> DEFINE obj == [x \in Objects |-> IF x \in X THEN Absent ELSE C.obj[x]]
           grave == AddGraves(C.grave, X, n)
           D == ApplyGraves(C, X, n)
<1>2. obj \in [Objects -> Version] BY <1>1 DEF Collection
<1>3. /\ grave \in [Objects -> Usns]
      /\ \A x \in Objects : grave[x] = IF x \in X /\ C.grave[x] = NoGrave THEN n ELSE C.grave[x]
  BY DEF AddGraves, Collection, Usns, NoGrave, Unsynced
<1>4. D = [C EXCEPT !.obj = obj, !.grave = grave] BY DEF ApplyGraves
<1>5. \A x \in Objects : obj[x] = Spared(C.obj[x], x \in X) BY DEF Spared
<1> HIDE DEF obj, grave, D
<1>6. D \in Collection /\ SameStamps(C, D) /\ D.obj = obj /\ D.grave = grave
  BY <1>2, <1>3, <1>4 DEF Collection, SameStamps
<1> QED BY <1>3, <1>5, <1>6 DEF D

LEMMA FetchType ==
    ASSUME NEW C \in Collection, NEW X \in SUBSET Objects
    PROVE  Fetch(C, X) \in [X -> Version] /\ \A x \in X : Fetch(C, X)[x] = C.obj[x]
BY DEF Fetch, Collection

LEMMA MergeObjects ==
    ASSUME NEW C \in Collection, NEW X \in SUBSET Objects, NEW changes \in [X -> Version]
    PROVE  LET D == ApplyChanges(C, changes)
           IN  /\ D \in Collection /\ SameStamps(C, D) /\ D.grave = C.grave
               /\ \A x \in Objects :
                    D.obj[x] = IF x \in X /\ C.obj[x].mtime <= changes[x].mtime THEN changes[x] ELSE C.obj[x]
BY DEF ApplyChanges, Collection, SameStamps

LEMMA MergeChunk ==
    ASSUME NEW C \in Collection, NEW X \in SUBSET Objects, NEW chunk \in [X -> Version], NEW pending
    PROVE  LET D == ApplyChunk(C, chunk, pending)
           IN  /\ D \in Collection /\ SameStamps(C, D) /\ D.grave = C.grave
               /\ \A x \in Objects :
                    D.obj[x] = IF x \in X /\ (\/ ~Held(C.obj[x])
                                              \/ ~IsPendingSync(C.obj[x].usn, pending)
                                              \/ C.obj[x].mtime < chunk[x].mtime)
                               THEN chunk[x] ELSE C.obj[x]
BY DEF ApplyChunk, Holds, Held, Collection, SameStamps

\* A chunk that is not full is the rest of the list.
LEMMA LastChunk ==
    ASSUME NEW ids \in SUBSET Objects, NEW chunk \in ChunkOf(ids)
    PROVE  chunk \subseteq ids /\ (Done(chunk) => chunk = ids)
<1>1. Cardinality(chunk) \in Nat
  BY ObjectsAssumption, FS_Subset, FS_CardinalityType DEF ChunkOf
<1> QED BY <1>1, BoundsAssumption DEF ChunkOf, Done

-----------------------------------------------------------------------------
(* Types.                                                                  *)

Standing == [stage : Stages, clientUsn : Nat, serverUsn : Nat, newer : BOOLEAN,
             graves : SUBSET Objects, ids : SUBSET Objects, full : SUBSET {"upload", "download"},
             late : BOOLEAN]
Sessions == [skey : Clients \union {None}, serverUsn : Nat, clientUsn : Nat,
             clientIsNewer : BOOLEAN, listed : BOOLEAN, ids : SUBSET Objects]

Stored == col \in [Sites -> Collection] /\ work \in [Sites -> Collection]
Placed == sync \in [Clients -> Standing] /\ session \in Sessions /\ aborts \subseteq Clients
Counted == edits \in 0..MaxEdits /\ faults \in 0..MaxFaults
Noted == blind \in [Clients -> SUBSET Objects] /\ doubtful \in SUBSET Objects

LEMMA TypeParts == TypeOK <=> Stored /\ Placed /\ Counted /\ Noted
BY DEF TypeOK, Stored, Placed, Counted, Noted, Standing, Sessions

LEMMA TypePartsLater == TypeOK' <=> Stored' /\ Placed' /\ Counted' /\ Noted'
BY DEF TypeOK, Stored, Placed, Counted, Noted, Standing, Sessions

LEMMA Constants ==
    /\ Server \in Sites /\ Clients \subseteq Sites /\ Server \notin Clients /\ None \notin Clients
    /\ \A c \in Clients : c # Server
    /\ Idle \in Standing /\ Idle.stage = "idle" /\ Idle.full = {}
    /\ NoSession \in Sessions /\ NoSession.skey = None
    /\ Absent \in Version /\ MaxStamp \in Nat /\ MaxEdits \in Nat /\ MaxFaults \in Nat
BY SitesAssumption, BoundsAssumption
   DEF Sites, Idle, Standing, Stages, NoSession, Sessions, Absent, Version, Usns, NoGrave

LEMMA FreshStamps == ASSUME Stored PROVE NewMod \in Nat /\ NewScm \in Nat /\ \A s \in Sites : col[s].scm # NewScm
<1> DEFINE f == [s \in Sites |-> col[s].mod]
           g == [s \in Sites |-> col[s].scm]
<1>1. f \in [Sites -> Nat] /\ g \in [Sites -> Nat] BY DEF Stored, Collection
<1>2. {f[s] : s \in Sites} = {col[s].mod : s \in Sites} OBVIOUS
<1>3. {g[s] : s \in Sites} = {col[s].scm : s \in Sites} OBVIOUS
<1>4. \A s \in Sites : col[s].scm \in {col[t].scm : t \in Sites} OBVIOUS
<1> HIDE DEF f, g
<1>5. NewMod \in Nat BY <1>1, <1>2, FreshIsNew DEF NewMod
<1>6. NewScm \in Nat /\ NewScm \notin {col[s].scm : s \in Sites} BY <1>1, <1>3, FreshIsNew DEF NewScm
<1> QED BY <1>4, <1>5, <1>6

LEMMA NotedKept == ASSUME Noted, UNCHANGED history PROVE Noted'
BY DEF Noted, history

LEMMA CountsGrow ==
    ASSUME Counted
    PROVE  /\ Fault => faults' \in 0..MaxFaults
           /\ NoFault => faults' \in 0..MaxFaults
           /\ Decide => edits' \in 0..MaxEdits
           /\ UNCHANGED edits => edits' \in 0..MaxEdits
BY Constants DEF Counted, Fault, NoFault, Decide

LEMMA RollBackTypes ==
    ASSUME Placed, NEW c \in Clients, RollBack(c), session' \in Sessions
    PROVE  Placed'
BY Constants DEF Placed, RollBack

LEMMA MoveTypes ==
    ASSUME Placed, NEW c \in Clients, NEW p \in Standing, sync' = [sync EXCEPT ![c] = p],
           UNCHANGED aborts, session' \in Sessions
    PROVE  Placed'
BY DEF Placed

LEMMA TypesRequest ==
    ASSUME TypeOK, NEW c \in Clients, NEW stage, NEW sw \in Collection, NEW ns \in Sessions,
           NEW cw \in Collection, NEW p \in Standing, Request(c, stage, sw, ns, cw, p)
    PROVE  TypeOK'
<1>1. Stored /\ Placed /\ Counted /\ session \in Sessions BY TypeParts DEF Placed
<1>2. UNCHANGED <<col, edits>> /\ Noted' BY TypeParts, NotedKept DEF Request
<1>3. CASE /\ work' = [work EXCEPT ![Server] = sw, ![c] = cw]
           /\ session' = ns
           /\ sync' = [sync EXCEPT ![c] = p]
           /\ NoFault /\ UNCHANGED aborts
  <2>1. Stored' BY <1>1, <1>2, <1>3, Constants DEF Stored
  <2> QED BY <1>1, <1>2, <1>3, <2>1, MoveTypes, CountsGrow, TypePartsLater DEF Counted
<1>4. CASE /\ work' = [work EXCEPT ![Server] = sw, ![c] = col[c]]
           /\ session' = ns
           /\ Fault /\ RollBack(c)
  <2>1. Stored' BY <1>1, <1>2, <1>4, Constants DEF Stored
  <2> QED BY <1>1, <1>2, <1>4, <2>1, RollBackTypes, CountsGrow, TypePartsLater DEF Counted
<1>5. CASE /\ work' = [work EXCEPT ![c] = col[c]]
           /\ NoFault /\ RollBack(c) /\ UNCHANGED session
  <2>1. Stored' BY <1>1, <1>2, <1>5, Constants DEF Stored
  <2> QED BY <1>1, <1>2, <1>5, <2>1, RollBackTypes, CountsGrow, TypePartsLater DEF Counted
<1> QED BY <1>3, <1>4, <1>5 DEF Request

LEMMA PendingTypes ==
    ASSUME NEW C, NEW X \in SUBSET Objects, NEW pending
    PROVE  ObjectsPendingSync(C, X, pending) \in SUBSET X /\ PendingGraves(C, pending) \in SUBSET Objects
BY DEF ObjectsPendingSync, PendingGraves

LEMMA PlacedMeans ==
    ASSUME Placed, NEW c \in Clients
    PROVE  /\ sync[c] \in Standing /\ sync[c].stage \in Stages
           /\ sync[c].clientUsn \in Nat /\ sync[c].serverUsn \in Nat
           /\ sync[c].graves \in SUBSET Objects /\ sync[c].ids \in SUBSET Objects
           /\ session \in Sessions /\ session.serverUsn \in Nat /\ session.clientUsn \in Nat
           /\ session.ids \in SUBSET Objects
BY DEF Placed, Standing, Sessions

LEMMA StoredMeans ==
    ASSUME Stored
    PROVE  /\ \A s \in Sites : col[s] \in Collection /\ work[s] \in Collection
           /\ work[Server] \in Collection /\ col[Server] \in Collection
BY Constants DEF Stored

LEMMA SeedType == ASSUME NEW held \in Starts PROVE Seed(held) \in Collection
<1> DEFINE obj == [x \in Objects |-> IF x \in held THEN [mtime |-> 1, usn |-> 0] ELSE Absent]
<1>1. obj \in [Objects -> Version] BY BoundsAssumption, Constants DEF Version, Usns, NoGrave
<1> QED BY <1>1 DEF Seed, Collection, Usns, NoGrave

LEMMA TypesInit == Init => TypeOK
<1> SUFFICES ASSUME Init PROVE TypeOK OBVIOUS
<1>1. PICK held \in Starts : col = [s \in Sites |-> Seed(held)] BY DEF Init
<1>2. Stored BY <1>1, SeedType DEF Init, Stored
<1>3. Placed BY Constants DEF Init, Placed
<1>4. Counted /\ Noted BY Constants DEF Init, Counted, Noted
<1> QED BY <1>2, <1>3, <1>4, TypeParts

LEMMA TypesSyncMeta == ASSUME TypeOK, NEW c \in Clients, SyncMeta(c) PROVE TypeOK'
<1>1. Stored /\ Placed /\ Counted BY TypeParts
<1>2. Stored' BY <1>1, StoredMeans, Constants DEF SyncMeta, Stored
<1>3. Placed'
  <2>1. session' \in Sessions /\ aborts' = aborts BY Constants DEF SyncMeta, DropSession
  <2>2. sync' \in [Clients -> Standing]
    <3>1. FullSyncChoices(col[c], col[Server]) \in SUBSET {"upload", "download"} BY DEF FullSyncChoices
    <3>2. \A F \in SUBSET {"upload", "download"} : [sync[c] EXCEPT !.full = F] \in Standing
      BY <1>1, PlacedMeans DEF Standing
    <3>3. \A newer \in BOOLEAN, m \in Nat, n \in Nat :
             [Idle EXCEPT !.stage = "start", !.newer = newer, !.clientUsn = m, !.serverUsn = n] \in Standing
      BY Constants DEF Standing, Stages
    <3>4. col[c].usn \in Nat /\ col[Server].usn \in Nat /\ col[c].own \in BOOLEAN
      BY <1>1, StoredMeans, Constants DEF Collection
    <3>5. sync \in [Clients -> Standing] BY <1>1 DEF Placed
    <3>6. CASE UNCHANGED sync BY <3>5, <3>6
    <3>7. CASE sync' = [sync EXCEPT ![c].full = FullSyncChoices(col[c], col[Server])]
      BY <3>1, <3>2, <3>5, <3>7
    <3>8. CASE \E newer \in {FALSE, col[c].own} :
                 sync' = [sync EXCEPT ![c] = [Idle EXCEPT !.stage = "start", !.newer = newer,
                                               !.clientUsn = col[c].usn, !.serverUsn = col[Server].usn]]
      <4>1. PICK newer \in {FALSE, col[c].own} :
                 sync' = [sync EXCEPT ![c] = [Idle EXCEPT !.stage = "start", !.newer = newer,
                                               !.clientUsn = col[c].usn, !.serverUsn = col[Server].usn]]
        BY <3>8
      <4>2. newer \in BOOLEAN BY <3>4
      <4> QED BY <3>3, <3>4, <3>5, <4>1, <4>2
    <3> QED BY <3>6, <3>7, <3>8 DEF SyncMeta
  <2> QED BY <1>1, <2>1, <2>2 DEF Placed
<1>4. Counted' /\ Noted' BY <1>1, TypeParts, CountsGrow, NotedKept DEF SyncMeta, Counted
<1> QED BY <1>2, <1>3, <1>4, TypePartsLater

LEMMA TypesStart == ASSUME TypeOK, NEW c \in Clients, Start(c) PROVE TypeOK'
<1> DEFINE s == sync[c]
           remote == PendingGraves(col[Server], s.clientUsn)
           local == PendingGraves(work[c], Unsynced)
           marked == UpdatePendingGraveUsns(work[c], s.serverUsn)
           opened == [NoSession EXCEPT !.skey = c, !.serverUsn = col[Server].usn,
                                       !.clientUsn = s.clientUsn, !.clientIsNewer = s.newer]
           next == IF local = {} THEN [s EXCEPT !.stage = "unchunked"]
                   ELSE [s EXCEPT !.stage = "graves", !.graves = remote, !.ids = local]
           mine == IF local = {} THEN ApplyGraves(marked, remote, s.serverUsn) ELSE marked
<1>1. /\ Stored /\ Placed /\ Counted /\ s \in Standing /\ s.clientUsn \in Nat /\ s.serverUsn \in Nat
      /\ work[c] \in Collection /\ col[c] \in Collection /\ col[Server] \in Collection
  BY TypeParts, PlacedMeans, StoredMeans, Constants
<1>2. remote \in SUBSET Objects /\ local \in SUBSET Objects BY PendingTypes
<1>3. marked \in Collection BY <1>1, MarkGraves
<1>4. mine \in Collection
  <2> HIDE DEF marked, remote, local, s
  <2> QED BY <1>1, <1>3, RemoveObjects
<1>5. opened \in Sessions BY <1>1, Constants DEF Sessions, Standing, Collection
<1>6. next \in Standing
  <2> HIDE DEF remote, local
  <2> QED BY <1>1, <1>2 DEF Standing, Stages
<1>7. /\ session' = opened /\ UNCHANGED <<col, history, edits>>
      /\ \/ /\ work' = [work EXCEPT ![Server] = col[Server], ![c] = mine]
            /\ sync' = [sync EXCEPT ![c] = next]
            /\ (IF KillsAnother(c) THEN Fault ELSE NoFault) /\ UNCHANGED aborts
         \/ /\ work' = [work EXCEPT ![Server] = col[Server], ![c] = col[c]]
            /\ Fault /\ RollBack(c)
  BY DEF Start
<1> HIDE DEF mine, opened, next
<1>8. Stored' BY <1>1, <1>4, <1>7, Constants DEF Stored
<1>9. Placed' BY <1>1, <1>5, <1>6, <1>7, MoveTypes, RollBackTypes
<1>10. Counted' /\ Noted' BY <1>1, <1>7, TypeParts, CountsGrow, NotedKept DEF Counted
<1> QED BY <1>8, <1>9, <1>10, TypePartsLater

LEMMA TypesSendGraves == ASSUME TypeOK, NEW c \in Clients, SendGraves(c) PROVE TypeOK'
<1> DEFINE s == sync[c]
           sw == ApplyGraves(work[Server], s.ids, session.serverUsn)
           cw == ApplyGraves(work[c], s.graves, s.serverUsn)
           p == [s EXCEPT !.stage = "unchunked", !.graves = {}, !.ids = {}]
<1>1. /\ Stored /\ Placed /\ s \in Standing /\ s.serverUsn \in Nat /\ session.serverUsn \in Nat
      /\ session \in Sessions /\ work[c] \in Collection /\ work[Server] \in Collection
  BY TypeParts, PlacedMeans, StoredMeans, Constants
<1>2. p \in Standing BY <1>1 DEF Standing, Stages
<1>3. sw \in Collection /\ cw \in Collection BY <1>1, RemoveObjects
<1>4. Request(c, "graves", sw, session, cw, p) BY DEF SendGraves
<1> HIDE DEF sw, cw, p
<1> QED BY <1>1, <1>2, <1>3, <1>4, TypesRequest

\* What the two sides of UnchunkedChanges work with.
WithConf(C, sent, conf) == IF sent THEN [C EXCEPT !.conf = conf] ELSE C
Ids(c) == ObjectsPendingSync(work[c], Unchunked, Unsynced)
Marked(c) == UpdateObjectUsns(work[c], Ids(c), sync[c].serverUsn)
Mine(c) == Fetch(Marked(c), Ids(c))
TheirIds == ObjectsPendingSync(work[Server], Unchunked, session.clientUsn)
Theirs == Fetch(work[Server], TheirIds)
ServerMerged(c) == WithConf(ApplyChanges(work[Server], Mine(c)), sync[c].newer, work[c].conf)
ClientMerged(c) == WithConf(ApplyChanges(Marked(c), Theirs), ~session.clientIsNewer, work[Server].conf)

LEMMA UnchunkedShape ==
    ASSUME NEW c, UnchunkedChanges(c)
    PROVE  Request(c, "unchunked", ServerMerged(c), session, ClientMerged(c), [sync[c] EXCEPT !.stage = "pull"])
BY DEF UnchunkedChanges, ServerMerged, ClientMerged, WithConf, Mine, Theirs, TheirIds, Marked, Ids

LEMMA WithConfKeeps ==
    ASSUME NEW C \in Collection, NEW sent, NEW conf \in 0..1
    PROVE  LET D == WithConf(C, sent, conf)
           IN  D \in Collection /\ SameStamps(C, D) /\ D.obj = C.obj /\ D.grave = C.grave
BY DEF WithConf, Collection, SameStamps

LEMMA UnchunkedMeans ==
    ASSUME TypeOK, NEW c \in Clients
    PROVE  LET S == ServerMerged(c)
               C == ClientMerged(c)
           IN  /\ S \in Collection /\ SameStamps(work[Server], S) /\ S.grave = work[Server].grave
               /\ C \in Collection /\ SameStamps(work[c], C) /\ C.grave = work[c].grave
               /\ \A x \in Objects :
                    LET m == IF x \in Ids(c) THEN [work[c].obj[x] EXCEPT !.usn = sync[c].serverUsn]
                             ELSE work[c].obj[x]
                    IN  /\ S.obj[x] = IF x \in Ids(c) /\ work[Server].obj[x].mtime <= m.mtime THEN m
                                      ELSE work[Server].obj[x]
                        /\ C.obj[x] = IF x \in TheirIds /\ m.mtime <= work[Server].obj[x].mtime
                                      THEN work[Server].obj[x] ELSE m
<1> DEFINE X == Ids(c)
           Y == TheirIds
           M == Marked(c)
           SA == ApplyChanges(work[Server], Mine(c))
           CA == ApplyChanges(M, Theirs)
<1>1. /\ work[c] \in Collection /\ work[Server] \in Collection /\ sync[c].serverUsn \in Nat
      /\ work[c].conf \in 0..1 /\ work[Server].conf \in 0..1
  BY TypeParts, PlacedMeans, StoredMeans, Constants DEF Collection
<1>2. X \in SUBSET Objects /\ Y \in SUBSET Objects
  BY PendingTypes DEF Ids, TheirIds, Objects
<1>3. /\ M \in Collection /\ SameStamps(work[c], M) /\ M.grave = work[c].grave
      /\ \A x \in Objects : M.obj[x] = IF x \in X THEN [work[c].obj[x] EXCEPT !.usn = sync[c].serverUsn]
                                       ELSE work[c].obj[x]
  BY <1>1, MarkObjects DEF Marked
<1> HIDE DEF X, Y, M
<1>4. Mine(c) \in [X -> Version] /\ \A x \in X : Mine(c)[x] = M.obj[x]
  BY <1>2, <1>3, FetchType DEF Mine, X, M
<1>5. Theirs \in [Y -> Version] /\ \A x \in Y : Theirs[x] = work[Server].obj[x]
  BY <1>1, <1>2, FetchType DEF Theirs, Y
<1>6. /\ SA \in Collection /\ SameStamps(work[Server], SA) /\ SA.grave = work[Server].grave
      /\ \A x \in Objects : SA.obj[x] = IF x \in X /\ work[Server].obj[x].mtime <= Mine(c)[x].mtime
                                        THEN Mine(c)[x] ELSE work[Server].obj[x]
  BY <1>1, <1>2, <1>4, MergeObjects
<1>7. /\ CA \in Collection /\ SameStamps(M, CA) /\ CA.grave = M.grave
      /\ \A x \in Objects : CA.obj[x] = IF x \in Y /\ M.obj[x].mtime <= Theirs[x].mtime
                                        THEN Theirs[x] ELSE M.obj[x]
  BY <1>2, <1>3, <1>5, MergeObjects
<1>8. /\ ServerMerged(c) \in Collection /\ SameStamps(SA, ServerMerged(c))
      /\ ServerMerged(c).obj = SA.obj /\ ServerMerged(c).grave = SA.grave
  BY <1>1, <1>6, WithConfKeeps DEF ServerMerged
<1>9. /\ ClientMerged(c) \in Collection /\ SameStamps(CA, ClientMerged(c))
      /\ ClientMerged(c).obj = CA.obj /\ ClientMerged(c).grave = CA.grave
  BY <1>1, <1>7, WithConfKeeps DEF ClientMerged, M
<1> HIDE DEF SA, CA
<1>10. SameStamps(work[Server], ServerMerged(c)) /\ SameStamps(work[c], ClientMerged(c))
  BY <1>3, <1>6, <1>7, <1>8, <1>9 DEF SameStamps
<1>11. ASSUME NEW x \in Objects
       PROVE  LET m == IF x \in X THEN [work[c].obj[x] EXCEPT !.usn = sync[c].serverUsn] ELSE work[c].obj[x]
              IN  /\ ServerMerged(c).obj[x] = IF x \in X /\ work[Server].obj[x].mtime <= m.mtime THEN m
                                              ELSE work[Server].obj[x]
                  /\ ClientMerged(c).obj[x] = IF x \in Y /\ m.mtime <= work[Server].obj[x].mtime
                                              THEN work[Server].obj[x] ELSE m
  <2> DEFINE m == M.obj[x]
  <2>1. m = IF x \in X THEN [work[c].obj[x] EXCEPT !.usn = sync[c].serverUsn] ELSE work[c].obj[x]
    BY <1>3
  <2> HIDE DEF m
  <2>2. ServerMerged(c).obj[x] = IF x \in X /\ work[Server].obj[x].mtime <= m.mtime THEN m
                                 ELSE work[Server].obj[x]
    BY <1>4, <1>6, <1>8 DEF m
  <2>3. ClientMerged(c).obj[x] = IF x \in Y /\ m.mtime <= work[Server].obj[x].mtime
                                 THEN work[Server].obj[x] ELSE m
    BY <1>5, <1>7, <1>9 DEF m
  <2> QED BY <2>1, <2>2, <2>3
<1>12. ServerMerged(c).grave = work[Server].grave /\ ClientMerged(c).grave = work[c].grave
  BY <1>3, <1>6, <1>7, <1>8, <1>9
<1> QED BY <1>8, <1>9, <1>10, <1>11, <1>12 DEF X, Y

LEMMA TypesUnchunked == ASSUME TypeOK, NEW c \in Clients, UnchunkedChanges(c) PROVE TypeOK'
<1> DEFINE p == [sync[c] EXCEPT !.stage = "pull"]
<1>1. Placed /\ sync[c] \in Standing /\ session \in Sessions BY TypeParts, PlacedMeans
<1>2. p \in Standing BY <1>1 DEF Standing, Stages
<1> HIDE DEF p
<1>3. ServerMerged(c) \in Collection /\ ClientMerged(c) \in Collection BY UnchunkedMeans
<1>4. Request(c, "unchunked", ServerMerged(c), session, ClientMerged(c), p) BY UnchunkedShape DEF p
<1> QED BY <1>1, <1>2, <1>3, <1>4, TypesRequest

PullIds == IF session.listed THEN session.ids
           ELSE ObjectsPendingSync(work[Server], Chunked, session.clientUsn)
Received(c, chunk) == ApplyChunk(work[c], Fetch(work[Server], chunk), Unsynced)
AfterPull(c, chunk) ==
    IF Done(chunk)
    THEN [sync[c] EXCEPT !.stage = "push", !.ids = ObjectsPendingSync(Received(c, chunk), Chunked, Unsynced)]
    ELSE sync[c]

LEMMA PullShape ==
    ASSUME NEW c, PullChunk(c)
    PROVE  \E chunk \in ChunkOf(PullIds) :
              Request(c, "pull", work[Server], [session EXCEPT !.listed = TRUE, !.ids = PullIds \ chunk],
                      Received(c, chunk), AfterPull(c, chunk))
BY DEF PullChunk, PullIds, Received, AfterPull

LEMMA PullMeans ==
    ASSUME TypeOK, NEW c \in Clients, NEW chunk \in ChunkOf(PullIds)
    PROVE  /\ PullIds \in SUBSET Objects /\ chunk \in SUBSET PullIds /\ (Done(chunk) => chunk = PullIds)
           /\ Received(c, chunk) \in Collection /\ SameStamps(work[c], Received(c, chunk))
           /\ Received(c, chunk).grave = work[c].grave
           /\ \A x \in Objects :
                Received(c, chunk).obj[x] =
                    IF x \in chunk /\ (\/ ~Held(work[c].obj[x])
                                       \/ work[c].obj[x].usn # Unsynced
                                       \/ work[c].obj[x].mtime < work[Server].obj[x].mtime)
                    THEN work[Server].obj[x] ELSE work[c].obj[x]
<1>1. work[c] \in Collection /\ work[Server] \in Collection /\ session.ids \in SUBSET Objects
  BY TypeParts, PlacedMeans, StoredMeans, Constants
<1>2. PullIds \in SUBSET Objects BY <1>1, PendingTypes DEF PullIds, Objects
<1>3. chunk \in SUBSET PullIds /\ (Done(chunk) => chunk = PullIds) BY <1>2, LastChunk
<1>4. chunk \in SUBSET Objects BY <1>2, <1>3
<1> DEFINE sent == Fetch(work[Server], chunk)
<1>5. sent \in [chunk -> Version] /\ \A x \in chunk : sent[x] = work[Server].obj[x] BY <1>1, <1>4, FetchType
<1> HIDE DEF sent
<1>6. /\ Received(c, chunk) \in Collection /\ SameStamps(work[c], Received(c, chunk))
      /\ Received(c, chunk).grave = work[c].grave
      /\ \A x \in Objects :
           Received(c, chunk).obj[x] =
               IF x \in chunk /\ (\/ ~Held(work[c].obj[x])
                                  \/ ~IsPendingSync(work[c].obj[x].usn, Unsynced)
                                  \/ work[c].obj[x].mtime < sent[x].mtime)
               THEN sent[x] ELSE work[c].obj[x]
  <2> DEFINE C == work[c]
             D == ApplyChunk(C, sent, Unsynced)
  <2>1. Received(c, chunk) = D BY DEF Received, sent
  <2>2. C \in Collection BY <1>1
  <2> HIDE DEF C
  <2>3. /\ D \in Collection /\ SameStamps(C, D) /\ D.grave = C.grave
        /\ \A x \in Objects :
             D.obj[x] = IF x \in chunk /\ (\/ ~Held(C.obj[x])
                                           \/ ~IsPendingSync(C.obj[x].usn, Unsynced)
                                           \/ C.obj[x].mtime < sent[x].mtime)
                        THEN sent[x] ELSE C.obj[x]
    BY <1>4, <1>5, <2>2, MergeChunk
  <2> HIDE DEF D
  <2> QED BY <2>1, <2>3 DEF C
<1>7. \A k : IsPendingSync(k, Unsynced) <=> k = Unsynced BY DEF IsPendingSync
<1> QED BY <1>2, <1>3, <1>5, <1>6, <1>7

LEMMA TypesPull == ASSUME TypeOK, NEW c \in Clients, PullChunk(c) PROVE TypeOK'
<1>1. PICK chunk \in ChunkOf(PullIds) :
              Request(c, "pull", work[Server], [session EXCEPT !.listed = TRUE, !.ids = PullIds \ chunk],
                      Received(c, chunk), AfterPull(c, chunk))
  BY PullShape
<1>2. Placed /\ sync[c] \in Standing /\ session \in Sessions /\ work[Server] \in Collection
  BY TypeParts, PlacedMeans, StoredMeans
<1>3. Received(c, chunk) \in Collection /\ PullIds \ chunk \in SUBSET Objects BY PullMeans
<1>4. [session EXCEPT !.listed = TRUE, !.ids = PullIds \ chunk] \in Sessions
  <2> DEFINE rest == PullIds \ chunk
  <2> HIDE DEF rest
  <2> QED BY <1>2, <1>3 DEF Sessions, rest
<1>5. AfterPull(c, chunk) \in Standing
  <2> DEFINE ids == ObjectsPendingSync(Received(c, chunk), Chunked, Unsynced)
  <2>1. ids \in SUBSET Objects BY PendingTypes DEF Objects
  <2> HIDE DEF ids
  <2> QED BY <1>2, <2>1 DEF AfterPull, Standing, Stages, ids
<1> QED BY <1>1, <1>2, <1>3, <1>4, <1>5, TypesRequest

Sent(c, chunk) == UpdateObjectUsns(work[c], chunk, sync[c].serverUsn)
Accepted(c, chunk) == ApplyChunk(work[Server], Fetch(Sent(c, chunk), chunk), session.clientUsn)
AfterPush(c, chunk) == [sync[c] EXCEPT !.ids = @ \ chunk, !.stage = IF Done(chunk) THEN "sanity" ELSE "push"]

LEMMA PushShape ==
    ASSUME NEW c, PushChunk(c)
    PROVE  \E chunk \in ChunkOf(sync[c].ids) :
              Request(c, "push", Accepted(c, chunk), session, Sent(c, chunk), AfterPush(c, chunk))
BY DEF PushChunk, Accepted, Sent, AfterPush

LEMMA PushMeans ==
    ASSUME TypeOK, NEW c \in Clients, NEW chunk \in ChunkOf(sync[c].ids)
    PROVE  LET S == Accepted(c, chunk)
               C == Sent(c, chunk)
           IN  /\ chunk \in SUBSET sync[c].ids /\ (Done(chunk) => chunk = sync[c].ids)
               /\ S \in Collection /\ SameStamps(work[Server], S) /\ S.grave = work[Server].grave
               /\ C \in Collection /\ SameStamps(work[c], C) /\ C.grave = work[c].grave
               /\ \A x \in Objects :
                    LET m == [work[c].obj[x] EXCEPT !.usn = sync[c].serverUsn]
                    IN  /\ C.obj[x] = IF x \in chunk THEN m ELSE work[c].obj[x]
                        /\ S.obj[x] = IF x \in chunk /\ (\/ ~Held(work[Server].obj[x])
                                                         \/ ~IsPendingSync(work[Server].obj[x].usn, session.clientUsn)
                                                         \/ work[Server].obj[x].mtime < m.mtime)
                                      THEN m ELSE work[Server].obj[x]
<1> DEFINE C == Sent(c, chunk)
           S == Accepted(c, chunk)
           sent == Fetch(C, chunk)
<1>1. /\ work[c] \in Collection /\ work[Server] \in Collection /\ sync[c].ids \in SUBSET Objects
      /\ sync[c].serverUsn \in Nat
  BY TypeParts, PlacedMeans, StoredMeans, Constants
<1>2. chunk \in SUBSET sync[c].ids /\ (Done(chunk) => chunk = sync[c].ids) BY <1>1, LastChunk
<1>3. chunk \in SUBSET Objects BY <1>1, <1>2
<1>4. /\ C \in Collection /\ SameStamps(work[c], C) /\ C.grave = work[c].grave
      /\ \A x \in Objects : C.obj[x] = IF x \in chunk THEN [work[c].obj[x] EXCEPT !.usn = sync[c].serverUsn]
                                       ELSE work[c].obj[x]
  BY <1>1, MarkObjects DEF Sent
<1> HIDE DEF C
<1>5. sent \in [chunk -> Version] /\ \A x \in chunk : sent[x] = C.obj[x] BY <1>3, <1>4, FetchType
<1> HIDE DEF sent
<1>6. /\ S \in Collection /\ SameStamps(work[Server], S) /\ S.grave = work[Server].grave
      /\ \A x \in Objects :
           S.obj[x] = IF x \in chunk /\ (\/ ~Held(work[Server].obj[x])
                                         \/ ~IsPendingSync(work[Server].obj[x].usn, session.clientUsn)
                                         \/ work[Server].obj[x].mtime < sent[x].mtime)
                      THEN sent[x] ELSE work[Server].obj[x]
  BY <1>1, <1>3, <1>5, MergeChunk DEF Accepted, C, sent
<1>7. \A x \in chunk : sent[x] = [work[c].obj[x] EXCEPT !.usn = sync[c].serverUsn] BY <1>3, <1>4, <1>5
<1> HIDE DEF S
<1> QED BY <1>2, <1>4, <1>6, <1>7 DEF C, S

LEMMA TypesPush == ASSUME TypeOK, NEW c \in Clients, PushChunk(c) PROVE TypeOK'
<1>1. PICK chunk \in ChunkOf(sync[c].ids) :
              Request(c, "push", Accepted(c, chunk), session, Sent(c, chunk), AfterPush(c, chunk))
  BY PushShape
<1>2. Placed /\ sync[c] \in Standing /\ session \in Sessions BY TypeParts, PlacedMeans
<1>3. Accepted(c, chunk) \in Collection /\ Sent(c, chunk) \in Collection BY PushMeans
<1>4. AfterPush(c, chunk) \in Standing BY <1>2 DEF AfterPush, Standing, Stages
<1> QED BY <1>1, <1>2, <1>3, <1>4, TypesRequest

Restamped(C, n, m, o) == [C EXCEPT !.usn = n, !.mod = m, !.own = o]

LEMMA NewStamps ==
    ASSUME NEW C \in Collection, NEW n \in Nat, NEW m \in Nat, NEW o \in BOOLEAN
    PROVE  LET D == Restamped(C, n, m, o)
           IN  D \in Collection /\ D.usn = n /\ D.scm = C.scm /\ D.obj = C.obj /\ D.grave = C.grave
BY DEF Collection, Restamped

LEMMA SanityShape ==
    ASSUME NEW c, SanityCheck(c)
    PROVE  \/ SanityFails(c) /\ ForceOneWay(c)
           \/ Request(c, "sanity", work[Server], session, work[c], [sync[c] EXCEPT !.stage = "finish"])
BY DEF SanityCheck

LEMMA TypesSanity == ASSUME TypeOK, NEW c \in Clients, SanityCheck(c) PROVE TypeOK'
<1>1. /\ Stored /\ Placed /\ Counted /\ sync[c] \in Standing /\ session \in Sessions
      /\ work[Server] \in Collection /\ work[c] \in Collection /\ col[c] \in Collection
      /\ col[Server] \in Collection
  BY TypeParts, PlacedMeans, StoredMeans, Constants
<1>2. CASE ForceOneWay(c)
  <2>1. [col[c] EXCEPT !.scm = NewScm] \in Collection BY <1>1, FreshStamps DEF Collection
  <2>2. col' \in [Sites -> Collection] BY <1>1, <1>2, <2>1 DEF ForceOneWay, Stored
  <2>3. col'[c] \in Collection BY <2>2, Constants
  <2>4. Stored' BY <1>1, <1>2, <2>2, <2>3, Constants DEF ForceOneWay, Stored
  <2>5. Placed' BY <1>1, <1>2, RollBackTypes DEF ForceOneWay
  <2>6. Counted' /\ Noted' BY <1>1, <1>2, TypeParts, CountsGrow, NotedKept DEF ForceOneWay, Counted
  <2> QED BY <2>4, <2>5, <2>6, TypePartsLater
<1>3. CASE Request(c, "sanity", work[Server], session, work[c], [sync[c] EXCEPT !.stage = "finish"])
  <2>1. [sync[c] EXCEPT !.stage = "finish"] \in Standing BY <1>1 DEF Standing, Stages
  <2> QED BY <1>1, <1>3, <2>1, TypesRequest
<1> QED BY <1>2, <1>3, SanityShape

LEMMA TypesFinishConflict == ASSUME TypeOK, NEW c \in Clients, FinishConflict(c) PROVE TypeOK'
BY TypeParts, PlacedMeans, StoredMeans, Constants, TypesRequest DEF FinishConflict

\* What a finished sync leaves at the server, before and after it is stamped, and at the device.
Committed == [work[Server] EXCEPT !.usn = @ + 1]
Stamped == [Committed EXCEPT !.mod = NewMod, !.own = FALSE]
Finished(c) == [work[c] EXCEPT !.usn = sync[c].serverUsn + 1, !.mod = NewMod, !.own = FALSE]

\* Where the syncs stand when c's is over, when c has chosen, and when the full sync is done.
Over(c) == Overtaken(c, [sync EXCEPT ![c] = Idle])
Chosen(c) == [sync EXCEPT ![c].full = {}]
Replaced(c) == Overtaken(c, Chosen(c))

\* When c's sync is over, only where another one stands may be marked, and only as late.
LEMMA OvertakenMeans ==
    ASSUME NEW c \in Clients, NEW next \in [Clients -> Standing]
    PROVE  /\ Overtaken(c, next) \in [Clients -> Standing]
           /\ Overtaken(c, next)[c] = next[c]
           /\ \A d \in Clients : /\ Overtaken(c, next)[d].stage = next[d].stage
                                 /\ Overtaken(c, next)[d].full = next[d].full
                                 /\ Overtaken(c, next)[d].clientUsn = next[d].clientUsn
                                 /\ Overtaken(c, next)[d].serverUsn = next[d].serverUsn
                                 /\ d # c /\ next[d].stage = "start" => Overtaken(c, next)[d].late
                                 /\ next[d].stage # "start" => Overtaken(c, next)[d] = next[d]
BY DEF Overtaken, Standing

LEMMA StandingKept ==
    ASSUME Placed, NEW c \in Clients
    PROVE  /\ Over(c) \in [Clients -> Standing]
           /\ Chosen(c) \in [Clients -> Standing]
           /\ Replaced(c) \in [Clients -> Standing]
<1>1. [sync EXCEPT ![c] = Idle] \in [Clients -> Standing] BY Constants DEF Placed
<1>2. [sync EXCEPT ![c].full = {}] \in [Clients -> Standing] BY DEF Placed, Standing
<1> DEFINE idle == [sync EXCEPT ![c] = Idle]
           chosen == [sync EXCEPT ![c].full = {}]
<1> HIDE DEF idle, chosen
<1>3. Overtaken(c, idle) \in [Clients -> Standing] /\ Overtaken(c, chosen) \in [Clients -> Standing]
  BY <1>1, <1>2, OvertakenMeans DEF idle, chosen
<1> QED BY <1>2, <1>3 DEF Over, Chosen, Replaced, idle, chosen

LEMMA FinishShape ==
    ASSUME NEW c, Finish(c)
    PROVE  /\ sync[c].stage = "finish" /\ session.skey = c /\ session' = NoSession
           /\ \/ /\ col' = [col EXCEPT ![Server] = Stamped, ![c] = Finished(c)]
                 /\ NoFault /\ UNCHANGED aborts
              \/ col' = [col EXCEPT ![Server] = Stamped] /\ Fault /\ aborts' = aborts \union {c}
              \/ col' = [col EXCEPT ![Server] = Committed] /\ Fault /\ aborts' = aborts \union {c}
           /\ work' = [work EXCEPT ![Server] = col'[Server], ![c] = col'[c]]
           /\ UNCHANGED edits
BY DEF Finish, DropSession, Committed, Stamped, Finished

LEMMA FinishMarks == ASSUME NEW c, Finish(c) PROVE sync' = Over(c) /\ Recorded(c)
BY DEF Finish, Over

LEMMA RecordedTypes == ASSUME Noted, NEW c \in Clients, Recorded(c) PROVE Noted'
BY DEF Noted, Recorded, Taken, Arrived, Unburied

LEMMA FinishMeans ==
    ASSUME TypeOK, NEW c \in Clients
    PROVE  /\ Committed \in Collection /\ Stamped \in Collection /\ Finished(c) \in Collection
           /\ Committed.usn = work[Server].usn + 1 /\ Stamped.usn = work[Server].usn + 1
           /\ Committed.scm = work[Server].scm /\ Stamped.scm = work[Server].scm
           /\ Committed.obj = work[Server].obj /\ Stamped.obj = work[Server].obj
           /\ Committed.grave = work[Server].grave /\ Stamped.grave = work[Server].grave
           /\ Finished(c).usn = sync[c].serverUsn + 1 /\ Finished(c).scm = work[c].scm
           /\ Finished(c).obj = work[c].obj /\ Finished(c).grave = work[c].grave
<1>1. /\ work[Server] \in Collection /\ work[c] \in Collection /\ sync[c].serverUsn \in Nat
      /\ NewMod \in Nat
  BY TypeParts, PlacedMeans, StoredMeans, FreshStamps, Constants
<1>2. /\ Committed \in Collection /\ Committed.usn = work[Server].usn + 1
      /\ Committed.scm = work[Server].scm /\ Committed.obj = work[Server].obj
      /\ Committed.grave = work[Server].grave
  BY <1>1 DEF Committed, Collection
<1>3. /\ Stamped \in Collection /\ Stamped.usn = Committed.usn /\ Stamped.scm = Committed.scm
      /\ Stamped.obj = Committed.obj /\ Stamped.grave = Committed.grave
  BY <1>1, <1>2 DEF Stamped, Collection
<1>4. /\ Finished(c) \in Collection /\ Finished(c).usn = sync[c].serverUsn + 1
      /\ Finished(c).scm = work[c].scm /\ Finished(c).obj = work[c].obj
      /\ Finished(c).grave = work[c].grave
  <2> DEFINE C == work[c]
             n == sync[c].serverUsn + 1
             D == Restamped(C, n, NewMod, FALSE)
  <2>1. n \in Nat /\ C \in Collection /\ NewMod \in Nat /\ FALSE \in BOOLEAN BY <1>1
  <2>2. Finished(c) = D BY DEF Finished, Restamped
  <2> HIDE DEF C, n
  <2>3. D \in Collection /\ D.usn = n /\ D.scm = C.scm /\ D.obj = C.obj /\ D.grave = C.grave
    BY <2>1, NewStamps
  <2> HIDE DEF D
  <2> QED BY <2>2, <2>3 DEF C, n
<1> QED BY <1>2, <1>3, <1>4

LEMMA TypesFinish == ASSUME TypeOK, NEW c \in Clients, Finish(c) PROVE TypeOK'
<1>1. Stored /\ Placed /\ Counted BY TypeParts
<1>2. Committed \in Collection /\ Stamped \in Collection /\ Finished(c) \in Collection BY FinishMeans
<1>3. col' \in [Sites -> Collection] BY <1>1, <1>2, FinishShape DEF Stored
<1>4. col'[Server] \in Collection /\ col'[c] \in Collection BY <1>3, Constants
<1>5. Stored' BY <1>1, <1>3, <1>4, FinishShape DEF Stored
<1>6. Placed'
  <2>1. session' \in Sessions /\ aborts' \in SUBSET Clients BY <1>1, FinishShape, Constants DEF Placed
  <2>2. sync' \in [Clients -> Standing] BY <1>1, FinishMarks, StandingKept DEF Placed
  <2> QED BY <2>1, <2>2 DEF Placed
<1>7. Counted' /\ Noted'
  BY <1>1, TypeParts, CountsGrow, FinishShape, FinishMarks, RecordedTypes DEF Counted
<1> QED BY <1>5, <1>6, <1>7, TypePartsLater

LEMMA BeforeUploadMeans ==
    ASSUME Stored, NEW c \in Clients
    PROVE  LET D == BeforeUpload(col[c])
           IN  /\ D \in Collection /\ D.usn = col[c].usn + 1 /\ D.scm = NewScm
               /\ \A x \in Objects :
                    /\ D.grave[x] = NoGrave
                    /\ D.obj[x].mtime = col[c].obj[x].mtime
                    /\ D.obj[x].usn = IF x \in Unchunked \/ col[c].obj[x].usn = Unsynced THEN 0
                                      ELSE col[c].obj[x].usn
<1> DEFINE C == col[c]
           obj == [x \in Objects |-> [mtime |-> C.obj[x].mtime,
                      usn |-> IF x \in Unchunked \/ C.obj[x].usn = Unsynced THEN 0 ELSE C.obj[x].usn]]
           grave == [x \in Objects |-> NoGrave]
           D == BeforeUpload(C)
<1>1. C \in Collection /\ NewMod \in Nat /\ NewScm \in Nat BY StoredMeans, FreshStamps, Constants
<1> HIDE DEF C
<1>2. obj \in [Objects -> Version] BY <1>1 DEF Collection, Version, Usns, NoGrave
<1>3. grave \in [Objects -> Usns] BY DEF Usns, NoGrave
<1>4. D = [C EXCEPT !.obj = obj, !.grave = grave, !.usn = @ + 1, !.mod = NewMod, !.own = TRUE, !.scm = NewScm]
  BY DEF BeforeUpload
<1>5. \A x \in Objects : /\ grave[x] = NoGrave
                         /\ obj[x].mtime = C.obj[x].mtime
                         /\ obj[x].usn = IF x \in Unchunked \/ C.obj[x].usn = Unsynced THEN 0 ELSE C.obj[x].usn
  OBVIOUS
<1> HIDE DEF obj, grave, D
<1>6. D \in Collection /\ D.usn = C.usn + 1 /\ D.scm = NewScm /\ D.grave = grave /\ D.obj = obj
  <2> DEFINE D1 == [C EXCEPT !.obj = obj, !.grave = grave]
             D2 == Restamped(D1, C.usn + 1, NewMod, TRUE)
  <2>1. D1 \in Collection /\ D1.grave = grave /\ D1.obj = obj /\ D1.usn = C.usn
    BY <1>1, <1>2, <1>3 DEF Collection
  <2>2. D = [D2 EXCEPT !.scm = NewScm] BY <1>4 DEF Restamped
  <2>3. C.usn + 1 \in Nat BY <1>1 DEF Collection
  <2> HIDE DEF D1
  <2>4. D2 \in Collection /\ D2.usn = C.usn + 1 /\ D2.grave = grave /\ D2.obj = obj
    BY <1>1, <2>1, <2>3, NewStamps
  <2> HIDE DEF D2
  <2> QED BY <1>1, <2>2, <2>4 DEF Collection
<1> QED BY <1>5, <1>6 DEF C, D

LEMMA FullUploadShape ==
    ASSUME NEW c, FullUpload(c)
    PROVE  /\ "upload" \in sync[c].full
           /\ Decide \/ UNCHANGED edits
           /\ \/ /\ col' = [col EXCEPT ![c] = BeforeUpload(col[c]), ![Server] = BeforeUpload(col[c])]
                 /\ session' = NoSession
                 /\ Fault \/ NoFault
              \/ /\ col' = [col EXCEPT ![c] = BeforeUpload(col[c])]
                 /\ Fault /\ UNCHANGED session
           /\ work' = [work EXCEPT ![c] = BeforeUpload(col[c]),
                                   ![Server] = IF session' = NoSession THEN col'[Server] ELSE @]
           /\ UNCHANGED aborts
BY DEF FullUpload, DropSession

LEMMA FullUploadMarks ==
    ASSUME NEW c, FullUpload(c)
    PROVE  \/ /\ session' = NoSession /\ sync' = Replaced(c)
              /\ col' = [col EXCEPT ![c] = BeforeUpload(col[c]), ![Server] = BeforeUpload(col[c])]
              /\ blind' = [d \in Clients |-> {}] /\ doubtful' = {}
           \/ /\ UNCHANGED <<session, history>> /\ sync' = Chosen(c)
              /\ col' = [col EXCEPT ![c] = BeforeUpload(col[c])]
BY DEF FullUpload, DropSession, Chosen, Replaced

LEMMA TypesFullUpload == ASSUME TypeOK, NEW c \in Clients, FullUpload(c) PROVE TypeOK'
<1>1. Stored /\ Placed /\ Counted /\ Noted /\ BeforeUpload(col[c]) \in Collection
  BY TypeParts, BeforeUploadMeans
<1>2. col' \in [Sites -> Collection] BY <1>1, FullUploadShape DEF Stored
<1>3. work[Server] \in Collection /\ col'[Server] \in Collection BY <1>1, <1>2, Constants DEF Stored
<1>4. Stored' BY <1>1, <1>2, <1>3, FullUploadShape DEF Stored
<1>5. Placed' BY <1>1, StandingKept, FullUploadShape, FullUploadMarks, Constants DEF Placed
<1>6. Counted' BY <1>1, CountsGrow, FullUploadShape DEF Counted
<1>7. Noted' BY <1>1, NotedKept, FullUploadMarks DEF Noted
<1> QED BY <1>4, <1>5, <1>6, <1>7, TypePartsLater

Downloaded == [col[Server] EXCEPT !.usn = @ + 1, !.mod = NewMod, !.own = FALSE]

LEMMA DownloadedMeans ==
    ASSUME Stored
    PROVE  /\ Downloaded \in Collection /\ Downloaded.usn = col[Server].usn + 1
           /\ Downloaded.scm = col[Server].scm /\ Downloaded.obj = col[Server].obj
           /\ Downloaded.grave = col[Server].grave
<1>1. col[Server] \in Collection /\ NewMod \in Nat BY StoredMeans, FreshStamps
<1>2. col[Server].usn + 1 \in Nat BY <1>1 DEF Collection
<1>3. Downloaded = Restamped(col[Server], col[Server].usn + 1, NewMod, FALSE)
  BY DEF Downloaded, Restamped
<1> QED BY <1>1, <1>2, <1>3, NewStamps

LEMMA FullDownloadShape ==
    ASSUME NEW c, FullDownload(c)
    PROVE  /\ "download" \in sync[c].full
           /\ sync' = Replaced(c)
           /\ session' = NoSession
           /\ \/ /\ col' = [col EXCEPT ![c] = Downloaded, ![Server] = Downloaded]
                 /\ blind' = [blind EXCEPT ![c] = {}]
              \/ /\ col' = [col EXCEPT ![Server] = Downloaded]
                 /\ UNCHANGED blind
           /\ Fault \/ NoFault
           /\ work' = [work EXCEPT ![c] = col'[c], ![Server] = Downloaded]
           /\ UNCHANGED <<aborts, doubtful, edits>>
BY DEF FullDownload, DropSession, Downloaded, Chosen, Replaced

LEMMA TypesFullDownload == ASSUME TypeOK, NEW c \in Clients, FullDownload(c) PROVE TypeOK'
<1>1. Stored /\ Placed /\ Counted /\ Noted /\ Downloaded \in Collection BY TypeParts, DownloadedMeans
<1>2. col' \in [Sites -> Collection] BY <1>1, FullDownloadShape DEF Stored
<1>3. col'[c] \in Collection BY <1>2, Constants
<1>4. Stored' BY <1>1, <1>2, <1>3, FullDownloadShape DEF Stored
<1>5. Placed' BY <1>1, StandingKept, FullDownloadShape, Constants DEF Placed
<1>6. Counted' BY <1>1, CountsGrow, FullDownloadShape DEF Counted
<1>7. Noted' BY <1>1, FullDownloadShape DEF Noted
<1> QED BY <1>4, <1>5, <1>6, <1>7, TypePartsLater

LEMMA TypesRequestFails == ASSUME TypeOK, NEW c \in Clients, RequestFails(c) PROVE TypeOK'
<1>1. Stored /\ Placed /\ Counted BY TypeParts
<1>2. Stored' BY <1>1, StoredMeans, Constants DEF RequestFails, Stored
<1>3. session' \in Sessions BY <1>1, PlacedMeans, Constants DEF RequestFails, DropSession
<1>4. Placed' BY <1>1, <1>3, RollBackTypes DEF RequestFails
<1>5. Counted' /\ Noted' BY <1>1, TypeParts, CountsGrow, NotedKept DEF RequestFails, Counted
<1> QED BY <1>2, <1>4, <1>5, TypePartsLater

LEMMA TypesDropped ==
    ASSUME TypeOK, (\E c \in Clients : DeliverAbort(c)) \/ ServerRestart
    PROVE  TypeOK'
<1>1. Stored /\ Placed /\ Counted BY TypeParts
<1>2. /\ UNCHANGED <<col, sync, history, edits>> /\ session' = NoSession
      /\ work' = [work EXCEPT ![Server] = col[Server]]
      /\ aborts' \subseteq aborts /\ (Fault \/ NoFault)
  BY DEF DeliverAbort, ServerRestart, DropSession, NoFault
<1>3. Stored' BY <1>1, <1>2, StoredMeans DEF Stored
<1>4. Placed' BY <1>1, <1>2, Constants DEF Placed
<1>5. Counted' /\ Noted' BY <1>1, <1>2, TypeParts, CountsGrow, NotedKept DEF Counted
<1> QED BY <1>3, <1>4, <1>5, TypePartsLater

LEMMA ChangeTypes ==
    ASSUME TypeOK, NEW c \in Clients, NEW changed \in Collection, Change(c, changed),
           doubtful' \in SUBSET Objects
    PROVE  TypeOK'
<1>1. Stored /\ Placed /\ Counted /\ NewMod \in Nat BY TypeParts, FreshStamps
<1> DEFINE D == [changed EXCEPT !.mod = NewMod, !.own = TRUE]
<1>2. D \in Collection BY <1>1 DEF Collection
<1>3. col' = [col EXCEPT ![c] = D] BY DEF Change
<1> HIDE DEF D
<1>4. col' \in [Sites -> Collection] BY <1>1, <1>2, <1>3 DEF Stored
<1>5. Stored' BY <1>1, <1>4, Constants DEF Change, Stored
<1>6. Placed' BY <1>1 DEF Change, Placed
<1>7. Counted' /\ Noted' BY <1>1, TypeParts, CountsGrow DEF Change, Counted, Noted
<1> QED BY <1>5, <1>6, <1>7, TypePartsLater

LEMMA TypesLocal == ASSUME TypeOK, NEW c \in Clients, LocalStep(c) PROVE TypeOK'
<1>1. Stored /\ Noted /\ doubtful \in SUBSET Objects /\ col[c] \in Collection /\ NewScm \in Nat
  BY TypeParts, StoredMeans, FreshStamps, Constants DEF Noted
<1>2. ASSUME NEW x \in Objects, Put(c, x) PROVE TypeOK'
  <2>1. PICK m \in 1..MaxStamp : Change(c, [col[c] EXCEPT !.obj[x] = [mtime |-> m, usn |-> Unsynced]])
    BY <1>2 DEF Put
  <2>2. [mtime |-> m, usn |-> Unsynced] \in Version BY Constants DEF Version, Usns, Unsynced, NoGrave
  <2> DEFINE v == [mtime |-> m, usn |-> Unsynced]
  <2> HIDE DEF v
  <2>3. [col[c] EXCEPT !.obj[x] = v] \in Collection BY <1>1, <2>2 DEF Collection, v
  <2>4. doubtful' \in SUBSET Objects BY <1>1, <1>2 DEF Put
  <2> QED BY <2>1, <2>3, <2>4, ChangeTypes DEF v
<1>3. ASSUME NEW x \in Objects, Remove(c, x) PROVE TypeOK'
  BY <1>1, <1>3, RemoveObjects, ChangeTypes DEF Remove
<1>4. CASE SetConfig(c)
  <2>1. [col[c] EXCEPT !.conf = 1 - @] \in Collection BY <1>1 DEF Collection
  <2> QED BY <1>1, <1>4, <2>1, ChangeTypes DEF SetConfig
<1>5. CASE ModifySchema(c)
  <2>1. [col[c] EXCEPT !.scm = NewScm] \in Collection BY <1>1 DEF Collection
  <2> QED BY <1>1, <1>5, <2>1, ChangeTypes DEF ModifySchema
<1> QED BY <1>2, <1>3, <1>4, <1>5 DEF LocalStep

LEMMA TypesStep == TypeOK /\ [Next]_vars => TypeOK'
<1> SUFFICES ASSUME TypeOK, [Next]_vars PROVE TypeOK' OBVIOUS
<1>1. CASE UNCHANGED vars BY <1>1 DEF vars, history, TypeOK
<1>2. CASE ServerRestart BY <1>2, TypesDropped
<1>3. ASSUME NEW c \in Clients, SyncStep(c) PROVE TypeOK'
  BY <1>3, TypesSyncMeta, TypesStart, TypesSendGraves, TypesUnchunked, TypesPull, TypesPush,
     TypesSanity, TypesFinish, TypesFinishConflict, TypesFullUpload, TypesFullDownload
  DEF SyncStep
<1>4. ASSUME NEW c \in Clients, LocalStep(c) \/ RequestFails(c) \/ DeliverAbort(c) PROVE TypeOK'
  BY <1>4, TypesLocal, TypesRequestFails, TypesDropped
<1> QED BY <1>1, <1>2, <1>3, <1>4 DEF Next

\* The collections, the stages of the syncs and the server's session keep their types
\* through every step, lost answer and abort (sync/collection, http_server/user.rs).
THEOREM TypeCorrect == Spec => []TypeOK
BY TypesInit, TypesStep, PTL DEF Spec

-----------------------------------------------------------------------------
(* Where the clients stand.                                                *)

LEMMA ApieceRow ==
    ASSUME TypeOK, Numbers, NEW c \in Clients, NEW k \in Nat, NEW x \in Objects
    PROVE  Apiece(col[c].obj[x], col[c].grave[x], col[Server].obj[x], col[Server].grave[x],
                  col[c].usn, k, col[Server].usn)
<1>1. col[c] \in Collection /\ col[Server] \in Collection BY TypeParts, StoredMeans, Constants
<1>2. /\ col[c].obj[x] \in Row /\ col[Server].obj[x] \in Row
      /\ col[c].grave[x] \in Int /\ col[Server].grave[x] \in Int
      /\ col[c].grave[x] >= NoGrave /\ col[Server].grave[x] >= NoGrave
      /\ col[c].usn \in Nat /\ col[Server].usn \in Nat
  BY <1>1, Constants DEF Collection, Version, Usns, Row, NoGrave
<1>3. /\ col[c].obj[x].usn >= Unsynced /\ col[Server].obj[x].usn >= 0
      /\ col[Server].grave[x] # Unsynced
  BY Constants DEF Numbers
<1> QED BY <1>2, <1>3 DEF Apiece

LEMMA BeforeRow ==
    ASSUME TypeOK, RowsInv, NEW c \in Clients, NEW k \in Nat, NEW x \in Objects, Sound(c, x),
           col[c].usn <= k, k <= col[Server].usn
    PROVE  Before(x \in blind[c], x \in Unchunked, col[c].obj[x], col[c].grave[x],
                  col[Server].obj[x], col[Server].grave[x], col[c].usn, k, col[Server].usn)
<1>1. Apiece(col[c].obj[x], col[c].grave[x], col[Server].obj[x], col[Server].grave[x],
             col[c].usn, k, col[Server].usn)
  BY ApieceRow DEF RowsInv
<1>2. Held(col[Server].obj[x]) => col[Server].grave[x] = NoGrave BY DEF RowsInv, ServerKept, Sound
<1>3. RowsLinked(x \in blind[c], x \in Unchunked, col[c].obj[x], col[c].grave[x],
                 col[Server].obj[x], col[Server].grave[x], col[c].usn)
  BY DEF RowsInv, ClientsLinked, Sound
<1>4. (x \in blind[c]) \in BOOLEAN /\ (x \in Unchunked) \in BOOLEAN OBVIOUS
<1> QED BY <1>1, <1>2, <1>3, <1>4 DEF Before

\* A step of somebody else: the session stays as it is, or it is not with this client.
Left(d) ==
    /\ col'[d] = col[d] /\ work'[d] = work[d]
    /\ sync'[d].stage = sync[d].stage /\ sync'[d].full = sync[d].full
    /\ sync[d].full # {} => ~Linked(d)'
    /\ \/ /\ session' = session /\ work'[Server] = work[Server] /\ col'[Server] = col[Server]
          /\ sync'[d] = sync[d] /\ blind'[d] = blind[d] /\ doubtful \subseteq doubtful'
       \/ /\ session'.skey # d
          /\ sync[d].stage = "start" => Numbered(d)'

LEMMA NumberedKept ==
    ASSUME NEW d \in Clients, Numbered(d), col'[d] = col[d], sync'[d] = sync[d],
           col'[Server] = col[Server]
    PROVE  Numbered(d)'
BY DEF Numbered, Linked

LEMMA Bystander ==
    ASSUME NEW d \in Clients, ClientStands(d), Left(d)
    PROVE  ClientStands(d)'
<1>1. CASE /\ session' = session /\ work'[Server] = work[Server] /\ col'[Server] = col[Server]
           /\ sync'[d] = sync[d] /\ blind'[d] = blind[d] /\ doubtful \subseteq doubtful'
  <2>1. /\ Linked(d)' = Linked(d) /\ (Numbered(d) => Numbered(d)')
        /\ InSession(d)' = InSession(d) /\ Syncing(d)' = Syncing(d)
    BY <1>1, NumberedKept DEF Left, Linked, InSession, Syncing
  <2>2. ASSUME NEW x \in Objects, AtStage(d, x) PROVE AtStage(d, x)'
    <3>1. Sound(d, x)' => Sound(d, x) BY <1>1, <2>1 DEF Sound
    <3>2. Staged(d, x)' = Staged(d, x) BY <1>1 DEF Left, Staged
    <3> QED BY <1>1, <2>2, <3>1, <3>2 DEF Left, AtStage
  <2>3. Opened(d) => Opened(d)' BY <1>1, <2>1, <2>2 DEF Left, Opened
  <2> QED BY <1>1, <2>1, <2>3 DEF Left, ClientStands
<1>2. CASE session'.skey # d /\ (sync[d].stage = "start" => Numbered(d)')
  BY <1>2 DEF Left, ClientStands, InSession, Syncing
<1> QED BY <1>1, <1>2 DEF Left

LEMMA Parked ==
    ASSUME NEW c \in Clients, sync'[c].stage = "idle", sync'[c].full = {}, work'[c] = col'[c]
    PROVE  ClientStands(c)'
BY DEF ClientStands, InSession, Syncing

\* The stages that Request serves: what the step means to the client and to all others.
LEMMA RequestStands ==
    ASSUME TypeOK, Stands, NEW c \in Clients, NEW stage, NEW sw, NEW ns, NEW cw, NEW p,
           Request(c, stage, sw, ns, cw, p), stage # "idle",
           (session.skey = c) => ns.skey = c,
           (/\ sync[c].stage = stage /\ InSession(c) /\ UNCHANGED <<col, history>>
            /\ work'[Server] = sw /\ work'[c] = cw /\ session' = ns /\ sync'[c] = p)
              => ClientStands(c)'
    PROVE  Stands'
<1> USE Constants
<1>1. /\ UNCHANGED <<col, blind, doubtful>> /\ sync[c].stage = stage /\ Syncing(c)
      /\ work \in [Sites -> Collection] /\ sync \in [Clients -> Standing]
  BY TypeParts DEF Request, Stored, Placed, Syncing, history
<1>2. ASSUME NEW d \in Clients, d # c PROVE col'[d] = col[d] /\ work'[d] = work[d] /\ sync'[d] = sync[d]
  BY <1>1, <1>2 DEF Request, RollBack
<1>3. CASE session.skey = c
  <2>1. session'.skey = c BY <1>3 DEF Request
  <2>2. ASSUME NEW d \in Clients, d # c PROVE ClientStands(d)'
    <3>1. ClientStands(d) BY DEF Stands
    <3>2. sync[d].stage = "start" => Numbered(d)'
      BY <1>1, <1>2, <2>2, <3>1, NumberedKept DEF ClientStands
    <3>3. Left(d) BY <1>1, <1>2, <2>1, <2>2, <3>1, <3>2 DEF Left, ClientStands, Linked
    <3> QED BY <3>1, <3>3, Bystander
  <2>3. ClientStands(c)'
    <3>1. CASE /\ work' = [work EXCEPT ![Server] = sw, ![c] = cw]
               /\ session' = ns /\ sync' = [sync EXCEPT ![c] = p]
      BY <1>1, <1>3, <3>1 DEF InSession, history
    <3>2. CASE work' = [work EXCEPT ![Server] = sw, ![c] = col[c]] /\ RollBack(c)
      BY <1>1, <3>2, Parked DEF RollBack
    <3> QED BY <1>3, <3>1, <3>2 DEF Request
  <2> QED BY <2>1, <2>2, <2>3 DEF Stands, NobodyServed
<1>4. CASE session.skey # c
  <2>1. work' = [work EXCEPT ![c] = col[c]] /\ RollBack(c) /\ UNCHANGED session BY <1>4 DEF Request
  <2>2. ClientStands(c)' BY <1>1, <2>1, Parked DEF RollBack
  <2>3. ASSUME NEW d \in Clients, d # c PROVE ClientStands(d)'
    <3>1. ClientStands(d) BY DEF Stands
    <3>2. Left(d) BY <1>1, <1>2, <2>1, <2>3, <3>1 DEF Left, ClientStands, Linked
    <3> QED BY <3>1, <3>2, Bystander
  <2> QED BY <1>1, <2>1, <2>2, <2>3 DEF Stands, NobodyServed
<1> QED BY <1>3, <1>4

LEMMA StandsInit == Init => Stands
<1> SUFFICES ASSUME Init PROVE Stands OBVIOUS
<1>1. \A c \in Clients : sync[c].stage = "idle" /\ sync[c].full = {} /\ work[c] = col[c]
  BY Constants DEF Init
<1>2. \A c \in Clients : ClientStands(c) BY <1>1 DEF ClientStands, Syncing, InSession
<1> QED BY <1>2 DEF Stands, NobodyServed, Init

LEMMA StandsSyncMeta == ASSUME TypeOK, Stands, RowsInv, NEW c \in Clients, SyncMeta(c) PROVE Stands'
<1> USE Constants
<1>1. /\ work \in [Sites -> Collection] /\ sync \in [Clients -> Standing] /\ UNCHANGED col
      /\ session'.skey = None /\ work' = [work EXCEPT ![Server] = col[Server]]
      /\ ~Syncing(c) /\ sync[c].full = {} /\ work[c] = col[c]
  BY TypeParts DEF Stored, Placed, SyncMeta, DropSession, Stands, ClientStands
<1>2. \A d \in Clients : d # c => sync'[d] = sync[d] BY <1>1 DEF SyncMeta
<1>3. ASSUME NEW d \in Clients, d # c PROVE ClientStands(d)'
  <2>1. ClientStands(d) BY DEF Stands
  <2>2. sync[d].stage = "start" => Numbered(d)'
    BY <1>1, <1>2, <1>3, <2>1, NumberedKept DEF ClientStands
  <2>3. Left(d) BY <1>1, <1>2, <1>3, <2>1, <2>2 DEF Left, ClientStands, Linked
  <2> QED BY <2>1, <2>3, Bystander
<1>4. ClientStands(c)'
  <2>1. CASE UNCHANGED sync BY <1>1, <2>1, Parked DEF Syncing
  <2>2. CASE /\ col[c].scm # col[Server].scm
             /\ sync' = [sync EXCEPT ![c].full = FullSyncChoices(col[c], col[Server])]
    <3>1. sync'[c].stage = "idle" BY <1>1, <2>2 DEF Syncing, Standing
    <3> QED BY <1>1, <2>2, <3>1 DEF ClientStands, Syncing, InSession, Linked
  <2>3. ASSUME NEW newer, col[c].scm = col[Server].scm,
               sync' = [sync EXCEPT ![c] = [Idle EXCEPT !.stage = "start", !.newer = newer,
                                             !.clientUsn = col[c].usn, !.serverUsn = col[Server].usn]]
        PROVE  ClientStands(c)'
    <3>1. /\ sync'[c].stage = "start" /\ sync'[c].full = {} /\ ~sync'[c].late
          /\ sync'[c].clientUsn = col[c].usn /\ sync'[c].serverUsn = col[Server].usn
      BY <1>1, <2>3 DEF Idle
    <3>2. col[c].usn <= col[Server].usn /\ col[Server].usn <= col[Server].usn
      <4>1. col[Server].usn \in Nat BY TypeParts, StoredMeans DEF Collection
      <4> QED BY <2>3, <4>1 DEF RowsInv, ClientsLinked, Linked
    <3>3. Numbered(c)' BY <1>1, <2>3, <3>1, <3>2 DEF Linked, Numbered
    <3> QED BY <1>1, <3>1, <3>3 DEF ClientStands, Syncing, InSession
  <2> QED BY <2>1, <2>2, <2>3 DEF SyncMeta
<1> QED BY <1>1, <1>3, <1>4 DEF Stands, NobodyServed

LEMMA StandsStart ==
    ASSUME TypeOK, Stands, RowsInv, NEW c \in Clients, Start(c)
    PROVE  Stands'
<1> USE Constants
<1> DEFINE s == sync[c]
           remote == PendingGraves(col[Server], s.clientUsn)
           local == PendingGraves(work[c], Unsynced)
           marked == UpdatePendingGraveUsns(work[c], s.serverUsn)
           opened == [NoSession EXCEPT !.skey = c, !.serverUsn = col[Server].usn,
                                       !.clientUsn = s.clientUsn, !.clientIsNewer = s.newer]
           next == IF local = {} THEN [s EXCEPT !.stage = "unchunked"]
                   ELSE [s EXCEPT !.stage = "graves", !.graves = remote, !.ids = local]
           mine == IF local = {} THEN ApplyGraves(marked, remote, s.serverUsn) ELSE marked
<1>1. /\ work \in [Sites -> Collection] /\ sync \in [Clients -> Standing]
      /\ UNCHANGED <<col, blind, doubtful>>
      /\ s \in Standing /\ s.stage = "start" /\ s.full = {} /\ Numbered(c) /\ work[c] = col[c]
      /\ col[c] \in Collection /\ col[Server] \in Collection /\ s.serverUsn \in Nat
  BY TypeParts, StoredMeans, PlacedMeans DEF Stored, Placed, Start, Stands, ClientStands, Syncing, history
<1>2. /\ session' = opened
      /\ \/ /\ work' = [work EXCEPT ![Server] = col[Server], ![c] = mine]
            /\ sync' = [sync EXCEPT ![c] = next]
         \/ work' = [work EXCEPT ![Server] = col[Server], ![c] = col[c]] /\ RollBack(c)
  BY DEF Start
<1>3. /\ opened.skey = c /\ opened.serverUsn = col[Server].usn
      /\ opened.clientUsn = s.clientUsn /\ opened.listed = FALSE
  BY DEF NoSession
<1> HIDE DEF opened, next, mine
<1>4. ASSUME NEW d \in Clients, d # c PROVE ClientStands(d)'
  <2>1. ClientStands(d) /\ col'[d] = col[d] /\ work'[d] = work[d] /\ sync'[d] = sync[d]
    BY <1>1, <1>2, <1>4 DEF Stands, RollBack
  <2>2. sync[d].stage = "start" => Numbered(d)' BY <1>1, <2>1, NumberedKept DEF ClientStands
  <2>3. Left(d) BY <1>1, <1>2, <1>3, <1>4, <2>1, <2>2 DEF Left, ClientStands, Linked
  <2> QED BY <2>1, <2>3, Bystander
<1>5. CASE RollBack(c) /\ work'[c] = col[c]
  <2>1. ClientStands(c)' BY <1>1, <1>5, Parked DEF RollBack
  <2> QED BY <1>1, <1>2, <1>3, <1>4, <2>1 DEF Stands, NobodyServed
<1>6. CASE /\ work' = [work EXCEPT ![Server] = col[Server], ![c] = mine]
           /\ sync' = [sync EXCEPT ![c] = next]
  <2>1. work'[Server] = col[Server] /\ work'[c] = mine /\ sync'[c] = next /\ session' = opened
    BY <1>1, <1>2, <1>6
  <2>2. \A x \in Objects : Apiece(col[c].obj[x], col[c].grave[x], col[Server].obj[x],
                                  col[Server].grave[x], col[c].usn, s.serverUsn, col[Server].usn)
    BY <1>1, ApieceRow DEF RowsInv
  <2>3. \A x \in Objects : /\ x \in remote <=> col[Server].grave[x] >= col[c].usn
                           /\ x \in local <=> col[c].grave[x] = Unsynced
    BY <1>1, <2>2 DEF PendingGraves, IsPendingSync, Numbered, Apiece, Unsynced
  <2>4. /\ marked \in Collection /\ SameStamps(col[c], marked) /\ marked.obj = col[c].obj
        /\ \A x \in Objects : marked.grave[x] = MarkedGrave(col[c].grave[x], s.serverUsn)
    BY <1>1, MarkGraves
  <2>5. remote \in SUBSET Objects /\ local \in SUBSET Objects BY PendingTypes
  <2> HIDE DEF marked, remote, local
  <2>6. /\ next.stage \in {"graves", "unchunked"} /\ next.full = {} /\ next.late = s.late
        /\ next.serverUsn = s.serverUsn /\ next.clientUsn = s.clientUsn
    BY <1>1 DEF next, Standing
  <2>7. SameStamps(col[c], mine)
    <3>1. SameStamps(marked, ApplyGraves(marked, remote, s.serverUsn))
      BY <1>1, <2>4, <2>5, RemoveObjects
    <3> QED BY <2>4, <3>1 DEF mine, SameStamps
  <2>8. ASSUME NEW x \in Objects PROVE AtStage(c, x)'
    <3> DEFINE v == col[c].obj[x]
               g == col[c].grave[x]
               w == col[Server].obj[x]
               h == col[Server].grave[x]
               u == col[c].usn
               k == s.serverUsn
    <3>1. CASE local # {}
      <4>1. next.stage = "graves" /\ next.graves = remote /\ next.ids = local /\ mine = marked
        BY <1>1, <3>1 DEF next, mine, Standing
      <4> QED BY <1>1, <2>1, <2>3, <2>4, <2>6, <4>1 DEF AtStage
    <3>2. CASE local = {}
      <4>1. next.stage = "unchunked" /\ mine = ApplyGraves(marked, remote, s.serverUsn)
        BY <1>1, <3>2 DEF next, mine, Standing
      <4>2. /\ mine.obj[x] = Spared(v, h >= u)
            /\ mine.grave[x] = IF x \in remote /\ marked.grave[x] = NoGrave THEN k ELSE marked.grave[x]
        <5>1. /\ mine.obj[x] = Spared(marked.obj[x], x \in remote)
              /\ mine.grave[x] = IF x \in remote /\ marked.grave[x] = NoGrave THEN k ELSE marked.grave[x]
          BY <1>1, <2>4, <2>5, <4>1, RemoveObjects
        <5> QED BY <2>3, <2>4, <5>1
      <4>3. g # Unsynced BY <2>3, <3>2
      <4>4. k \in Nat /\ g \in Int BY <1>1, <2>2 DEF Apiece
      <4>5. mine.grave[x] = ClientGrave(g, h, u, k)
        BY <2>3, <2>4, <4>2, <4>3, <4>4 DEF ClientGrave, MarkedGrave, NoGrave, Unsynced
      <4>6. h = ServerGrave(g, h, col[Server].usn) /\ Unmerged(v, g, w, h, u, mine.obj[x], w)
        BY <4>2, <4>3 DEF ServerGrave, Spared, Unmerged
      <4>7. Apiece(v, g, w, h, u, k, col[Server].usn) BY <2>2
      <4> HIDE DEF v, g, w, h, u, k
      <4>8. Mixed(v, g, w, k, mine.obj[x], w) BY <4>6, <4>7, UnmergedMeans
      <4> USE DEF v, g, w, h, u, k
      <4>9. Staged(c, x)' BY <1>1, <2>1, <4>1, <4>6 DEF Staged
      <4> QED BY <1>1, <2>1, <2>6, <4>1, <4>5, <4>6, <4>8, <4>9 DEF AtStage
    <3> QED BY <3>1, <3>2
  <2>9. Opened(c)'
    <3>1. Numbered(c)' BY <1>1, <2>1, <2>6 DEF Numbered, Linked
    <3> QED BY <1>1, <1>3, <2>1, <2>6, <2>7, <2>8, <3>1 DEF Opened, Numbered, SameStamps
  <2>10. ClientStands(c)' BY <2>1, <2>6, <2>9 DEF ClientStands, Syncing
  <2> QED BY <1>2, <1>3, <1>4, <2>10 DEF Stands, NobodyServed
<1> QED BY <1>1, <1>2, <1>5, <1>6

LEMMA SessionMeans ==
    ASSUME TypeOK, Stands, RowsInv, NEW c \in Clients, InSession(c)
    PROVE  /\ Opened(c) /\ Numbered(c)
           /\ session.serverUsn = col[Server].usn /\ session.clientUsn = col[c].usn
           /\ sync[c].full = {}
           /\ sync[c].serverUsn \in Nat /\ col[Server].usn \in Nat
           /\ col[c].usn \in Nat /\ col[c].usn # Unsynced
           /\ \A x \in Objects : AtStage(c, x)
           /\ \A x \in Objects : work[c].obj[x] \in Row /\ work[Server].obj[x] \in Row
           /\ \A x \in Objects : Apiece(col[c].obj[x], col[c].grave[x], col[Server].obj[x],
                  col[Server].grave[x], col[c].usn, sync[c].serverUsn, col[Server].usn)
           /\ \A x \in Objects : Sound(c, x) =>
                  Before(x \in blind[c], x \in Unchunked, col[c].obj[x], col[c].grave[x],
                         col[Server].obj[x], col[Server].grave[x], col[c].usn, sync[c].serverUsn,
                         col[Server].usn)
<1>1. Opened(c) /\ Numbered(c) /\ sync[c].full = {}
  BY DEF Stands, ClientStands, Opened, InSession
<1>2. /\ col[c] \in Collection /\ col[Server] \in Collection /\ sync[c].serverUsn \in Nat
      /\ work[c] \in Collection /\ work[Server] \in Collection
  BY TypeParts, StoredMeans, PlacedMeans, Constants
<1>3. \A x \in Objects : work[c].obj[x] \in Row /\ work[Server].obj[x] \in Row
  BY <1>2, Constants DEF Collection, Version, Usns, Row, NoGrave
<1>4. \A x \in Objects : Apiece(col[c].obj[x], col[c].grave[x], col[Server].obj[x],
          col[Server].grave[x], col[c].usn, sync[c].serverUsn, col[Server].usn)
  BY <1>2, ApieceRow DEF RowsInv
<1>5. ASSUME NEW x \in Objects, Sound(c, x)
      PROVE  Before(x \in blind[c], x \in Unchunked, col[c].obj[x], col[c].grave[x],
                    col[Server].obj[x], col[Server].grave[x], col[c].usn, sync[c].serverUsn,
                    col[Server].usn)
  BY <1>1, <1>2, <1>5, BeforeRow DEF Numbered, Sound
<1>6. col[c].usn \in Nat /\ col[Server].usn \in Nat BY <1>2 DEF Collection
<1>7. col[c].usn # Unsynced BY <1>6 DEF Unsynced
<1> QED BY <1>1, <1>2, <1>3, <1>4, <1>5, <1>6, <1>7 DEF Opened

\* What a step within the session has to keep for the client to stand.
LEMMA StillOpened ==
    ASSUME NEW c \in Clients, InSession(c), Opened(c), sync[c].full = {}, UNCHANGED col,
           SameStamps(work[c], work'[c]), SameStamps(work[Server], work'[Server]),
           sync'[c].stage \notin {"idle", "start"}, sync'[c].full = {}, sync'[c].late = sync[c].late,
           sync'[c].serverUsn = sync[c].serverUsn, sync'[c].clientUsn = sync[c].clientUsn,
           session'.serverUsn = session.serverUsn, session'.clientUsn = session.clientUsn,
           sync'[c].stage = "push" => sync'[c].ids \subseteq Chunked,
           session'.listed => session'.ids \subseteq Chunked /\ sync'[c].stage \notin {"graves", "unchunked"},
           \A x \in Objects : AtStage(c, x)'
    PROVE  ClientStands(c)'
<1>1. Numbered(c)' BY DEF Opened, Numbered, Linked
<1>2. Opened(c)' BY <1>1 DEF Opened, SameStamps
<1> QED BY <1>2 DEF ClientStands, Syncing

LEMMA StandsSendGraves ==
    ASSUME TypeOK, Stands, RowsInv, NEW c \in Clients, SendGraves(c)
    PROVE  Stands'
<1> USE Constants
<1> DEFINE s == sync[c]
           sw == ApplyGraves(work[Server], s.ids, session.serverUsn)
           cw == ApplyGraves(work[c], s.graves, s.serverUsn)
           p == [s EXCEPT !.stage = "unchunked", !.graves = {}, !.ids = {}]
<1>1. /\ s \in Standing /\ s.serverUsn \in Nat /\ session.serverUsn \in Nat
      /\ work[c] \in Collection /\ work[Server] \in Collection
  BY TypeParts, PlacedMeans, StoredMeans
<1>2. Request(c, "graves", sw, session, cw, p) BY DEF SendGraves
<1>3. /\ p.stage = "unchunked" /\ p.full = s.full /\ p.serverUsn = s.serverUsn
      /\ p.clientUsn = s.clientUsn /\ p.late = s.late
  BY <1>1 DEF Standing
<1>4. /\ SameStamps(work[Server], sw) /\ SameStamps(work[c], cw)
      /\ \A x \in Objects :
           /\ sw.obj[x] = Spared(work[Server].obj[x], x \in s.ids)
           /\ sw.grave[x] = IF x \in s.ids /\ work[Server].grave[x] = NoGrave THEN session.serverUsn
                            ELSE work[Server].grave[x]
           /\ cw.obj[x] = Spared(work[c].obj[x], x \in s.graves)
           /\ cw.grave[x] = IF x \in s.graves /\ work[c].grave[x] = NoGrave THEN s.serverUsn
                            ELSE work[c].grave[x]
  BY <1>1, RemoveObjects
<1> HIDE DEF sw, cw, p
<1>5. ASSUME s.stage = "graves", InSession(c), UNCHANGED <<col, history>>, work'[Server] = sw,
             work'[c] = cw, session' = session, sync'[c] = p
      PROVE  ClientStands(c)'
  <2>1. /\ Opened(c) /\ s.full = {} /\ session.serverUsn = col[Server].usn
        /\ \A x \in Objects : AtStage(c, x)
    BY <1>5, SessionMeans
  <2>2. ASSUME NEW x \in Objects PROVE AtStage(c, x)'
    <3> DEFINE v == col[c].obj[x]
               g == col[c].grave[x]
               w == col[Server].obj[x]
               h == col[Server].grave[x]
               u == col[c].usn
               n == col[Server].usn
               k == s.serverUsn
    <3>1. /\ work[c].obj[x] = v /\ work[Server].obj[x] = w
          /\ work[c].grave[x] = MarkedGrave(g, k) /\ work[Server].grave[x] = h
          /\ x \in s.graves <=> h >= u
          /\ x \in s.ids <=> g = Unsynced
      BY <1>5, <2>1 DEF AtStage
    <3>2. k \in Nat /\ g \in Int /\ Apiece(v, g, w, h, u, k, n) BY <1>5, SessionMeans DEF Apiece
    <3>3. cw.obj[x] = Spared(v, h >= u) /\ sw.obj[x] = Spared(w, g = Unsynced) BY <1>4, <3>1
    <3>4. /\ cw.grave[x] = IF x \in s.graves /\ MarkedGrave(g, k) = NoGrave THEN k ELSE MarkedGrave(g, k)
          /\ sw.grave[x] = IF x \in s.ids /\ h = NoGrave THEN n ELSE h
      BY <1>4, <2>1, <3>1
    <3> HIDE DEF v, g, w, h, u, n, k
    <3>5. cw.grave[x] = ClientGrave(g, h, u, k)
      BY <3>1, <3>2, <3>4 DEF ClientGrave, MarkedGrave, NoGrave, Unsynced
    <3>6. sw.grave[x] = ServerGrave(g, h, n) BY <3>1, <3>4 DEF ServerGrave
    <3>7. Unmerged(v, g, w, h, u, cw.obj[x], sw.obj[x]) BY <3>3 DEF Unmerged
    <3>8. Mixed(v, g, w, k, cw.obj[x], sw.obj[x]) BY <3>2, <3>7, UnmergedMeans
    <3> USE DEF v, g, w, h, u, n, k
    <3>9. Staged(c, x)' BY <1>3, <1>5, <3>7 DEF Staged
    <3> QED BY <1>3, <1>5, <3>5, <3>6, <3>8, <3>9 DEF AtStage
  <2>3. ~session.listed BY <1>5, <2>1 DEF Opened
  <2> QED BY <1>3, <1>4, <1>5, <2>1, <2>2, <2>3, StillOpened
<1> QED BY <1>2, <1>5, RequestStands

LEMMA StandsUnchunked ==
    ASSUME TypeOK, Stands, RowsInv, NEW c \in Clients, UnchunkedChanges(c)
    PROVE  Stands'
<1> USE Constants
<1> DEFINE s == sync[c]
           p == [s EXCEPT !.stage = "pull"]
<1>1. s \in Standing BY TypeParts, PlacedMeans
<1>2. Request(c, "unchunked", ServerMerged(c), session, ClientMerged(c), p) BY UnchunkedShape
<1>3. /\ p.stage = "pull" /\ p.full = s.full /\ p.serverUsn = s.serverUsn
      /\ p.clientUsn = s.clientUsn /\ p.late = s.late
  BY <1>1 DEF Standing
<1> HIDE DEF p
<1>4. ASSUME s.stage = "unchunked", InSession(c), UNCHANGED <<col, history>>,
             work'[Server] = ServerMerged(c), work'[c] = ClientMerged(c), session' = session, sync'[c] = p
      PROVE  ClientStands(c)'
  <2>1. /\ Opened(c) /\ s.full = {} /\ session.clientUsn = col[c].usn
        /\ UNCHANGED <<col, blind, doubtful>> /\ \A x \in Objects : AtStage(c, x)
    BY <1>4, SessionMeans DEF history
  <2>2. ASSUME NEW x \in Objects PROVE AtStage(c, x)'
    <3> DEFINE v == col[c].obj[x]
               g == col[c].grave[x]
               w == col[Server].obj[x]
               h == col[Server].grave[x]
               u == col[c].usn
               n == col[Server].usn
               k == s.serverUsn
               a == work[c].obj[x]
               b == work[Server].obj[x]
               bl == x \in blind[c]
               un == x \in Unchunked
               due == x \in Ids(c)
               m == IF due THEN [a EXCEPT !.usn = k] ELSE a
               a2 == ClientMerged(c).obj[x]
               b2 == ServerMerged(c).obj[x]
    <3>1. /\ Mixed(v, g, w, k, a, b)
          /\ Sound(c, x) => Unmerged(v, g, w, h, u, a, b)
          /\ work[c].grave[x] = ClientGrave(g, h, u, k)
          /\ work[Server].grave[x] = ServerGrave(g, h, n)
      BY <1>4, <2>1 DEF AtStage, Staged
    <3>2. /\ a \in Row /\ b \in Row /\ u # Unsynced /\ Apiece(v, g, w, h, u, k, n)
          /\ Sound(c, x) => Before(bl, un, v, g, w, h, u, k, n)
      BY <1>4, SessionMeans
    <3>3. due <=> un /\ Held(a) /\ a.usn = Unsynced
      BY DEF Ids, ObjectsPendingSync, IsPendingSync, Holds, Held
    <3>4. x \in TheirIds <=> un /\ Held(b) /\ b.usn >= u
      BY <2>1, <3>2 DEF TheirIds, ObjectsPendingSync, IsPendingSync, Holds, Held
    <3>5. /\ b2 = IF due /\ b.mtime <= m.mtime THEN m ELSE b
          /\ a2 = IF x \in TheirIds /\ m.mtime <= b.mtime THEN b ELSE m
      <4> HIDE DEF due
      <4> QED BY UnchunkedMeans DEF due
    <3>6. ServerMerged(c).grave = work[Server].grave /\ ClientMerged(c).grave = work[c].grave
      BY UnchunkedMeans
    <3>7. Mixed(v, g, w, k, a2, b2)
      <4>1. due \in BOOLEAN /\ (due => Held(a) /\ a.usn = Unsynced) BY <3>3
      <4>2. a2 \in {b, m} /\ (b2 = b \/ (due /\ b2 = m)) BY <3>5
      <4>3. m = IF due THEN [a EXCEPT !.usn = k] ELSE a OBVIOUS
      <4> HIDE DEF v, g, w, h, u, n, k, a, b, due, m, a2, b2
      <4> QED BY <3>1, <3>2, <4>1, <4>2, <4>3, MixedMerge
    <3>8. ASSUME Sound(c, x), un
          PROVE  Settled(bl, un, v, g, w, h, u, a2, b2)
      <4>1. un = TRUE BY <3>8
      <4>2. due \in BOOLEAN OBVIOUS
      <4>3. /\ due <=> Held(a) /\ a.usn = Unsynced
            /\ a2 = IF Held(b) /\ b.usn >= u /\ m.mtime <= b.mtime THEN b ELSE m
            /\ b2 = IF due /\ b.mtime <= m.mtime THEN m ELSE b
        BY <3>3, <3>4, <3>5, <3>8
      <4>4. m = IF due THEN [a EXCEPT !.usn = k] ELSE a OBVIOUS
      <4>5. Before(bl, TRUE, v, g, w, h, u, k, n) /\ Unmerged(v, g, w, h, u, a, b)
        BY <3>1, <3>2, <3>8, <4>1
      <4> HIDE DEF v, g, w, h, u, n, k, a, b, due, m, a2, b2, un, bl
      <4> QED BY <4>1, <4>2, <4>3, <4>4, <4>5, MergeRow
    <3>9. ASSUME Sound(c, x), ~un PROVE Unmerged(v, g, w, h, u, a2, b2)
      <4>1. ~due /\ x \notin TheirIds BY <3>3, <3>4, <3>9
      <4> QED BY <3>1, <3>5, <3>9, <4>1
    <3>10. ~session.listed BY <1>4, <2>1 DEF Opened
    <3>11. Sound(c, x) => Staged(c, x)' BY <1>3, <1>4, <2>1, <3>8, <3>9, <3>10 DEF Staged
    <3>12. Sound(c, x)' = Sound(c, x) BY <2>1 DEF Sound, Linked
    <3> QED BY <1>3, <1>4, <2>1, <3>1, <3>6, <3>7, <3>11, <3>12 DEF AtStage
  <2>3. ~session.listed BY <1>4, <2>1 DEF Opened
  <2>4. SameStamps(work[c], work'[c]) /\ SameStamps(work[Server], work'[Server]) BY <1>4, UnchunkedMeans
  <2> QED BY <1>3, <1>4, <2>1, <2>2, <2>3, <2>4, StillOpened
<1> QED BY <1>2, <1>4, RequestStands

LEMMA StandsPull ==
    ASSUME TypeOK, Stands, RowsInv, NEW c \in Clients, PullChunk(c)
    PROVE  Stands'
<1> USE Constants
<1>1. PICK chunk \in ChunkOf(PullIds) :
          Request(c, "pull", work[Server], [session EXCEPT !.listed = TRUE, !.ids = PullIds \ chunk],
                  Received(c, chunk), AfterPull(c, chunk))
  BY PullShape
<1> DEFINE s == sync[c]
           p == AfterPull(c, chunk)
           ns == [session EXCEPT !.listed = TRUE, !.ids = PullIds \ chunk]
           R == Received(c, chunk)
<1>2. s \in Standing /\ session \in Sessions BY TypeParts, PlacedMeans
<1>3. /\ p.full = s.full /\ p.serverUsn = s.serverUsn /\ p.clientUsn = s.clientUsn /\ p.late = s.late
      /\ Done(chunk) => p.stage = "push" /\ p.ids = ObjectsPendingSync(R, Chunked, Unsynced)
      /\ ~Done(chunk) => p = s
  BY <1>2 DEF AfterPull, Standing
<1>4. /\ ns.skey = session.skey /\ ns.serverUsn = session.serverUsn
      /\ ns.clientUsn = session.clientUsn /\ ns.listed = TRUE /\ ns.ids = PullIds \ chunk
  BY <1>2 DEF Sessions
<1>5. /\ PullIds \in SUBSET Objects /\ chunk \in SUBSET PullIds /\ (Done(chunk) => chunk = PullIds)
      /\ SameStamps(work[c], R) /\ R.grave = work[c].grave
      /\ \A x \in Objects : R.obj[x] = IF x \in chunk /\ (\/ ~Held(work[c].obj[x])
                                                          \/ work[c].obj[x].usn # Unsynced
                                                          \/ work[c].obj[x].mtime < work[Server].obj[x].mtime)
                                       THEN work[Server].obj[x] ELSE work[c].obj[x]
  BY PullMeans
<1> HIDE DEF p, ns, R
<1>6. ASSUME s.stage = "pull", InSession(c), UNCHANGED <<col, history>>, work'[Server] = work[Server],
             work'[c] = R, session' = ns, sync'[c] = p
      PROVE  ClientStands(c)'
  <2>1. /\ Opened(c) /\ s.full = {} /\ session.clientUsn = col[c].usn
        /\ UNCHANGED <<col, blind, doubtful>> /\ \A x \in Objects : AtStage(c, x)
    BY <1>6, SessionMeans DEF history
  <2>2. PullIds \subseteq Chunked
    BY <2>1 DEF Opened, PullIds, ObjectsPendingSync
  <2>3. ASSUME NEW x \in Objects PROVE AtStage(c, x)'
    <3> DEFINE v == col[c].obj[x]
               g == col[c].grave[x]
               w == col[Server].obj[x]
               h == col[Server].grave[x]
               u == col[c].usn
               n == col[Server].usn
               k == s.serverUsn
               a == work[c].obj[x]
               b == work[Server].obj[x]
               bl == x \in blind[c]
               un == x \in Unchunked
               a2 == R.obj[x]
    <3>1. /\ work[c].grave[x] = ClientGrave(g, h, u, k)
          /\ work[Server].grave[x] = ServerGrave(g, h, n)
          /\ Mixed(v, g, w, k, a, b)
          /\ Sound(c, x) =>
               /\ un => Settled(bl, un, v, g, w, h, u, a, b)
               /\ (~un /\ ~session.listed) => Unmerged(v, g, w, h, u, a, b)
               /\ (~un /\ session.listed /\ x \in session.ids) =>
                     Unmerged(v, g, w, h, u, a, b) /\ Held(b) /\ b.usn >= u
               /\ (~un /\ session.listed /\ x \notin session.ids) => Pulled(bl, v, g, w, h, u, a, b)
      BY <1>6, <2>1 DEF AtStage, Staged
    <3>2. /\ a \in Row /\ b \in Row /\ u # Unsynced /\ Apiece(v, g, w, h, u, k, n)
          /\ Sound(c, x) => Before(bl, un, v, g, w, h, u, k, n)
      BY <1>6, SessionMeans
    <3>3. ~session.listed => (x \in PullIds <=> x \in Chunked /\ Held(b) /\ b.usn >= u)
      BY <2>1, <3>2 DEF PullIds, ObjectsPendingSync, IsPendingSync, Holds, Held
    <3>4. session.listed => PullIds = session.ids BY DEF PullIds
    <3>5. a2 = IF x \in chunk /\ (\/ ~Held(a) \/ a.usn # Unsynced \/ a.mtime < b.mtime)
               THEN b ELSE a
      BY <1>5
    <3>6. R.grave[x] = ClientGrave(g, h, u, k) BY <1>5, <3>1
    <3>7. x \in chunk => x \in PullIds BY <1>5
    <3>8. Mixed(v, g, w, k, a2, b)
      <4>1. a2 \in {b, a} BY <3>5
      <4> HIDE DEF v, g, w, h, u, n, k, a, b, a2
      <4> QED BY <3>1, <3>2, <4>1, MixedMerge
    <3>9. (p.stage = "push" /\ x \in p.ids) => Held(a2) /\ a2.usn = Unsynced
      BY <1>3, <1>6 DEF ObjectsPendingSync, IsPendingSync, Holds, Held
    <3>10. p.stage \notin {"graves", "finish"} BY <1>3, <1>6
    <3>11. Sound(c, x) => Staged(c, x)'
      <4> SUFFICES ASSUME Sound(c, x) PROVE Staged(c, x)' OBVIOUS
      <4>1. CASE un
        <5>1. x \notin Chunked BY <4>1, ObjectsAssumption
        <5>2. x \notin chunk BY <2>2, <3>7, <5>1
        <5>3. a2 = a BY <3>5, <5>2
        <5> QED BY <1>3, <1>6, <2>1, <3>1, <4>1, <5>3 DEF Staged
      <4>2. CASE ~un
        <5>1. x \in Chunked BY <4>2 DEF Objects
        <5>2. x \in PullIds => Unmerged(v, g, w, h, u, a, b) /\ Held(b) /\ b.usn >= u
          BY <3>1, <3>3, <3>4, <4>2
        <5>3. x \notin PullIds => Pulled(bl, v, g, w, h, u, a2, b)
          <6> SUFFICES ASSUME x \notin PullIds PROVE Pulled(bl, v, g, w, h, u, a2, b) OBVIOUS
          <6>1. a2 = a BY <3>5, <3>7
          <6>2. CASE session.listed BY <3>1, <3>4, <4>2, <6>1, <6>2
          <6>3. CASE ~session.listed
            <7>1. /\ Unmerged(v, g, w, h, u, a, b) /\ ~(Held(b) /\ b.usn >= u)
                  /\ Before(bl, un, v, g, w, h, u, k, n)
              BY <3>1, <3>2, <3>3, <4>2, <5>1, <6>3
            <7> HIDE DEF v, g, w, h, u, n, k, a, b, un, bl, a2
            <7> QED BY <6>1, <7>1, NothingToPull
          <6> QED BY <6>2, <6>3
        <5>4. x \in chunk => Pulled(bl, v, g, w, h, u, a2, b)
          <6> SUFFICES ASSUME x \in chunk PROVE Pulled(bl, v, g, w, h, u, a2, b) OBVIOUS
          <6>1. Unmerged(v, g, w, h, u, a, b) /\ Held(b) /\ b.usn >= u BY <3>7, <5>2
          <6>2. a2 = IF ~Held(a) \/ a.usn # Unsynced \/ a.mtime < b.mtime THEN b ELSE a BY <3>5
          <6>3. Before(bl, un, v, g, w, h, u, k, n) BY <3>2
          <6> HIDE DEF v, g, w, h, u, n, k, a, b, un, bl, a2
          <6> QED BY <6>1, <6>2, <6>3, PullRow
        <5>5. CASE ~Done(chunk)
          <6>1. x \notin chunk => a2 = a BY <3>5
          <6>2. x \in ns.ids <=> x \in PullIds /\ x \notin chunk BY <1>4
          <6>3. x \in ns.ids => Unmerged(v, g, w, h, u, a2, b) /\ Held(b) /\ b.usn >= u
            BY <5>2, <6>1, <6>2
          <6>4. x \notin ns.ids => Pulled(bl, v, g, w, h, u, a2, b) BY <5>3, <5>4, <6>2
          <6> QED BY <1>3, <1>4, <1>6, <2>1, <4>2, <5>5, <6>3, <6>4 DEF Staged
        <5>6. CASE Done(chunk)
          <6>1. Pulled(bl, v, g, w, h, u, a2, b) BY <1>5, <5>3, <5>4, <5>6
          <6>2. x \in p.ids <=> Held(a2) /\ a2.usn = Unsynced
            BY <1>3, <5>1, <5>6 DEF ObjectsPendingSync, IsPendingSync, Holds, Held
          <6>3. x \notin p.ids => Settled(bl, un, v, g, w, h, u, a2, b)
            <7> SUFFICES ASSUME x \notin p.ids PROVE Settled(bl, un, v, g, w, h, u, a2, b) OBVIOUS
            <7>1. un = FALSE /\ Before(bl, un, v, g, w, h, u, k, n) BY <3>2, <4>2
            <7> HIDE DEF v, g, w, h, u, n, k, a, b, un, bl, a2
            <7> QED BY <6>1, <6>2, <7>1, NothingToPush
          <6> QED BY <1>3, <1>6, <2>1, <4>2, <5>6, <6>1, <6>3 DEF Staged
        <5> QED BY <5>5, <5>6
      <4> QED BY <4>1, <4>2
    <3>12. Sound(c, x)' = Sound(c, x) BY <2>1 DEF Sound, Linked
    <3> QED BY <1>3, <1>6, <2>1, <3>1, <3>6, <3>8, <3>9, <3>10, <3>11, <3>12 DEF AtStage
  <2>4. /\ sync'[c].stage = "push" => sync'[c].ids \subseteq Chunked
        /\ session'.listed => session'.ids \subseteq Chunked /\ sync'[c].stage \notin {"graves", "unchunked"}
        /\ sync'[c].stage \notin {"idle", "start"}
    BY <1>3, <1>4, <1>6, <2>2 DEF ObjectsPendingSync
  <2>5. SameStamps(work[Server], work'[Server]) BY <1>6 DEF SameStamps
  <2> QED BY <1>3, <1>4, <1>5, <1>6, <2>1, <2>3, <2>4, <2>5, StillOpened
<1> QED BY <1>1, <1>4, <1>6, RequestStands DEF p, ns, R

LEMMA StandsPush ==
    ASSUME TypeOK, Stands, RowsInv, NEW c \in Clients, PushChunk(c)
    PROVE  Stands'
<1> USE Constants
<1>1. PICK chunk \in ChunkOf(sync[c].ids) :
          Request(c, "push", Accepted(c, chunk), session, Sent(c, chunk), AfterPush(c, chunk))
  BY PushShape
<1> DEFINE s == sync[c]
           p == AfterPush(c, chunk)
           S == Accepted(c, chunk)
           C == Sent(c, chunk)
<1>2. s \in Standing BY TypeParts, PlacedMeans
<1>3. /\ p.full = s.full /\ p.serverUsn = s.serverUsn /\ p.clientUsn = s.clientUsn /\ p.late = s.late
      /\ p.ids = s.ids \ chunk /\ p.stage = IF Done(chunk) THEN "sanity" ELSE "push"
  BY <1>2 DEF AfterPush, Standing
<1>4. /\ chunk \in SUBSET s.ids /\ (Done(chunk) => chunk = s.ids)
      /\ SameStamps(work[Server], S) /\ S.grave = work[Server].grave
      /\ SameStamps(work[c], C) /\ C.grave = work[c].grave
      /\ \A x \in Objects :
           LET m == [work[c].obj[x] EXCEPT !.usn = s.serverUsn]
           IN  /\ C.obj[x] = IF x \in chunk THEN m ELSE work[c].obj[x]
               /\ S.obj[x] = IF x \in chunk /\ (\/ ~Held(work[Server].obj[x])
                                                \/ ~IsPendingSync(work[Server].obj[x].usn, session.clientUsn)
                                                \/ work[Server].obj[x].mtime < m.mtime)
                             THEN m ELSE work[Server].obj[x]
  BY PushMeans
<1> HIDE DEF p, S, C
<1>5. ASSUME s.stage = "push", InSession(c), UNCHANGED <<col, history>>, work'[Server] = S,
             work'[c] = C, session' = session, sync'[c] = p
      PROVE  ClientStands(c)'
  <2>1. /\ Opened(c) /\ s.full = {} /\ session.clientUsn = col[c].usn
        /\ UNCHANGED <<col, blind, doubtful>> /\ \A x \in Objects : AtStage(c, x)
    BY <1>5, SessionMeans DEF history
  <2>2. s.ids \subseteq Chunked BY <1>5, <2>1 DEF Opened
  <2>3. ASSUME NEW x \in Objects PROVE AtStage(c, x)'
    <3> DEFINE v == col[c].obj[x]
               g == col[c].grave[x]
               w == col[Server].obj[x]
               h == col[Server].grave[x]
               u == col[c].usn
               n == col[Server].usn
               k == s.serverUsn
               a == work[c].obj[x]
               b == work[Server].obj[x]
               bl == x \in blind[c]
               un == x \in Unchunked
               due == x \in chunk
               a2 == C.obj[x]
               b2 == S.obj[x]
               m == [a EXCEPT !.usn = k]
    <3>1. /\ work[c].grave[x] = ClientGrave(g, h, u, k)
          /\ work[Server].grave[x] = ServerGrave(g, h, n)
          /\ Mixed(v, g, w, k, a, b)
          /\ x \in s.ids => Held(a) /\ a.usn = Unsynced
          /\ Sound(c, x) =>
               /\ (un \/ x \notin s.ids) => Settled(bl, un, v, g, w, h, u, a, b)
               /\ (~un /\ x \in s.ids) => Pulled(bl, v, g, w, h, u, a, b)
      BY <1>5, <2>1 DEF AtStage, Staged
    <3>2. /\ a \in Row /\ b \in Row /\ u # Unsynced /\ Apiece(v, g, w, h, u, k, n)
          /\ Sound(c, x) => Before(bl, un, v, g, w, h, u, k, n)
      BY <1>5, SessionMeans
    <3>3. /\ a2 = IF due THEN m ELSE a
          /\ b2 = IF due /\ (\/ ~Held(b) \/ ~IsPendingSync(b.usn, u) \/ b.mtime < m.mtime)
                  THEN m ELSE b
      BY <1>4, <2>1
    <3>4. C.grave[x] = ClientGrave(g, h, u, k) /\ S.grave[x] = ServerGrave(g, h, n) BY <1>4, <3>1
    <3>5. ~due => a2 = a /\ b2 = b BY <3>3
    <3>6. due => ~un /\ x \in s.ids /\ Held(a) /\ a.usn = Unsynced
      BY <1>4, <2>2, <3>1, ObjectsAssumption
    <3>7. Mixed(v, g, w, k, a2, b2)
      <4> DEFINE m2 == IF due THEN [a EXCEPT !.usn = k] ELSE a
      <4>1. a2 \in {b, m2} /\ (b2 = b \/ (due /\ b2 = m2)) BY <3>3
      <4>2. due \in BOOLEAN /\ m2 = IF due THEN [a EXCEPT !.usn = k] ELSE a OBVIOUS
      <4> HIDE DEF v, g, w, h, u, n, k, a, b, due, a2, b2, m, m2
      <4> QED BY <3>1, <3>2, <3>6, <4>1, <4>2, MixedMerge
    <3>8. (p.stage = "push" /\ x \in p.ids) => Held(a2) /\ a2.usn = Unsynced
      BY <1>3, <3>1, <3>5
    <3>9. Sound(c, x) => Staged(c, x)'
      <4> SUFFICES ASSUME Sound(c, x) PROVE Staged(c, x)' OBVIOUS
      <4>1. due => Settled(bl, un, v, g, w, h, u, a2, b2)
        <5> SUFFICES ASSUME due PROVE Settled(bl, un, v, g, w, h, u, a2, b2) OBVIOUS
        <5>1. /\ un = FALSE /\ Pulled(bl, v, g, w, h, u, a, b) /\ Held(a) /\ a.usn = Unsynced
              /\ Before(bl, un, v, g, w, h, u, k, n)
          BY <3>1, <3>2, <3>6
        <5>2. IsPendingSync(b.usn, u) <=> b.usn >= u BY <3>2 DEF IsPendingSync
        <5>3. a2 = m /\ b2 = IF ~Held(b) \/ ~(b.usn >= u) \/ b.mtime < m.mtime THEN m ELSE b
          BY <3>3, <5>2
        <5>4. m = [a EXCEPT !.usn = k] OBVIOUS
        <5> HIDE DEF v, g, w, h, u, n, k, a, b, un, bl, a2, b2, m
        <5> QED BY <5>1, <5>3, <5>4, PushRow
      <4>2. CASE ~Done(chunk)
        <5>1. x \in p.ids <=> x \in s.ids /\ x \notin chunk BY <1>3
        <5>2. un => Settled(bl, un, v, g, w, h, u, a2, b2) BY <3>1, <3>5, <3>6
        <5>3. (~un /\ x \in p.ids) => Pulled(bl, v, g, w, h, u, a2, b2) BY <3>1, <3>5, <5>1
        <5>4. (~un /\ x \notin p.ids) => Settled(bl, un, v, g, w, h, u, a2, b2)
          BY <3>1, <3>5, <4>1, <5>1
        <5> QED BY <1>3, <1>5, <2>1, <4>2, <5>2, <5>3, <5>4 DEF Staged
      <4>3. CASE Done(chunk)
        <5>1. Settled(bl, un, v, g, w, h, u, a2, b2) BY <1>4, <3>1, <3>5, <4>1, <4>3
        <5> QED BY <1>3, <1>5, <2>1, <4>3, <5>1 DEF Staged
      <4> QED BY <4>2, <4>3
    <3>10. Sound(c, x)' = Sound(c, x) BY <2>1 DEF Sound, Linked
    <3> QED BY <1>3, <1>5, <2>1, <3>4, <3>7, <3>8, <3>9, <3>10 DEF AtStage
  <2>4. /\ sync'[c].stage = "push" => sync'[c].ids \subseteq Chunked
        /\ session'.listed => session'.ids \subseteq Chunked /\ sync'[c].stage \notin {"graves", "unchunked"}
        /\ sync'[c].stage \notin {"idle", "start"}
    BY <1>3, <1>5, <2>1, <2>2 DEF Opened
  <2> QED BY <1>3, <1>4, <1>5, <2>1, <2>3, <2>4, StillOpened
<1> QED BY <1>1, <1>5, RequestStands DEF p, S, C

LEMMA StandsForced ==
    ASSUME TypeOK, Stands, NEW c \in Clients, session.skey = c, ForceOneWay(c)
    PROVE  Stands'
<1> USE Constants
<1>1. /\ work \in [Sites -> Collection] /\ col \in [Sites -> Collection] /\ sync \in [Clients -> Standing]
      /\ col' = [col EXCEPT ![c].scm = NewScm] /\ session' = session /\ sync' = [sync EXCEPT ![c] = Idle]
      /\ work' = [work EXCEPT ![Server] = col[Server], ![c] = col'[c]]
  BY TypeParts DEF ForceOneWay, Stored, Placed, RollBack
<1>2. ClientStands(c)' BY <1>1, Parked
<1>3. ASSUME NEW d \in Clients, d # c PROVE ClientStands(d)'
  <2>1. ClientStands(d) BY DEF Stands
  <2>2. sync[d].stage = "start" => Numbered(d)' BY <1>1, <1>3, <2>1, NumberedKept DEF ClientStands
  <2>3. Left(d) BY <1>1, <1>3, <2>1, <2>2 DEF Left, ClientStands, Linked
  <2> QED BY <2>1, <2>3, Bystander
<1> QED BY <1>1, <1>2, <1>3 DEF Stands, NobodyServed

\* What the sanity check has looked at is not pending.
LEMMA SaneMeans ==
    ASSUME TypeOK, NEW c \in Clients, SanityOk(c), NEW x \in Objects
    PROVE  ~Due(work[c].obj[x], work[c].grave[x])
BY DEF SanityOk, SanityCheckInfo, ObjectsPendingSync, PendingGraves, IsPendingSync, Holds, Held, Due, Unsynced

LEMMA StandsSanity ==
    ASSUME TypeOK, Stands, RowsInv, NEW c \in Clients, SanityCheck(c)
    PROVE  Stands'
<1> USE Constants
<1>1. CASE SanityFails(c) BY <1>1, StandsForced DEF SanityFails, SanityCheck
<1> DEFINE s == sync[c]
           p == [s EXCEPT !.stage = "finish"]
<1>2. CASE ~SanityFails(c)
  <2>1. s \in Standing BY TypeParts, PlacedMeans
  <2>2. /\ p.stage = "finish" /\ p.full = s.full /\ p.serverUsn = s.serverUsn
        /\ p.clientUsn = s.clientUsn /\ p.late = s.late
    BY <2>1 DEF Standing
  <2>3. Request(c, "sanity", work[Server], session, work[c], p) BY <1>2 DEF SanityCheck
  <2> HIDE DEF p
  <2>4. ASSUME s.stage = "sanity", InSession(c), UNCHANGED <<col, history>>, work'[Server] = work[Server],
               work'[c] = work[c], session' = session, sync'[c] = p
        PROVE  ClientStands(c)'
    <3>1. /\ Opened(c) /\ s.full = {} /\ UNCHANGED <<col, blind, doubtful>>
          /\ \A x \in Objects : AtStage(c, x)
      BY <2>4, SessionMeans DEF history
    <3>2. SanityOk(c) BY <1>2, <2>4 DEF SanityFails, InSession
    <3>3. ASSUME NEW x \in Objects PROVE AtStage(c, x)'
      <4>1. ~Due(work[c].obj[x], work[c].grave[x]) BY <3>2, SaneMeans
      <4>2. Sound(c, x)' = Sound(c, x) BY <3>1 DEF Sound, Linked
      <4>3. Staged(c, x) => Staged(c, x)' BY <2>2, <2>4, <3>1 DEF Staged
      <4> QED BY <2>2, <2>4, <3>1, <4>1, <4>2, <4>3 DEF AtStage
    <3>4. session.listed => session.ids \subseteq Chunked BY <3>1 DEF Opened
    <3>5. SameStamps(work[c], work'[c]) /\ SameStamps(work[Server], work'[Server])
      BY <2>4 DEF SameStamps
    <3> QED BY <2>2, <2>4, <3>1, <3>3, <3>4, <3>5, StillOpened
  <2> QED BY <2>3, <2>4, RequestStands
<1> QED BY <1>1, <1>2

LEMMA StandsFinishConflict ==
    ASSUME TypeOK, Stands, NEW c \in Clients, FinishConflict(c)
    PROVE  Stands'
BY RequestStands DEF FinishConflict, InSession

LEMMA StandsRequestFails == ASSUME TypeOK, Stands, NEW c \in Clients, RequestFails(c) PROVE Stands'
<1> USE Constants
<1>1. /\ work \in [Sites -> Collection] /\ sync \in [Clients -> Standing]
      /\ UNCHANGED <<col, blind, doubtful>> /\ sync' = [sync EXCEPT ![c] = Idle]
      /\ \/ work' = [work EXCEPT ![c] = col[c]] /\ UNCHANGED session
         \/ /\ session.skey = c /\ session' = NoSession
            /\ work' = [work EXCEPT ![c] = col[c], ![Server] = col[Server]]
  BY TypeParts DEF RequestFails, Stored, Placed, RollBack, DropSession, history
<1>2. ClientStands(c)' BY <1>1, Parked
<1>3. ASSUME NEW d \in Clients, d # c PROVE ClientStands(d)'
  <2>1. ClientStands(d) BY DEF Stands
  <2>2. sync[d].stage = "start" => Numbered(d)' BY <1>1, <1>3, <2>1, NumberedKept DEF ClientStands
  <2>3. Left(d) BY <1>1, <1>3, <2>1, <2>2 DEF Left, ClientStands, Linked
  <2> QED BY <2>1, <2>3, Bystander
<1>4. NobodyServed' BY <1>1 DEF Stands, NobodyServed
<1> QED BY <1>2, <1>3, <1>4 DEF Stands

LEMMA StandsDropped ==
    ASSUME TypeOK, Stands, (\E c \in Clients : DeliverAbort(c)) \/ ServerRestart
    PROVE  Stands'
<1> USE Constants
<1>1. /\ work \in [Sites -> Collection] /\ UNCHANGED <<col, sync>> /\ session' = NoSession
      /\ work' = [work EXCEPT ![Server] = col[Server]]
  BY TypeParts DEF Stored, DeliverAbort, ServerRestart, DropSession
<1>2. ASSUME NEW d \in Clients PROVE ClientStands(d)'
  <2>1. ClientStands(d) BY DEF Stands
  <2>2. sync[d].stage = "start" => Numbered(d)' BY <1>1, <2>1, NumberedKept DEF ClientStands
  <2>3. Left(d) BY <1>1, <2>1, <2>2 DEF Left, ClientStands, Linked
  <2> QED BY <2>1, <2>3, Bystander
<1> QED BY <1>1, <1>2 DEF Stands, NobodyServed

\* A client that another one's sync overtakes keeps the numbers of its meta request, late.
LEMMA NumberedLate ==
    ASSUME NEW d \in Clients, Numbered(d), col'[d] = col[d],
           sync'[d].clientUsn = sync[d].clientUsn, sync'[d].serverUsn = sync[d].serverUsn,
           sync'[d].late = TRUE,
           Linked(d)' => Linked(d) /\ col'[Server].usn = col[Server].usn + 1,
           col[Server].usn \in Nat, sync[d].serverUsn \in Nat
    PROVE  Numbered(d)'
BY DEF Numbered

\* Where the others stand after a sync or a full sync of c.
LEMMA OthersAfter ==
    ASSUME Placed, NEW c \in Clients, NEW d \in Clients, d # c
    PROVE  /\ Over(c)[d].stage = sync[d].stage /\ Over(c)[d].full = sync[d].full
           /\ Over(c)[d].clientUsn = sync[d].clientUsn /\ Over(c)[d].serverUsn = sync[d].serverUsn
           /\ sync[d].stage = "start" => Over(c)[d].late = TRUE
           /\ Chosen(c)[d] = sync[d]
           /\ Replaced(c)[d].stage = sync[d].stage /\ Replaced(c)[d].full = sync[d].full
           /\ Replaced(c)[d].clientUsn = sync[d].clientUsn
           /\ Replaced(c)[d].serverUsn = sync[d].serverUsn
           /\ sync[d].stage = "start" => Replaced(c)[d].late = TRUE
<1> USE Constants
<1> DEFINE idle == [sync EXCEPT ![c] = Idle]
           chosen == [sync EXCEPT ![c].full = {}]
<1>1. idle \in [Clients -> Standing] BY DEF Placed
<1>2. chosen \in [Clients -> Standing] BY StandingKept DEF Chosen
<1>3. idle[d] = sync[d] /\ chosen[d] = sync[d] /\ sync[d] \in Standing BY DEF Placed
<1>4. \A p \in Standing : p.late \in BOOLEAN BY DEF Standing
<1> HIDE DEF idle, chosen
<1>5. Overtaken(c, idle) \in [Clients -> Standing] /\ Overtaken(c, chosen) \in [Clients -> Standing]
  BY <1>1, <1>2, OvertakenMeans
<1>6. /\ Overtaken(c, idle)[d].stage = sync[d].stage /\ Overtaken(c, idle)[d].full = sync[d].full
      /\ Overtaken(c, idle)[d].clientUsn = sync[d].clientUsn
      /\ Overtaken(c, idle)[d].serverUsn = sync[d].serverUsn
      /\ sync[d].stage = "start" => Overtaken(c, idle)[d].late
  BY <1>1, <1>3, OvertakenMeans
<1>7. /\ Overtaken(c, chosen)[d].stage = sync[d].stage /\ Overtaken(c, chosen)[d].full = sync[d].full
      /\ Overtaken(c, chosen)[d].clientUsn = sync[d].clientUsn
      /\ Overtaken(c, chosen)[d].serverUsn = sync[d].serverUsn
      /\ sync[d].stage = "start" => Overtaken(c, chosen)[d].late
  BY <1>2, <1>3, OvertakenMeans
<1>8. Overtaken(c, idle)[d].late \in BOOLEAN /\ Overtaken(c, chosen)[d].late \in BOOLEAN
  BY <1>4, <1>5
<1>9. Over(c) = Overtaken(c, idle) /\ Chosen(c) = chosen /\ Replaced(c) = Overtaken(c, chosen)
  BY DEF Over, Chosen, Replaced, idle, chosen
<1> QED BY <1>3, <1>6, <1>7, <1>8, <1>9

LEMMA OwnAfter ==
    ASSUME Placed, NEW c \in Clients
    PROVE  /\ Over(c)[c] = Idle
           /\ Chosen(c)[c].stage = sync[c].stage /\ Chosen(c)[c].full = {}
           /\ Replaced(c)[c].stage = sync[c].stage /\ Replaced(c)[c].full = {}
<1> USE Constants
<1> DEFINE idle == [sync EXCEPT ![c] = Idle]
           chosen == [sync EXCEPT ![c].full = {}]
<1>1. idle \in [Clients -> Standing] BY DEF Placed
<1>2. chosen \in [Clients -> Standing] BY StandingKept DEF Chosen
<1>3. /\ idle[c] = Idle /\ chosen[c].stage = sync[c].stage /\ chosen[c].full = {}
  BY DEF Placed, Standing
<1> HIDE DEF idle, chosen
<1>4. Overtaken(c, idle)[c] = idle[c] /\ Overtaken(c, chosen)[c] = chosen[c]
  BY <1>1, <1>2, OvertakenMeans
<1>5. Over(c) = Overtaken(c, idle) /\ Chosen(c) = chosen /\ Replaced(c) = Overtaken(c, chosen)
  BY DEF Over, Chosen, Replaced, idle, chosen
<1> QED BY <1>3, <1>4, <1>5

LEMMA StandsFinish ==
    ASSUME TypeOK, Stands, RowsInv, NEW c \in Clients, Finish(c)
    PROVE  Stands'
<1> USE Constants
<1>1. /\ work \in [Sites -> Collection] /\ col \in [Sites -> Collection] /\ Placed
      /\ session' = NoSession /\ session.skey = c /\ InSession(c)
      /\ work' = [work EXCEPT ![Server] = col'[Server], ![c] = col'[c]]
      /\ sync' = Over(c)
      /\ \E S \in {Stamped, Committed} :
            \/ col' = [col EXCEPT ![Server] = S, ![c] = Finished(c)]
            \/ col' = [col EXCEPT ![Server] = S]
  BY TypeParts, FinishShape, FinishMarks DEF Stored, InSession, Syncing
<1>2. PICK S \in {Stamped, Committed} :
            \/ col' = [col EXCEPT ![Server] = S, ![c] = Finished(c)]
            \/ col' = [col EXCEPT ![Server] = S]
  BY <1>1
<1>3. S.scm = col[Server].scm /\ S.usn = col[Server].usn + 1 /\ col[Server].usn \in Nat
  BY <1>1, FinishMeans, SessionMeans DEF Opened
<1>4. ClientStands(c)'
  <2>1. sync'[c] = Idle /\ work'[c] = col'[c] BY <1>1, OwnAfter
  <2> QED BY <2>1, Parked
<1>5. ASSUME NEW d \in Clients, d # c PROVE ClientStands(d)'
  <2>1. ClientStands(d) /\ sync[d].serverUsn \in Nat BY TypeParts, PlacedMeans DEF Stands
  <2>2. col'[d] = col[d] /\ col'[Server] = S /\ work'[d] = work[d] BY <1>1, <1>2, <1>5
  <2>3. Linked(d)' <=> Linked(d) BY <1>3, <2>2 DEF Linked
  <2>4. sync[d].stage = "start" => Numbered(d)'
    <3> SUFFICES ASSUME sync[d].stage = "start" PROVE Numbered(d)' OBVIOUS
    <3>1. /\ sync'[d].clientUsn = sync[d].clientUsn /\ sync'[d].serverUsn = sync[d].serverUsn
          /\ sync'[d].late = TRUE
      <4>1. Placed /\ sync' = Over(c) BY <1>1
      <4>2. /\ Over(c)[d].clientUsn = sync[d].clientUsn /\ Over(c)[d].serverUsn = sync[d].serverUsn
            /\ Over(c)[d].late = TRUE
        BY <1>5, <4>1, OthersAfter
      <4> QED BY <4>1, <4>2
    <3>2. Linked(d)' => Linked(d) /\ col'[Server].usn = col[Server].usn + 1 BY <1>3, <2>2, <2>3
    <3>3. Numbered(d) BY <2>1 DEF ClientStands
    <3> QED BY <1>3, <2>1, <2>2, <3>1, <3>2, <3>3, NumberedLate
  <2>5. Left(d) BY <1>1, <1>5, <2>1, <2>2, <2>3, <2>4, OthersAfter DEF Left, ClientStands
  <2> QED BY <2>1, <2>5, Bystander
<1> QED BY <1>1, <1>4, <1>5 DEF Stands, NobodyServed

LEMMA StandsFullUpload ==
    ASSUME TypeOK, Stands, NEW c \in Clients, FullUpload(c)
    PROVE  Stands'
<1> USE Constants
<1> DEFINE mine == BeforeUpload(col[c])
<1>1. /\ work \in [Sites -> Collection] /\ col \in [Sites -> Collection] /\ Placed
      /\ sync[c].full # {} /\ col[Server].usn \in Nat
  BY TypeParts, FullUploadShape, StoredMeans DEF Stored, Collection
<1>2. sync[c].stage = "idle" BY <1>1 DEF Stands, ClientStands, Syncing
<1>3. /\ \/ /\ col' = [col EXCEPT ![c] = mine, ![Server] = mine] /\ session' = NoSession
            /\ sync' = Replaced(c)
         \/ /\ col' = [col EXCEPT ![c] = mine] /\ UNCHANGED <<session, blind, doubtful>>
            /\ sync' = Chosen(c)
      /\ work' = [work EXCEPT ![c] = mine, ![Server] = IF session' = NoSession THEN col'[Server] ELSE @]
  BY FullUploadShape, FullUploadMarks DEF history
<1>4. mine.scm = NewScm /\ \A d \in Clients : col[d].scm # NewScm
  BY TypeParts, BeforeUploadMeans, FreshStamps
<1> HIDE DEF mine
<1>5. ClientStands(c)'
  <2>1. sync'[c].stage = "idle" /\ sync'[c].full = {} BY <1>1, <1>2, <1>3, OwnAfter
  <2>2. work'[c] = col'[c] BY <1>1, <1>3
  <2> QED BY <2>1, <2>2, Parked
<1>6. ASSUME NEW d \in Clients, d # c PROVE ClientStands(d)'
  <2>1. ClientStands(d) /\ sync[d].serverUsn \in Nat BY TypeParts, PlacedMeans DEF Stands
  <2>2. col'[d] = col[d] /\ work'[d] = work[d] BY <1>1, <1>3, <1>6
  <2>3. CASE col'[Server] = mine /\ session' = NoSession /\ sync' = Replaced(c)
    <3>1. ~Linked(d)' BY <1>4, <2>2, <2>3 DEF Linked
    <3>2. sync[d].stage = "start" => Numbered(d)'
      BY <1>1, <1>6, <2>1, <2>2, <2>3, <3>1, OthersAfter, NumberedLate DEF ClientStands
    <3>3. Left(d) BY <1>1, <1>6, <2>1, <2>2, <2>3, <3>1, <3>2, OthersAfter DEF Left
    <3> QED BY <2>1, <3>3, Bystander
  <2>4. CASE col'[Server] = col[Server] /\ UNCHANGED <<session, blind, doubtful>> /\ sync' = Chosen(c)
    <3>1. work'[Server] = work[Server] \/ session.skey # d BY <1>1, <1>3, <2>4
    <3>2. sync'[d] = sync[d] BY <1>1, <1>6, <2>4, OthersAfter
    <3>3. sync[d].stage = "start" => Numbered(d)'
      BY <2>1, <2>2, <2>4, <3>2, NumberedKept DEF ClientStands
    <3>4. Left(d) BY <2>1, <2>2, <2>4, <3>1, <3>2, <3>3 DEF Left, ClientStands, Linked
    <3> QED BY <2>1, <3>4, Bystander
  <2> QED BY <1>1, <1>3, <2>3, <2>4
<1>7. NobodyServed'
  <2>1. CASE session' = NoSession BY <1>1, <1>3, <2>1 DEF NobodyServed
  <2>2. CASE session' # NoSession
    <3>1. UNCHANGED session /\ work'[Server] = work[Server] /\ col'[Server] = col[Server]
      BY <1>1, <1>3, <2>2
    <3> QED BY <3>1 DEF Stands, NobodyServed
  <2> QED BY <2>1, <2>2
<1> QED BY <1>5, <1>6, <1>7 DEF Stands

LEMMA StandsFullDownload ==
    ASSUME TypeOK, Stands, NEW c \in Clients, FullDownload(c)
    PROVE  Stands'
<1> USE Constants
<1>1. /\ work \in [Sites -> Collection] /\ col \in [Sites -> Collection] /\ Placed
      /\ sync' = Replaced(c) /\ sync[c].full # {} /\ session' = NoSession
      /\ \/ col' = [col EXCEPT ![c] = Downloaded, ![Server] = Downloaded]
         \/ col' = [col EXCEPT ![Server] = Downloaded]
      /\ work' = [work EXCEPT ![c] = col'[c], ![Server] = Downloaded]
      /\ Downloaded.scm = col[Server].scm /\ Downloaded.usn = col[Server].usn + 1
      /\ col[Server].usn \in Nat
  BY TypeParts, FullDownloadShape, DownloadedMeans, StoredMeans DEF Stored, Collection
<1>2. sync[c].stage = "idle" BY <1>1 DEF Stands, ClientStands, Syncing
<1>3. ClientStands(c)'
  <2>1. sync'[c].stage = "idle" /\ sync'[c].full = {} /\ work'[c] = col'[c] BY <1>1, <1>2, OwnAfter
  <2> QED BY <2>1, Parked
<1>4. ASSUME NEW d \in Clients, d # c PROVE ClientStands(d)'
  <2>1. ClientStands(d) /\ sync[d].serverUsn \in Nat BY TypeParts, PlacedMeans DEF Stands
  <2>2. col'[d] = col[d] /\ col'[Server] = Downloaded /\ work'[d] = work[d] BY <1>1, <1>4
  <2>3. Linked(d)' <=> Linked(d) BY <1>1, <2>2 DEF Linked
  <2>4. sync[d].stage = "start" => Numbered(d)'
    BY <1>1, <1>4, <2>1, <2>2, <2>3, OthersAfter, NumberedLate DEF ClientStands
  <2>5. Left(d) BY <1>1, <1>4, <2>1, <2>2, <2>3, <2>4, OthersAfter DEF Left, ClientStands
  <2> QED BY <2>1, <2>5, Bystander
<1> QED BY <1>1, <1>3, <1>4 DEF Stands, NobodyServed

LEMMA StandsChange ==
    ASSUME TypeOK, Stands, NEW c \in Clients, NEW changed, Change(c, changed), doubtful \subseteq doubtful'
    PROVE  Stands'
<1> USE Constants
<1> DEFINE D == [changed EXCEPT !.mod = NewMod, !.own = TRUE]
<1>1. /\ work \in [Sites -> Collection] /\ col \in [Sites -> Collection] /\ UNCHANGED <<sync, session, blind>>
      /\ sync[c].stage = "idle" /\ sync[c].full = {}
      /\ col' = [col EXCEPT ![c] = D] /\ work' = [work EXCEPT ![c] = col'[c]]
  BY TypeParts DEF Change, Stored, Syncing
<1> HIDE DEF D
<1>2. ClientStands(c)' BY <1>1, Parked
<1>3. ASSUME NEW d \in Clients, d # c PROVE ClientStands(d)'
  <2>1. ClientStands(d) BY DEF Stands
  <2>2. Left(d) BY <1>1, <1>3, <2>1 DEF Left, ClientStands, Linked
  <2> QED BY <2>1, <2>2, Bystander
<1> QED BY <1>1, <1>2, <1>3 DEF Stands, NobodyServed

LEMMA StandsLocal == ASSUME TypeOK, Stands, NEW c \in Clients, LocalStep(c) PROVE Stands'
<1>1. ASSUME NEW x \in Objects, Put(c, x) PROVE Stands'
  <2>1. doubtful \subseteq doubtful' BY <1>1 DEF Put
  <2> QED BY <1>1, <2>1, StandsChange DEF Put
<1>2. ASSUME NEW x \in Objects, Remove(c, x) PROVE Stands' BY <1>2, StandsChange DEF Remove
<1>3. CASE SetConfig(c) \/ ModifySchema(c) BY <1>3, StandsChange DEF SetConfig, ModifySchema
<1> QED BY <1>1, <1>2, <1>3 DEF LocalStep

LEMMA StandsStep == TypeOK /\ Stands /\ RowsInv /\ [Next]_vars => Stands'
<1> SUFFICES ASSUME TypeOK, Stands, RowsInv, [Next]_vars PROVE Stands' OBVIOUS
<1>1. CASE UNCHANGED vars
  <2>1. \A d \in Clients : Left(d) BY <1>1 DEF vars, history, Left, Stands, ClientStands, Linked
  <2> QED BY <1>1, <2>1, Bystander DEF vars, Stands, NobodyServed
<1>2. CASE ServerRestart BY <1>2, StandsDropped
<1>3. ASSUME NEW c \in Clients, SyncStep(c) PROVE Stands'
  BY <1>3, StandsSyncMeta, StandsStart, StandsSendGraves, StandsUnchunked, StandsPull, StandsPush,
     StandsSanity, StandsFinish, StandsFinishConflict, StandsFullUpload, StandsFullDownload
  DEF SyncStep
<1>4. ASSUME NEW c \in Clients, LocalStep(c) \/ RequestFails(c) \/ DeliverAbort(c) PROVE Stands'
  BY <1>4, StandsLocal, StandsRequestFails, StandsDropped
<1> QED BY <1>1, <1>2, <1>3, <1>4 DEF Next

-----------------------------------------------------------------------------
(* The rows of the committed collections.                                  *)

\* A local change of one object.
EditedRow(un, v, g, v2, g2) ==
    \/ /\ v2.mtime \in 1..MaxStamp /\ v2.usn = Unsynced /\ g2 = g
       /\ un => v2.mtime > v.mtime
    \/ /\ Held(v) /\ v2 = Absent /\ g2 = IF g = NoGrave THEN Unsynced ELSE g

SameRow(C, D, x) == D.obj[x] = C.obj[x] /\ D.grave[x] = C.grave[x]

LEMMA EditedRowLinked ==
    ASSUME NEW bl, NEW un, NEW v, NEW g, NEW w, NEW h, NEW u, NEW k, NEW n, NEW v2, NEW g2,
           Before(bl, un, v, g, w, h, u, k, n), EditedRow(un, v, g, v2, g2), Held(v2) => g2 = NoGrave
    PROVE  RowsLinked(bl, un, v2, g2, w, h, u) /\ Due(v2, g2)
BY Constants DEF EditedRow, Before, Apiece, RowsLinked, Held, Due, Recent, Row, Absent, NoGrave, Unsynced

LEMMA ChangeMeans ==
    ASSUME TypeOK, NEW c \in Clients, NEW changed \in Collection, Change(c, changed)
    PROVE  \E D \in Collection :
              /\ D.usn = changed.usn /\ D.scm = changed.scm /\ D.obj = changed.obj /\ D.grave = changed.grave
              /\ col' = [col EXCEPT ![c] = D] /\ UNCHANGED sync
              /\ ~Syncing(c) /\ sync[c].full = {}
<1> DEFINE D == [changed EXCEPT !.mod = NewMod, !.own = TRUE]
<1>1. NewMod \in Nat BY TypeParts, FreshStamps
<1>2. /\ D \in Collection /\ D.usn = changed.usn /\ D.scm = changed.scm
      /\ D.obj = changed.obj /\ D.grave = changed.grave
  BY <1>1 DEF Collection
<1>3. col' = [col EXCEPT ![c] = D] /\ UNCHANGED sync /\ ~Syncing(c) /\ sync[c].full = {}
  BY DEF Change
<1> HIDE DEF D
<1> QED BY <1>2, <1>3

\* A local step changes one object, the schema, or nothing that a sync compares.
LEMMA LocalMeans ==
    ASSUME TypeOK, NEW c \in Clients, LocalStep(c)
    PROVE  \E D \in Collection :
              /\ col' = [col EXCEPT ![c] = D] /\ UNCHANGED sync /\ ~Syncing(c) /\ sync[c].full = {}
              /\ D.usn = col[c].usn /\ UNCHANGED blind
              /\ \/ D.scm = NewScm /\ UNCHANGED doubtful /\ \A x \in Objects : SameRow(col[c], D, x)
                 \/ D.scm = col[c].scm /\ UNCHANGED doubtful /\ \A x \in Objects : SameRow(col[c], D, x)
                 \/ /\ D.scm = col[c].scm
                    /\ \E x \in Objects :
                         /\ doubtful' \in {doubtful, doubtful \union {x}}
                         /\ EditedRow(x \in Unchunked, col[c].obj[x], col[c].grave[x], D.obj[x], D.grave[x])
                         /\ Held(D.obj[x]) => D.grave[x] = NoGrave \/ x \in doubtful'
                         /\ \A y \in Objects \ {x} : SameRow(col[c], D, y)
<1> DEFINE C == col[c]
<1>1. C \in Collection /\ NewScm \in Nat BY TypeParts, StoredMeans, FreshStamps, Constants
<1>2. ASSUME NEW x \in Objects, Put(c, x)
      PROVE  \E D \in Collection :
              /\ col' = [col EXCEPT ![c] = D] /\ UNCHANGED sync /\ ~Syncing(c) /\ sync[c].full = {}
              /\ D.usn = C.usn /\ D.scm = C.scm /\ UNCHANGED blind
              /\ doubtful' \in {doubtful, doubtful \union {x}}
              /\ EditedRow(x \in Unchunked, C.obj[x], C.grave[x], D.obj[x], D.grave[x])
              /\ Held(D.obj[x]) => D.grave[x] = NoGrave \/ x \in doubtful'
              /\ \A y \in Objects \ {x} : SameRow(C, D, y)
  <2>1. PICK m \in 1..MaxStamp :
            /\ x \in Unchunked => m > C.obj[x].mtime
            /\ Change(c, [C EXCEPT !.obj[x] = [mtime |-> m, usn |-> Unsynced]])
    BY <1>2 DEF Put
  <2> DEFINE v2 == [mtime |-> m, usn |-> Unsynced]
             E == [C EXCEPT !.obj[x] = v2]
  <2>2. v2 \in Version /\ v2.mtime = m /\ v2.usn = Unsynced
    BY Constants DEF Version, Usns, Unsynced, NoGrave
  <2>3. /\ UNCHANGED blind /\ doubtful' \in {doubtful, doubtful \union {x}}
        /\ C.grave[x] = NoGrave \/ x \in doubtful'
    BY <1>2, <2>1 DEF Put, Change
  <2>4. Change(c, E) BY <2>1
  <2> HIDE DEF C, v2
  <2>5. /\ E \in Collection /\ E.usn = C.usn /\ E.scm = C.scm /\ E.grave = C.grave
        /\ E.obj[x] = v2 /\ \A y \in Objects \ {x} : E.obj[y] = C.obj[y]
    BY <1>1, <2>2 DEF Collection
  <2> HIDE DEF E
  <2>6. PICK D \in Collection :
              /\ D.usn = E.usn /\ D.scm = E.scm /\ D.obj = E.obj /\ D.grave = E.grave
              /\ col' = [col EXCEPT ![c] = D] /\ UNCHANGED sync
              /\ ~Syncing(c) /\ sync[c].full = {}
    BY <2>4, <2>5, ChangeMeans
  <2>7. EditedRow(x \in Unchunked, C.obj[x], C.grave[x], D.obj[x], D.grave[x])
    BY <2>1, <2>2, <2>5, <2>6 DEF EditedRow
  <2> QED BY <2>3, <2>5, <2>6, <2>7 DEF SameRow
<1>3. ASSUME NEW x \in Objects, Remove(c, x)
      PROVE  \E D \in Collection :
              /\ col' = [col EXCEPT ![c] = D] /\ UNCHANGED sync /\ ~Syncing(c) /\ sync[c].full = {}
              /\ D.usn = C.usn /\ D.scm = C.scm /\ UNCHANGED blind
              /\ doubtful' \in {doubtful, doubtful \union {x}}
              /\ EditedRow(x \in Unchunked, C.obj[x], C.grave[x], D.obj[x], D.grave[x])
              /\ Held(D.obj[x]) => D.grave[x] = NoGrave \/ x \in doubtful'
              /\ \A y \in Objects \ {x} : SameRow(C, D, y)
  <2> DEFINE E == ApplyGraves(C, {x}, Unsynced)
  <2>1. Change(c, E) /\ Held(C.obj[x]) BY <1>3 DEF Remove, Holds, Held
  <2> HIDE DEF C
  <2>2. /\ E \in Collection /\ SameStamps(C, E)
        /\ \A y \in Objects : /\ E.obj[y] = Spared(C.obj[y], y \in {x})
                              /\ E.grave[y] = IF y \in {x} /\ C.grave[y] = NoGrave THEN Unsynced ELSE C.grave[y]
    <3> DEFINE X == {x}
    <3>1. Unsynced \in Nat \union {Unsynced} OBVIOUS
    <3> HIDE DEF X
    <3>2. /\ E \in Collection /\ SameStamps(C, E)
          /\ \A y \in Objects : /\ E.obj[y] = Spared(C.obj[y], y \in X)
                                /\ E.grave[y] = IF y \in X /\ C.grave[y] = NoGrave THEN Unsynced ELSE C.grave[y]
      BY <1>1, <3>1, RemoveObjects DEF X
    <3> QED BY <3>2 DEF X
  <2> HIDE DEF E
  <2>3. PICK D \in Collection :
              /\ D.usn = E.usn /\ D.scm = E.scm /\ D.obj = E.obj /\ D.grave = E.grave
              /\ col' = [col EXCEPT ![c] = D] /\ UNCHANGED sync
              /\ ~Syncing(c) /\ sync[c].full = {}
    BY <2>1, <2>2, ChangeMeans
  <2>4. EditedRow(x \in Unchunked, C.obj[x], C.grave[x], D.obj[x], D.grave[x])
    BY <2>1, <2>2, <2>3 DEF EditedRow, Spared
  <2>5. ~Held(D.obj[x]) BY <2>2, <2>3 DEF Spared, Held, Absent
  <2>6. UNCHANGED <<blind, doubtful>> BY <1>3 DEF Remove, Change
  <2> QED BY <2>2, <2>3, <2>4, <2>5, <2>6 DEF SameRow, SameStamps, Spared
<1>4. CASE SetConfig(c)
  <2> DEFINE E == [C EXCEPT !.conf = 1 - @]
  <2>1. E \in Collection /\ E.usn = C.usn /\ E.scm = C.scm /\ E.obj = C.obj /\ E.grave = C.grave
    BY <1>1 DEF Collection
  <2>2. Change(c, E) BY <1>4 DEF SetConfig
  <2>3. UNCHANGED <<blind, doubtful>> BY <1>4 DEF SetConfig, Change
  <2> HIDE DEF E
  <2> QED BY <2>1, <2>2, <2>3, ChangeMeans DEF SameRow
<1>5. CASE ModifySchema(c)
  <2> DEFINE E == [C EXCEPT !.scm = NewScm]
  <2>1. E \in Collection /\ E.usn = C.usn /\ E.scm = NewScm /\ E.obj = C.obj /\ E.grave = C.grave
    BY <1>1 DEF Collection
  <2>2. Change(c, E) BY <1>5 DEF ModifySchema
  <2>3. UNCHANGED <<blind, doubtful>> BY <1>5 DEF ModifySchema, Change
  <2> HIDE DEF E
  <2> QED BY <2>1, <2>2, <2>3, ChangeMeans DEF SameRow
<1> HIDE DEF C
<1> QED BY <1>2, <1>3, <1>4, <1>5 DEF LocalStep, C

\* What Finish commits, in terms of the collections before the sync, ...
Outcome(c, S, C) ==
    /\ S \in Collection /\ C \in Collection
    /\ S.usn = col[Server].usn + 1 /\ S.scm = col[Server].scm
    /\ C.usn = sync[c].serverUsn + 1 /\ C.scm = col[c].scm
    /\ \A x \in Objects :
         /\ C.obj[x] \in Row /\ S.obj[x] \in Row
         /\ Mixed(col[c].obj[x], col[c].grave[x], col[Server].obj[x], sync[c].serverUsn,
                  C.obj[x], S.obj[x])
         /\ ~Due(C.obj[x], C.grave[x])
         /\ C.grave[x] = ClientGrave(col[c].grave[x], col[Server].grave[x], col[c].usn, sync[c].serverUsn)
         /\ S.grave[x] = ServerGrave(col[c].grave[x], col[Server].grave[x], col[Server].usn)
         /\ Sound(c, x) => Settled(x \in blind[c], x \in Unchunked, col[c].obj[x], col[c].grave[x],
                                   col[Server].obj[x], col[Server].grave[x], col[c].usn,
                                   C.obj[x], S.obj[x])

\* ... and what is remembered of it.
Came(S, x) == S.obj[x] # col[Server].obj[x] /\ Held(S.obj[x])

Remembered(c, S) ==
    /\ \A d \in Clients, x \in Objects :
          x \in blind'[d] <=> \/ x \in blind[d] /\ S.obj[x] = col[Server].obj[x]
                              \/ d # c /\ sync[c].late /\ sync[c].serverUsn < col[d].usn /\ Came(S, x)
    /\ doubtful \subseteq doubtful'
    /\ Linked(c) => doubtful' = doubtful
    /\ \A x \in Objects \ doubtful' :
          ~Linked(c) => ~Came(S, x) /\ (Held(S.obj[x]) => S.grave[x] = NoGrave)

LEMMA RecordedMeans ==
    ASSUME TypeOK, NEW c \in Clients, NEW S, S.obj = work[Server].obj, S.grave = work[Server].grave,
           Recorded(c)
    PROVE  Remembered(c, S)
BY DEF Recorded, Remembered, Came, Taken, Arrived, Unburied, Linked, Holds, Held

LEMMA FinishOutcome ==
    ASSUME TypeOK, Stands, RowsInv, NEW c \in Clients, Finish(c)
    PROVE  /\ Numbered(c)
           /\ \E S, C : /\ Outcome(c, S, C) /\ Remembered(c, S)
                        /\ \/ col' = [col EXCEPT ![Server] = S, ![c] = C]
                           \/ col' = [col EXCEPT ![Server] = S]
<1>1. InSession(c) /\ sync[c].stage = "finish" BY FinishShape DEF InSession, Syncing
<1>2. Opened(c) /\ Numbered(c) /\ \A x \in Objects : AtStage(c, x) BY <1>1, SessionMeans
<1>3. PICK S \in {Stamped, Committed} :
            \/ col' = [col EXCEPT ![Server] = S, ![c] = Finished(c)]
            \/ col' = [col EXCEPT ![Server] = S]
  BY FinishShape
<1> DEFINE C == Finished(c)
<1>4. /\ S \in Collection /\ S.usn = work[Server].usn + 1 /\ S.scm = work[Server].scm
      /\ S.obj = work[Server].obj /\ S.grave = work[Server].grave
      /\ C \in Collection /\ C.usn = sync[c].serverUsn + 1 /\ C.scm = work[c].scm
      /\ C.obj = work[c].obj /\ C.grave = work[c].grave
  BY FinishMeans
<1> HIDE DEF C
<1>5. ASSUME NEW x \in Objects
      PROVE  /\ C.obj[x] \in Row /\ S.obj[x] \in Row
             /\ Mixed(col[c].obj[x], col[c].grave[x], col[Server].obj[x], sync[c].serverUsn,
                      C.obj[x], S.obj[x])
             /\ ~Due(C.obj[x], C.grave[x])
             /\ C.grave[x] = ClientGrave(col[c].grave[x], col[Server].grave[x], col[c].usn, sync[c].serverUsn)
             /\ S.grave[x] = ServerGrave(col[c].grave[x], col[Server].grave[x], col[Server].usn)
             /\ Sound(c, x) => Settled(x \in blind[c], x \in Unchunked, col[c].obj[x], col[c].grave[x],
                                       col[Server].obj[x], col[Server].grave[x], col[c].usn,
                                       C.obj[x], S.obj[x])
  <2>1. C.obj[x] \in Row /\ S.obj[x] \in Row
    BY <1>4, Constants DEF Collection, Version, Usns, Row, NoGrave
  <2>2. AtStage(c, x) BY <1>2
  <2> QED BY <1>1, <1>4, <2>1, <2>2 DEF AtStage, Staged
<1>6. Outcome(c, S, C) BY <1>2, <1>4, <1>5 DEF Opened, Outcome
<1>7. Remembered(c, S) BY <1>4, FinishMarks, RecordedMeans
<1> QED BY <1>2, <1>3, <1>6, <1>7 DEF C

\* Each row that a sync commits, between the device and the server and for the other devices.
LEMMA OutcomeRows ==
    ASSUME TypeOK, RowsInv, NEW c \in Clients, Numbered(c), NEW S, NEW C, Outcome(c, S, C),
           Remembered(c, S), NEW x \in Objects
    PROVE  /\ C.obj[x].usn >= Unsynced /\ S.obj[x].usn >= 0 /\ S.grave[x] # Unsynced
           /\ x \notin doubtful' =>
                /\ Held(S.obj[x]) => S.grave[x] = NoGrave
                /\ Linked(c) => RowsLinked(x \in blind'[c], x \in Unchunked, C.obj[x], C.grave[x],
                                           S.obj[x], S.grave[x], C.usn)
                /\ \A d \in Clients : Linked(d) =>
                      RowsLinked(x \in blind'[d], x \in Unchunked, col[d].obj[x], col[d].grave[x],
                                 S.obj[x], S.grave[x], col[d].usn)
<1> DEFINE v == col[c].obj[x]
           g == col[c].grave[x]
           w == col[Server].obj[x]
           h == col[Server].grave[x]
           u == col[c].usn
           n == col[Server].usn
           k == sync[c].serverUsn
           a == C.obj[x]
           b == S.obj[x]
           bl == x \in blind[c]
           un == x \in Unchunked
<1>1. /\ a \in Row /\ b \in Row /\ Mixed(v, g, w, k, a, b)
      /\ C.grave[x] = ClientGrave(g, h, u, k) /\ S.grave[x] = ServerGrave(g, h, n)
      /\ C.usn = k + 1 /\ S.usn = n + 1
      /\ Sound(c, x) => Settled(bl, un, v, g, w, h, u, a, b)
  BY DEF Outcome
<1>2. k \in Nat /\ Apiece(v, g, w, h, u, k, n) /\ n \in Nat
  BY TypeParts, PlacedMeans, ApieceRow DEF RowsInv, Apiece
<1>3. Linked(c) => u <= k /\ k <= n BY DEF Numbered
<1>4. a.usn >= Unsynced /\ b.usn >= 0 /\ S.grave[x] # Unsynced
  <2> HIDE DEF v, g, w, h, u, n, k, a, b
  <2> QED BY <1>1, <1>2 DEF Mixed, Apiece, ServerGrave, Unsynced
<1>5. ASSUME x \notin doubtful'
      PROVE  /\ Held(b) => ServerGrave(g, h, n) = NoGrave
             /\ Linked(c) => RowsLinked(x \in blind'[c], un, a, ClientGrave(g, h, u, k),
                                        b, ServerGrave(g, h, n), k + 1)
             /\ \A d \in Clients : Linked(d) =>
                   RowsLinked(x \in blind'[d], un, col[d].obj[x], col[d].grave[x],
                              b, ServerGrave(g, h, n), col[d].usn)
  <2>1. x \notin doubtful /\ (Linked(c) => Sound(c, x)) BY <1>5 DEF Remembered, Sound
  <2>2. ~Linked(c) => ~Came(S, x) /\ (Held(b) => ServerGrave(g, h, n) = NoGrave)
    BY <1>1, <1>5 DEF Remembered
  <2>3. Linked(c) => Settled(bl, un, v, g, w, h, u, a, b) /\ Before(bl, un, v, g, w, h, u, k, n)
    BY <1>1, <1>2, <1>3, <2>1, BeforeRow
  <2>4. Held(b) => ServerGrave(g, h, n) = NoGrave
    BY <2>2, <2>3 DEF Settled, ServerGrave
  <2>5. ASSUME Linked(c)
        PROVE  RowsLinked(x \in blind'[c], un, a, ClientGrave(g, h, u, k), b, ServerGrave(g, h, n), k + 1)
    <3> DEFINE bl2 == x \in blind'[c]
    <3>1. bl2 \in BOOLEAN /\ (bl /\ b = w => bl2) BY DEF Remembered
    <3>2. Settled(bl, un, v, g, w, h, u, a, b) /\ Before(bl, un, v, g, w, h, u, k, n) BY <2>3, <2>5
    <3> HIDE DEF v, g, w, h, u, n, k, a, b, un, bl, bl2
    <3>3. RowsLinked(bl2, un, a, ClientGrave(g, h, u, k), b, ServerGrave(g, h, n), k + 1)
      BY <1>1, <3>1, <3>2, SettledKept
    <3> QED BY <3>3 DEF bl2
  <2>6. ASSUME NEW d \in Clients, Linked(d)
        PROVE  RowsLinked(x \in blind'[d], un, col[d].obj[x], col[d].grave[x],
                          b, ServerGrave(g, h, n), col[d].usn)
    <3> DEFINE v2 == col[d].obj[x]
               g2 == col[d].grave[x]
               u2 == col[d].usn
               bl2 == x \in blind[d]
               bl3 == x \in blind'[d]
    <3>1. u2 <= n BY <2>6 DEF RowsInv, ClientsLinked
    <3>2. Before(bl2, un, v2, g2, w, h, u2, n, n) BY <1>2, <2>1, <2>6, <3>1, BeforeRow DEF Sound
    <3>3. bl3 \in BOOLEAN /\ (bl2 /\ b = w => bl3) BY DEF Remembered
    <3>4. Came(S, x) <=> b # w /\ Held(b) BY DEF Came
    <3>5. (b # w /\ Held(b)) => (bl3 \/ k >= u2) /\ (un => w.mtime <= b.mtime)
      <4> SUFFICES ASSUME b # w, Held(b) PROVE (bl3 \/ k >= u2) /\ (un => w.mtime <= b.mtime) OBVIOUS
      <4>1. Linked(c) BY <2>2, <3>4
      <4>2. un => w.mtime <= b.mtime BY <2>3, <4>1 DEF Settled
      <4>3. CASE d = c BY <1>2, <1>3, <4>1, <4>2, <4>3 DEF Apiece
      <4>4. u2 \in Nat BY <3>2 DEF Before, Apiece
      <4>5. CASE d # c /\ sync[c].late
        <5>1. k < u2 => bl3 BY <3>4, <4>5 DEF Remembered
        <5> QED BY <1>2, <4>2, <4>4, <5>1
      <4>6. CASE ~sync[c].late
        <5>1. k = n BY <4>6 DEF Numbered
        <5> QED BY <1>2, <3>1, <4>2, <4>4, <5>1
      <4> QED BY <4>3, <4>5, <4>6
    <3>6. v \in Row /\ g \in Int BY <1>2 DEF Apiece
    <3>7. a \in Row /\ b \in Row /\ Mixed(v, g, w, k, a, b) BY <1>1
    <3>8. k \in Nat BY <1>2
    <3> HIDE DEF v, g, w, h, u, n, k, a, b, un, bl, v2, g2, u2, bl2, bl3
    \* What c has sent is news to d, or d becomes blind to it.
    <3>9. RowsLinked(bl3, un, v2, g2, b, ServerGrave(g, h, n), u2)
      BY <2>4, <3>2, <3>3, <3>5, <3>6, <3>7, <3>8
         DEF Before, Apiece, Mixed, ServerGrave, Row, Held, Due, Recent, RowsLinked, NoGrave, Unsynced
    <3> QED BY <3>9 DEF bl3, v2, g2, u2
  <2> QED BY <2>4, <2>5, <2>6
<1> QED BY <1>1, <1>4, <1>5

AllNumbered(C) == \A x \in Objects : C.obj[x].usn >= Unsynced
AllServed(S, X) ==
    \A x \in Objects : /\ S.obj[x].usn >= 0 /\ S.grave[x] # Unsynced
                       /\ x \notin X => (Held(S.obj[x]) => S.grave[x] = NoGrave)
PairLinked(C, S, B, X) ==
    C.scm = S.scm => /\ C.usn <= S.usn
                     /\ \A x \in Objects \ X :
                           RowsLinked(x \in B, x \in Unchunked, C.obj[x], C.grave[x],
                                      S.obj[x], S.grave[x], C.usn)

LEMMA RowsMean ==
    RowsInv <=> /\ \A s \in Sites : AllNumbered(col[s])
                /\ AllServed(col[Server], doubtful)
                /\ \A c \in Clients : PairLinked(col[c], col[Server], blind[c], doubtful)
BY DEF RowsInv, Numbers, ServerKept, ClientsLinked, AllNumbered, AllServed, PairLinked, Linked

LEMMA RowsMeanLater ==
    RowsInv' <=> /\ \A s \in Sites : AllNumbered(col'[s])
                 /\ AllServed(col'[Server], doubtful')
                 /\ \A c \in Clients : PairLinked(col'[c], col'[Server], blind'[c], doubtful')
BY DEF RowsInv, Numbers, ServerKept, ClientsLinked, AllNumbered, AllServed, PairLinked, Linked

\* Less is claimed when more is doubtful.
LEMMA MoreDoubt ==
    ASSUME NEW X, NEW Y, X \subseteq Y
    PROVE  /\ \A S : AllServed(S, X) => AllServed(S, Y)
           /\ \A C, S, B : PairLinked(C, S, B, X) => PairLinked(C, S, B, Y)
BY DEF AllServed, PairLinked

LEMMA RowsInit == Init => RowsInv
<1> SUFFICES ASSUME Init PROVE RowsInv OBVIOUS
<1>1. PICK held \in Starts : col = [s \in Sites |-> Seed(held)] BY DEF Init
<1>2. /\ AllNumbered(Seed(held)) /\ AllServed(Seed(held), {})
      /\ PairLinked(Seed(held), Seed(held), {}, {})
  <2> DEFINE C == Seed(held)
  <2>1. /\ C.usn = 1
        /\ \A x \in Objects : /\ C.grave[x] = NoGrave /\ C.obj[x].usn = 0
                              /\ C.obj[x].mtime \in Nat
    BY DEF Seed, Absent
  <2> HIDE DEF C
  <2>2. AllNumbered(C) /\ AllServed(C, {}) /\ PairLinked(C, C, {}, {})
    BY <2>1 DEF AllNumbered, AllServed, PairLinked, RowsLinked, Held, Due, NoGrave, Unsynced
  <2> QED BY <2>2 DEF C
<1>3. \A c \in Clients : blind[c] = {} /\ doubtful = {} BY DEF Init
<1>4. doubtful = {} BY DEF Init
<1> QED BY <1>1, <1>2, <1>3, <1>4, RowsMean, Constants

LEMMA RowsFinish == ASSUME TypeOK, Stands, RowsInv, NEW c \in Clients, Finish(c) PROVE RowsInv'
<1> USE Constants
<1>1. PICK S, C : /\ Outcome(c, S, C) /\ Remembered(c, S)
                  /\ \/ col' = [col EXCEPT ![Server] = S, ![c] = C]
                     \/ col' = [col EXCEPT ![Server] = S]
  BY FinishOutcome
<1>2. Numbered(c) /\ sync[c].serverUsn \in Nat BY TypeParts, PlacedMeans, FinishOutcome
<1>3. col \in [Sites -> Collection] /\ \A s \in Sites : col[s].usn \in Nat
  BY TypeParts, StoredMeans DEF Stored, Collection
<1>4. /\ S.usn = col[Server].usn + 1 /\ S.scm = col[Server].scm
      /\ C.usn = sync[c].serverUsn + 1 /\ C.scm = col[c].scm
  BY <1>1 DEF Outcome
<1>5. AllNumbered(S) /\ AllNumbered(C) /\ AllServed(S, doubtful')
  <2>1. \A x \in Objects : S.obj[x] \in Row BY <1>1 DEF Outcome
  <2> QED BY <1>1, <1>2, <2>1, OutcomeRows DEF AllNumbered, AllServed, Row, Unsynced
<1>6. PairLinked(C, S, blind'[c], doubtful')
  <2> SUFFICES ASSUME C.scm = S.scm
               PROVE  /\ C.usn <= S.usn
                      /\ \A x \in Objects \ doubtful' :
                            RowsLinked(x \in blind'[c], x \in Unchunked, C.obj[x], C.grave[x],
                                       S.obj[x], S.grave[x], C.usn)
    BY DEF PairLinked
  <2>1. Linked(c) BY <1>4 DEF Linked
  <2>2. sync[c].serverUsn <= col[Server].usn BY <1>2, <2>1 DEF Numbered
  <2> QED BY <1>1, <1>2, <1>3, <1>4, <2>1, <2>2, OutcomeRows
<1>7. ASSUME NEW d \in Clients PROVE PairLinked(col[d], S, blind'[d], doubtful')
  <2> SUFFICES ASSUME col[d].scm = S.scm
               PROVE  /\ col[d].usn <= S.usn
                      /\ \A x \in Objects \ doubtful' :
                            RowsLinked(x \in blind'[d], x \in Unchunked, col[d].obj[x], col[d].grave[x],
                                       S.obj[x], S.grave[x], col[d].usn)
    BY DEF PairLinked
  <2>1. Linked(d) BY <1>4 DEF Linked
  <2>2. col[d].usn <= col[Server].usn BY <2>1 DEF RowsInv, ClientsLinked
  <2> QED BY <1>1, <1>2, <1>3, <1>4, <2>1, <2>2, OutcomeRows
<1>8. \A s \in Sites : AllNumbered(col'[s]) BY <1>1, <1>3, <1>5, RowsMean
<1>9. AllServed(col'[Server], doubtful') BY <1>1, <1>3, <1>5
<1>10. \A d \in Clients : PairLinked(col'[d], col'[Server], blind'[d], doubtful')
  BY <1>1, <1>3, <1>6, <1>7
<1> QED BY <1>8, <1>9, <1>10, RowsMeanLater

LEMMA RowsFullUpload == ASSUME TypeOK, RowsInv, NEW c \in Clients, FullUpload(c) PROVE RowsInv'
<1> USE Constants
<1> DEFINE D == BeforeUpload(col[c])
<1>1. /\ col \in [Sites -> Collection] /\ col[c].usn \in Nat
      /\ \A x \in Objects : col[c].obj[x].usn \in Int /\ col[c].obj[x].usn >= Unsynced
  BY TypeParts, StoredMeans DEF RowsInv, Numbers, Stored, Collection, Version, Usns
<1>2. /\ D.usn = col[c].usn + 1 /\ D.scm = NewScm
      /\ \A x \in Objects :
           /\ D.grave[x] = NoGrave
           /\ D.obj[x].mtime = col[c].obj[x].mtime
           /\ D.obj[x].usn = IF x \in Unchunked \/ col[c].obj[x].usn = Unsynced THEN 0
                             ELSE col[c].obj[x].usn
      /\ \A s \in Sites : col[s].scm # NewScm
  BY TypeParts, BeforeUploadMeans, FreshStamps
<1>3. /\ \/ /\ col' = [col EXCEPT ![c] = D, ![Server] = D]
            /\ blind' = [d \in Clients |-> {}] /\ doubtful' = {}
         \/ col' = [col EXCEPT ![c] = D] /\ UNCHANGED <<blind, doubtful>>
  BY FullUploadMarks DEF history
<1>4. D \in Collection BY TypeParts, BeforeUploadMeans
<1> HIDE DEF D
<1>5. AllNumbered(D) /\ AllServed(D, {})
  BY <1>1, <1>2 DEF AllNumbered, AllServed, NoGrave, Unsynced
<1>6. PairLinked(D, D, {}, {})
  <2>1. \A x \in Objects : D.obj[x].mtime \in Nat /\ D.obj[x].usn >= 0
    BY <1>4, <1>5 DEF AllServed, Collection, Version
  <2>2. D.usn \in Nat BY <1>4 DEF Collection
  <2> QED BY <1>2, <2>1, <2>2 DEF PairLinked, RowsLinked, Held, Due, NoGrave, Unsynced
<1>7. \A s \in Sites : AllNumbered(col'[s]) BY <1>1, <1>3, <1>5, RowsMean
<1>8. CASE /\ col' = [col EXCEPT ![c] = D, ![Server] = D]
           /\ blind' = [d \in Clients |-> {}] /\ doubtful' = {}
  <2>1. ASSUME NEW d \in Clients PROVE PairLinked(col'[d], col'[Server], blind'[d], doubtful')
    <3>1. CASE d = c BY <1>1, <1>6, <1>8, <3>1
    <3>2. CASE d # c BY <1>1, <1>2, <1>8, <3>2 DEF PairLinked
    <3> QED BY <3>1, <3>2
  <2> QED BY <1>1, <1>5, <1>7, <1>8, <2>1, RowsMeanLater
<1>9. CASE col' = [col EXCEPT ![c] = D] /\ UNCHANGED <<blind, doubtful>>
  <2>1. ASSUME NEW d \in Clients PROVE PairLinked(col'[d], col'[Server], blind'[d], doubtful')
    <3>1. CASE d = c BY <1>1, <1>2, <1>9, <3>1 DEF PairLinked
    <3>2. CASE d # c BY <1>1, <1>9, <3>2, RowsMean
    <3> QED BY <3>1, <3>2
  <2> QED BY <1>1, <1>5, <1>7, <1>9, <2>1, RowsMean, RowsMeanLater
<1> QED BY <1>3, <1>8, <1>9

LEMMA RowsFullDownload == ASSUME TypeOK, RowsInv, NEW c \in Clients, FullDownload(c) PROVE RowsInv'
<1> USE Constants
<1> DEFINE D == Downloaded
           R == col[Server]
<1>1. /\ col \in [Sites -> Collection] /\ D \in Collection /\ R.usn \in Nat /\ D.usn = R.usn + 1
      /\ D.scm = R.scm /\ D.obj = R.obj /\ D.grave = R.grave
      /\ \A x \in Objects : R.obj[x] \in Row /\ R.grave[x] \in Int
      /\ \A s \in Sites : col[s].usn \in Nat
  BY TypeParts, StoredMeans, DownloadedMeans DEF Stored, Collection, Version, Usns, Row, NoGrave
<1>2. /\ doubtful' = doubtful /\ blind \in [Clients -> SUBSET Objects]
      /\ \/ /\ col' = [col EXCEPT ![c] = D, ![Server] = D]
            /\ blind' = [blind EXCEPT ![c] = {}]
         \/ /\ col' = [col EXCEPT ![Server] = D]
            /\ UNCHANGED blind
  BY TypeParts, FullDownloadShape DEF Noted
<1> HIDE DEF D
<1>3. /\ AllNumbered(R) /\ AllServed(R, doubtful)
      /\ \A d \in Clients : PairLinked(col[d], R, blind[d], doubtful)
  BY RowsMean
<1> HIDE DEF R
<1>4. AllNumbered(D) /\ AllServed(D, doubtful)
  BY <1>1, <1>3 DEF AllNumbered, AllServed
<1>5. PairLinked(D, D, {}, doubtful)
  <2> SUFFICES ASSUME NEW x \in Objects \ doubtful
               PROVE  RowsLinked(x \in {}, x \in Unchunked, D.obj[x], D.grave[x], D.obj[x], D.grave[x], D.usn)
    BY <1>1 DEF PairLinked
  <2> DEFINE w == D.obj[x]
             h == D.grave[x]
  <2>1. /\ w \in Row /\ h \in Int /\ D.usn \in Nat /\ w.usn >= 0 /\ h # Unsynced
        /\ Held(w) => h = NoGrave
    BY <1>1, <1>4 DEF AllServed
  <2> HIDE DEF w, h
  <2>2. RowsLinked(x \in {}, x \in Unchunked, w, h, w, h, D.usn)
    BY <2>1 DEF RowsLinked, Row, Held, Due, Unsynced, NoGrave
  <2> QED BY <2>2 DEF w, h
<1>6. ASSUME NEW d \in Clients PROVE PairLinked(col[d], D, blind[d], doubtful)
  BY <1>1, <1>3 DEF PairLinked
<1>7. \A s \in Sites : AllNumbered(col'[s]) BY <1>1, <1>2, <1>4, RowsMean
<1>8. AllServed(col'[Server], doubtful') BY <1>1, <1>2, <1>4
<1>9. \A d \in Clients : PairLinked(col'[d], col'[Server], blind'[d], doubtful')
  BY <1>1, <1>2, <1>5, <1>6
<1> QED BY <1>7, <1>8, <1>9, RowsMeanLater

\* A device that takes a new schema stamp is not linked any more.
LEMMA RowsParted ==
    ASSUME TypeOK, RowsInv, NEW c \in Clients, NEW D \in Collection, D.scm = NewScm,
           D.usn = col[c].usn, \A x \in Objects : SameRow(col[c], D, x),
           col' = [col EXCEPT ![c] = D], UNCHANGED blind, doubtful \subseteq doubtful'
    PROVE  RowsInv'
<1> USE Constants
<1>1. col \in [Sites -> Collection] /\ \A s \in Sites : col[s].scm # NewScm
  BY TypeParts, FreshStamps DEF Stored
<1>2. AllNumbered(D) BY RowsMean DEF AllNumbered, SameRow
<1>3. ASSUME NEW d \in Clients PROVE PairLinked(col'[d], col'[Server], blind'[d], doubtful')
  <2>1. CASE d = c BY <1>1, <2>1 DEF PairLinked
  <2>2. CASE d # c BY <1>1, <2>2, RowsMean, MoreDoubt
  <2> QED BY <2>1, <2>2
<1>4. AllServed(col'[Server], doubtful') BY <1>1, RowsMean, MoreDoubt
<1> QED BY <1>1, <1>2, <1>3, <1>4, RowsMean, RowsMeanLater

LEMMA RowsLocal ==
    ASSUME TypeOK, RowsInv, NEW c \in Clients, LocalStep(c)
    PROVE  RowsInv'
<1> USE Constants
<1>1. PICK D \in Collection :
              /\ col' = [col EXCEPT ![c] = D]
              /\ D.usn = col[c].usn /\ UNCHANGED blind
              /\ \/ D.scm = NewScm /\ UNCHANGED doubtful /\ \A x \in Objects : SameRow(col[c], D, x)
                 \/ D.scm = col[c].scm /\ UNCHANGED doubtful /\ \A x \in Objects : SameRow(col[c], D, x)
                 \/ /\ D.scm = col[c].scm
                    /\ \E x \in Objects :
                         /\ doubtful' \in {doubtful, doubtful \union {x}}
                         /\ EditedRow(x \in Unchunked, col[c].obj[x], col[c].grave[x], D.obj[x], D.grave[x])
                         /\ Held(D.obj[x]) => D.grave[x] = NoGrave \/ x \in doubtful'
                         /\ \A y \in Objects \ {x} : SameRow(col[c], D, y)
  BY LocalMeans
<1>2. col \in [Sites -> Collection] BY TypeParts DEF Stored
<1>3. CASE D.scm = NewScm /\ UNCHANGED doubtful /\ \A x \in Objects : SameRow(col[c], D, x) BY <1>1, <1>3, RowsParted
<1>4. ASSUME AllNumbered(D), PairLinked(D, col[Server], blind[c], doubtful'), doubtful \subseteq doubtful' PROVE RowsInv'
  <2>1. \A s \in Sites : AllNumbered(col'[s]) BY <1>1, <1>2, <1>4, RowsMean
  <2>2. AllServed(col'[Server], doubtful') BY <1>1, <1>2, RowsMean, MoreDoubt
  <2>3. ASSUME NEW d \in Clients PROVE PairLinked(col'[d], col'[Server], blind'[d], doubtful')
    BY <1>1, <1>2, <1>4, RowsMean, MoreDoubt
  <2> QED BY <2>1, <2>2, <2>3, RowsMeanLater
<1>5. CASE D.scm = col[c].scm /\ UNCHANGED doubtful /\ \A x \in Objects : SameRow(col[c], D, x)
  <2>1. AllNumbered(D) BY <1>1, <1>5, RowsMean DEF AllNumbered, SameRow
  <2>2. PairLinked(col[c], col[Server], blind[c], doubtful') BY <1>5, RowsMean
  <2>3. PairLinked(D, col[Server], blind[c], doubtful') BY <1>1, <1>5, <2>2 DEF PairLinked, SameRow
  <2> QED BY <1>4, <1>5, <2>1, <2>3
<1>6. ASSUME D.scm = col[c].scm, NEW x \in Objects, doubtful' \in {doubtful, doubtful \union {x}},
             EditedRow(x \in Unchunked, col[c].obj[x], col[c].grave[x], D.obj[x], D.grave[x]),
             Held(D.obj[x]) => D.grave[x] = NoGrave \/ x \in doubtful',
             \A y \in Objects \ {x} : SameRow(col[c], D, y)
      PROVE  RowsInv'
  <2>1. AllNumbered(D)
    <3>1. D.obj[x].usn >= Unsynced BY <1>6 DEF EditedRow, Absent, Unsynced
    <3> QED BY <1>6, <3>1, RowsMean DEF AllNumbered, SameRow
  <2>2. ASSUME D.scm = col[Server].scm
        PROVE  /\ D.usn <= col[Server].usn
               /\ \A y \in Objects \ doubtful' :
                     RowsLinked(y \in blind[c], y \in Unchunked, D.obj[y], D.grave[y],
                                col[Server].obj[y], col[Server].grave[y], D.usn)
    <3>1. Linked(c) BY <1>6, <2>2 DEF Linked
    <3>2. PairLinked(col[c], col[Server], blind[c], doubtful') BY <1>6, RowsMean, MoreDoubt
    <3>3. \A y \in Objects \ doubtful' : y # x =>
             RowsLinked(y \in blind[c], y \in Unchunked, D.obj[y], D.grave[y],
                        col[Server].obj[y], col[Server].grave[y], D.usn)
      BY <1>1, <1>6, <2>2, <3>2 DEF PairLinked, SameRow
    <3>4. ASSUME x \notin doubtful'
          PROVE  RowsLinked(x \in blind[c], x \in Unchunked, D.obj[x], D.grave[x],
                            col[Server].obj[x], col[Server].grave[x], D.usn)
      <4> DEFINE bl == x \in blind[c]
                 un == x \in Unchunked
                 v == col[c].obj[x]
                 g == col[c].grave[x]
                 w == col[Server].obj[x]
                 h == col[Server].grave[x]
                 v2 == D.obj[x]
                 g2 == D.grave[x]
                 u == col[c].usn
                 n == col[Server].usn
      <4>1. n \in Nat /\ u <= n /\ Sound(c, x)
        BY <1>6, <3>1, <3>4, TypeParts, StoredMeans DEF Collection, RowsInv, ClientsLinked, Sound
      <4>2. Before(bl, un, v, g, w, h, u, n, n)
        <5>1. n <= n BY <4>1
        <5> QED BY <4>1, <5>1, BeforeRow
      <4>3. EditedRow(un, v, g, v2, g2) /\ (Held(v2) => g2 = NoGrave) BY <1>6, <3>4
      <4> HIDE DEF bl, un, v, g, w, h, v2, g2, u, n
      <4>4. RowsLinked(bl, un, v2, g2, w, h, u) BY <4>2, <4>3, EditedRowLinked
      <4> QED BY <1>1, <4>4 DEF bl, un, v, g, w, h, v2, g2, u, n
    <3>5. D.usn <= col[Server].usn BY <1>1, <1>6, <2>2, <3>2 DEF PairLinked
    <3> QED BY <3>3, <3>4, <3>5
  <2>3. PairLinked(D, col[Server], blind[c], doubtful') BY <2>2 DEF PairLinked
  <2> QED BY <1>4, <1>6, <2>1, <2>3
<1> QED BY <1>1, <1>3, <1>5, <1>6

LEMMA RowsSame == ASSUME RowsInv, UNCHANGED <<col, history>> PROVE RowsInv'
BY RowsMean, RowsMeanLater DEF history

LEMMA RowsForced == ASSUME TypeOK, RowsInv, NEW c \in Clients, ForceOneWay(c) PROVE RowsInv'
<1> DEFINE D == [col[c] EXCEPT !.scm = NewScm]
<1>1. col[c] \in Collection /\ NewScm \in Nat BY TypeParts, StoredMeans, FreshStamps, Constants
<1>2. D \in Collection /\ D.scm = NewScm /\ D.usn = col[c].usn /\ \A x \in Objects : SameRow(col[c], D, x)
  BY <1>1 DEF Collection, SameRow
<1>3. col' = [col EXCEPT ![c] = D] /\ UNCHANGED blind /\ doubtful \subseteq doubtful'
  BY DEF ForceOneWay, history
<1> HIDE DEF D
<1> QED BY <1>2, <1>3, RowsParted

LEMMA RowsStep == TypeOK /\ Stands /\ RowsInv /\ [Next]_vars => RowsInv'
<1> SUFFICES ASSUME TypeOK, Stands, RowsInv, [Next]_vars PROVE RowsInv' OBVIOUS
<1>1. CASE UNCHANGED <<col, history>> BY <1>1, RowsSame
<1>2. ASSUME NEW c \in Clients, SyncStep(c) PROVE RowsInv'
  <2>1. CASE SyncMeta(c) BY <1>1, <2>1 DEF SyncMeta
  <2>2. CASE Start(c) BY <1>1, <2>2 DEF Start
  <2>3. CASE SendGraves(c) BY <1>1, <2>3 DEF SendGraves, Request
  <2>4. CASE UnchunkedChanges(c) BY <1>1, <2>4 DEF UnchunkedChanges, Request
  <2>5. CASE PullChunk(c) BY <1>1, <2>5 DEF PullChunk, Request
  <2>6. CASE PushChunk(c) BY <1>1, <2>6 DEF PushChunk, Request
  <2>7. CASE SanityCheck(c)
    <3>1. CASE ForceOneWay(c) BY <3>1, RowsForced
    <3> QED BY <1>1, <2>7, <3>1 DEF SanityCheck, Request
  <2>8. CASE FinishConflict(c) BY <1>1, <2>8 DEF FinishConflict, Request
  <2> QED BY <1>2, <2>1, <2>2, <2>3, <2>4, <2>5, <2>6, <2>7, <2>8, RowsFinish, RowsFullUpload,
             RowsFullDownload DEF SyncStep
<1>3. ASSUME NEW c \in Clients, LocalStep(c) PROVE RowsInv' BY <1>3, RowsLocal
<1>4. ASSUME NEW c \in Clients, RequestFails(c) \/ DeliverAbort(c) PROVE RowsInv'
  BY <1>1, <1>4 DEF RequestFails, DeliverAbort
<1>5. CASE ServerRestart BY <1>1, <1>5 DEF ServerRestart
<1>6. CASE UNCHANGED vars BY <1>1, <1>6 DEF vars
<1> QED BY <1>2, <1>3, <1>4, <1>5, <1>6 DEF Next

-----------------------------------------------------------------------------
(* Theorems.                                                               *)

LEMMA InvInit == Init => IInv
BY TypesInit, StandsInit, RowsInit DEF IInv

LEMMA InvStep == IInv /\ [Next]_vars => IInv'
BY TypesStep, StandsStep, RowsStep DEF IInv

LEMMA InvHolds == Spec => []IInv
BY InvInit, InvStep, PTL DEF Spec

\* As long as no full sync is due, whatever object differs between a device and the server is
\* pending on the device or recent on the server, so that the device's next sync sends it,
\* or is one that the device is uncertain about (the usn comparisons of sync/collection:
\* graves.rs, chunks.rs, changes.rs).
THEOREM NothingIsMissed == Spec => []NothingMissed
<1>1. IInv => NothingMissed
  <2> SUFFICES ASSUME IInv, NEW c \in Clients, NEW x \in Objects, Linked(c), x \notin Uncertain(c),
                      col[c].obj[x].mtime # col[Server].obj[x].mtime
               PROVE  Noticed(c, x)
    BY DEF NothingMissed, Linked
  <2> DEFINE v == col[c].obj[x]
             g == col[c].grave[x]
             w == col[Server].obj[x]
             h == col[Server].grave[x]
             u == col[c].usn
             n == col[Server].usn
             bl == x \in blind[c]
             un == x \in Unchunked
  <2>1. Before(bl, un, v, g, w, h, u, n, n) /\ ~bl
    <3>1. n \in Nat /\ n <= n /\ u <= n
      BY TypeParts, StoredMeans DEF IInv, RowsInv, ClientsLinked, Collection
    <3> QED BY <3>1, BeforeRow DEF IInv, Sound, Uncertain
  <2>2. Noticed(c, x) <=> \/ v.usn = Unsynced /\ Held(v)
                          \/ g = Unsynced
                          \/ Held(w) /\ w.usn >= u
                          \/ ~Held(w) /\ h >= u
    BY DEF Noticed, Holds, Held
  <2>3. v.mtime # w.mtime OBVIOUS
  <2> HIDE DEF v, g, w, h, u, n, bl, un
  <2>4. Due(v, g) \/ Recent(w, h, u) BY <2>1, <2>3 DEF Before, RowsLinked
  <2>5. h >= u => ~Held(w) BY <2>1 DEF Before, Apiece, NoGrave
  <2> QED BY <2>2, <2>4, <2>5 DEF Due, Recent
<1>2. Spec => []IInv BY InvHolds
<1> QED BY <1>1, <1>2, PTL

\* When a session reaches the sanity check, both sides hold the same objects and nothing is
\* left to send.
LEMMA SanityPasses ==
    ASSUME IInv, NEW c \in Clients, sync[c].stage = "sanity", session.skey = c, Linked(c),
           Uncertain(c) = {}
    PROVE  SanityOk(c)
<1>1. InSession(c) BY DEF InSession, Syncing
<1>2. /\ Numbered(c) /\ Opened(c)
      /\ \A x \in Objects : AtStage(c, x)
      /\ \A x \in Objects : Sound(c, x) /\ x \notin blind[c]
      /\ \A x \in Objects : Before(x \in blind[c], x \in Unchunked, col[c].obj[x], col[c].grave[x],
                  col[Server].obj[x], col[Server].grave[x], col[c].usn, sync[c].serverUsn, col[Server].usn)
  BY <1>1, SessionMeans DEF IInv, Sound, Uncertain
<1>3. ASSUME NEW x \in Objects
      PROVE  /\ work[c].obj[x].mtime = work[Server].obj[x].mtime
             /\ Holds(work[c], x) => work[c].obj[x].usn # Unsynced
             /\ Holds(work[Server], x) => work[Server].obj[x].usn # Unsynced
             /\ work[c].grave[x] # Unsynced /\ work[Server].grave[x] # Unsynced
  <2> DEFINE v == col[c].obj[x]
             g == col[c].grave[x]
             w == col[Server].obj[x]
             h == col[Server].grave[x]
             u == col[c].usn
             n == col[Server].usn
             k == sync[c].serverUsn
             a == work[c].obj[x]
             b == work[Server].obj[x]
             bl == x \in blind[c]
             un == x \in Unchunked
  <2>1. /\ Settled(bl, un, v, g, w, h, u, a, b) /\ ~bl /\ Mixed(v, g, w, k, a, b)
        /\ work[c].grave[x] = ClientGrave(g, h, u, k) /\ work[Server].grave[x] = ServerGrave(g, h, n)
    BY <1>2 DEF AtStage, Staged
  <2>2. Before(bl, un, v, g, w, h, u, k, n) BY <1>2
  <2>3. Holds(work[c], x) = Held(a) /\ Holds(work[Server], x) = Held(b) BY DEF Holds, Held
  <2> HIDE DEF v, g, w, h, u, n, k, a, b, bl, un
  <2>4. a.mtime = b.mtime /\ (Held(a) => a.usn # Unsynced) /\ b.usn # Unsynced
    BY <2>1 DEF Settled, Mixed, Unsynced
  <2>5. ClientGrave(g, h, u, k) # Unsynced /\ ServerGrave(g, h, n) # Unsynced
    BY <2>2 DEF Before, Apiece, ClientGrave, ServerGrave, MarkedGrave, Unsynced, NoGrave
  <2> QED BY <2>1, <2>3, <2>4, <2>5 DEF a, b
<1>4. \A x \in Objects : Holds(work[c], x) <=> Holds(work[Server], x) BY <1>3 DEF Holds
<1>5. /\ {x \in Chunked : Holds(work[c], x)} = {x \in Chunked : Holds(work[Server], x)}
      /\ {x \in Unchunked : Holds(work[c], x)} = {x \in Unchunked : Holds(work[Server], x)}
  BY <1>4 DEF Objects
<1>6. /\ ObjectsPendingSync(work[c], Objects, Unsynced) = {}
      /\ ObjectsPendingSync(work[Server], Objects, Unsynced) = {}
      /\ PendingGraves(work[c], Unsynced) = {} /\ PendingGraves(work[Server], Unsynced) = {}
  BY <1>3 DEF ObjectsPendingSync, PendingGraves, IsPendingSync
<1> QED BY <1>5, <1>6 DEF SanityOk, SanityCheckInfo

\* No sync fails its sanity check unless the device is uncertain about an object or a one-way
\* sync is due already: no other device is ever forced into a one-way sync (sanity.rs,
\* check_sanity and force_one_way_sync).
THEOREM SanityHolds == Spec => SanityNeverFails
<1>1. ASSUME IInv, [Next]_vars, NEW d \in Clients, sync[d].stage = "sanity", d \notin Apart,
             Uncertain(d) = {}
      PROVE  col'[d].scm = col[d].scm
  <2> USE Constants
  <2>1. col \in [Sites -> Collection] BY <1>1, TypeParts DEF IInv, Stored
  <2>2. CASE UNCHANGED col BY <2>2
  <2>3. ASSUME NEW c \in Clients, SyncStep(c) PROVE col'[d].scm = col[d].scm
    <3>1. CASE SyncMeta(c) BY <2>2, <3>1 DEF SyncMeta
    <3>2. CASE Start(c) BY <2>2, <3>2 DEF Start
    <3>3. CASE SendGraves(c) BY <2>2, <3>3 DEF SendGraves, Request
    <3>4. CASE UnchunkedChanges(c) BY <2>2, <3>4 DEF UnchunkedChanges, Request
    <3>5. CASE PullChunk(c) BY <2>2, <3>5 DEF PullChunk, Request
    <3>6. CASE PushChunk(c) BY <2>2, <3>6 DEF PushChunk, Request
    <3>7. CASE SanityCheck(c)
      <4>1. CASE c = d
        <5>1. ~SanityFails(c) BY <1>1, <4>1, SanityPasses DEF SanityFails, Apart, Linked
        <5> QED BY <2>2, <3>7, <5>1 DEF SanityCheck, Request
      <4>2. CASE c # d /\ SanityFails(c)
        <5>1. ForceOneWay(c) BY <3>7, <4>2 DEF SanityCheck
        <5>2. col' = [col EXCEPT ![c].scm = NewScm] BY <5>1 DEF ForceOneWay
        <5> QED BY <2>1, <4>2, <5>2
      <4> QED BY <2>2, <3>7, <4>1, <4>2 DEF SanityCheck, Request
    <3>8. CASE Finish(c)
      <4>1. c # d BY <1>1, <3>8, FinishShape
      <4> QED BY <2>1, <3>8, <4>1, FinishShape
    <3>9. CASE FinishConflict(c) BY <2>2, <3>9 DEF FinishConflict, Request
    <3>10. CASE FullUpload(c)
      <4>1. c # d BY <1>1, <3>10, FullUploadShape DEF IInv, Stands, ClientStands, Syncing
      <4> QED BY <2>1, <3>10, <4>1, FullUploadShape
    <3>11. CASE FullDownload(c)
      <4>1. c # d BY <1>1, <3>11, FullDownloadShape DEF IInv, Stands, ClientStands, Syncing
      <4> QED BY <2>1, <3>11, <4>1, FullDownloadShape
    <3> QED BY <2>3, <3>1, <3>2, <3>3, <3>4, <3>5, <3>6, <3>7, <3>8, <3>9, <3>10, <3>11 DEF SyncStep
  <2>4. ASSUME NEW c \in Clients, LocalStep(c) PROVE col'[d].scm = col[d].scm
    <3>1. c # d
      BY <1>1, <2>4 DEF LocalStep, Put, Remove, SetConfig, ModifySchema, Change, Syncing
    <3>2. col'[d] = col[d]
      BY <2>1, <2>4, <3>1 DEF LocalStep, Put, Remove, SetConfig, ModifySchema, Change
    <3> QED BY <3>2
  <2>5. ASSUME NEW c \in Clients, RequestFails(c) \/ DeliverAbort(c) PROVE col'[d].scm = col[d].scm
    BY <2>2, <2>5 DEF RequestFails, DeliverAbort
  <2>6. CASE ServerRestart BY <2>2, <2>6 DEF ServerRestart
  <2>7. CASE UNCHANGED vars BY <2>2, <2>7 DEF vars
  <2> QED BY <1>1, <2>3, <2>4, <2>5, <2>6, <2>7 DEF Next
<1>2. IInv /\ [Next]_vars =>
        [\A c \in Clients : (sync[c].stage = "sanity" /\ c \notin Apart /\ Uncertain(c) = {})
                                => col'[c].scm = col[c].scm]_vars
  BY <1>1
<1>3. Spec => []IInv BY InvHolds
<1> QED BY <1>2, <1>3, PTL DEF Spec, SanityNeverFails

-----------------------------------------------------------------------------
(* The protocol implements ReplicatedCollection.                           *)

Content == [s \in Sites |-> [x \in Objects |-> col[s].obj[x].mtime]]
UnsentNow == [c \in Clients |-> IF c \in Apart THEN {} ELSE Unsent(c)]
NewsNow == [c \in Clients |-> IF c \in Apart THEN {} ELSE News(c)]
DoubtNow == [c \in Clients |-> Uncertain(c)]

LEMMA UnsentMeans ==
    ASSUME NEW c \in Clients
    PROVE  /\ Unsent(c) = {x \in Objects : Due(col[c].obj[x], col[c].grave[x])}
           /\ News(c) = {x \in Objects : Recent(col[Server].obj[x], col[Server].grave[x], col[c].usn)}
           /\ Unsent(c)' = {x \in Objects : Due(col'[c].obj[x], col'[c].grave[x])}
           /\ News(c)' = {x \in Objects : Recent(col'[Server].obj[x], col'[Server].grave[x], col'[c].usn)}
BY DEF Unsent, News, Due, Recent, Held, Holds

LEMMA UnsentSame ==
    ASSUME NEW d \in Clients, \A x \in Objects : SameRow(col[d], col'[d], x)
    PROVE  Unsent(d)' = Unsent(d)
<1>1. \A x \in Objects : Due(col'[d].obj[x], col'[d].grave[x]) <=> Due(col[d].obj[x], col[d].grave[x])
  BY DEF SameRow
<1> QED BY <1>1, UnsentMeans

LEMMA NewsSame ==
    ASSUME NEW d \in Clients, col'[d].usn = col[d].usn,
           \A x \in Objects : SameRow(col[Server], col'[Server], x)
    PROVE  News(d)' = News(d)
<1>1. \A x \in Objects : Recent(col'[Server].obj[x], col'[Server].grave[x], col'[d].usn)
                            <=> Recent(col[Server].obj[x], col[Server].grave[x], col[d].usn)
  BY DEF SameRow
<1> QED BY <1>1, UnsentMeans

Stutters ==
    Apart' = Apart /\ Content' = Content /\ UnsentNow' = UnsentNow /\ NewsNow' = NewsNow /\ DoubtNow' = DoubtNow

LEMMA Stuttering == Stutters => UNCHANGED Promise!vars
BY DEF Stutters, Promise!vars, Content, UnsentNow, NewsNow, DoubtNow

LEMMA DoubtSame == ASSUME UNCHANGED <<blind, doubtful>> PROVE DoubtNow' = DoubtNow
BY DEF DoubtNow, Uncertain

LEMMA PromiseInit == Init => Promise!Init
<1> USE Constants
<1> SUFFICES ASSUME Init PROVE Promise!Init OBVIOUS
<1>1. PICK held \in Starts : col = [s \in Sites |-> Seed(held)] BY DEF Init
<1> DEFINE C == Seed(held)
<1>2. \A s \in Sites : col[s] = C BY <1>1
<1>3. \A x \in Objects : ~Due(C.obj[x], C.grave[x]) /\ ~Recent(C.obj[x], C.grave[x], C.usn)
  BY DEF Seed, Absent, Due, Recent, Held, Unsynced, NoGrave
<1>4. \A x \in Objects : C.obj[x].mtime \in 0..MaxStamp BY BoundsAssumption DEF Seed, Absent
<1> HIDE DEF C
<1>5. Apart = {} BY <1>2 DEF Apart
<1>6. \A c \in Clients : Unsent(c) = {} /\ News(c) = {} BY <1>2, <1>3, UnsentMeans
<1>7. \A c \in Clients : Uncertain(c) = {} BY DEF Init, Uncertain
<1>8. Content \in [Clients \union {Server} -> [Objects -> 0..MaxStamp]]
  BY <1>2, <1>4 DEF Content, Sites
<1>9. \A c \in Clients : Content[c] = Content[Server] BY <1>2 DEF Content
<1> QED BY <1>5, <1>6, <1>7, <1>8, <1>9 DEF Promise!Init, Promise!Nothing, Content

\* A device that takes a new schema stamp parts from the server.
LEMMA PartMaps ==
    ASSUME TypeOK, NEW c \in Clients, NEW D, D.scm = NewScm,
           \A x \in Objects : SameRow(col[c], D, x), D.usn = col[c].usn,
           col' = [col EXCEPT ![c] = D], UNCHANGED <<blind, doubtful>>
    PROVE  Promise!Part(c)
<1> USE Constants
<1>1. col \in [Sites -> Collection] /\ \A s \in Sites : col[s].scm # NewScm
  BY TypeParts, FreshStamps DEF Stored
<1>2. Apart' = Apart \union {c} BY <1>1 DEF Apart
<1>3. Content' = Content
  <2>1. \A s \in Sites, x \in Objects : col'[s].obj[x].mtime = col[s].obj[x].mtime
    BY <1>1 DEF SameRow
  <2> QED BY <2>1 DEF Content
<1>4. \A d \in Clients : d # c => Unsent(d)' = Unsent(d) /\ News(d)' = News(d)
  BY <1>1, UnsentMeans
<1>5. UnsentNow' = [UnsentNow EXCEPT ![c] = {}] BY <1>2, <1>4 DEF UnsentNow
<1>6. NewsNow' = [NewsNow EXCEPT ![c] = {}] BY <1>2, <1>4 DEF NewsNow
<1>7. DoubtNow' = DoubtNow BY DoubtSame
<1> QED BY <1>2, <1>3, <1>5, <1>6, <1>7 DEF Promise!Part, Content, UnsentNow, NewsNow, DoubtNow

LEMMA ForcedMaps ==
    ASSUME IInv, NEW c \in Clients, ForceOneWay(c)
    PROVE  Promise!Part(c)
<1> DEFINE D == [col[c] EXCEPT !.scm = NewScm]
<1>1. col[c] \in Collection /\ NewScm \in Nat BY TypeParts, StoredMeans, FreshStamps, Constants DEF IInv
<1>2. D.scm = NewScm /\ D.usn = col[c].usn /\ \A x \in Objects : SameRow(col[c], D, x)
  BY <1>1 DEF Collection, SameRow
<1>3. col' = [col EXCEPT ![c] = D] /\ UNCHANGED <<blind, doubtful>> BY DEF ForceOneWay, history
<1> HIDE DEF D
<1> QED BY <1>2, <1>3, PartMaps DEF IInv

\* An object that has no grave while it is held has something to send after a change.
LEMMA EditedRowDue ==
    ASSUME NEW un, NEW v \in Row, NEW g \in Int, NEW v2, NEW g2, EditedRow(un, v, g, v2, g2)
    PROVE  /\ (Held(v) => g = NoGrave) => Due(v2, g2)
           /\ v2.mtime \in 0..MaxStamp
BY Constants DEF EditedRow, Held, Due, Absent, NoGrave, Unsynced

LEMMA LocalMaps ==
    ASSUME IInv, NEW c \in Clients, LocalStep(c)
    PROVE  Promise!Change(c) \/ Promise!Part(c) \/ UNCHANGED Promise!vars
<1> USE Constants
<1>1. PICK D \in Collection :
              /\ col' = [col EXCEPT ![c] = D]
              /\ D.usn = col[c].usn /\ UNCHANGED blind
              /\ \/ D.scm = NewScm /\ UNCHANGED doubtful /\ \A x \in Objects : SameRow(col[c], D, x)
                 \/ D.scm = col[c].scm /\ UNCHANGED doubtful /\ \A x \in Objects : SameRow(col[c], D, x)
                 \/ /\ D.scm = col[c].scm
                    /\ \E x \in Objects :
                         /\ doubtful' \in {doubtful, doubtful \union {x}}
                         /\ EditedRow(x \in Unchunked, col[c].obj[x], col[c].grave[x], D.obj[x], D.grave[x])
                         /\ Held(D.obj[x]) => D.grave[x] = NoGrave \/ x \in doubtful'
                         /\ \A y \in Objects \ {x} : SameRow(col[c], D, y)
  BY LocalMeans DEF IInv
<1>2. col \in [Sites -> Collection] BY TypeParts DEF Stored, IInv
<1>3. col'[c] = D /\ \A s \in Sites \ {c} : col'[s] = col[s] BY <1>1, <1>2
<1>4. CASE D.scm = NewScm /\ UNCHANGED doubtful /\ \A x \in Objects : SameRow(col[c], D, x)
  BY <1>1, <1>4, PartMaps DEF IInv
<1>5. CASE D.scm = col[c].scm /\ UNCHANGED doubtful /\ \A x \in Objects : SameRow(col[c], D, x)
  <2>1. Apart' = Apart BY <1>3, <1>5 DEF Apart
  <2>2. \A s \in Sites, x \in Objects : col'[s].obj[x] = col[s].obj[x] /\ col'[s].grave[x] = col[s].grave[x]
    BY <1>3, <1>5 DEF SameRow
  <2>3. \A s \in Sites : col'[s].usn = col[s].usn BY <1>1, <1>3
  <2>4. Content' = Content BY <2>2 DEF Content
  <2>5. \A d \in Clients : Unsent(d)' = Unsent(d) /\ News(d)' = News(d)
    BY <2>2, <2>3, UnsentSame, NewsSame DEF SameRow
  <2>6. UnsentNow' = UnsentNow /\ NewsNow' = NewsNow BY <2>1, <2>5 DEF UnsentNow, NewsNow
  <2>7. DoubtNow' = DoubtNow BY <1>1, <1>5, DoubtSame
  <2> QED BY <2>1, <2>4, <2>6, <2>7, Stuttering DEF Stutters
<1>6. ASSUME D.scm = col[c].scm, NEW x \in Objects, doubtful' \in {doubtful, doubtful \union {x}},
             EditedRow(x \in Unchunked, col[c].obj[x], col[c].grave[x], D.obj[x], D.grave[x]),
             \A y \in Objects \ {x} : SameRow(col[c], D, y)
      PROVE  Promise!Change(c)
  <2> DEFINE m == D.obj[x].mtime
             due == Due(D.obj[x], D.grave[x])
             told == due \/ c \in Apart
             back == doubtful' # doubtful
  <2>1. Apart' = Apart BY <1>3, <1>6 DEF Apart
  <2>2. m \in 0..MaxStamp /\ (told \/ x \in DoubtNow[c])
    <3>1. col[c].obj[x] \in Row /\ col[c].grave[x] \in Int
      BY <1>2 DEF Collection, Version, Usns, Row, NoGrave
    <3>2. /\ (Held(col[c].obj[x]) => col[c].grave[x] = NoGrave) => due
          /\ m \in 0..MaxStamp
      BY <1>6, <3>1, EditedRowDue
    <3>3. (c \notin Apart /\ x \notin doubtful) => (Held(col[c].obj[x]) => col[c].grave[x] = NoGrave)
      BY DEF IInv, RowsInv, ClientsLinked, RowsLinked, Apart, Linked
    <3> QED BY <3>2, <3>3 DEF DoubtNow, Uncertain
  <2>3. Content' = [Content EXCEPT ![c][x] = m]
    <3> DEFINE old == [y \in Objects |-> col[c].obj[y].mtime]
               new == [y \in Objects |-> col'[c].obj[y].mtime]
    <3>1. new = [old EXCEPT ![x] = m] BY <1>3, <1>6 DEF SameRow
    <3>2. Content[c] = old /\ Content'[c] = new BY DEF Content
    <3>3. \A s \in Sites \ {c} : Content'[s] = Content[s] BY <1>3 DEF Content
    <3>4. Content = [s \in Sites |-> Content[s]] /\ Content' = [s \in Sites |-> Content'[s]]
      BY DEF Content
    <3> HIDE DEF old, new, m
    <3>5. Content' = [Content EXCEPT ![c] = new] BY <3>2, <3>3, <3>4
    <3> QED BY <3>1, <3>2, <3>5
  <2>4. Unsent(c)' = IF due THEN Unsent(c) \union {x} ELSE Unsent(c) \ {x}
    BY <1>3, <1>6, UnsentMeans DEF SameRow
  <2>5. \A d \in Clients \ {c} : Unsent(d)' = Unsent(d) BY <1>3, UnsentSame DEF SameRow
  <2>6. UnsentNow' = [UnsentNow EXCEPT ![c] = IF c \in Apart THEN {} ELSE IF told THEN @ \union {x} ELSE @ \ {x}]
    <3> HIDE DEF due
    <3> QED BY <2>1, <2>4, <2>5 DEF UnsentNow
  <2>7. \A d \in Clients : News(d)' = News(d) BY <1>1, <1>3, NewsSame DEF SameRow
  <2>8. NewsNow' = NewsNow BY <2>1, <2>7 DEF NewsNow
  <2>9. DoubtNow' = [d \in Clients |-> DoubtNow[d] \union (IF back THEN {x} ELSE {})]
    BY <1>1, <1>6 DEF DoubtNow, Uncertain
  <2>10. told \in BOOLEAN /\ back \in BOOLEAN /\ m \in 0..MaxStamp BY <2>2
  <2> HIDE DEF m, told, back
  <2>11. \E y \in Objects, t \in 0..MaxStamp, b \in BOOLEAN, s \in BOOLEAN :
            /\ Content' = [Content EXCEPT ![c][y] = t]
            /\ s \/ y \in DoubtNow[c]
            /\ UnsentNow' = [UnsentNow EXCEPT ![c] = IF c \in Apart THEN {} ELSE IF s THEN @ \union {y} ELSE @ \ {y}]
            /\ DoubtNow' = [d \in Clients |-> DoubtNow[d] \union (IF b THEN {y} ELSE {})]
    <3> USE <2>10
    <3> WITNESS x \in Objects, m \in 0..MaxStamp, back \in BOOLEAN, told \in BOOLEAN
    <3> QED BY <2>2, <2>3, <2>6, <2>9
  <2> QED BY <2>1, <2>8, <2>11 DEF Promise!Change, Content, UnsentNow, NewsNow, DoubtNow
<1> QED BY <1>1, <1>4, <1>5, <1>6


\* What the server's new row of an object means for a device with the number u2.
LEMMA OwedRow ==
    ASSUME NEW v, NEW g, NEW w, NEW h, NEW u, NEW k, NEW n, NEW a \in Row, NEW b \in Row, NEW u2 \in Nat,
           Apiece(v, g, w, h, u, k, n), Mixed(v, g, w, k, a, b)
    PROVE  /\ a.mtime \in {v.mtime, w.mtime, 0} /\ b.mtime \in {v.mtime, w.mtime, 0}
           /\ Recent(b, ServerGrave(g, h, n), u2) => Recent(w, h, u2) \/ Due(v, g)
           /\ (b # w /\ Held(b)) => Due(v, g)
           /\ (/\ u2 <= n /\ (Held(w) => h = NoGrave) /\ ((b # w /\ Held(b)) => k >= u2)
               /\ Recent(w, h, u2) \/ b.mtime # w.mtime)
                 => Recent(b, ServerGrave(g, h, n), u2)
BY DEF Apiece, Mixed, ServerGrave, Row, Held, Due, Recent, NoGrave, Unsynced

LEMMA OutcomeMaps ==
    ASSUME TypeOK, RowsInv, NEW c \in Clients, Numbered(c), NEW S, NEW C, Outcome(c, S, C),
           Remembered(c, S), NEW x \in Objects
    PROVE  /\ C.obj[x].mtime \in {col[c].obj[x].mtime, col[Server].obj[x].mtime, 0}
           /\ S.obj[x].mtime \in {col[c].obj[x].mtime, col[Server].obj[x].mtime, 0}
           /\ (Linked(c) /\ x \notin Uncertain(c)) =>
                LET won == Won(col[c].obj[x], col[c].grave[x], col[Server].obj[x], col[Server].grave[x], col[c].usn)
                IN  C.obj[x].mtime = won /\ S.obj[x].mtime = won
           /\ \A d \in Clients : Recent(S.obj[x], S.grave[x], col[d].usn) => x \in News(d) \union Unsent(c)
           /\ (Linked(c) /\ Recent(S.obj[x], S.grave[x], C.usn)) => x \in News(c) \union Unsent(c)
           /\ \A d \in Clients :
                (Linked(d) /\ (x \in News(d) \/ S.obj[x].mtime # col[Server].obj[x].mtime))
                    => Recent(S.obj[x], S.grave[x], col[d].usn) \/ x \in blind'[d] \union doubtful'
           /\ Came(S, x) => x \in Unsent(c)
<1> DEFINE v == col[c].obj[x]
           g == col[c].grave[x]
           w == col[Server].obj[x]
           h == col[Server].grave[x]
           u == col[c].usn
           n == col[Server].usn
           k == sync[c].serverUsn
           a == C.obj[x]
           b == S.obj[x]
           bl == x \in blind[c]
           un == x \in Unchunked
           later == S.grave[x]
<1>1. /\ a \in Row /\ b \in Row /\ Mixed(v, g, w, k, a, b)
      /\ later = ServerGrave(g, h, n) /\ C.usn = k + 1
      /\ Sound(c, x) => Settled(bl, un, v, g, w, h, u, a, b)
  BY DEF Outcome
<1>2. k \in Nat /\ Apiece(v, g, w, h, u, k, n) /\ n \in Nat /\ u \in Nat
  BY TypeParts, PlacedMeans, ApieceRow DEF RowsInv, Apiece
<1>3. \A d \in Clients : col[d].usn \in Nat BY TypeParts, StoredMeans, Constants DEF Collection
<1>4. /\ x \in Unsent(c) <=> Due(v, g)
      /\ \A d \in Clients : x \in News(d) <=> Recent(w, h, col[d].usn)
      /\ Came(S, x) <=> b # w /\ Held(b)
  BY UnsentMeans DEF Came
<1>5. ASSUME NEW d \in Clients, Linked(d), x \notin blind'[d] \union doubtful'
      PROVE  /\ col[d].usn <= n /\ (Held(w) => h = NoGrave)
             /\ (b # w /\ Held(b)) => k >= col[d].usn
  <2>1. x \notin doubtful BY <1>5 DEF Remembered
  <2>2. col[d].usn <= n /\ (Held(w) => h = NoGrave) BY <1>5, <2>1 DEF RowsInv, ClientsLinked, ServerKept
  <2>3. ASSUME b # w, Held(b) PROVE k >= col[d].usn
    <3>1. Linked(c) BY <1>4, <1>5, <2>3 DEF Remembered
    <3>2. CASE d = c BY <1>2, <3>1, <3>2 DEF Numbered
    <3>3. CASE d # c /\ sync[c].late
      <4>1. ~(k < col[d].usn) BY <1>4, <1>5, <2>3, <3>3 DEF Remembered
      <4> QED BY <1>2, <1>3, <4>1
    <3>4. CASE ~sync[c].late
      <4>1. k = n BY <3>4 DEF Numbered
      <4> QED BY <1>2, <1>3, <2>2, <4>1
    <3> QED BY <3>2, <3>3, <3>4
  <2> QED BY <2>2, <2>3
<1>6. (Linked(c) /\ x \notin Uncertain(c)) => Sound(c, x) /\ ~bl BY DEF Sound, Uncertain
<1>7. Linked(c) => u <= k BY DEF Numbered
<1> HIDE DEF v, g, w, h, u, n, k, a, b, bl, un, later
<1>8. a.mtime \in {v.mtime, w.mtime, 0} /\ b.mtime \in {v.mtime, w.mtime, 0} BY <1>1, <1>2, OwedRow
<1>9. (Sound(c, x) /\ ~bl) => a.mtime = Won(v, g, w, h, u) /\ b.mtime = Won(v, g, w, h, u) BY <1>1 DEF Settled
<1>10. \A u2 \in Nat : Recent(b, later, u2) => Recent(w, h, u2) \/ Due(v, g) BY <1>1, <1>2, OwedRow
<1>11. (Linked(c) /\ Recent(b, later, k + 1)) => Recent(w, h, u) \/ Due(v, g)
  <2> SUFFICES ASSUME Linked(c), Recent(b, later, k + 1) PROVE Recent(w, h, u) \/ Due(v, g) OBVIOUS
  <2>1. Recent(w, h, k + 1) \/ Due(v, g) BY <1>2, <1>10
  <2>2. Recent(w, h, k + 1) => Recent(w, h, u) BY <1>2, <1>7 DEF Recent, Apiece, Row
  <2> QED BY <2>1, <2>2
<1>12. (b # w /\ Held(b)) => Due(v, g) BY <1>1, <1>2, OwedRow
<1>13. ASSUME NEW d \in Clients, Linked(d), Recent(w, h, col[d].usn) \/ b.mtime # w.mtime
       PROVE  Recent(b, later, col[d].usn) \/ x \in blind'[d] \union doubtful'
  <2> DEFINE u2 == col[d].usn
  <2>1. u2 \in Nat BY <1>3
  <2>2. Recent(w, h, u2) \/ b.mtime # w.mtime BY <1>13
  <2>3. x \notin blind'[d] \union doubtful' =>
            u2 <= n /\ (Held(w) => h = NoGrave) /\ ((b # w /\ Held(b)) => k >= u2)
    BY <1>5, <1>13
  <2> HIDE DEF u2
  <2>4. (u2 <= n /\ (Held(w) => h = NoGrave) /\ ((b # w /\ Held(b)) => k >= u2)) => Recent(b, later, u2)
    BY <1>1, <1>2, <2>1, <2>2, OwedRow
  <2> QED BY <2>3, <2>4 DEF u2
<1>14. \A d \in Clients : Recent(b, later, col[d].usn) => x \in News(d) \union Unsent(c)
  BY <1>3, <1>4, <1>10
<1>15. (Linked(c) /\ Recent(b, later, C.usn)) => x \in News(c) \union Unsent(c)
  BY <1>1, <1>4, <1>11 DEF u
<1> QED BY <1>4, <1>6, <1>8, <1>9, <1>12, <1>13, <1>14, <1>15 DEF v, g, w, h, u, a, b, later

LEMMA WinnerMeans ==
    ASSUME NEW c \in Clients, c \notin Apart, NEW x \in Objects
    PROVE  Promise!Winner(c, x) = Won(col[c].obj[x], col[c].grave[x], col[Server].obj[x],
                                      col[Server].grave[x], col[c].usn)
<1>1. UnsentNow[c] = Unsent(c) /\ NewsNow[c] = News(c) BY DEF UnsentNow, NewsNow
<1>2. \A t \in Sites : Content[t][x] = col[t].obj[x].mtime BY DEF Content
<1>3. Promise!Winner(c, x) =
         IF x \notin UnsentNow[c] THEN Content[Server][x]
         ELSE IF x \notin NewsNow[c] THEN Content[c][x]
         ELSE IF Content[c][x] = 0 \/ Content[Server][x] = 0 THEN 0
         ELSE IF Content[c][x] > Content[Server][x] THEN Content[c][x] ELSE Content[Server][x]
  BY DEF Promise!Winner, Content, UnsentNow, NewsNow
<1>4. /\ x \in Unsent(c) <=> Due(col[c].obj[x], col[c].grave[x])
      /\ x \in News(c) <=> Recent(col[Server].obj[x], col[Server].grave[x], col[c].usn)
  BY UnsentMeans
<1> QED BY <1>1, <1>2, <1>3, <1>4, Constants DEF Won

LEMMA FinishMaps ==
    ASSUME IInv, NEW c \in Clients, Finish(c)
    PROVE  Promise!Sync(c) \/ Promise!SyncUnanswered(c)
<1> USE Constants
<1>1. TypeOK /\ RowsInv /\ Stands BY DEF IInv
<1>2. Numbered(c) BY <1>1, FinishOutcome
<1>3. PICK S, C : /\ Outcome(c, S, C) /\ Remembered(c, S)
                  /\ \/ col' = [col EXCEPT ![Server] = S, ![c] = C]
                     \/ col' = [col EXCEPT ![Server] = S]
  BY <1>1, FinishOutcome
<1>4. /\ col \in [Sites -> Collection] /\ blind \in [Clients -> SUBSET Objects]
      /\ blind' \in [Clients -> SUBSET Objects] /\ doubtful \subseteq Objects /\ doubtful' \subseteq Objects
  BY <1>1, TypeParts, FinishMarks, RecordedTypes DEF Stored, Noted
<1>5. col'[Server] = S /\ \A d \in Clients \ {c} : col'[d] = col[d] BY <1>3, <1>4
<1>6. S.scm = col[Server].scm /\ C.scm = col[c].scm BY <1>3 DEF Outcome
<1>7. Apart' = Apart BY <1>3, <1>4, <1>6 DEF Apart
<1>8. \A d \in Clients : d \in Apart <=> ~Linked(d) BY DEF Apart, Linked
<1>9. ASSUME NEW x \in Objects
      PROVE  /\ C.obj[x].mtime \in {Content[c][x], Content[Server][x], 0}
             /\ S.obj[x].mtime \in {Content[c][x], Content[Server][x], 0}
             /\ (c \notin Apart /\ x \notin DoubtNow[c]) =>
                   C.obj[x].mtime = Promise!Winner(c, x) /\ S.obj[x].mtime = Promise!Winner(c, x)
  <2>1. /\ C.obj[x].mtime \in {col[c].obj[x].mtime, col[Server].obj[x].mtime, 0}
        /\ S.obj[x].mtime \in {col[c].obj[x].mtime, col[Server].obj[x].mtime, 0}
        /\ (Linked(c) /\ x \notin Uncertain(c)) =>
             LET won == Won(col[c].obj[x], col[c].grave[x], col[Server].obj[x], col[Server].grave[x], col[c].usn)
             IN  C.obj[x].mtime = won /\ S.obj[x].mtime = won
    BY <1>1, <1>2, <1>3, OutcomeMaps
  <2>2. Content[c][x] = col[c].obj[x].mtime /\ Content[Server][x] = col[Server].obj[x].mtime BY DEF Content
  <2>3. DoubtNow[c] = Uncertain(c) BY DEF DoubtNow
  <2> QED BY <1>8, <2>1, <2>2, <2>3, WinnerMeans
<1>10. ASSUME NEW x \in Objects
       PROVE  Promise!Outcome(c, x, C.obj[x].mtime) /\ Promise!Outcome(c, x, S.obj[x].mtime)
  BY <1>9 DEF Promise!Outcome, Content, DoubtNow
<1>11. Content' = [s \in Sites |-> [x \in Objects |-> col'[s].obj[x].mtime]] BY DEF Content
<1>12. \A x \in Objects : Content'[Server][x] = S.obj[x].mtime BY <1>5, <1>11
<1>13. \A x \in Objects : Promise!Outcome(c, x, Content'[Server][x]) BY <1>10, <1>12
<1>14. DoubtNow' \in [Clients -> SUBSET Objects] BY <1>4 DEF DoubtNow, Uncertain
<1>15. Promise!Doubts(c)
  <2>1. ASSUME c \notin Apart, NEW d \in Clients
        PROVE  DoubtNow'[d] \subseteq DoubtNow[d] \union (IF d = c THEN {} ELSE UnsentNow[c])
    <3>1. doubtful' = doubtful BY <1>3, <1>8, <2>1 DEF Remembered
    <3>2. \A x \in Objects : x \in blind'[d] => x \in blind[d] \/ (d # c /\ x \in Unsent(c))
      BY <1>1, <1>2, <1>3, OutcomeMaps DEF Remembered
    <3>3. blind'[d] \subseteq Objects BY <1>4
    <3>4. DoubtNow'[d] = blind'[d] \union doubtful' /\ DoubtNow[d] = blind[d] \union doubtful
      BY DEF DoubtNow, Uncertain
    <3>5. UnsentNow[c] = Unsent(c) BY <2>1 DEF UnsentNow
    <3> QED BY <3>1, <3>2, <3>3, <3>4, <3>5
  <2> QED BY <1>14, <2>1 DEF Promise!Doubts, DoubtNow, UnsentNow
<1>16. NewsNow' \in [Clients -> SUBSET Objects] BY DEF NewsNow, News
<1>17. ASSUME NEW d \in Clients, col'[d] = col[d] PROVE Promise!Owes(c, d)
  <2>1. CASE d \in Apart
    <3>1. NewsNow'[d] = {} BY <1>7, <2>1 DEF NewsNow
    <3> QED BY <2>1, <3>1 DEF Promise!Owes, NewsNow
  <2>2. CASE d \notin Apart
    <3>1. NewsNow[d] = News(d) /\ NewsNow'[d] = News(d)' BY <1>7, <2>2 DEF NewsNow
    <3>2. News(d)' = {x \in Objects : Recent(S.obj[x], S.grave[x], col[d].usn)} BY <1>5, <1>17, UnsentMeans
    <3>3. DoubtNow'[d] = blind'[d] \union doubtful' BY DEF DoubtNow, Uncertain
    <3>4. News(d) \subseteq Objects BY DEF News
    <3>5. \A x \in Objects : Content[Server][x] = col[Server].obj[x].mtime BY DEF Content
    <3>6. (NewsNow[d] \union {x \in Objects : Content'[Server][x] # Content[Server][x]}) \ DoubtNow'[d]
              \subseteq NewsNow'[d]
      <4> SUFFICES ASSUME NEW x \in Objects, x \in News(d) \/ S.obj[x].mtime # col[Server].obj[x].mtime,
                          x \notin blind'[d] \union doubtful'
                   PROVE  Recent(S.obj[x], S.grave[x], col[d].usn)
        BY <1>12, <3>1, <3>2, <3>3, <3>4, <3>5
      <4> QED BY <1>1, <1>2, <1>3, <1>8, <2>2, OutcomeMaps
    <3>7. c \notin Apart => NewsNow'[d] \subseteq NewsNow[d] \union UnsentNow[c]
      <4>1. \A x \in Objects : Recent(S.obj[x], S.grave[x], col[d].usn) => x \in News(d) \union Unsent(c)
        BY <1>1, <1>2, <1>3, OutcomeMaps
      <4>2. c \notin Apart => UnsentNow[c] = Unsent(c) BY DEF UnsentNow
      <4> QED BY <3>1, <3>2, <4>1, <4>2
    <3> QED BY <2>2, <3>6, <3>7 DEF Promise!Owes, NewsNow, DoubtNow, UnsentNow, Content
  <2> QED BY <2>1, <2>2
<1>18. CASE col' = [col EXCEPT ![Server] = S]
  <2>1. \A d \in Clients : col'[d] = col[d] BY <1>4, <1>18
  <2>2. \A d \in Clients : Promise!Owes(c, d) BY <1>17, <2>1
  <2>3. UnsentNow' = UnsentNow
    <3>1. \A d \in Clients : Unsent(d)' = Unsent(d) BY <2>1, UnsentSame DEF SameRow
    <3> QED BY <1>7, <3>1 DEF UnsentNow
  <2>4. Content' = [Content EXCEPT ![Server] = Content'[Server]]
    BY <1>4, <1>11, <1>18 DEF Content
  <2> QED BY <1>7, <1>13, <1>15, <1>16, <2>2, <2>3, <2>4
          DEF Promise!SyncUnanswered, UnsentNow, NewsNow, Content
<1>19. CASE col' = [col EXCEPT ![Server] = S, ![c] = C]
  <2>1. col'[c] = C BY <1>4, <1>19
  <2>2. \A d \in Clients \ {c} : Promise!Owes(c, d) BY <1>5, <1>17
  <2>3. UnsentNow' = [UnsentNow EXCEPT ![c] = {}]
    <3>1. \A d \in Clients \ {c} : Unsent(d)' = Unsent(d) BY <1>5, UnsentSame DEF SameRow
    <3>2. \A x \in Objects : ~Due(C.obj[x], C.grave[x]) BY <1>3 DEF Outcome
    <3>3. Unsent(c)' = {} BY <2>1, <3>2, UnsentMeans
    <3> QED BY <1>7, <3>1, <3>3 DEF UnsentNow
  <2>4. Content' = [Content EXCEPT ![c] = Content'[c], ![Server] = Content'[Server]]
    BY <1>4, <1>11, <1>19 DEF Content
  <2>5. \A x \in Objects : Promise!Outcome(c, x, Content'[c][x])
    <3>1. \A x \in Objects : Content'[c][x] = C.obj[x].mtime BY <1>11, <2>1
    <3> QED BY <1>10, <3>1
  <2>6. NewsNow'[c] \subseteq NewsNow[c] \union UnsentNow[c]
    <3>1. CASE c \in Apart BY <1>7, <3>1 DEF NewsNow
    <3>2. CASE c \notin Apart
      <4>1. NewsNow[c] = News(c) /\ NewsNow'[c] = News(c)' /\ UnsentNow[c] = Unsent(c)
        BY <1>7, <3>2 DEF NewsNow, UnsentNow
      <4>2. News(c)' = {x \in Objects : Recent(S.obj[x], S.grave[x], C.usn)} BY <1>5, <2>1, UnsentMeans
      <4>3. \A x \in Objects : Recent(S.obj[x], S.grave[x], C.usn) => x \in News(c) \union Unsent(c)
        BY <1>1, <1>2, <1>3, <1>8, <3>2, OutcomeMaps
      <4> QED BY <4>1, <4>2, <4>3
    <3> QED BY <3>1, <3>2
  <2> QED BY <1>7, <1>13, <1>15, <1>16, <2>2, <2>3, <2>4, <2>5, <2>6
          DEF Promise!Sync, UnsentNow, NewsNow, Content
<1> QED BY <1>3, <1>18, <1>19


LEMMA UploadMaps ==
    ASSUME IInv, NEW c \in Clients, FullUpload(c)
    PROVE  Promise!Upload(c) \/ UNCHANGED Promise!vars
<1> USE Constants
<1> DEFINE D == BeforeUpload(col[c])
<1>1. /\ col \in [Sites -> Collection] /\ c \in Apart
      /\ \A x \in Objects : col[c].obj[x].usn \in Int /\ col[c].obj[x].usn >= Unsynced
  <2>1. Stored /\ ClientStands(c) BY TypeParts DEF IInv, Stands
  <2>2. c \in Apart BY <2>1, FullUploadShape DEF ClientStands, Apart, Linked
  <2>3. \A x \in Objects : col[c].obj[x].usn \in Int BY <2>1, StoredMeans DEF Collection, Version, Usns
  <2>4. \A x \in Objects : col[c].obj[x].usn >= Unsynced BY DEF IInv, RowsInv, Numbers
  <2> QED BY <2>1, <2>2, <2>3, <2>4 DEF Stored
<1>2. /\ D.usn = col[c].usn + 1 /\ D.scm = NewScm
      /\ \A x \in Objects :
           /\ D.grave[x] = NoGrave
           /\ D.obj[x].mtime = col[c].obj[x].mtime
           /\ D.obj[x].usn = IF x \in Unchunked \/ col[c].obj[x].usn = Unsynced THEN 0
                             ELSE col[c].obj[x].usn
      /\ \A s \in Sites : col[s].scm # NewScm
  BY TypeParts, BeforeUploadMeans, FreshStamps DEF IInv
<1>3. \/ /\ col' = [col EXCEPT ![c] = D, ![Server] = D]
         /\ blind' = [d \in Clients |-> {}] /\ doubtful' = {}
      \/ col' = [col EXCEPT ![c] = D] /\ UNCHANGED <<blind, doubtful>>
  BY FullUploadMarks DEF history
<1> HIDE DEF D
<1>4. Content' = [s \in Sites |-> [x \in Objects |-> col'[s].obj[x].mtime]] BY DEF Content
<1>5. CASE /\ col' = [col EXCEPT ![c] = D, ![Server] = D]
           /\ blind' = [d \in Clients |-> {}] /\ doubtful' = {}
  <2>1. col'[c] = D /\ col'[Server] = D /\ \A d \in Clients \ {c} : col'[d] = col[d]
    BY <1>1, <1>5
  <2>2. Apart' = Clients \ {c} BY <1>2, <2>1 DEF Apart
  <2>3. \A x \in Objects : ~Due(D.obj[x], D.grave[x])
    BY <1>1, <1>2 DEF Due, NoGrave, Unsynced
  <2>4. Unsent(c)' = {} BY <2>1, <2>3, UnsentMeans
  <2>5. UnsentNow' = [d \in Clients |-> {}] BY <2>2, <2>4 DEF UnsentNow
  <2>6. NewsNow' = [[d \in Clients |-> {}] EXCEPT ![c] = News(c)'] BY <2>2 DEF NewsNow
  <2>7. News(c)' \in SUBSET Objects BY DEF News
  <2>8. DoubtNow' = [d \in Clients |-> {}] BY <1>5 DEF DoubtNow, Uncertain
  <2>9. Content' = [Content EXCEPT ![Server] = Content[c]]
    <3>1. [x \in Objects |-> D.obj[x].mtime] = [x \in Objects |-> col[c].obj[x].mtime] BY <1>2
    <3>2. \A s \in Sites \ {c, Server} : col'[s] = col[s] BY <1>1, <1>5
    <3>3. Content'[c] = Content[c] /\ Content'[Server] = Content[c] BY <1>4, <2>1, <3>1 DEF Content
    <3>4. \A s \in Sites \ {c, Server} : Content'[s] = Content[s] BY <3>2 DEF Content
    <3>5. Content = [s \in Sites |-> Content[s]] /\ Content' = [s \in Sites |-> Content'[s]]
      BY DEF Content
    <3> QED BY <3>3, <3>4, <3>5
  <2> DEFINE more == News(c)'
  <2>10. more \in SUBSET Objects /\ NewsNow' = [[d \in Clients |-> {}] EXCEPT ![c] = more] BY <2>6, <2>7
  <2> HIDE DEF more
  <2> QED BY <1>1, <2>2, <2>5, <2>8, <2>9, <2>10
          DEF Promise!Upload, Promise!Nothing, UnsentNow, NewsNow, DoubtNow, Content
<1>6. CASE col' = [col EXCEPT ![c] = D] /\ UNCHANGED <<blind, doubtful>>
  <2>1. col'[c] = D /\ \A s \in Sites \ {c} : col'[s] = col[s] BY <1>1, <1>6
  <2>2. Apart' = Apart BY <1>1, <1>2, <2>1 DEF Apart
  <2>3. \A s \in Sites, x \in Objects : col'[s].obj[x].mtime = col[s].obj[x].mtime BY <1>2, <2>1
  <2>4. Content' = Content BY <2>3 DEF Content
  <2>5. \A d \in Clients \ Apart : Unsent(d)' = Unsent(d) /\ News(d)' = News(d)
    BY <1>1, <2>1, UnsentSame, NewsSame DEF SameRow
  <2>6. UnsentNow' = UnsentNow /\ NewsNow' = NewsNow BY <2>2, <2>5 DEF UnsentNow, NewsNow
  <2>7. DoubtNow' = DoubtNow BY <1>6, DoubtSame
  <2> QED BY <2>2, <2>4, <2>6, <2>7, Stuttering DEF Stutters
<1> QED BY <1>3, <1>5, <1>6

LEMMA DownloadMaps ==
    ASSUME IInv, NEW c \in Clients, FullDownload(c)
    PROVE  Promise!Download(c) \/ UNCHANGED Promise!vars
<1> USE Constants
<1> DEFINE D == Downloaded
           R == col[Server]
<1>1. /\ col \in [Sites -> Collection] /\ blind \in [Clients -> SUBSET Objects] /\ c \in Apart
      /\ D.scm = R.scm /\ D.obj = R.obj /\ D.grave = R.grave
      /\ \A x \in Objects : R.obj[x].usn >= 0 /\ R.grave[x] # Unsynced
  <2>1. Stored /\ ClientStands(c) /\ Noted BY TypeParts DEF IInv, Stands
  <2>2. c \in Apart BY <2>1, FullDownloadShape DEF ClientStands, Apart, Linked
  <2>3. \A x \in Objects : R.obj[x].usn >= 0 /\ R.grave[x] # Unsynced BY DEF IInv, RowsInv, Numbers
  <2> QED BY <2>1, <2>2, <2>3, DownloadedMeans DEF Stored, Noted
<1>2. /\ doubtful' = doubtful
      /\ \/ /\ col' = [col EXCEPT ![c] = D, ![Server] = D]
            /\ blind' = [blind EXCEPT ![c] = {}]
         \/ /\ col' = [col EXCEPT ![Server] = D]
            /\ UNCHANGED blind
  BY FullDownloadShape
<1>3. col'[Server] = D /\ (\A d \in Clients \ {c} : col'[d] = col[d]) /\ (col'[c] = D \/ col'[c] = col[c])
  BY <1>1, <1>2
<1> HIDE DEF D
<1>4. Content' = [s \in Sites |-> [x \in Objects |-> col'[s].obj[x].mtime]] BY DEF Content
<1>5. \A d \in Clients \ {c} : Unsent(d)' = Unsent(d) /\ News(d)' = News(d)
  BY <1>1, <1>3, UnsentSame, NewsSame DEF SameRow
<1>6. \A d \in Clients \ {c} : d \in Apart' <=> d \in Apart BY <1>1, <1>3 DEF Apart
<1>7. CASE col' = [col EXCEPT ![c] = D, ![Server] = D] /\ blind' = [blind EXCEPT ![c] = {}]
  <2>1. col'[c] = D BY <1>1, <1>7
  <2>2. Apart' = Apart \ {c} BY <1>3, <1>6, <2>1 DEF Apart
  <2>3. \A x \in Objects : ~Due(D.obj[x], D.grave[x]) BY <1>1 DEF Due, Unsynced
  <2>4. Unsent(c)' = {} BY <2>1, <2>3, UnsentMeans
  <2>5. UnsentNow' = UnsentNow BY <1>1, <1>5, <1>6, <2>2, <2>4 DEF UnsentNow
  <2> DEFINE more == News(c)'
  <2>6. more \in SUBSET Objects BY DEF News
  <2>7. NewsNow' = [NewsNow EXCEPT ![c] = more] BY <1>1, <1>5, <1>6, <2>2 DEF NewsNow
  <2>8. doubtful \in SUBSET DoubtNow[c] /\ DoubtNow' = [DoubtNow EXCEPT ![c] = doubtful]
    <3>1. \A d \in Clients : DoubtNow[d] = blind[d] \union doubtful BY DEF DoubtNow, Uncertain
    <3>2. \A d \in Clients : DoubtNow'[d] = blind'[d] \union doubtful BY <1>2 DEF DoubtNow, Uncertain
    <3>3. \A d \in Clients : blind'[d] = IF d = c THEN {} ELSE blind[d] BY <1>1, <1>7
    <3>4. \A d \in Clients : DoubtNow'[d] = IF d = c THEN doubtful ELSE DoubtNow[d]
      BY <3>1, <3>2, <3>3
    <3>5. /\ DoubtNow = [d \in Clients |-> DoubtNow[d]]
          /\ DoubtNow' = [d \in Clients |-> DoubtNow'[d]]
      BY DEF DoubtNow
    <3> QED BY <3>1, <3>4, <3>5
  <2>9. Content' = [Content EXCEPT ![c] = Content[Server]]
    <3>1. Content'[c] = Content[Server] /\ Content'[Server] = Content[Server]
      BY <1>1, <1>3, <1>4, <2>1 DEF Content
    <3>2. \A s \in Sites \ {c, Server} : Content'[s] = Content[s] BY <1>3, <1>4 DEF Content, Sites
    <3>3. Content = [s \in Sites |-> Content[s]] /\ Content' = [s \in Sites |-> Content'[s]]
      BY DEF Content
    <3> QED BY <3>1, <3>2, <3>3
  <2> HIDE DEF more
  <2> QED BY <1>1, <2>2, <2>5, <2>6, <2>7, <2>8, <2>9
          DEF Promise!Download, UnsentNow, NewsNow, DoubtNow, Content
<1>8. CASE col' = [col EXCEPT ![Server] = D] /\ UNCHANGED blind
  <2>1. col'[c] = col[c] BY <1>1, <1>8
  <2>2. Apart' = Apart BY <1>1, <1>3, <2>1 DEF Apart
  <2>3. \A s \in Sites, x \in Objects : col'[s].obj[x].mtime = col[s].obj[x].mtime
    BY <1>1, <1>3, <2>1 DEF Sites
  <2>4. Content' = Content BY <2>3 DEF Content
  <2>5. UnsentNow' = UnsentNow /\ NewsNow' = NewsNow BY <1>1, <1>5, <2>2 DEF UnsentNow, NewsNow
  <2>6. DoubtNow' = DoubtNow BY <1>2, <1>8, DoubtSame
  <2> QED BY <2>2, <2>4, <2>5, <2>6, Stuttering DEF Stutters
<1> QED BY <1>2, <1>7, <1>8

LEMMA SameMaps == ASSUME UNCHANGED <<col, history>> PROVE UNCHANGED Promise!vars
<1>1. Apart' = Apart /\ Content' = Content BY DEF Apart, Content
<1>2. \A d \in Clients : Unsent(d)' = Unsent(d) /\ News(d)' = News(d) BY UnsentSame, NewsSame DEF SameRow
<1>3. UnsentNow' = UnsentNow /\ NewsNow' = NewsNow BY <1>1, <1>2 DEF UnsentNow, NewsNow
<1>4. DoubtNow' = DoubtNow BY DoubtSame DEF history
<1> QED BY <1>1, <1>3, <1>4, Stuttering DEF Stutters

\* The committed collections change as if every sync were one atomic merge of a device with the
\* server, whatever requests, answers and aborts are lost in between and whatever other devices
\* do between a device's meta and start: the protocol implements ReplicatedCollection
\* (sync/collection/normal.rs, start.rs, finish.rs, upload.rs, download.rs).
THEOREM SyncIsAtomicMerge == Spec => SyncsAreAtomic
<1>1. ASSUME IInv, [Next]_vars PROVE [Promise!Next]_(Promise!vars)
  <2>1. ASSUME NEW c \in Clients,
               \/ Promise!Change(c) \/ Promise!Part(c) \/ Promise!Sync(c)
               \/ Promise!SyncUnanswered(c) \/ Promise!Upload(c) \/ Promise!Download(c)
        PROVE  Promise!Next
    BY <2>1 DEF Promise!Next
  <2>2. CASE UNCHANGED <<col, history>> BY <2>2, SameMaps
  <2>3. ASSUME NEW c \in Clients, SyncStep(c) PROVE [Promise!Next]_(Promise!vars)
    <3>1. CASE SyncMeta(c) BY <2>2, <3>1 DEF SyncMeta
    <3>2. CASE Start(c) BY <2>2, <3>2 DEF Start
    <3>3. CASE SendGraves(c) BY <2>2, <3>3 DEF SendGraves, Request
    <3>4. CASE UnchunkedChanges(c) BY <2>2, <3>4 DEF UnchunkedChanges, Request
    <3>5. CASE PullChunk(c) BY <2>2, <3>5 DEF PullChunk, Request
    <3>6. CASE PushChunk(c) BY <2>2, <3>6 DEF PushChunk, Request
    <3>7. CASE SanityCheck(c)
      <4>1. CASE ForceOneWay(c) BY <1>1, <2>1, <4>1, ForcedMaps
      <4> QED BY <2>2, <3>7, <4>1 DEF SanityCheck, Request
    <3>8. CASE Finish(c) BY <1>1, <2>1, <3>8, FinishMaps
    <3>9. CASE FinishConflict(c) BY <2>2, <3>9 DEF FinishConflict, Request
    <3>10. CASE FullUpload(c) BY <1>1, <2>1, <3>10, UploadMaps
    <3>11. CASE FullDownload(c) BY <1>1, <2>1, <3>11, DownloadMaps
    <3> QED BY <2>3, <3>1, <3>2, <3>3, <3>4, <3>5, <3>6, <3>7, <3>8, <3>9, <3>10, <3>11 DEF SyncStep
  <2>4. ASSUME NEW c \in Clients, LocalStep(c) PROVE [Promise!Next]_(Promise!vars)
    BY <1>1, <2>1, <2>4, LocalMaps
  <2>5. ASSUME NEW c \in Clients, RequestFails(c) \/ DeliverAbort(c) PROVE [Promise!Next]_(Promise!vars)
    BY <2>2, <2>5 DEF RequestFails, DeliverAbort
  <2>6. CASE ServerRestart BY <2>2, <2>6 DEF ServerRestart
  <2>7. CASE UNCHANGED vars BY <2>2, <2>7 DEF vars
  <2> QED BY <1>1, <2>3, <2>4, <2>5, <2>6, <2>7 DEF Next
<1>2. Spec => []IInv BY InvHolds
<1>3. Init => Promise!Init BY PromiseInit
<1> QED BY <1>1, <1>2, <1>3, PTL DEF Spec, SyncsAreAtomic, Promise!Spec

=============================================================================
