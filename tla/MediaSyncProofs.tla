-------------------------- MODULE MediaSyncProofs --------------------------
(***************************************************************************)
(* Theorems about MediaSync, for every set of devices, files and contents, *)
(* every size of a batch and of a zip, and every bound.                    *)
(***************************************************************************)
EXTENDS MediaSync, FiniteSetTheorems, WellFoundedInduction, TLAPS

-----------------------------------------------------------------------------
(* The inductive invariant.                                                *)

Stages == {"idle", "fetch", "download", "send", "reply", "sanity"}
Holding == [file : Files, sum : Sums]
Pass == [stage : Stages, last : Nat, todo : SUBSET Files, got : SUBSET Holding, del : SUBSET Files,
         clean : SUBSET Holding, sent : SUBSET Holding, reply : Nat]

\* The sequence numbers that anybody remembers are ones that the server has given.
Types ==
    /\ TypeOK
    /\ pass \in [Clients -> Pass]
    /\ \A c \in Clients : pass[c].last <= last /\ pass[c].reply <= last

\* What the server's row says is what its folder holds and what it has had before.
ServerHonest ==
    \A f \in Files \ blind : disk[f] = RemoteSum(f) /\ RemoteSum(f) \in held[f] \union {Absent}

Sum(e) == IF e = NoEntry THEN Absent ELSE e.sum
Dirty(e) == e # NoEntry /\ e.dirty
Above(row, u) == row # NoEntry /\ row.usn > u

\* One file of one device: x in the folder, e in the database, r on the server.
\* The change tracker does not overlook that x is not what e says, unless the server is
\* ahead of the device and no upload is under way.
FolderHonest(x, e, r, u, overlooked, stage) ==
    \/ x = Sum(e)
    \/ ~overlooked
    \/ Above(r, u) /\ stage \notin {"send", "reply", "sanity"}

\* What e says is what the server has, unless one of them is about to learn of it; and
\* what is not to be sent, the server has had.
EntryHonest(e, r, u, h) ==
    /\ Sum(e) = Sum(r) \/ Dirty(e) \/ Above(r, u)
    /\ Dirty(e) \/ Sum(e) \in h \union {Absent}

\* What a batch will have made of the entry is what the server has.
Settled(f, p, e, r) ==
    IF f \in p.todo THEN f \notin Names(p.got)
    ELSE IF f \in Names(p.got) THEN \A g \in p.got : g.file = f => g.sum = Sum(r)
    ELSE IF f \in p.del THEN Sum(r) = Absent
    ELSE IF f \in Names(p.clean) THEN \A g \in p.clean : g.file = f => g.sum = Sum(r)
    ELSE Sum(e) = Sum(r) \/ Dirty(e)

\* What a pass has in hand.
PassHonest(f, p, e, r, u, h) ==
    /\ \A g \in p.got \union p.clean \union p.sent : g.file = f => g.sum \in h \union {Absent}
    /\ p.stage = "fetch" => p.last = u
    /\ p.stage = "download" =>
        /\ p.last >= u
        /\ f \in p.todo => r = NoEntry \/ Above(r, u)
        /\ Above(r, p.last) \/ Settled(f, p, e, r)
    /\ p.stage = "reply" =>
        /\ p.reply >= u
        /\ \A g \in p.sent : g.file = f => g.sum = Sum(r) \/ Above(r, p.reply)

Overlooked(c, f) == c \in noticed \/ (folder[c][f] # Absent /\ f \in exact[c])

DeviceHonest(c, f) ==
    /\ FolderHonest(folder[c][f], db[c][f], srv[f], usn[c], Overlooked(c, f), pass[c].stage)
    /\ EntryHonest(db[c][f], srv[f], usn[c], held[f])
    /\ PassHonest(f, pass[c], db[c][f], srv[f], usn[c], held[f])

DevicesHonest == \A c \in Clients, f \in Files \ blind : DeviceHonest(c, f)
-----------------------------------------------------------------------------
(* Entries and rows.                                                       *)

LEMMA EntryMeans ==
    /\ \A e \in Entry : /\ e = NoEntry \/ (e \in [sum : Sums, dirty : BOOLEAN] /\ e # NoEntry)
                        /\ Sum(e) \in Sums
    /\ \A r \in Row : /\ r = NoEntry \/ (r \in [sum : Sums, usn : Nat] /\ r # NoEntry)
                      /\ Sum(r) \in Sums
    /\ \A s \in Sums, d \in BOOLEAN : /\ [sum |-> s, dirty |-> d] \in Entry
                                      /\ Sum([sum |-> s, dirty |-> d]) = s
                                      /\ Dirty([sum |-> s, dirty |-> d]) <=> d
    /\ \A s \in Sums, n \in Nat : /\ [sum |-> s, usn |-> n] \in Row
                                  /\ [sum |-> s, usn |-> n] # NoEntry
                                  /\ Sum([sum |-> s, usn |-> n]) = s
    /\ NoEntry \in Entry /\ NoEntry \in Row /\ Sum(NoEntry) = Absent
    /\ Absent \in Sums /\ ~Dirty(NoEntry)
<1>1. \A e \in [sum : Sums, dirty : BOOLEAN] : e # NoEntry
  <2> TAKE e \in [sum : Sums, dirty : BOOLEAN]
  <2>1. e = [sum |-> e.sum, dirty |-> e.dirty] /\ e.sum \in Sums /\ e.dirty \in BOOLEAN
    OBVIOUS
  <2> QED BY <2>1, NoEntryAssumption
<1>2. \A s \in Sums, d \in BOOLEAN : [sum |-> s, dirty |-> d] \in [sum : Sums, dirty : BOOLEAN]
  OBVIOUS
<1>3. \A s \in Sums, n \in Nat : [sum |-> s, usn |-> n] \in [sum : Sums, usn : Nat]
  OBVIOUS
<1>4. \A r \in [sum : Sums, usn : Nat] : r # NoEntry
  BY NoEntryAssumption
<1>5. Absent \in Sums BY DEF Sums
<1>6. \A e \in Entry : /\ e = NoEntry \/ (e \in [sum : Sums, dirty : BOOLEAN] /\ e # NoEntry)
                       /\ Sum(e) \in Sums
  BY <1>1, <1>5 DEF Entry, Sum
<1>7. \A r \in Row : /\ r = NoEntry \/ (r \in [sum : Sums, usn : Nat] /\ r # NoEntry)
                     /\ Sum(r) \in Sums
  BY <1>4, <1>5 DEF Row, Sum
<1>8. \A s \in Sums, d \in BOOLEAN : /\ [sum |-> s, dirty |-> d] \in Entry
                                     /\ Sum([sum |-> s, dirty |-> d]) = s
                                     /\ Dirty([sum |-> s, dirty |-> d]) <=> d
  BY <1>1, <1>2 DEF Entry, Sum, Dirty
<1>9. \A s \in Sums, n \in Nat : /\ [sum |-> s, usn |-> n] \in Row
                                 /\ [sum |-> s, usn |-> n] # NoEntry
                                 /\ Sum([sum |-> s, usn |-> n]) = s
  BY <1>3, <1>4 DEF Row, Sum
<1> QED BY <1>5, <1>6, <1>7, <1>8, <1>9 DEF Sum, Dirty, Entry, Row

LEMMA SumsMean ==
    /\ \A c, f : LocalSum(c, f) = Sum(db[c][f])
    /\ \A f : RemoteSum(f) = Sum(srv[f])
BY DEF LocalSum, RemoteSum, Sum

LEMMA PendingMeans ==
    ASSUME NEW entries, NEW f
    PROVE  f \in Pending(entries) <=> f \in Files /\ Dirty(entries[f])
BY DEF Pending, Dirty

\* Marking entries as clean leaves what they say.
LEMMA CleanMeans ==
    ASSUME NEW entries \in [Files -> Entry], NEW X
    PROVE  /\ RecordClean(entries, X) \in [Files -> Entry]
           /\ \A f \in Files : /\ Sum(RecordClean(entries, X)[f]) = Sum(entries[f])
                               /\ f \notin X => RecordClean(entries, X)[f] = entries[f]
<1> SUFFICES ASSUME NEW f \in Files
             PROVE  /\ RecordClean(entries, X)[f] \in Entry
                    /\ Sum(RecordClean(entries, X)[f]) = Sum(entries[f])
                    /\ f \notin X => RecordClean(entries, X)[f] = entries[f]
  BY DEF RecordClean
<1>1. CASE f \in X /\ f \in Pending(entries)
  <2>1. entries[f] \in [sum : Sums, dirty : BOOLEAN]
    BY <1>1, EntryMeans DEF Pending
  <2>2. RecordClean(entries, X)[f] = [sum |-> entries[f].sum, dirty |-> FALSE]
    BY <1>1, <2>1 DEF RecordClean
  <2>3. entries[f].sum \in Sums /\ FALSE \in BOOLEAN BY <2>1
  <2>4. entries[f] # NoEntry BY <1>1 DEF Pending
  <2>5. Sum(entries[f]) = entries[f].sum BY <2>4 DEF Sum
  <2>6. /\ RecordClean(entries, X)[f] \in Entry
        /\ Sum(RecordClean(entries, X)[f]) = entries[f].sum
    BY <2>2, <2>3, EntryMeans
  <2> QED BY <1>1, <2>5, <2>6
<1>2. CASE ~(f \in X /\ f \in Pending(entries))
  BY <1>2 DEF RecordClean
<1> QED BY <1>1, <1>2

\* A file that is marked as removed is known to be gone, and pending unless it was unknown.
LEMMA RemovedMeans ==
    ASSUME NEW entries \in [Files -> Entry], NEW X
    PROVE  /\ MarkRemoved(entries, X) \in [Files -> Entry]
           /\ \A f \in Files \ X : MarkRemoved(entries, X)[f] = entries[f]
           /\ \A f \in X \intersect Files :
                /\ Sum(MarkRemoved(entries, X)[f]) = Absent
                /\ Dirty(MarkRemoved(entries, X)[f]) \/ MarkRemoved(entries, X)[f] = entries[f]
BY EntryMeans DEF MarkRemoved

\* What a batch has fetched is recorded, and what it removed is unknown.
LEMMA RemovalsMean ==
    ASSUME NEW entries \in [Files -> Entry], NEW X
    PROVE  RecordRemovals(entries, X) \in [Files -> Entry]
BY EntryMeans DEF RecordRemovals

LEMMA AdditionsMean ==
    ASSUME NEW entries \in [Files -> Entry], NEW got \in SUBSET Holding
    PROVE  /\ RecordAdditions(entries, got) \in [Files -> Entry]
           /\ \A f \in Files \ Names(got) : RecordAdditions(entries, got)[f] = entries[f]
           /\ \A f \in Files \intersect Names(got) :
                /\ ~Dirty(RecordAdditions(entries, got)[f])
                /\ \E g \in got : g.file = f /\ g.sum = Sum(RecordAdditions(entries, got)[f])
<1>1. \A f \in Names(got) : \E g \in got : g.file = f BY DEF Names
<1>2. \A f \in Names(got) : /\ (CHOOSE g \in got : g.file = f) \in got
                            /\ (CHOOSE g \in got : g.file = f).file = f
  BY <1>1
<1>3. \A g \in got : g.sum \in Sums BY DEF Holding
<1>4. \A f \in Files \ Names(got) : RecordAdditions(entries, got)[f] = entries[f]
  BY DEF RecordAdditions
<1>5. ASSUME NEW f \in Files, f \in Names(got)
      PROVE  /\ RecordAdditions(entries, got)[f] \in Entry
             /\ ~Dirty(RecordAdditions(entries, got)[f])
             /\ \E g \in got : g.file = f /\ g.sum = Sum(RecordAdditions(entries, got)[f])
  <2> DEFINE g == CHOOSE h \in got : h.file = f
  <2>1. RecordAdditions(entries, got)[f] = [sum |-> g.sum, dirty |-> FALSE]
    BY <1>5 DEF RecordAdditions
  <2>2. g \in got /\ g.file = f /\ g.sum \in Sums BY <1>2, <1>3, <1>5
  <2> HIDE DEF g
  <2> QED BY <2>1, <2>2, EntryMeans
<1>6. \A f \in Files : RecordAdditions(entries, got)[f] \in Entry
  BY <1>4, <1>5
<1> QED BY <1>4, <1>5, <1>6 DEF RecordAdditions

\* What the change tracker makes of an entry: nothing, if the file is what it was or looks
\* like it, else what the folder holds, to be sent.
LEMMA ScannedMeans ==
    ASSUME NEW c \in Clients, folder \in [Clients -> [Files -> Sums]],
           db \in [Clients -> [Files -> Entry]]
    PROVE  /\ Scanned(c) \in [Files -> Entry]
           /\ \A f \in Files :
                \/ /\ Scanned(c)[f] = db[c][f]
                   /\ folder[c][f] = Sum(db[c][f]) \/ (folder[c][f] # Absent /\ f \in exact[c])
                \/ Sum(Scanned(c)[f]) = folder[c][f] /\ Dirty(Scanned(c)[f])
<1> SUFFICES ASSUME NEW f \in Files
             PROVE  /\ Scanned(c)[f] \in Entry
                    /\ \/ /\ Scanned(c)[f] = db[c][f]
                          /\ folder[c][f] = Sum(db[c][f]) \/ (folder[c][f] # Absent /\ f \in exact[c])
                       \/ Sum(Scanned(c)[f]) = folder[c][f] /\ Dirty(Scanned(c)[f])
  BY DEF Scanned
<1>1. db[c][f] \in Entry /\ folder[c][f] \in Sums OBVIOUS
<1>2. CASE Scanned(c)[f] = db[c][f] /\ folder[c][f] = Sum(db[c][f])
  BY <1>1, <1>2
<1>3. CASE folder[c][f] = Absent /\ Sum(db[c][f]) # Absent
  <2>1. Scanned(c)[f] = [sum |-> Absent, dirty |-> TRUE] BY <1>3, SumsMean DEF Scanned
  <2> QED BY <1>3, <2>1, EntryMeans
<1>4. CASE folder[c][f] = Absent /\ Sum(db[c][f]) = Absent
  BY <1>1, <1>4, SumsMean DEF Scanned
<1>5. CASE folder[c][f] # Absent /\ Sum(db[c][f]) # Absent /\ f \in exact[c]
  BY <1>1, <1>5, SumsMean DEF Scanned
<1>6. CASE folder[c][f] # Absent /\ ~(Sum(db[c][f]) # Absent /\ f \in exact[c])
  <2>1. CASE Sum(db[c][f]) # Absent /\ folder[c][f] = Sum(db[c][f])
    <3>1. Scanned(c)[f] = [sum |-> folder[c][f], dirty |-> db[c][f].dirty]
      BY <1>6, <2>1, SumsMean DEF Scanned
    <3>2. db[c][f] \in [sum : Sums, dirty : BOOLEAN] /\ db[c][f].sum = folder[c][f]
      BY <1>1, <2>1, EntryMeans DEF Sum
    <3>3. db[c][f] = [sum |-> db[c][f].sum, dirty |-> db[c][f].dirty] BY <3>2
    <3> QED BY <1>1, <2>1, <3>1, <3>2, <3>3
  <2>2. CASE ~(Sum(db[c][f]) # Absent /\ folder[c][f] = Sum(db[c][f]))
    <3>1. Scanned(c)[f] = [sum |-> folder[c][f], dirty |-> TRUE]
      BY <1>6, <2>2, SumsMean DEF Scanned
    <3> QED BY <1>1, <3>1, EntryMeans
  <2> QED BY <2>1, <2>2
<1> QED BY <1>2, <1>3, <1>4, <1>5, <1>6

-----------------------------------------------------------------------------
(* Batches.                                                                *)

LEMMA Least ==
    ASSUME NEW T \in SUBSET Nat, T # {}
    PROVE  \E m \in T : \A x \in T : m <= x
<1>1. PICK m \in T : \A x \in T : ~(<<x, m>> \in OpToRel(<, Nat))
  BY NatLessThanWellFounded, WFMin
<1>2. \A x \in T : ~(x < m)
  <2> TAKE x \in T
  <2>1. <<x, m>> \in Nat \X Nat /\ <<x, m>>[1] = x /\ <<x, m>>[2] = m OBVIOUS
  <2> QED BY <1>1, <2>1 DEF OpToRel
<1>3. \A x \in T : m <= x BY <1>2
<1> QED BY <1>3

LEMMA Largest ==
    ASSUME NEW n \in Nat, NEW T \in SUBSET (0..n), T # {}
    PROVE  \E m \in T : \A x \in T : x <= m
<1> DEFINE Rest == {n - x : x \in T}
<1>0. \A x \in T : x \in 0..n /\ n - x \in Nat OBVIOUS
<1>1. Rest \in SUBSET Nat /\ Rest # {} BY <1>0
<1>2. PICK r \in Rest : \A x \in Rest : r <= x
  <2> HIDE DEF Rest
  <2> QED BY <1>1, Least
<1>3. PICK m \in T : r = n - m OBVIOUS
<1>4. \A x \in T : x <= m
  <2> TAKE x \in T
  <2>1. r <= n - x BY <1>2
  <2> QED BY <1>3, <2>1
<1> QED BY <1>3, <1>4

Numbers == \A f \in Files : srv[f] # NoEntry => srv[f].usn \in 1..last
LastOf(batch) == CHOOSE u \in {srv[f].usn : f \in batch} : \A f \in batch : srv[f].usn <= u

\* A batch after n is empty only if nothing is after n, and whatever is after n and not
\* after the last row of the batch is in it.
LEMMA BatchMeans ==
    ASSUME NEW n \in Nat, last \in Nat, Numbers
    PROVE  LET batch == MediaChangesChunk(n) IN
           /\ batch \subseteq Files
           /\ \A f \in batch : Above(srv[f], n)
           /\ batch = {} => \A f \in Files : ~Above(srv[f], n)
           /\ batch # {} => /\ LastOf(batch) \in n..last
                            /\ \A f \in Files : Above(srv[f], n) => f \in batch \/ Above(srv[f], LastOf(batch))
<1> DEFINE newer == {f \in Files : srv[f] # NoEntry /\ srv[f].usn > n}
           before(f) == {g \in newer : srv[g].usn < srv[f].usn}
           batch == MediaChangesChunk(n)
<1>1. batch = {f \in newer : Cardinality(before(f)) < ChunkSize} BY DEF MediaChangesChunk
<1>2. newer \subseteq Files /\ \A f \in newer : Above(srv[f], n) /\ srv[f].usn \in 1..last
  BY DEF Above, Numbers
<1>3. \A f \in Files : Above(srv[f], n) => f \in newer BY DEF Above
<1>4. \A f \in newer : IsFiniteSet(before(f)) /\ Cardinality(before(f)) \in Nat
  BY FilesAssumption, FS_Subset, FS_CardinalityType
<1>5. ChunkSize \in Nat \ {0} BY SizesAssumption
<1>6. ASSUME newer # {} PROVE batch # {}
  <2> DEFINE U == {srv[f].usn : f \in newer}
  <2>1. U \in SUBSET Nat /\ U # {} BY <1>2, <1>6
  <2>2. PICK m \in U : \A x \in U : m <= x
    <3> HIDE DEF U
    <3> QED BY <2>1, Least
  <2>3. PICK f \in newer : srv[f].usn = m OBVIOUS
  <2>4. \A g \in newer : srv[f].usn <= srv[g].usn BY <2>2, <2>3
  <2>5. before(f) = {} BY <1>2, <2>3, <2>4
  <2>6. Cardinality({}) = 0 BY FS_EmptySet
  <2>7. Cardinality(before(f)) = 0 BY <2>5, <2>6
  <2>8. Cardinality(before(f)) < ChunkSize BY <1>5, <2>7
  <2> QED BY <1>1, <2>3, <2>8
<1>7. ASSUME batch # {} 
      PROVE  /\ LastOf(batch) \in n..last
             /\ \A f \in Files : Above(srv[f], n) => f \in batch \/ Above(srv[f], LastOf(batch))
  <2> DEFINE U == {srv[f].usn : f \in batch}
  <2>1. U \in SUBSET (0..last) /\ U # {}
    <3>1. \A f \in batch : srv[f].usn \in 0..last BY <1>1, <1>2
    <3> QED BY <1>7, <3>1
  <2>2. \E m \in U : \A x \in U : x <= m
    <3> HIDE DEF U
    <3> QED BY <2>1, Largest
  <2>3. \E m \in U : \A f \in batch : srv[f].usn <= m BY <2>2
  <2>4. LastOf(batch) \in U /\ \A f \in batch : srv[f].usn <= LastOf(batch)
    BY <2>3 DEF LastOf
  <2>5. PICK l \in batch : srv[l].usn = LastOf(batch) BY <2>4
  <2>6. l \in newer /\ Cardinality(before(l)) < ChunkSize BY <1>1, <2>5
  <2>7. LastOf(batch) \in n..last BY <1>2, <2>5, <2>6 DEF Above
  <2>8. ASSUME NEW f \in Files, Above(srv[f], n), ~Above(srv[f], LastOf(batch)) PROVE f \in batch
    <3>1. f \in newer /\ srv[f] # NoEntry BY <1>3, <2>8 DEF Above
    <3>2. srv[f].usn <= srv[l].usn BY <1>2, <2>5, <2>6, <2>8, <3>1 DEF Above
    <3>3. before(f) \subseteq before(l) BY <1>2, <2>6, <3>1, <3>2
    <3>4. Cardinality(before(f)) <= Cardinality(before(l))
      BY <1>4, <2>6, <3>3, FS_Subset
    <3>5. Cardinality(before(f)) < ChunkSize
      <4> DEFINE a == Cardinality(before(f))
                 b == Cardinality(before(l))
      <4>1. a \in Nat /\ b \in Nat /\ a <= b /\ b < ChunkSize BY <1>4, <2>6, <3>1, <3>4
      <4> HIDE DEF a, b
      <4>2. a < ChunkSize BY <1>5, <4>1
      <4> QED BY <4>2 DEF a
    <3> QED BY <1>1, <3>1, <3>5
  <2> QED BY <2>7, <2>8
<1> HIDE DEF before
<1>8. batch \subseteq Files /\ \A f \in batch : Above(srv[f], n) BY <1>1, <1>2
<1>9. batch = {} => \A f \in Files : ~Above(srv[f], n) BY <1>3, <1>6
<1> HIDE DEF batch
<1>10. (batch # {}) => /\ LastOf(batch) \in n..last
                       /\ \A f \in Files : Above(srv[f], n) => f \in batch \/ Above(srv[f], LastOf(batch))
  BY <1>7
<1> QED BY <1>8, <1>9, <1>10 DEF batch

-----------------------------------------------------------------------------
(* Types.                                                                  *)

DeviceTypes ==
    /\ folder \in [Clients -> [Files -> Sums]] /\ db \in [Clients -> [Files -> Entry]]
    /\ noticed \subseteq Clients /\ exact \in [Clients -> SUBSET Files]

ServerTypes ==
    /\ srv \in [Files -> Row] /\ disk \in [Files -> Sums] /\ last \in 0..MaxUsn
    /\ held \in [Files -> SUBSET Contents] /\ Numbers

PassTypes ==
    /\ usn \in [Clients -> 0..last] /\ pass \in [Clients -> Pass]
    /\ \A c \in Clients : pass[c].last <= last /\ pass[c].reply <= last

LEMMA TypesParts ==
    Types <=> /\ DeviceTypes /\ ServerTypes /\ PassTypes
              /\ blind \subseteq Files /\ events \in 0..MaxEvents
BY DEF Types, TypeOK, DeviceTypes, ServerTypes, PassTypes, Numbers

LEMMA TypesPartsLater ==
    Types' <=> /\ DeviceTypes' /\ ServerTypes' /\ PassTypes'
               /\ (blind \subseteq Files)' /\ (events \in 0..MaxEvents)'
BY DEF Types, TypeOK, DeviceTypes, ServerTypes, PassTypes, Numbers

\* A pass with nothing in hand.
Empty(p) == p.got = {} /\ p.clean = {} /\ p.sent = {}

At(s) == [Idle EXCEPT !.stage = s]
FetchFrom(n) == [Idle EXCEPT !.stage = "fetch", !.last = n]

LEMMA PassForms ==
    /\ Idle = At("idle")
    /\ \A s \in Stages :
        /\ At(s) \in Pass /\ At(s).stage = s /\ At(s).last = 0 /\ At(s).reply = 0
        /\ Empty(At(s))
    /\ \A n \in Nat :
        /\ FetchFrom(n) \in Pass /\ FetchFrom(n).stage = "fetch" /\ FetchFrom(n).last = n
        /\ FetchFrom(n).reply = 0 /\ Empty(FetchFrom(n))
<1>1. Idle = At("idle") BY DEF Idle, At
<1>2. ASSUME NEW s \in Stages
      PROVE  /\ At(s) \in Pass /\ At(s).stage = s /\ At(s).last = 0 /\ At(s).reply = 0
             /\ Empty(At(s))
  BY DEF Idle, Pass, Empty, At
<1>3. ASSUME NEW n \in Nat
      PROVE  /\ FetchFrom(n) \in Pass /\ FetchFrom(n).stage = "fetch" /\ FetchFrom(n).last = n
             /\ FetchFrom(n).reply = 0 /\ Empty(FetchFrom(n))
  BY DEF Idle, Pass, Stages, Empty, FetchFrom
<1> QED BY <1>1, <1>2, <1>3

LEMMA HoldingsMean ==
    ASSUME NEW c \in Clients, NEW X \in SUBSET Files, db \in [Clients -> [Files -> Entry]]
    PROVE  /\ Holdings(c, X) \in SUBSET Holding
           /\ \A g \in Holdings(c, X) : g.file \in X /\ g.sum = Sum(db[c][g.file])
           /\ Names(Holdings(c, X)) = X
<1>1. \A f \in X : Sum(db[c][f]) \in Sums BY EntryMeans
<1>2. \A g \in Holdings(c, X) : \E f \in X : g = [file |-> f, sum |-> Sum(db[c][f])]
  BY SumsMean DEF Holdings
<1>3. \A f \in X : [file |-> f, sum |-> Sum(db[c][f])] \in Holdings(c, X)
  BY SumsMean DEF Holdings
<1>4. \A g \in Holdings(c, X) : g \in Holding /\ g.file \in X /\ g.sum = Sum(db[c][g.file])
  BY <1>1, <1>2 DEF Holding
<1>5. \A f \in X : \E g \in Holdings(c, X) : g.file = f
  BY <1>3
<1> QED BY <1>4, <1>5 DEF Names

LEMMA StageAfterFetch ==
    ASSUME NEW entries
    PROVE  /\ AfterFetch(entries) \in Pass
           /\ AfterFetch(entries).last = 0 /\ AfterFetch(entries).reply = 0
           /\ AfterFetch(entries).stage \in {"send", "sanity"}
           /\ Empty(AfterFetch(entries))
BY PassForms DEF AfterFetch, At, Stages

LEMMA TypesInit == Init => Types
<1> SUFFICES ASSUME Init PROVE Types OBVIOUS
<1>1. Seed \in Contents BY ContentsAssumption DEF Seed
<1>2. Seed \in Sums /\ Absent \in Sums BY <1>1 DEF Sums
<1>3. IsFiniteSet(Seeded) /\ Cardinality(Seeded) \in Nat
  BY FilesAssumption, BoundsAssumption, FS_Subset, FS_CardinalityType
<1>4. last \in 0..MaxUsn BY <1>3, BoundsAssumption DEF Init
<1>5. PICK number \in Bijection(Seeded, 1..last) :
        srv = [f \in Files |-> IF f \in Seeded THEN [sum |-> Seed, usn |-> number[f]] ELSE NoEntry]
  BY DEF Init
<1>6. number \in [Seeded -> 1..last] BY DEF Bijection, Injection
<1>7. ASSUME NEW f \in Files
      PROVE  srv[f] \in Row /\ (srv[f] # NoEntry => srv[f].usn \in 1..last)
  <2>1. CASE f \in Seeded
    <3>1. srv[f] = [sum |-> Seed, usn |-> number[f]] /\ number[f] \in 1..last
      BY <1>5, <1>6, <2>1
    <3>2. number[f] \in Nat BY <1>4, <3>1
    <3> QED BY <1>2, <3>1, <3>2, EntryMeans
  <2>2. CASE f \notin Seeded BY <1>5, <2>2, EntryMeans
  <2> QED BY <2>1, <2>2
<1>8. srv \in [Files -> Row] /\ Numbers BY <1>5, <1>7 DEF Numbers
<1>9. disk \in [Files -> Sums] /\ held \in [Files -> SUBSET Contents]
  BY <1>1, <1>2 DEF Init
<1>10. ServerTypes BY <1>4, <1>8, <1>9 DEF ServerTypes
<1>11. DeviceTypes
  <2>1. \A f \in Files : (IF f \in Seeded THEN [sum |-> Seed, dirty |-> FALSE] ELSE NoEntry) \in Entry
    BY <1>2, EntryMeans
  <2>2. db \in [Clients -> [Files -> Entry]] BY <2>1 DEF Init
  <2> QED BY <1>9, <2>2 DEF Init, DeviceTypes
<1>12. PassTypes
  <2>1. last \in 0..last BY <1>4, BoundsAssumption
  <2>2. \A c \in Clients : pass[c] = Idle /\ usn[c] = last BY DEF Init
  <2>0. Idle \in Pass /\ Idle.last = 0 /\ Idle.reply = 0 BY PassForms DEF Stages
  <2>3. pass \in [Clients -> Pass] /\ usn \in [Clients -> 0..last]
    BY <2>0, <2>1 DEF Init
  <2>4. \A c \in Clients : pass[c].last = 0 /\ pass[c].reply = 0 BY <2>0, <2>2
  <2>5. 0 <= last BY <1>4, BoundsAssumption
  <2> QED BY <2>3, <2>4, <2>5 DEF PassTypes
<1>13. blind \subseteq Files /\ events \in 0..MaxEvents
  BY BoundsAssumption DEF Init
<1> QED BY <1>10, <1>11, <1>12, <1>13, TypesParts

LEMMA PassTypesStep ==
    ASSUME Types, NEW c \in Clients, NEW p \in Pass, NEW u \in Nat, GoTo(c, p),
           last' \in Nat, last <= last', u <= last', p.last <= last', p.reply <= last',
           usn' = usn \/ usn' = [usn EXCEPT ![c] = u]
    PROVE  PassTypes'
<1>1. last \in Nat /\ PassTypes
  BY BoundsAssumption, TypesParts DEF ServerTypes
<1>2. \A d \in Clients : usn[d] \in 0..last' BY <1>1 DEF PassTypes
<1>3. usn' \in [Clients -> 0..last'] BY <1>1, <1>2 DEF PassTypes
<1>4. pass' \in [Clients -> Pass] BY <1>1 DEF GoTo, PassTypes
<1>5. ASSUME NEW d \in Clients PROVE pass'[d].last <= last' /\ pass'[d].reply <= last'
  <2>1. CASE d = c BY <1>1, <2>1 DEF GoTo, PassTypes
  <2>2. CASE d # c
    <3>1. pass'[d] = pass[d] /\ pass[d] \in Pass BY <1>1, <2>2 DEF GoTo, PassTypes
    <3>2. pass[d].last <= last /\ pass[d].reply <= last BY <1>1 DEF PassTypes
    <3>3. pass[d].last \in Nat /\ pass[d].reply \in Nat BY <3>1 DEF Pass
    <3> QED BY <1>1, <3>1, <3>2, <3>3
  <2> QED BY <2>1, <2>2
<1> QED BY <1>3, <1>4, <1>5 DEF PassTypes

\* What an upload sends is what the folder holds of the pending files.
SentOf(c, X) == [f \in X |-> IF LocalSum(c, f) = Absent THEN Absent ELSE folder[c][f]]

LEMMA UploadTypes ==
    ASSUME Types, NEW sent, NEW X \in SUBSET Files, sent \in [X -> Sums],
           last + Cardinality(Changed(sent)) <= MaxUsn, ProcessUploadedChanges(sent)
    PROVE  /\ ServerTypes' /\ last <= last' /\ last' \in Nat
           /\ \A f \in Files : srv'[f] = srv[f] \/ Above(srv'[f], last)
           /\ \A f \in Files : /\ f \in X => Sum(srv'[f]) = sent[f]
                               /\ disk'[f] = disk[f] \/ disk'[f] = Sum(srv'[f])
                               /\ srv'[f] # srv[f] => disk'[f] = Sum(srv'[f])
                               /\ Sum(srv'[f]) \in held'[f] \union {Absent}
                               /\ held[f] \subseteq held'[f]
<1> DEFINE changed == Changed(sent)
           n == Cardinality(changed)
<1>1. ServerTypes /\ last \in Nat /\ MaxUsn \in Nat
  BY BoundsAssumption, TypesParts DEF ServerTypes
<1>2. changed \subseteq X /\ \A f \in changed : sent[f] \in Sums BY DEF Changed
<1>3. IsFiniteSet(changed) /\ n \in Nat
  BY <1>2, FilesAssumption, FS_Subset, FS_CardinalityType
<1> HIDE DEF changed
<1>4. last' = last + n /\ last' \in 0..MaxUsn /\ last <= last'
  BY <1>1, <1>3 DEF ProcessUploadedChanges, changed
<1>5. PICK number \in Bijection(changed, NextUsns(n)) :
        srv' = [f \in Files |-> IF f \in changed THEN [sum |-> sent[f], usn |-> number[f]] ELSE srv[f]]
  BY DEF ProcessUploadedChanges, changed
<1>6. number \in [changed -> (last + 1)..(last + n)] BY <1>5 DEF Bijection, Injection, NextUsns
<1>7. \A f \in changed : number[f] \in Nat /\ number[f] > last /\ number[f] <= last'
  BY <1>1, <1>3, <1>4, <1>6
<1>8. \A f \in changed : srv'[f] = [sum |-> sent[f], usn |-> number[f]]
  BY <1>2, <1>5
<1>9. \A f \in changed : /\ srv'[f] \in Row /\ srv'[f] # NoEntry
                         /\ Sum(srv'[f]) = sent[f] /\ srv'[f].usn = number[f]
  <2> TAKE f \in changed
  <2>1. sent[f] \in Sums /\ number[f] \in Nat BY <1>2, <1>7
  <2>2. srv'[f] = [sum |-> sent[f], usn |-> number[f]] BY <1>8
  <2>3. srv'[f].usn = number[f] BY <2>2
  <2> QED BY <2>1, <2>2, <2>3, EntryMeans
<1>10. \A f \in Files \ changed : srv'[f] = srv[f] BY <1>5
<1>11. \A f \in Files : srv[f] \in Row /\ (srv[f] # NoEntry => srv[f].usn \in 1..last)
  BY <1>1 DEF ServerTypes, Numbers
<1>12. srv' \in [Files -> Row] BY <1>5, <1>9, <1>10, <1>11
<1>13. Numbers'
  <2>1. \A f \in Files : srv'[f] # NoEntry => srv'[f].usn \in 1..last'
    BY <1>1, <1>4, <1>7, <1>9, <1>10, <1>11
  <2> QED BY <2>1 DEF Numbers
<1>14. ASSUME NEW f \in X, f \notin changed PROVE Sum(srv'[f]) = sent[f]
  <2>1. srv'[f] = srv[f] /\ srv[f] \in Row BY <1>10, <1>11, <1>14
  <2>2. ~RegisterUploadedChange(f, sent[f]) BY <1>14 DEF changed, Changed
  <2> QED BY <2>1, <2>2 DEF RegisterUploadedChange, NonemptyEntry, Sum
<1>15. \A f \in X : Sum(srv'[f]) = sent[f] BY <1>9, <1>14
<1>16. \A f \in Files : disk'[f] = IF f \in changed THEN sent[f] ELSE disk[f]
  BY DEF ProcessUploadedChanges, changed
<1>17. \A f \in Files : held'[f] = held[f] \union ({Sum(srv'[f])} \ {Absent})
  BY DEF ProcessUploadedChanges, RemoteSum, Sum
<1>18. \A f \in Files : Sum(srv'[f]) \in Sums BY <1>12, EntryMeans
<1>19. disk' \in [Files -> Sums] BY <1>1, <1>2 DEF ProcessUploadedChanges, ServerTypes, changed
<1>20. held' \in [Files -> SUBSET Contents]
  <2>1. \A f \in Files : held'[f] \in SUBSET Contents BY <1>1, <1>17, <1>18 DEF ServerTypes, Sums
  <2>2. held' = [f \in Files |-> held'[f]] BY DEF ProcessUploadedChanges
  <2> QED BY <2>1, <2>2
<1>21. ServerTypes' BY <1>4, <1>12, <1>13, <1>19, <1>20 DEF ServerTypes
<1>22. \A f \in Files : srv'[f] = srv[f] \/ Above(srv'[f], last)
  BY <1>7, <1>9, <1>10 DEF Above
<1>23. \A f \in Files : /\ disk'[f] = disk[f] \/ disk'[f] = Sum(srv'[f])
                        /\ srv'[f] # srv[f] => disk'[f] = Sum(srv'[f])
  BY <1>9, <1>10, <1>16
<1>24. \A f \in Files : /\ Sum(srv'[f]) \in held'[f] \union {Absent}
                        /\ held[f] \subseteq held'[f]
  BY <1>17
<1> QED BY <1>4, <1>15, <1>21, <1>22, <1>23, <1>24

LEMMA RegisteredMeans ==
    ASSUME Types, NEW c \in Clients
    PROVE  /\ Registered(c) \in [Files -> Entry]
           /\ \A f \in Files :
                \/ /\ Registered(c)[f] = db[c][f]
                   /\ folder[c][f] = Sum(db[c][f]) \/ Overlooked(c, f)
                \/ Sum(Registered(c)[f]) = folder[c][f] /\ Dirty(Registered(c)[f])
<1>1. db \in [Clients -> [Files -> Entry]] /\ folder \in [Clients -> [Files -> Sums]]
  BY TypesParts DEF DeviceTypes
<1>2. CASE c \in noticed BY <1>1, <1>2 DEF Registered, Overlooked
<1>3. CASE c \notin noticed BY <1>1, <1>3, ScannedMeans DEF Registered, Overlooked
<1> QED BY <1>2, <1>3

\* What follows the look at the folder.
AfterBegin(c) ==
    IF usn[c] # last THEN [Idle EXCEPT !.stage = "fetch", !.last = usn[c]]
    ELSE IF Pending(Registered(c)) # {} THEN [Idle EXCEPT !.stage = "send"]
    ELSE Idle

LEMMA BeginShape ==
    ASSUME Types, NEW c \in Clients, Begin(c)
    PROVE  /\ GoTo(c, AfterBegin(c)) /\ AfterBegin(c) \in Pass
           /\ AfterBegin(c).last <= last /\ AfterBegin(c).reply = 0 /\ Empty(AfterBegin(c))
           /\ \/ AfterBegin(c).stage = "fetch" /\ AfterBegin(c).last = usn[c]
              \/ AfterBegin(c).stage \in {"send", "idle"} /\ usn[c] = last
<1>1. GoTo(c, AfterBegin(c)) BY DEF Begin, AfterBegin
<1>2. last \in Nat /\ usn[c] \in Nat /\ usn[c] <= last
  BY BoundsAssumption, TypesParts DEF ServerTypes, PassTypes
<1>3. CASE usn[c] # last
  <2>1. AfterBegin(c) = FetchFrom(usn[c]) BY <1>3 DEF AfterBegin, FetchFrom
  <2> QED BY <1>1, <1>2, <2>1, PassForms
<1>4. CASE usn[c] = last
  <2>1. AfterBegin(c) \in {At("send"), At("idle")} BY <1>4, PassForms DEF AfterBegin, At
  <2> QED BY <1>1, <1>2, <1>4, <2>1, PassForms DEF Stages
<1> QED BY <1>3, <1>4

LEMMA TypesBegin == ASSUME Types, NEW c \in Clients, Begin(c) PROVE Types'
<1>1. db' = [db EXCEPT ![c] = Registered(c)] /\ Registered(c) \in [Files -> Entry]
  BY RegisteredMeans DEF Begin
<1>2. DeviceTypes' BY <1>1, TypesParts DEF Begin, DeviceTypes
<1>3. ServerTypes' BY TypesParts DEF Begin, ServerTypes, serverVars, Numbers
<1>4. last \in Nat /\ last' = last /\ usn' = usn
  BY BoundsAssumption, TypesParts DEF Begin, ServerTypes, PassTypes, serverVars
<1>5. PassTypes' BY <1>4, BeginShape, PassTypesStep
<1>6. (blind \subseteq Files)' /\ (events \in 0..MaxEvents)' BY TypesParts DEF Begin
<1> QED BY <1>2, <1>3, <1>5, <1>6, TypesPartsLater

FetchDel(c) ==
    {f \in MediaChangesChunk(pass[c].last) :
        RequiredChange(LocalSum(c, f), srv[f].sum, db[c][f] # NoEntry, f \in Pending(db[c])) = "delete"}

\* The two outcomes of asking for a batch.
LEMMA FetchShape ==
    ASSUME Types, NEW c \in Clients, Fetch(c)
    PROVE  LET batch == MediaChangesChunk(pass[c].last)
               Required(f) == RequiredChange(Sum(db[c][f]), Sum(srv[f]), db[c][f] # NoEntry, Dirty(db[c][f]))
           IN  /\ pass[c].stage = "fetch" /\ pass[c].last \in 0..last
               /\ \/ /\ batch = {}
                     /\ GoTo(c, AfterFetch(db[c])) /\ UNCHANGED <<folder, db>>
                  \/ /\ batch # {}
                     /\ FetchDel(c) = {f \in batch : Required(f) = "delete"}
                     /\ folder' = [folder EXCEPT ![c] =
                            [f \in Files |-> IF f \in Trashed(c, FetchDel(c)) THEN Absent ELSE folder[c][f]]]
                     /\ db' = [db EXCEPT ![c] = MarkRemoved(db[c], FetchDel(c))]
                     /\ \E p \in Pass :
                            /\ GoTo(c, p) /\ p.stage = "download" /\ p.reply = 0
                            /\ p.last = LastOf(batch) /\ p.del = FetchDel(c)
                            /\ p.todo = {f \in batch : Required(f) = "download"}
                            /\ p.got = {} /\ p.sent = {}
                            /\ p.clean = Holdings(c, {f \in batch : Required(f) = "remove_pending"})
               /\ UNCHANGED <<usn, noticed, exact, serverVars, blind, events>>
<1> DEFINE batch == MediaChangesChunk(pass[c].last)
           Required(f) == RequiredChange(Sum(db[c][f]), Sum(srv[f]), db[c][f] # NoEntry, Dirty(db[c][f]))
           RequiredRow(f) == RequiredChange(LocalSum(c, f), srv[f].sum, db[c][f] # NoEntry, f \in Pending(db[c]))
<1>1. /\ last \in Nat /\ srv \in [Files -> Row] /\ Numbers /\ db \in [Clients -> [Files -> Entry]]
      /\ pass[c] \in Pass /\ pass[c].last <= last
  BY TypesParts, BoundsAssumption DEF ServerTypes, PassTypes, DeviceTypes
<1>2. pass[c].last \in Nat BY <1>1 DEF Pass
<1>3. batch \subseteq Files /\ \A f \in batch : Above(srv[f], pass[c].last)
  BY <1>1, <1>2, BatchMeans
<1>4. ASSUME batch # {} PROVE LastOf(batch) \in pass[c].last..last
  BY <1>1, <1>2, <1>4, BatchMeans
<1> HIDE DEF batch
<1>5. \A f \in batch : /\ srv[f].sum = Sum(srv[f]) /\ LocalSum(c, f) = Sum(db[c][f])
                       /\ f \in Pending(db[c]) <=> Dirty(db[c][f])
  BY <1>3, SumsMean, PendingMeans DEF Above, Sum
<1>6. \A f \in batch : RequiredRow(f) = Required(f) BY <1>5 DEF RequiredChange
<1> HIDE DEF Required, RequiredRow
<1>7. \A s : {f \in batch : RequiredRow(f) = s} = {f \in batch : Required(f) = s}
  BY <1>6
<1>8. FetchDel(c) = {f \in batch : RequiredRow(f) = "delete"} BY DEF FetchDel, RequiredRow, batch
<1>9. pass[c].stage = "fetch" /\ UNCHANGED <<usn, noticed, exact, serverVars, blind, events>>
  BY DEF Fetch
<1>10. ASSUME batch = {} PROVE GoTo(c, AfterFetch(db[c])) /\ UNCHANGED <<folder, db>>
  BY <1>10 DEF Fetch, batch
<1>11. ASSUME batch # {}
       PROVE  /\ folder' = [folder EXCEPT ![c] =
                    [f \in Files |-> IF f \in Trashed(c, FetchDel(c)) THEN Absent ELSE folder[c][f]]]
              /\ db' = [db EXCEPT ![c] = MarkRemoved(db[c], FetchDel(c))]
              /\ GoTo(c, [Idle EXCEPT !.stage = "download", !.del = FetchDel(c), !.last = LastOf(batch),
                              !.todo = {f \in batch : RequiredRow(f) = "download"},
                              !.clean = Holdings(c, {f \in batch : RequiredRow(f) = "remove_pending"})])
  <2>1. ~(batch = {}) BY <1>11
  <2> QED BY <2>1 DEF Fetch, FetchDel, LastOf, RequiredRow, batch
<1>12. \A X : {f \in batch : X = RequiredRow(f)} \subseteq Files BY <1>3
<1>13. ASSUME batch # {}
       PROVE  \E p \in Pass :
                /\ GoTo(c, p) /\ p.stage = "download" /\ p.reply = 0
                /\ p.last = LastOf(batch) /\ p.del = FetchDel(c)
                /\ p.todo = {f \in batch : Required(f) = "download"}
                /\ p.got = {} /\ p.sent = {}
                /\ p.clean = Holdings(c, {f \in batch : Required(f) = "remove_pending"})
  <2> DEFINE D == FetchDel(c)
             L == LastOf(batch)
             T == {f \in batch : RequiredRow(f) = "download"}
             H == {f \in batch : RequiredRow(f) = "remove_pending"}
             K == Holdings(c, H)
             p == [Idle EXCEPT !.stage = "download", !.del = D, !.last = L, !.todo = T, !.clean = K]
  <2>1. GoTo(c, p) BY <1>11, <1>13
  <2>2. D \in SUBSET Files /\ T \in SUBSET Files /\ H \in SUBSET Files BY <1>3, <1>8
  <2>3. L \in Nat BY <1>2, <1>4, <1>13
  <2>4. K \in SUBSET Holding BY <1>1, <2>2, HoldingsMean
  <2>5. /\ T = {f \in batch : Required(f) = "download"}
        /\ K = Holdings(c, {f \in batch : Required(f) = "remove_pending"})
    BY <1>7
  <2>6. D = FetchDel(c) /\ L = LastOf(batch) OBVIOUS
  <2> HIDE DEF D, L, T, H, K
  <2>7. /\ p \in Pass /\ p.stage = "download" /\ p.reply = 0 /\ p.last = L /\ p.del = D
        /\ p.todo = T /\ p.got = {} /\ p.sent = {} /\ p.clean = K
    BY <2>2, <2>3, <2>4 DEF Idle, Pass, Stages
  <2> HIDE DEF p
  <2> QED BY <2>1, <2>5, <2>6, <2>7
<1>14. FetchDel(c) = {f \in batch : Required(f) = "delete"} BY <1>7, <1>8
<1>15. pass[c].last \in 0..last BY <1>1, <1>2
<1> QED BY <1>9, <1>10, <1>11, <1>13, <1>14, <1>15 DEF batch, Required

LEMMA TypesFetch == ASSUME Types, NEW c \in Clients, Fetch(c) PROVE Types'
<1> DEFINE batch == MediaChangesChunk(pass[c].last)
<1>1. DeviceTypes /\ ServerTypes /\ PassTypes /\ last \in Nat
  BY TypesParts, BoundsAssumption DEF ServerTypes
<1>2. UNCHANGED <<usn, noticed, exact, serverVars, blind, events>> /\ pass[c].last \in 0..last
  BY FetchShape
<1>3. last' = last /\ usn' = usn BY <1>2 DEF serverVars
<1>4. ServerTypes' BY <1>1, <1>2 DEF ServerTypes, serverVars, Numbers
<1>5. (blind \subseteq Files)' /\ (events \in 0..MaxEvents)' BY <1>2, TypesParts
<1>6. CASE batch = {}
  <2>1. GoTo(c, AfterFetch(db[c])) /\ UNCHANGED <<folder, db>> BY <1>6, FetchShape
  <2>2. PassTypes' BY <1>1, <1>3, <2>1, StageAfterFetch, PassTypesStep
  <2>3. DeviceTypes' BY <1>1, <1>2, <2>1 DEF DeviceTypes
  <2> QED BY <1>4, <1>5, <2>2, <2>3, TypesPartsLater
<1>7. CASE batch # {}
  <2>1. /\ folder' = [folder EXCEPT ![c] =
               [f \in Files |-> IF f \in Trashed(c, FetchDel(c)) THEN Absent ELSE folder[c][f]]]
        /\ db' = [db EXCEPT ![c] = MarkRemoved(db[c], FetchDel(c))]
    BY <1>7, FetchShape
  <2>2. PICK p \in Pass : GoTo(c, p) /\ p.reply = 0 /\ p.last = LastOf(batch)
    BY <1>7, FetchShape
  <2>3. LastOf(batch) <= last
    <3>1. pass[c].last \in Nat BY <1>1, <1>2
    <3>2. LastOf(batch) \in pass[c].last..last BY <1>1, <1>7, <3>1, BatchMeans DEF ServerTypes
    <3> QED BY <1>1, <3>1, <3>2
  <2>4. PassTypes' BY <1>1, <1>3, <2>2, <2>3, PassTypesStep
  <2>5. MarkRemoved(db[c], FetchDel(c)) \in [Files -> Entry] BY <1>1, RemovedMeans DEF DeviceTypes
  <2>6. db' \in [Clients -> [Files -> Entry]] BY <1>1, <2>1, <2>5 DEF DeviceTypes
  <2>7. folder' \in [Clients -> [Files -> Sums]] BY <1>1, <2>1 DEF DeviceTypes, Sums
  <2>8. DeviceTypes' BY <1>1, <1>2, <2>6, <2>7 DEF DeviceTypes
  <2> QED BY <1>4, <1>5, <2>4, <2>8, TypesPartsLater
<1> QED BY <1>6, <1>7

\* The three outcomes of a request for files: a conflict, a row forgotten, and the files.
Forgotten(c, f) ==
    /\ Stop(c) /\ UNCHANGED <<folder, noticed, exact>>
    /\ disk[f] = Absent /\ NonemptyEntry(srv, f)
    /\ srv' = [srv EXCEPT ![f] = NoEntry]

Received(c, X, p) ==
    /\ \A f \in X : NonemptyEntry(srv, f)
    /\ srv' = srv
    /\ folder' = [folder EXCEPT ![c] = [f \in Files |-> IF f \in X THEN disk[f] ELSE folder[c][f]]]
    /\ exact' = [exact EXCEPT ![c] = exact[c] \ X]
    /\ noticed' \subseteq noticed /\ \A d \in Clients \ {c} : d \in noticed => d \in noticed'
    /\ GoTo(c, p) /\ p.stage = "download" /\ p.sent = pass[c].sent
    /\ p.last = pass[c].last /\ p.reply = pass[c].reply
    /\ p.del = pass[c].del /\ p.clean = pass[c].clean
    /\ p.todo = pass[c].todo \ X
    /\ p.got = pass[c].got \union {[file |-> f, sum |-> disk[f]] : f \in X}

LEMMA DownloadShape ==
    ASSUME Types, NEW c \in Clients, Download(c)
    PROVE  /\ pass[c].stage = "download"
           /\ UNCHANGED <<db, usn, blind, events, disk, last, held>>
           /\ \/ Stop(c) /\ UNCHANGED <<folder, noticed, exact, srv>>
              \/ \E f \in Files : Forgotten(c, f)
              \/ \E X \in SUBSET pass[c].todo, p \in Pass : Received(c, X, p)
<1>0. pass[c] \in Pass /\ disk \in [Files -> Sums] BY TypesParts DEF PassTypes, ServerTypes
<1>1. pass[c].todo \in SUBSET Files BY <1>0 DEF Pass
<1>2. PICK X \in SUBSET pass[c].todo :
        IF \E f \in X : ~NonemptyEntry(srv, f)
        THEN Stop(c) /\ UNCHANGED <<folder, noticed, exact, serverVars>>
        ELSE IF \E f \in X : disk[f] = Absent
        THEN /\ \E f \in X : disk[f] = Absent /\ srv' = [srv EXCEPT ![f] = NoEntry]
             /\ Stop(c) /\ UNCHANGED <<folder, noticed, exact, disk, last, held>>
        ELSE /\ folder' = [folder EXCEPT ![c] = [f \in Files |-> IF f \in X THEN disk[f] ELSE folder[c][f]]]
             /\ exact' = [exact EXCEPT ![c] = exact[c] \ X]
             /\ noticed' = IF \E f \in X : folder[c][f] = Absent THEN noticed \ {c} ELSE noticed
             /\ GoTo(c, [pass[c] EXCEPT !.todo = pass[c].todo \ X,
                             !.got = pass[c].got \union {[file |-> f, sum |-> disk[f]] : f \in X}])
             /\ UNCHANGED serverVars
  BY DEF Download
<1>3. pass[c].stage = "download" /\ UNCHANGED <<db, usn, blind, events>> BY DEF Download
<1>4. CASE \E f \in X : ~NonemptyEntry(srv, f)
  BY <1>2, <1>3, <1>4 DEF serverVars
<1>5. CASE (\A f \in X : NonemptyEntry(srv, f)) /\ \E f \in X : disk[f] = Absent
  BY <1>1, <1>2, <1>3, <1>5 DEF Forgotten
<1>6. CASE (\A f \in X : NonemptyEntry(srv, f)) /\ \A f \in X : disk[f] # Absent
  <2>1. /\ folder' = [folder EXCEPT ![c] = [f \in Files |-> IF f \in X THEN disk[f] ELSE folder[c][f]]]
        /\ exact' = [exact EXCEPT ![c] = exact[c] \ X]
        /\ noticed' = IF \E f \in X : folder[c][f] = Absent THEN noticed \ {c} ELSE noticed
        /\ GoTo(c, [pass[c] EXCEPT !.todo = pass[c].todo \ X,
                        !.got = pass[c].got \union {[file |-> f, sum |-> disk[f]] : f \in X}])
        /\ UNCHANGED serverVars
    BY <1>2, <1>6
  <2>2. noticed' \subseteq noticed /\ \A d \in Clients \ {c} : d \in noticed => d \in noticed'
    BY <2>1
  <2> DEFINE G == {[file |-> f, sum |-> disk[f]] : f \in X}
             p == [pass[c] EXCEPT !.todo = pass[c].todo \ X, !.got = pass[c].got \union G]
  <2>3. G \in SUBSET Holding BY <1>0, <1>1 DEF Holding
  <2>4. G = {[file |-> f, sum |-> disk[f]] : f \in X} /\ GoTo(c, p) BY <2>1
  <2> HIDE DEF G
  <2>5. /\ p \in Pass /\ p.stage = "download" /\ p.sent = pass[c].sent
        /\ p.last = pass[c].last /\ p.reply = pass[c].reply
        /\ p.del = pass[c].del /\ p.clean = pass[c].clean
        /\ p.todo = pass[c].todo \ X
        /\ p.got = pass[c].got \union G
    BY <1>0, <1>3, <2>3 DEF Pass
  <2> HIDE DEF p
  <2>6. UNCHANGED <<db, usn, blind, events, disk, last, held>> /\ srv' = srv
    BY <1>3, <2>1 DEF serverVars
  <2>7. Received(c, X, p) BY <1>6, <2>1, <2>2, <2>4, <2>5, <2>6 DEF Received
  <2> QED BY <1>3, <2>5, <2>6, <2>7
<1> QED BY <1>4, <1>5, <1>6

LEMMA TypesDownload == ASSUME Types, NEW c \in Clients, Download(c) PROVE Types'
<1>1. DeviceTypes /\ ServerTypes /\ PassTypes /\ last \in Nat
  BY TypesParts, BoundsAssumption DEF ServerTypes
<1>2. UNCHANGED <<db, usn, blind, events, disk, last, held>> BY DownloadShape
<1>3. (blind \subseteq Files)' /\ (events \in 0..MaxEvents)' BY <1>2, TypesParts
<1>4. ASSUME Stop(c) PROVE PassTypes'
  <2>1. GoTo(c, At("idle")) /\ At("idle") \in Pass /\ At("idle").last = 0 /\ At("idle").reply = 0
    BY <1>4, PassForms DEF Stop, Stages
  <2> QED BY <1>1, <1>2, <2>1, PassTypesStep
<1>5. CASE Stop(c) /\ UNCHANGED <<folder, noticed, exact, srv>>
  <2>1. DeviceTypes' /\ ServerTypes' BY <1>1, <1>2, <1>5 DEF DeviceTypes, ServerTypes, Numbers
  <2> QED BY <1>3, <1>4, <1>5, <2>1, TypesPartsLater
<1>6. CASE \E f \in Files : Forgotten(c, f)
  <2>1. PICK f \in Files : srv' = [srv EXCEPT ![f] = NoEntry]
    BY <1>6 DEF Forgotten
  <2>2. srv' \in [Files -> Row] BY <1>1, <2>1, EntryMeans DEF ServerTypes
  <2>3. Numbers' BY <1>1, <1>2, <2>1 DEF Numbers, ServerTypes
  <2>4. Stop(c) /\ UNCHANGED <<folder, noticed, exact>> BY <1>6 DEF Forgotten
  <2>5. DeviceTypes' /\ ServerTypes' BY <1>1, <1>2, <2>2, <2>3, <2>4 DEF DeviceTypes, ServerTypes
  <2> QED BY <1>3, <1>4, <2>4, <2>5, TypesPartsLater
<1>7. CASE \E X \in SUBSET pass[c].todo, p \in Pass : Received(c, X, p)
  <2>1. PICK X \in SUBSET pass[c].todo, p \in Pass : Received(c, X, p) BY <1>7
  <2>2. p.last <= last /\ p.reply <= last BY <1>1, <2>1 DEF PassTypes, Received
  <2>3. PassTypes' BY <1>1, <1>2, <2>1, <2>2, PassTypesStep DEF Received
  <2>4. ServerTypes' BY <1>1, <1>2, <2>1 DEF ServerTypes, Numbers, Received
  <2>5. DeviceTypes' BY <1>1, <1>2, <2>1 DEF DeviceTypes, ServerTypes, Received
  <2> QED BY <1>3, <2>3, <2>4, <2>5, TypesPartsLater
<1> QED BY <1>5, <1>6, <1>7, DownloadShape

\* What the transaction after a batch makes of the entries.
Recorded(c) ==
    RecordAdditions(RecordRemovals(RecordClean(db[c], Names(pass[c].clean)), pass[c].del), pass[c].got)

LEMMA RecordedMeans ==
    ASSUME Types, NEW c \in Clients
    PROVE  /\ Recorded(c) \in [Files -> Entry]
           /\ \A f \in Files :
                /\ f \in Names(pass[c].got) =>
                    /\ ~Dirty(Recorded(c)[f])
                    /\ \E g \in pass[c].got : g.file = f /\ g.sum = Sum(Recorded(c)[f])
                /\ (f \notin Names(pass[c].got) /\ f \in pass[c].del) => Recorded(c)[f] = NoEntry
                /\ (f \notin Names(pass[c].got) /\ f \notin pass[c].del) =>
                    /\ Sum(Recorded(c)[f]) = Sum(db[c][f])
                    /\ f \notin Names(pass[c].clean) => Recorded(c)[f] = db[c][f]
<1> DEFINE e0 == db[c]
           e1 == RecordClean(e0, Names(pass[c].clean))
           e2 == RecordRemovals(e1, pass[c].del)
<1>1. e0 \in [Files -> Entry] /\ pass[c] \in Pass BY TypesParts DEF DeviceTypes, PassTypes
<1> HIDE DEF e0
<1>2. /\ e1 \in [Files -> Entry]
      /\ \A f \in Files : /\ Sum(e1[f]) = Sum(e0[f])
                          /\ f \notin Names(pass[c].clean) => e1[f] = e0[f]
  BY <1>1, CleanMeans
<1> HIDE DEF e1
<1>3. e2 \in [Files -> Entry] BY <1>2, RemovalsMean
<1>4. \A f \in Files : e2[f] = IF f \in pass[c].del THEN NoEntry ELSE e1[f] BY DEF RecordRemovals
<1> HIDE DEF e2
<1>5. pass[c].got \in SUBSET Holding BY <1>1 DEF Pass
<1>6. Recorded(c) = RecordAdditions(e2, pass[c].got) BY DEF Recorded, e0, e1, e2
<1>7. /\ Recorded(c) \in [Files -> Entry]
      /\ \A f \in Files \ Names(pass[c].got) : Recorded(c)[f] = e2[f]
      /\ \A f \in Files \intersect Names(pass[c].got) :
            /\ ~Dirty(Recorded(c)[f])
            /\ \E g \in pass[c].got : g.file = f /\ g.sum = Sum(Recorded(c)[f])
  BY <1>3, <1>5, <1>6, AdditionsMean
<1>8. ASSUME NEW f \in Files, f \notin Names(pass[c].got) PROVE Recorded(c)[f] = e2[f]
  BY <1>7, <1>8
<1>9. ASSUME NEW f \in Files, f \in Names(pass[c].got)
      PROVE  /\ ~Dirty(Recorded(c)[f])
             /\ \E g \in pass[c].got : g.file = f /\ g.sum = Sum(Recorded(c)[f])
  BY <1>7, <1>9
<1>10. e0 = db[c] BY DEF e0
<1> QED BY <1>2, <1>4, <1>7, <1>8, <1>9, <1>10

LEMMA TypesRecord == ASSUME Types, NEW c \in Clients, Record(c) PROVE Types'
<1>1. DeviceTypes /\ ServerTypes /\ PassTypes /\ last \in Nat
  BY TypesParts, BoundsAssumption DEF ServerTypes
<1>2. /\ db' = [db EXCEPT ![c] = Recorded(c)] /\ Recorded(c) \in [Files -> Entry]
      /\ UNCHANGED <<folder, exact, serverVars, events>> /\ noticed' = noticed \union {c}
      /\ usn' = [usn EXCEPT ![c] = pass[c].last] /\ GoTo(c, FetchFrom(pass[c].last))
  BY RecordedMeans DEF Record, Recorded, FetchFrom
<1>3. pass[c].last \in Nat /\ pass[c].last <= last BY <1>1 DEF PassTypes, Pass
<1>4. DeviceTypes' BY <1>1, <1>2 DEF DeviceTypes
<1>5. ServerTypes' BY <1>1, <1>2 DEF ServerTypes, serverVars, Numbers
<1>6. last' = last BY <1>2 DEF serverVars
<1>7. PassTypes'
  <2>1. /\ FetchFrom(pass[c].last) \in Pass /\ FetchFrom(pass[c].last).last <= last'
        /\ FetchFrom(pass[c].last).reply <= last'
    BY <1>1, <1>3, <1>6, PassForms
  <2>2. last' \in Nat /\ last <= last' /\ pass[c].last <= last' BY <1>1, <1>3, <1>6
  <2> QED BY <1>2, <1>3, <2>1, <2>2, PassTypesStep
<1>8. \A h \in pass[c].clean : h.file \in Files BY <1>1 DEF PassTypes, Pass, Holding
<1>9. Outdated(c, pass[c].clean) \subseteq Files BY <1>8 DEF Outdated
<1>10. (blind \subseteq Files)' /\ (events \in 0..MaxEvents)' BY <1>9, TypesParts DEF Record
<1> QED BY <1>4, <1>5, <1>7, <1>10, TypesPartsLater

\* The outcomes of an upload: an answer is under way, it is lost, and a crash that left
\* some of the files in the server's folder.
Answered(c, sent, p) ==
    /\ UNCHANGED events
    /\ GoTo(c, p) /\ p.stage = "reply" /\ p.reply = last' /\ p.last = pass[c].last
    /\ p.got = pass[c].got /\ p.clean = pass[c].clean
    /\ p.sent = {[file |-> f, sum |-> sent[f]] : f \in DOMAIN sent}

Torn(c, sent, X) ==
    /\ disk' = [f \in Files |-> IF f \in X THEN sent[f] ELSE disk[f]]
    /\ blind' = blind \union X
    /\ Stop(c) /\ Event /\ UNCHANGED <<srv, last, held>>

Uploaded(c, X, sent) ==
    \/ /\ ProcessUploadedChanges(sent) /\ UNCHANGED blind
       /\ last + Cardinality(Changed(sent)) <= MaxUsn
       /\ (\E p \in Pass : Answered(c, sent, p)) \/ (Stop(c) /\ Event)
    \/ \E Y \in SUBSET X : Torn(c, sent, Y)

LEMMA UploadShape ==
    ASSUME Types, NEW c \in Clients, Upload(c)
    PROVE  /\ pass[c].stage = "send" /\ UNCHANGED deviceVars
           /\ \E X \in SUBSET Files : \E sent \in [X -> Sums] : Uploaded(c, X, sent)
<1>1. pass[c].stage = "send" /\ UNCHANGED deviceVars BY DEF Upload
<1>2. PICK X \in SUBSET Pending(db[c]) :
        /\ last + Cardinality(Changed(SentOf(c, X))) <= MaxUsn
        /\ \/ /\ ProcessUploadedChanges(SentOf(c, X))
              /\ UNCHANGED blind
              /\ \/ /\ GoTo(c, [pass[c] EXCEPT !.stage = "reply", !.reply = last',
                                  !.sent = {[file |-> f, sum |-> SentOf(c, X)[f]] : f \in X}])
                    /\ UNCHANGED events
                 \/ Stop(c) /\ Event
           \/ \E Y \in SUBSET Changed(SentOf(c, X)) : Torn(c, SentOf(c, X), Y)
  BY DEF Upload, SentOf, Torn
<1> DEFINE sent == SentOf(c, X)
<1>3. X \in SUBSET Files BY DEF Pending
<1>4. DeviceTypes /\ pass[c] \in Pass BY TypesParts DEF PassTypes
<1>5. sent \in [X -> Sums] /\ DOMAIN sent = X BY <1>3, <1>4 DEF SentOf, DeviceTypes, Sums
<1> HIDE DEF sent
<1>6. Changed(sent) \subseteq X BY <1>5 DEF Changed
<1>7. CASE \E Y \in SUBSET Changed(sent) : Torn(c, sent, Y)
  BY <1>1, <1>3, <1>5, <1>6, <1>7 DEF Uploaded
<1>8. CASE /\ ProcessUploadedChanges(sent) /\ UNCHANGED blind
           /\ Stop(c) /\ Event
  BY <1>1, <1>2, <1>3, <1>5, <1>8 DEF sent, Uploaded
<1>9. CASE /\ ProcessUploadedChanges(sent) /\ UNCHANGED blind
           /\ GoTo(c, [pass[c] EXCEPT !.stage = "reply", !.reply = last',
                              !.sent = {[file |-> f, sum |-> sent[f]] : f \in X}])
           /\ UNCHANGED events
  <2> DEFINE Z == {[file |-> f, sum |-> sent[f]] : f \in X}
             p == [pass[c] EXCEPT !.stage = "reply", !.reply = last', !.sent = Z]
  <2>1. Z \in SUBSET Holding BY <1>3, <1>5 DEF Holding
  <2>2. last + Cardinality(Changed(sent)) <= MaxUsn BY <1>2 DEF sent
  <2>3. last' \in Nat BY <1>3, <1>5, <1>9, <2>2, UploadTypes
  <2>4. GoTo(c, p) BY <1>9
  <2>5. Z = {[file |-> f, sum |-> sent[f]] : f \in DOMAIN sent} BY <1>5
  <2> HIDE DEF Z
  <2>6. /\ p \in Pass /\ p.stage = "reply" /\ p.reply = last' /\ p.last = pass[c].last
        /\ p.got = pass[c].got /\ p.clean = pass[c].clean /\ p.sent = Z
    BY <1>4, <2>1, <2>3 DEF Pass, Stages
  <2> HIDE DEF p
  <2>7. Answered(c, sent, p) BY <1>9, <2>4, <2>5, <2>6 DEF Answered
  <2> QED BY <1>1, <1>3, <1>5, <1>9, <2>2, <2>6, <2>7 DEF Uploaded
<1> QED BY <1>2, <1>7, <1>8, <1>9 DEF sent

LEMMA TypesUpload == ASSUME Types, NEW c \in Clients, Upload(c) PROVE Types'
<1>1. /\ DeviceTypes /\ ServerTypes /\ PassTypes /\ last \in Nat /\ events \in 0..MaxEvents
      /\ MaxEvents \in Nat /\ blind \subseteq Files
  BY TypesParts, BoundsAssumption DEF ServerTypes
<1>2. UNCHANGED deviceVars BY UploadShape
<1>3. DeviceTypes' /\ usn' = usn BY <1>1, <1>2 DEF DeviceTypes, deviceVars
<1>9. PICK X \in SUBSET Files : \E sent \in [X -> Sums] : Uploaded(c, X, sent)
  BY UploadShape
<1>4. PICK sent \in [X -> Sums] : Uploaded(c, X, sent) BY <1>9
<1>5. ASSUME Event PROVE (events \in 0..MaxEvents)' BY <1>1, <1>5 DEF Event
<1>6. ASSUME Stop(c), last' \in Nat, last <= last' PROVE PassTypes'
  <2>1. GoTo(c, At("idle")) /\ At("idle") \in Pass /\ At("idle").last = 0 /\ At("idle").reply = 0
    BY <1>6, PassForms DEF Stop, Stages
  <2>2. At("idle").last <= last' /\ At("idle").reply <= last' /\ 0 <= last' BY <1>6, <2>1
  <2> QED BY <1>3, <1>6, <2>1, <2>2, PassTypesStep
<1>7. CASE /\ ProcessUploadedChanges(sent) /\ UNCHANGED blind
           /\ last + Cardinality(Changed(sent)) <= MaxUsn
           /\ (\E p \in Pass : Answered(c, sent, p)) \/ (Stop(c) /\ Event)
  <2>1. ServerTypes' /\ last <= last' /\ last' \in Nat BY <1>4, <1>7, <1>9, UploadTypes
  <2>2. CASE Stop(c) /\ Event BY <1>1, <1>3, <1>5, <1>6, <1>7, <2>1, <2>2, TypesPartsLater
  <2>3. CASE \E p \in Pass : Answered(c, sent, p)
    <3>1. PICK p \in Pass : Answered(c, sent, p) BY <2>3
    <3>2. p.reply = last' /\ p.last = pass[c].last /\ GoTo(c, p) /\ events' = events
      BY <3>1 DEF Answered
    <3>3. p.last \in Nat /\ p.last <= last BY <1>1, <3>2 DEF PassTypes, Pass
    <3>4. p.last <= last' /\ p.reply <= last' BY <1>1, <2>1, <3>2, <3>3
    <3>5. PassTypes' BY <1>3, <2>1, <3>2, <3>4, PassTypesStep
    <3> QED BY <1>1, <1>3, <1>7, <2>1, <3>2, <3>5, TypesPartsLater
  <2> QED BY <1>7, <2>2, <2>3
<1>8. CASE \E Y \in SUBSET X : Torn(c, sent, Y)
  <2>1. PICK Y \in SUBSET X : Torn(c, sent, Y) BY <1>8
  <2>2. disk' \in [Files -> Sums] /\ blind' \subseteq Files
    BY <1>1, <1>4, <1>9, <2>1 DEF Torn, ServerTypes
  <2>3. ServerTypes' BY <1>1, <2>1, <2>2 DEF Torn, ServerTypes, Numbers
  <2>4. PassTypes' /\ (events \in 0..MaxEvents)' BY <1>1, <1>5, <1>6, <2>1 DEF Torn
  <2> QED BY <1>3, <2>2, <2>3, <2>4, TypesPartsLater
<1> QED BY <1>4, <1>7, <1>8 DEF Uploaded

\* Actions that leave the server alone and end in a pass with nothing in hand.
LEMMA StopTypes ==
    ASSUME Types, NEW c \in Clients, Stop(c), last' = last, usn' = usn
    PROVE  PassTypes'
<1>1. last \in Nat BY TypesParts, BoundsAssumption DEF ServerTypes
<1>2. GoTo(c, At("idle")) /\ At("idle") \in Pass /\ At("idle").last = 0 /\ At("idle").reply = 0
  BY PassForms DEF Stop, Stages
<1>3. At("idle").last <= last' /\ At("idle").reply <= last' /\ 0 <= last' BY <1>1, <1>2
<1> QED BY <1>1, <1>2, <1>3, PassTypesStep

AfterReply(c) == At(IF Pending(db'[c]) # {} THEN "send" ELSE "sanity")

LEMMA ReplyShape ==
    ASSUME Types, NEW c \in Clients, Reply(c)
    PROVE  /\ db' = [db EXCEPT ![c] = RecordClean(db[c], Names(pass[c].sent))]
           /\ pass[c].stage = "reply" /\ pass[c] \in Pass
           /\ UNCHANGED <<folder, noticed, exact, serverVars, events>>
           /\ GoTo(c, AfterReply(c)) /\ AfterReply(c) \in Pass /\ Empty(AfterReply(c))
           /\ AfterReply(c).stage \in {"send", "sanity"}
           /\ AfterReply(c).last = 0 /\ AfterReply(c).reply = 0
           /\ Outdated(c, pass[c].sent) \subseteq blind' /\ blind \subseteq blind' /\ blind' \subseteq Files
           /\ \/ usn' = usn
              \/ /\ usn' = [usn EXCEPT ![c] = pass[c].reply]
                 /\ \A f \in Files \ Names(pass[c].sent) :
                        (srv[f] # NoEntry /\ srv[f].usn \in (usn[c] + 1)..pass[c].reply) => f \in blind'
<1> DEFINE advanced == usn[c] + Cardinality(pass[c].sent) = pass[c].reply
           skipped == {f \in Files \ Names(pass[c].sent) :
                          advanced /\ srv[f] # NoEntry /\ srv[f].usn \in (usn[c] + 1)..pass[c].reply}
<1>1. pass[c] \in Pass /\ usn \in [Clients -> 0..last] /\ blind \subseteq Files
  BY TypesParts DEF PassTypes
<1>2. /\ db' = [db EXCEPT ![c] = RecordClean(db[c], Names(pass[c].sent))]
      /\ usn' = [usn EXCEPT ![c] = IF advanced THEN pass[c].reply ELSE usn[c]]
      /\ blind' = blind \union Outdated(c, pass[c].sent) \union skipped
      /\ pass[c].stage = "reply"
      /\ UNCHANGED <<folder, noticed, exact, serverVars, events>>
      /\ GoTo(c, AfterReply(c))
  BY DEF Reply, AfterReply, At
<1>3. \A h \in pass[c].sent : h.file \in Files BY <1>1 DEF Pass, Holding
<1>4. Outdated(c, pass[c].sent) \subseteq Files BY <1>3 DEF Outdated
<1>5. /\ AfterReply(c) \in Pass /\ Empty(AfterReply(c))
      /\ AfterReply(c).stage \in {"send", "sanity"}
      /\ AfterReply(c).last = 0 /\ AfterReply(c).reply = 0
  BY PassForms DEF AfterReply, Stages
<1>6. CASE ~advanced
  <2>1. usn' = usn BY <1>1, <1>2, <1>6
  <2> QED BY <1>1, <1>2, <1>4, <1>5, <2>1
<1>7. CASE advanced
  <2>1. usn' = [usn EXCEPT ![c] = pass[c].reply] BY <1>2, <1>7
  <2>2. \A f \in Files \ Names(pass[c].sent) :
            (srv[f] # NoEntry /\ srv[f].usn \in (usn[c] + 1)..pass[c].reply) => f \in blind'
    BY <1>2, <1>7
  <2> QED BY <1>1, <1>2, <1>4, <1>5, <2>1, <2>2
<1> QED BY <1>6, <1>7

LEMMA TypesReply == ASSUME Types, NEW c \in Clients, Reply(c) PROVE Types'
<1>1. DeviceTypes /\ ServerTypes /\ PassTypes /\ last \in Nat
  BY TypesParts, BoundsAssumption DEF ServerTypes
<1>2. RecordClean(db[c], Names(pass[c].sent)) \in [Files -> Entry] BY <1>1, CleanMeans DEF DeviceTypes
<1>3. DeviceTypes' BY <1>1, <1>2, ReplyShape DEF DeviceTypes
<1>4. UNCHANGED <<serverVars, events>> BY ReplyShape
<1>5. ServerTypes' /\ last' = last BY <1>1, <1>4 DEF ServerTypes, serverVars, Numbers
<1>6. pass[c].reply \in Nat /\ pass[c].reply <= last BY <1>1 DEF PassTypes, Pass
<1>7. /\ GoTo(c, AfterReply(c)) /\ AfterReply(c) \in Pass
      /\ AfterReply(c).last <= last' /\ AfterReply(c).reply <= last'
  BY <1>1, <1>5, ReplyShape
<1>8. usn' = usn \/ usn' = [usn EXCEPT ![c] = pass[c].reply] BY ReplyShape
<1>9. last' \in Nat /\ last <= last' /\ pass[c].reply <= last' BY <1>1, <1>5, <1>6
<1>10. PassTypes' BY <1>6, <1>7, <1>8, <1>9, PassTypesStep
<1>11. (blind \subseteq Files)' /\ (events \in 0..MaxEvents)' BY <1>4, ReplyShape, TypesParts
<1> QED BY <1>3, <1>5, <1>10, <1>11, TypesPartsLater

LEMMA TypesSanity == ASSUME Types, NEW c \in Clients, Sanity(c) PROVE Types'
<1>1. DeviceTypes /\ ServerTypes /\ PassTypes /\ last \in Nat
  BY TypesParts, BoundsAssumption DEF ServerTypes
<1>2. UNCHANGED <<folder, serverVars, blind, events>> /\ Stop(c) BY DEF Sanity
<1>3. ServerTypes' /\ last' = last BY <1>1, <1>2 DEF ServerTypes, serverVars, Numbers
<1>4. (blind \subseteq Files)' /\ (events \in 0..MaxEvents)' BY <1>2, TypesParts
<1>5. CASE UNCHANGED <<db, usn, noticed, exact>>
  <2>1. DeviceTypes' BY <1>1, <1>2, <1>5 DEF DeviceTypes
  <2> QED BY <1>2, <1>3, <1>4, <1>5, <2>1, StopTypes, TypesPartsLater
<1>6. CASE /\ db' = [db EXCEPT ![c] = [f \in Files |-> NoEntry]]
           /\ usn' = [usn EXCEPT ![c] = 0]
           /\ noticed' = noticed \ {c}
           /\ exact' = [exact EXCEPT ![c] = {}]
  <2>1. DeviceTypes' BY <1>1, <1>2, <1>6, EntryMeans DEF DeviceTypes
  <2>2. GoTo(c, At("idle")) /\ At("idle") \in Pass /\ At("idle").last = 0 /\ At("idle").reply = 0
    BY <1>2, PassForms DEF Stop, Stages
  <2>3. At("idle").last <= last' /\ At("idle").reply <= last' /\ 0 <= last' /\ last <= last' /\ 0 \in Nat
    BY <1>1, <1>3, <2>2
  <2>4. PassTypes' BY <1>1, <1>3, <1>6, <2>2, <2>3, PassTypesStep
  <2> QED BY <1>3, <1>4, <2>1, <2>4, TypesPartsLater
<1> QED BY <1>5, <1>6 DEF Sanity

LEMMA TypesFail == ASSUME Types, NEW c \in Clients, Fail(c) PROVE Types'
<1>1. DeviceTypes /\ ServerTypes /\ PassTypes /\ MaxEvents \in Nat /\ events \in 0..MaxEvents
  BY TypesParts, BoundsAssumption
<1>2. UNCHANGED <<deviceVars, serverVars, blind>> /\ Stop(c) /\ Event BY DEF Fail
<1>3. DeviceTypes' /\ usn' = usn BY <1>1, <1>2 DEF DeviceTypes, deviceVars
<1>4. ServerTypes' /\ last' = last BY <1>1, <1>2 DEF ServerTypes, serverVars, Numbers
<1>5. PassTypes' BY <1>2, <1>3, <1>4, StopTypes
<1>6. (blind \subseteq Files)' /\ (events \in 0..MaxEvents)' BY <1>1, <1>2, TypesParts DEF Event
<1> QED BY <1>3, <1>4, <1>5, <1>6, TypesPartsLater

\* What the changes of a folder have in common.
LEMMA FolderTypes ==
    ASSUME Types, NEW c \in Clients, NEW f \in Files, Event, DeviceTypes', (blind \subseteq Files)',
           UNCHANGED <<usn, serverVars, pass>>
    PROVE  Types'
<1>1. DeviceTypes /\ ServerTypes /\ PassTypes /\ MaxEvents \in Nat /\ events \in 0..MaxEvents
  BY TypesParts, BoundsAssumption
<1>2. ServerTypes' /\ last' = last BY <1>1 DEF ServerTypes, serverVars, Numbers
<1>3. PassTypes' BY <1>1, <1>2 DEF PassTypes
<1>4. (events \in 0..MaxEvents)' BY <1>1 DEF Event
<1> QED BY <1>2, <1>3, <1>4, TypesPartsLater

LEMMA TypesAddFile ==
    ASSUME Types, NEW c \in Clients, NEW f \in Files, NEW s \in Contents, AddFile(c, f, s)
    PROVE  Types'
<1>1. DeviceTypes /\ blind \subseteq Files /\ s \in Sums BY TypesParts DEF Sums
<1>2. [sum |-> s, dirty |-> TRUE] \in Entry BY <1>1, EntryMeans
<1>3. \/ db' = [db EXCEPT ![c][f] = [sum |-> s, dirty |-> TRUE]] /\ exact' = [exact EXCEPT ![c] = @ \ {f}]
      \/ db' = db /\ exact' = exact
  BY DEF AddFile
<1>4. db' \in [Clients -> [Files -> Entry]] /\ exact' \in [Clients -> SUBSET Files]
  <2> DEFINE e == [sum |-> s, dirty |-> TRUE]
  <2>1. db \in [Clients -> [Files -> Entry]] /\ exact \in [Clients -> SUBSET Files] /\ e \in Entry
    BY <1>1, <1>2 DEF DeviceTypes
  <2>2. CASE db' = [db EXCEPT ![c][f] = e] /\ exact' = [exact EXCEPT ![c] = @ \ {f}]
    <3> HIDE DEF e
    <3> QED BY <2>1, <2>2
  <2>3. CASE db' = db /\ exact' = exact BY <2>1, <2>3
  <2> QED BY <1>3, <2>2, <2>3
<1>5. DeviceTypes' BY <1>1, <1>4 DEF AddFile, DeviceTypes
<1> QED BY <1>1, <1>5, FolderTypes DEF AddFile

LEMMA TypesRemoveFile ==
    ASSUME Types, NEW c \in Clients, NEW f \in Files, RemoveFile(c, f)
    PROVE  Types'
<1>1. DeviceTypes /\ blind \subseteq Files /\ Absent \in Sums BY TypesParts DEF Sums
<1>2. MarkRemoved(db[c], {f}) \in [Files -> Entry] BY <1>1, RemovedMeans DEF DeviceTypes
<1>3. db' \in [Clients -> [Files -> Entry]] BY <1>1, <1>2 DEF RemoveFile, DeviceTypes
<1>4. DeviceTypes' BY <1>1, <1>3 DEF RemoveFile, DeviceTypes
<1> QED BY <1>1, <1>4, FolderTypes DEF RemoveFile

LEMMA TypesOutsideChange ==
    ASSUME Types, NEW c \in Clients, NEW f \in Files, NEW s \in Sums, OutsideChange(c, f, s)
    PROVE  Types'
<1>1. DeviceTypes /\ blind \subseteq Files BY TypesParts
<1>2. exact' \in [Clients -> SUBSET Files] /\ noticed' \subseteq Clients /\ blind' \subseteq Files
  BY <1>1 DEF OutsideChange, DeviceTypes
<1>3. DeviceTypes' BY <1>1, <1>2 DEF OutsideChange, DeviceTypes
<1> QED BY <1>2, <1>3, FolderTypes DEF OutsideChange

LEMMA TypesStep == Types /\ [Next]_vars => Types'
<1> SUFFICES ASSUME Types, [Next]_vars PROVE Types' OBVIOUS
<1>1. CASE UNCHANGED vars
  BY <1>1 DEF vars, deviceVars, serverVars, Types, TypeOK
<1>2. CASE Next
  <2>1. PICK c \in Clients : SyncStep(c) \/ Fail(c) \/ FolderStep(c) BY <1>2 DEF Next
  <2>2. CASE SyncStep(c)
    BY <2>2, TypesBegin, TypesFetch, TypesDownload, TypesRecord, TypesUpload, TypesReply, TypesSanity
    DEF SyncStep
  <2>3. CASE Fail(c) BY <2>3, TypesFail
  <2>4. CASE FolderStep(c)
    BY <2>4, TypesAddFile, TypesRemoveFile, TypesOutsideChange DEF FolderStep
  <2> QED BY <2>1, <2>2, <2>3, <2>4
<1> QED BY <1>1, <1>2

\* Types: every reachable state of the media sync is well typed, and nobody remembers a
\* sequence number that the server has not given.
THEOREM TypeCorrect == Spec => []TypeOK
<1>1. Types => TypeOK BY DEF Types
<1> QED BY <1>1, TypesInit, TypesStep, PTL DEF Spec

-----------------------------------------------------------------------------
(* Nothing is overlooked.                                                  *)

\* A pass with nothing in hand is honest if it asks for what the device lacks.
LEMMA EmptyPass ==
    ASSUME NEW f, NEW p, NEW e, NEW r, NEW u, NEW h, Empty(p),
           p.stage \in {"idle", "send", "sanity"} \/ (p.stage = "fetch" /\ p.last = u)
    PROVE  PassHonest(f, p, e, r, u, h)
BY DEF PassHonest, Empty

\* Rows are only replaced by ones that are after all that a device or a pass remembers.
LEMMA RowsAdvance ==
    ASSUME Types, Types', NEW f \in Files, srv'[f] = srv[f] \/ Above(srv'[f], last),
           NEW n \in Nat, n <= last
    PROVE  /\ srv'[f] = srv[f] \/ Above(srv'[f], n)
           /\ Above(srv[f], n) => Above(srv'[f], n)
<1>1. last \in Nat BY TypesParts, BoundsAssumption DEF ServerTypes
<1>2. CASE srv'[f] = srv[f] BY <1>2
<1>3. CASE Above(srv'[f], last)
  <2>0. srv'[f] \in Row BY TypesPartsLater DEF ServerTypes
  <2>1. srv'[f].usn \in Nat BY <1>3, <2>0, EntryMeans DEF Above
  <2>2. Above(srv'[f], n) BY <1>1, <1>3, <2>1 DEF Above
  <2> QED BY <2>2
<1> QED BY <1>2, <1>3

\* A device that does nothing stays honest while the server goes on and while more of its
\* folder comes to be noticed.
LEMMA Others ==
    ASSUME Types, Types', NEW d \in Clients, NEW f \in Files, DeviceHonest(d, f),
           folder'[d][f] = folder[d][f], db'[d][f] = db[d][f], usn'[d] = usn[d], pass'[d] = pass[d],
           Overlooked(d, f)' => Overlooked(d, f),
           srv'[f] = srv[f] \/ Above(srv'[f], last), held[f] \subseteq held'[f]
    PROVE  DeviceHonest(d, f)'
<1>1. /\ usn[d] \in Nat /\ usn[d] <= last /\ pass[d] \in Pass
      /\ pass[d].last <= last /\ pass[d].reply <= last
  BY TypesParts, BoundsAssumption DEF PassTypes, ServerTypes
<1>2. pass[d].last \in Nat /\ pass[d].reply \in Nat BY <1>1 DEF Pass
<1>3. /\ srv'[f] = srv[f] \/ Above(srv'[f], usn[d])
      /\ srv'[f] = srv[f] \/ Above(srv'[f], pass[d].last)
      /\ srv'[f] = srv[f] \/ Above(srv'[f], pass[d].reply)
  BY <1>1, <1>2, RowsAdvance
<1>4. FolderHonest(folder[d][f], db[d][f], srv[f], usn[d], Overlooked(d, f), pass[d].stage)
  BY DEF DeviceHonest
<1>5. EntryHonest(db[d][f], srv[f], usn[d], held[f]) BY DEF DeviceHonest
<1>6. PassHonest(f, pass[d], db[d][f], srv[f], usn[d], held[f]) BY DEF DeviceHonest
<1>7. FolderHonest(folder'[d][f], db'[d][f], srv'[f], usn'[d], Overlooked(d, f)', pass'[d].stage)
  BY <1>3, <1>4 DEF FolderHonest
<1>8. EntryHonest(db'[d][f], srv'[f], usn'[d], held'[f]) BY <1>3, <1>5 DEF EntryHonest
<1>9. PassHonest(f, pass[d], db[d][f], srv'[f], usn[d], held'[f])
  <2>1. CASE srv'[f] = srv[f] BY <1>6, <2>1 DEF PassHonest
  <2>2. CASE Above(srv'[f], usn[d]) /\ Above(srv'[f], pass[d].last) /\ Above(srv'[f], pass[d].reply)
    BY <1>6, <2>2 DEF PassHonest
  <2> QED BY <1>3, <2>1, <2>2
<1> QED BY <1>7, <1>8, <1>9 DEF DeviceHonest

\* A client that acts leaves the others as they are.
LEMMA HonestIf ==
    ASSUME Types, Types', DevicesHonest, NEW c \in Clients, blind \subseteq blind',
           \A d \in Clients \ {c} :
                /\ folder'[d] = folder[d] /\ db'[d] = db[d] /\ usn'[d] = usn[d] /\ pass'[d] = pass[d]
                /\ exact'[d] = exact[d] /\ (d \in noticed' => d \in noticed),
           \A f \in Files \ blind' : /\ srv'[f] = srv[f] \/ Above(srv'[f], last)
                                     /\ held[f] \subseteq held'[f],
           \A f \in Files \ blind' : DeviceHonest(c, f)'
    PROVE  DevicesHonest'
<1> SUFFICES ASSUME NEW d \in Clients, NEW f \in Files \ blind' PROVE DeviceHonest(d, f)'
  BY DEF DevicesHonest
<1>1. CASE d = c BY <1>1
<1>2. CASE d # c
  <2>1. DeviceHonest(d, f) BY DEF DevicesHonest
  <2>2. Overlooked(d, f)' => Overlooked(d, f) BY <1>2 DEF Overlooked
  <2> QED BY <1>2, <2>1, <2>2, Others
<1> QED BY <1>1, <1>2

LEMMA HonestInit == Init => ServerHonest /\ DevicesHonest
<1> SUFFICES ASSUME Init PROVE ServerHonest /\ DevicesHonest OBVIOUS
<1>1. Types BY TypesInit
<1>2. \A f \in Files : /\ disk[f] = IF f \in Seeded THEN Seed ELSE Absent
                       /\ held[f] = {disk[f]} \ {Absent}
  BY DEF Init
<1>3. PICK number \in Bijection(Seeded, 1..last) :
        srv = [f \in Files |-> IF f \in Seeded THEN [sum |-> Seed, usn |-> number[f]] ELSE NoEntry]
  BY DEF Init
<1>4. \A f \in Seeded : number[f] \in Nat
  BY <1>1, <1>3, TypesParts, BoundsAssumption DEF Bijection, Injection, ServerTypes
<1>5. Seed \in Contents /\ Seed \in Sums /\ Seed # Absent BY ContentsAssumption DEF Seed, Sums
<1>6. \A f \in Files : Sum(srv[f]) = disk[f]
  <2> TAKE f \in Files
  <2>1. CASE f \in Seeded
    <3>1. srv[f] = [sum |-> Seed, usn |-> number[f]] BY <1>3, <2>1
    <3> QED BY <1>2, <1>4, <1>5, <2>1, <3>1, EntryMeans
  <2>2. CASE f \notin Seeded BY <1>2, <1>3, <2>2 DEF Sum
  <2> QED BY <2>1, <2>2
<1>7. ServerHonest BY <1>2, <1>6, SumsMean DEF ServerHonest
<1>8. ASSUME NEW c \in Clients, NEW f \in Files PROVE DeviceHonest(c, f)
  <2>1. /\ folder[c][f] = disk[f] /\ pass[c] = Idle
        /\ db[c][f] = IF f \in Seeded THEN [sum |-> Seed, dirty |-> FALSE] ELSE NoEntry
    BY DEF Init
  <2>2. Sum(db[c][f]) = disk[f] BY <1>2, <1>5, <2>1, EntryMeans
  <2>3. disk[f] \in held[f] \union {Absent} BY <1>2
  <2>4. FolderHonest(folder[c][f], db[c][f], srv[f], usn[c], Overlooked(c, f), pass[c].stage)
    BY <2>1, <2>2 DEF FolderHonest
  <2>5. EntryHonest(db[c][f], srv[f], usn[c], held[f]) BY <1>6, <2>2, <2>3 DEF EntryHonest
  <2>6. Empty(pass[c]) /\ pass[c].stage = "idle" BY <2>1, PassForms DEF Stages
  <2>7. PassHonest(f, pass[c], db[c][f], srv[f], usn[c], held[f]) BY <2>6, EmptyPass
  <2> QED BY <2>4, <2>5, <2>7 DEF DeviceHonest
<1> QED BY <1>7, <1>8 DEF DevicesHonest

LEMMA HonestBegin ==
    ASSUME Types, Types', ServerHonest, DevicesHonest, NEW c \in Clients, Begin(c)
    PROVE  ServerHonest' /\ DevicesHonest'
<1>1. /\ db' = [db EXCEPT ![c] = Registered(c)] /\ noticed' = noticed \union {c}
      /\ UNCHANGED <<folder, usn, serverVars, blind, events>>
      /\ exact' = exact \/ exact' = [exact EXCEPT ![c] = {f \in Files : folder[c][f] # Absent}]
  BY DEF Begin
<1>2. /\ GoTo(c, AfterBegin(c)) /\ Empty(AfterBegin(c))
      /\ \/ AfterBegin(c).stage = "fetch" /\ AfterBegin(c).last = usn[c]
         \/ AfterBegin(c).stage \in {"send", "idle"} /\ usn[c] = last
  BY BeginShape
<1>3. /\ db \in [Clients -> [Files -> Entry]] /\ pass \in [Clients -> Pass] /\ Numbers /\ last \in Nat
      /\ exact \in [Clients -> SUBSET Files] /\ usn[c] \in 0..last
  BY TypesParts, BoundsAssumption DEF DeviceTypes, PassTypes, ServerTypes
<1>4. UNCHANGED <<folder, usn, srv, disk, last, held, blind>> BY <1>1 DEF serverVars
<1>5. ServerHonest' BY <1>4 DEF ServerHonest, RemoteSum
<1>6. db'[c] = Registered(c) /\ pass'[c] = AfterBegin(c) BY <1>1, <1>2, <1>3 DEF GoTo
<1>7. ASSUME NEW f \in Files \ blind' PROVE DeviceHonest(c, f)'
  <2>1. /\ FolderHonest(folder[c][f], db[c][f], srv[f], usn[c], Overlooked(c, f), pass[c].stage)
        /\ EntryHonest(db[c][f], srv[f], usn[c], held[f])
    BY <1>4 DEF DevicesHonest, DeviceHonest
  <2>2. \/ /\ db'[c][f] = db[c][f]
           /\ folder[c][f] = Sum(db[c][f]) \/ Overlooked(c, f)
        \/ Sum(db'[c][f]) = folder[c][f] /\ Dirty(db'[c][f])
    BY <1>6, RegisteredMeans
  <2>3. Above(srv[f], usn[c]) => pass'[c].stage = "fetch"
    BY <1>2, <1>3, <1>6 DEF Above, Numbers
  <2>4. FolderHonest(folder[c][f], db'[c][f], srv[f], usn[c], Overlooked(c, f)', pass'[c].stage)
    BY <2>1, <2>2, <2>3 DEF FolderHonest
  <2>5. EntryHonest(db'[c][f], srv[f], usn[c], held[f])
    BY <2>1, <2>2 DEF EntryHonest
  <2>6. PassHonest(f, pass'[c], db'[c][f], srv[f], usn[c], held[f])
    BY <1>2, <1>6, EmptyPass
  <2> QED BY <1>4, <2>4, <2>5, <2>6 DEF DeviceHonest
<1>8. \A d \in Clients \ {c} :
            /\ folder'[d] = folder[d] /\ db'[d] = db[d] /\ usn'[d] = usn[d] /\ pass'[d] = pass[d]
            /\ exact'[d] = exact[d] /\ (d \in noticed' => d \in noticed)
  BY <1>1, <1>2, <1>3, <1>4 DEF GoTo
<1>9. DevicesHonest' BY <1>4, <1>7, <1>8, HonestIf
<1> QED BY <1>5, <1>9

LEMMA HonestFetch ==
    ASSUME Types, Types', ServerHonest, DevicesHonest, NEW c \in Clients, Fetch(c)
    PROVE  ServerHonest' /\ DevicesHonest'
<1> DEFINE n == pass[c].last
           batch == MediaChangesChunk(pass[c].last)
           Required(f) == RequiredChange(Sum(db[c][f]), Sum(srv[f]), db[c][f] # NoEntry, Dirty(db[c][f]))
<1>1. /\ db \in [Clients -> [Files -> Entry]] /\ pass \in [Clients -> Pass] /\ Numbers /\ last \in Nat
      /\ folder \in [Clients -> [Files -> Sums]] /\ srv \in [Files -> Row]
  BY TypesParts, BoundsAssumption DEF DeviceTypes, PassTypes, ServerTypes
<1>2. /\ pass[c].stage = "fetch" /\ n \in 0..last
      /\ UNCHANGED <<usn, noticed, exact, serverVars, blind, events>>
  BY FetchShape
<1>3. UNCHANGED <<usn, noticed, exact, srv, disk, last, held, blind>> BY <1>2 DEF serverVars
<1>4. ServerHonest' BY <1>3 DEF ServerHonest, RemoteSum
<1>5. n \in Nat BY <1>1, <1>2
<1>6. /\ batch \subseteq Files
      /\ \A f \in batch : Above(srv[f], n)
      /\ batch = {} => \A f \in Files : ~Above(srv[f], n)
      /\ batch # {} => /\ LastOf(batch) \in n..last
                       /\ \A f \in Files : Above(srv[f], n) => f \in batch \/ Above(srv[f], LastOf(batch))
  BY <1>1, <1>5, BatchMeans
<1>7. ASSUME NEW f \in Files \ blind'
      PROVE  /\ FolderHonest(folder[c][f], db[c][f], srv[f], usn[c], Overlooked(c, f), "fetch")
             /\ EntryHonest(db[c][f], srv[f], usn[c], held[f])
             /\ n = usn[c]
  BY <1>2, <1>3 DEF DevicesHonest, DeviceHonest, PassHonest
<1>8. CASE batch = {}
  <2>1. GoTo(c, AfterFetch(db[c])) /\ UNCHANGED <<folder, db>> BY <1>8, FetchShape
  <2>2. Empty(AfterFetch(db[c])) /\ AfterFetch(db[c]).stage \in {"send", "sanity"}
    BY StageAfterFetch
  <2>3. pass'[c] = AfterFetch(db[c]) BY <1>1, <2>1 DEF GoTo
  <2>4. ASSUME NEW f \in Files \ blind' PROVE DeviceHonest(c, f)'
    <3>1. ~Above(srv[f], usn[c]) BY <1>6, <1>7, <1>8
    <3>2. FolderHonest(folder[c][f], db[c][f], srv[f], usn[c], Overlooked(c, f)', pass'[c].stage)
      BY <1>3, <1>7, <2>1, <3>1 DEF FolderHonest, Overlooked
    <3>3. PassHonest(f, pass'[c], db[c][f], srv[f], usn[c], held[f]) BY <2>2, <2>3, EmptyPass
    <3> QED BY <1>3, <1>7, <2>1, <3>2, <3>3 DEF DeviceHonest
  <2>5. \A d \in Clients \ {c} :
            /\ folder'[d] = folder[d] /\ db'[d] = db[d] /\ usn'[d] = usn[d] /\ pass'[d] = pass[d]
            /\ exact'[d] = exact[d] /\ (d \in noticed' => d \in noticed)
    BY <1>1, <1>3, <2>1 DEF GoTo
  <2> QED BY <1>3, <1>4, <2>4, <2>5, HonestIf
<1>9. CASE batch # {}
  <2>1. /\ FetchDel(c) = {f \in batch : Required(f) = "delete"}
        /\ folder' = [folder EXCEPT ![c] =
               [f \in Files |-> IF f \in Trashed(c, FetchDel(c)) THEN Absent ELSE folder[c][f]]]
        /\ db' = [db EXCEPT ![c] = MarkRemoved(db[c], FetchDel(c))]
    BY <1>9, FetchShape
  <2>2. PICK p \in Pass :
            /\ GoTo(c, p) /\ p.stage = "download" /\ p.reply = 0
            /\ p.last = LastOf(batch) /\ p.del = FetchDel(c)
            /\ p.todo = {f \in batch : Required(f) = "download"}
            /\ p.got = {} /\ p.sent = {}
            /\ p.clean = Holdings(c, {f \in batch : Required(f) = "remove_pending"})
    BY <1>9, FetchShape
  <2>3. pass'[c] = p /\ db'[c] = MarkRemoved(db[c], FetchDel(c)) BY <1>1, <2>1, <2>2 DEF GoTo
  <2>4. /\ \A f \in Files \ FetchDel(c) : db'[c][f] = db[c][f]
        /\ \A f \in FetchDel(c) : /\ Sum(db'[c][f]) = Absent
                                  /\ Dirty(db'[c][f]) \/ db'[c][f] = db[c][f]
    <3>1. db[c] \in [Files -> Entry] /\ FetchDel(c) \subseteq Files BY <1>1, <1>6, <2>1
    <3> QED BY <2>3, <3>1, RemovedMeans
  <2>5. /\ \A g \in p.clean : /\ g.file \in batch /\ Required(g.file) = "remove_pending"
                              /\ g.sum = Sum(db[c][g.file])
        /\ Names(p.clean) = {f \in batch : Required(f) = "remove_pending"}
    <3> DEFINE K == {f \in batch : Required(f) = "remove_pending"}
    <3>1. K \in SUBSET Files /\ \A f \in K : f \in batch /\ Required(f) = "remove_pending" BY <1>6
    <3> HIDE DEF K
    <3>2. \A g \in Holdings(c, K) : g.file \in K /\ g.sum = Sum(db[c][g.file])
      BY <1>1, <3>1, HoldingsMean
    <3>3. Names(Holdings(c, K)) = K BY <1>1, <3>1, HoldingsMean
    <3>4. p.clean = Holdings(c, K) BY <2>2 DEF K
    <3> QED BY <3>1, <3>2, <3>3, <3>4 DEF K
  <2>6. Names(p.got) = {} BY <2>2 DEF Names
  <2>7. ASSUME NEW f \in Files \ blind' PROVE DeviceHonest(c, f)'
    <3> DEFINE x == folder[c][f]
               e == db[c][f]
               r == srv[f]
    <3>1. /\ FolderHonest(x, e, r, n, Overlooked(c, f), "fetch")
          /\ EntryHonest(e, r, n, held[f]) /\ usn[c] = n
      BY <1>7
    <3>2. Sum(r) \in held[f] \union {Absent} BY <1>3, SumsMean DEF ServerHonest
    <3>3. folder'[c][f] = IF f \in Trashed(c, FetchDel(c)) THEN Absent ELSE x BY <1>1, <2>1
    <3>4. Trashed(c, FetchDel(c)) \subseteq FetchDel(c) BY DEF Trashed
    <3>5. FolderHonest(folder'[c][f], db'[c][f], r, n, Overlooked(c, f)', "download")
      <4>1. CASE f \in FetchDel(c)
        <5>1. Above(r, n) BY <1>6, <2>1, <4>1
        <5> QED BY <5>1 DEF FolderHonest
      <4>2. CASE f \notin FetchDel(c)
        <5>1. folder'[c][f] = x /\ db'[c][f] = e BY <2>4, <3>3, <3>4, <4>2
        <5> QED BY <1>3, <3>1, <5>1 DEF FolderHonest, Overlooked
      <4> QED BY <4>1, <4>2
    <3>6. EntryHonest(db'[c][f], r, n, held[f])
      <4>1. CASE f \in FetchDel(c)
        <5>1. Above(r, n) BY <1>6, <2>1, <4>1
        <5> QED BY <2>4, <4>1, <5>1 DEF EntryHonest
      <4>2. CASE f \notin FetchDel(c) BY <2>4, <3>1, <4>2 DEF EntryHonest
      <4> QED BY <4>1, <4>2
    <3>7. ASSUME NEW g \in p.got \union p.clean \union p.sent, g.file = f
          PROVE  g.sum = Sum(r)
      <4>1. g \in p.clean BY <2>2
      <4>2. Required(f) = "remove_pending" /\ g.sum = Sum(e) BY <2>5, <3>7, <4>1
      <4> QED BY <4>2 DEF RequiredChange
    <3>8. p.last >= n
      <4>1. LastOf(batch) \in n..last BY <1>6, <1>9
      <4> QED BY <1>1, <1>5, <2>2, <4>1
    <3>9. f \in p.todo => Above(r, n) BY <1>6, <2>2
    <3>10. Above(r, p.last) \/ Settled(f, p, db'[c][f], r)
      <4>1. CASE f \in batch
        <5>1. CASE Required(f) = "download" BY <2>2, <2>6, <4>1, <5>1 DEF Settled
        <5>2. CASE Required(f) = "delete"
          <6>1. f \notin p.todo /\ f \in p.del BY <2>1, <2>2, <4>1, <5>2
          <6>2. Sum(r) = Absent BY <5>2 DEF RequiredChange
          <6> QED BY <2>6, <6>1, <6>2 DEF Settled
        <5>3. CASE Required(f) = "remove_pending"
          <6>1. f \notin p.todo /\ f \notin p.del /\ f \in Names(p.clean) BY <2>1, <2>2, <2>5, <4>1, <5>3
          <6> QED BY <2>6, <3>7, <6>1 DEF Settled
        <5>4. CASE Required(f) = "none"
          <6>1. f \notin p.todo /\ f \notin p.del /\ f \notin Names(p.clean) /\ f \notin FetchDel(c)
            BY <2>1, <2>2, <2>5, <5>4
          <6>2. db'[c][f] = e BY <2>4, <6>1
          <6>3. Sum(e) = Sum(r) \/ Dirty(e) BY <5>4 DEF RequiredChange
          <6> QED BY <2>6, <6>1, <6>2, <6>3 DEF Settled
        <5> QED BY <5>1, <5>2, <5>3, <5>4 DEF RequiredChange
      <4>2. CASE f \notin batch
        <5>1. f \notin p.todo /\ f \notin p.del /\ f \notin Names(p.clean) /\ f \notin FetchDel(c)
          BY <2>1, <2>2, <2>5, <4>2
        <5>2. db'[c][f] = e BY <2>4, <5>1
        <5>3. CASE Above(r, n) BY <1>6, <1>9, <2>2, <4>2, <5>3
        <5>4. CASE ~Above(r, n)
          <6>1. Sum(e) = Sum(r) \/ Dirty(e) BY <3>1, <5>4 DEF EntryHonest
          <6> QED BY <2>6, <5>1, <5>2, <6>1 DEF Settled
        <5> QED BY <5>3, <5>4
      <4> QED BY <4>1, <4>2
    <3>11. PassHonest(f, p, db'[c][f], r, n, held[f])
      <4>1. \A g \in p.got \union p.clean \union p.sent : g.file = f => g.sum \in held[f] \union {Absent}
        BY <3>2, <3>7
      <4> HIDE DEF r, n
      <4> QED BY <2>2, <3>8, <3>9, <3>10, <4>1 DEF PassHonest
    <3> HIDE DEF n
    <3> QED BY <1>3, <2>2, <2>3, <3>1, <3>5, <3>6, <3>11 DEF DeviceHonest
  <2>8. \A d \in Clients \ {c} :
            /\ folder'[d] = folder[d] /\ db'[d] = db[d] /\ usn'[d] = usn[d] /\ pass'[d] = pass[d]
            /\ exact'[d] = exact[d] /\ (d \in noticed' => d \in noticed)
    BY <1>1, <1>3, <2>1, <2>2 DEF GoTo
  <2> HIDE DEF batch
  <2> QED BY <1>3, <1>4, <2>7, <2>8, HonestIf
<1> QED BY <1>8, <1>9

\* A pass that stops with its device and the rows of the server as they are.
LEMMA HonestStop ==
    ASSUME Types, Types', ServerHonest, DevicesHonest, NEW c \in Clients, Stop(c),
           UNCHANGED deviceVars, blind \subseteq blind',
           \A f \in Files \ blind' : /\ srv'[f] = srv[f] \/ Above(srv'[f], last)
                                     /\ held[f] \subseteq held'[f]
    PROVE  DevicesHonest'
<1>1. pass \in [Clients -> Pass] /\ usn[c] \in Nat /\ usn[c] <= last
  BY TypesParts, BoundsAssumption DEF PassTypes, ServerTypes
<1>2. UNCHANGED <<folder, db, usn, noticed, exact>> BY DEF deviceVars
<1>3. pass'[c] = Idle /\ \A d \in Clients \ {c} : pass'[d] = pass[d]
  BY <1>1 DEF Stop, GoTo
<1>4. Empty(Idle) /\ Idle.stage = "idle" BY PassForms DEF Stages
<1>5. ASSUME NEW f \in Files \ blind' PROVE DeviceHonest(c, f)'
  <2>1. /\ FolderHonest(folder[c][f], db[c][f], srv[f], usn[c], Overlooked(c, f), pass[c].stage)
        /\ EntryHonest(db[c][f], srv[f], usn[c], held[f])
    BY DEF DevicesHonest, DeviceHonest
  <2>2. srv'[f] = srv[f] \/ Above(srv'[f], usn[c]) BY <1>1, RowsAdvance
  <2>3. FolderHonest(folder[c][f], db[c][f], srv'[f], usn[c], Overlooked(c, f)', "idle")
    BY <1>2, <2>1, <2>2 DEF FolderHonest, Overlooked
  <2>4. EntryHonest(db[c][f], srv'[f], usn[c], held'[f])
    BY <2>1, <2>2 DEF EntryHonest
  <2>5. PassHonest(f, Idle, db[c][f], srv'[f], usn[c], held'[f]) BY <1>4, EmptyPass
  <2> QED BY <1>2, <1>3, <1>4, <2>3, <2>4, <2>5 DEF DeviceHonest
<1> QED BY <1>2, <1>3, <1>5, HonestIf

LEMMA HonestDownload ==
    ASSUME Types, Types', ServerHonest, DevicesHonest, NEW c \in Clients, Download(c)
    PROVE  ServerHonest' /\ DevicesHonest'
<1>1. /\ db \in [Clients -> [Files -> Entry]] /\ pass \in [Clients -> Pass] /\ srv \in [Files -> Row]
      /\ folder \in [Clients -> [Files -> Sums]] /\ exact \in [Clients -> SUBSET Files]
      /\ noticed \subseteq Clients
  BY TypesParts DEF DeviceTypes, PassTypes, ServerTypes
<1>2. pass[c].stage = "download" /\ UNCHANGED <<db, usn, blind, events, disk, last, held>>
  BY DownloadShape
<1>3. CASE Stop(c) /\ UNCHANGED <<folder, noticed, exact, srv>>
  <2>1. ServerHonest' BY <1>2, <1>3 DEF ServerHonest, RemoteSum
  <2>2. UNCHANGED deviceVars BY <1>2, <1>3 DEF deviceVars
  <2> QED BY <1>2, <1>3, <2>1, <2>2, HonestStop
<1>4. CASE \E f \in Files : Forgotten(c, f)
  <2>1. PICK f \in Files : Forgotten(c, f) BY <1>4
  <2>2. f \in blind BY <2>1 DEF Forgotten, ServerHonest, NonemptyEntry, RemoteSum
  <2>3. \A g \in Files \ blind' : srv'[g] = srv[g] BY <1>1, <1>2, <2>1, <2>2 DEF Forgotten
  <2>4. ServerHonest' BY <1>2, <2>3 DEF ServerHonest, RemoteSum
  <2>5. UNCHANGED deviceVars /\ Stop(c) BY <1>2, <2>1 DEF deviceVars, Forgotten
  <2> QED BY <1>2, <2>3, <2>4, <2>5, HonestStop
<1>5. CASE \E X \in SUBSET pass[c].todo, p \in Pass : Received(c, X, p)
  <2>1. PICK X \in SUBSET pass[c].todo, p \in Pass : Received(c, X, p) BY <1>5
  <2>2. /\ UNCHANGED <<srv, disk, held, blind, usn, db, last>>
        /\ pass'[c] = p /\ \A d \in Clients \ {c} : pass'[d] = pass[d]
        /\ folder' = [folder EXCEPT ![c] = [f \in Files |-> IF f \in X THEN disk[f] ELSE folder[c][f]]]
        /\ exact' = [exact EXCEPT ![c] = exact[c] \ X]
        /\ noticed' \subseteq noticed /\ \A d \in Clients \ {c} : d \in noticed => d \in noticed'
    BY <1>1, <1>2, <2>1 DEF Received, GoTo
  <2>3. /\ p.stage = "download" /\ p.sent = pass[c].sent
        /\ p.last = pass[c].last /\ p.reply = pass[c].reply
        /\ p.del = pass[c].del /\ p.clean = pass[c].clean
        /\ p.todo = pass[c].todo \ X
        /\ p.got = pass[c].got \union {[file |-> f, sum |-> disk[f]] : f \in X}
    BY <2>1 DEF Received
  <2>4. ServerHonest' BY <2>2 DEF ServerHonest, RemoteSum
  <2>5. Names(p.got) = Names(pass[c].got) \union X
    <3>1. \A g \in p.got : g \in pass[c].got \/ g.file \in X BY <2>3
    <3>2. \A g \in pass[c].got : g \in p.got BY <2>3
    <3>3. \A f \in X : [file |-> f, sum |-> disk[f]] \in p.got BY <2>3
    <3>4. \A f \in X : \E g \in p.got : g.file = f BY <3>3
    <3> QED BY <3>1, <3>2, <3>4 DEF Names
  <2>6. ASSUME NEW f \in Files \ blind' PROVE DeviceHonest(c, f)'
    <3> DEFINE e == db[c][f]
               r == srv[f]
               q == pass[c]
               u == usn[c]
    <3>1. /\ FolderHonest(folder[c][f], e, r, u, Overlooked(c, f), "download")
          /\ EntryHonest(e, r, u, held[f])
          /\ PassHonest(f, q, e, r, u, held[f])
      BY <1>2, <2>2 DEF DevicesHonest, DeviceHonest
    <3>2. disk[f] = Sum(r) /\ Sum(r) \in held[f] \union {Absent}
      BY <2>2, SumsMean DEF ServerHonest
    <3>3. ASSUME f \in X PROVE Above(r, u)
      <4>1. r # NoEntry BY <2>1, <3>3 DEF Received, NonemptyEntry
      <4> QED BY <1>2, <3>1, <3>3, <4>1 DEF PassHonest
    <3>4. FolderHonest(folder'[c][f], e, r, u, Overlooked(c, f)', "download")
      <4>1. CASE f \in X BY <3>3, <4>1 DEF FolderHonest
      <4>2. CASE f \notin X
        <5>1. folder'[c][f] = folder[c][f] /\ (Overlooked(c, f)' => Overlooked(c, f))
          BY <1>1, <2>2, <4>2 DEF Overlooked
        <5> QED BY <3>1, <5>1 DEF FolderHonest
      <4> QED BY <4>1, <4>2
    <3>5. \A g \in p.got : g \in q.got \/ (g.file \in X /\ g.sum = disk[g.file]) BY <2>3
    <3>6. \A g \in p.got \union p.clean \union p.sent : g.file = f => g.sum \in held[f] \union {Absent}
      <4>1. \A g \in q.got \union q.clean \union q.sent : g.file = f => g.sum \in held[f] \union {Absent}
        BY <3>1 DEF PassHonest
      <4>2. \A g \in p.got : g.file = f => g.sum \in held[f] \union {Absent}
        BY <3>2, <3>5, <4>1
      <4> QED BY <2>3, <4>1, <4>2
    <3>7. Above(r, q.last) \/ Settled(f, q, e, r) BY <1>2, <3>1 DEF PassHonest
    <3>8. ASSUME Settled(f, q, e, r) PROVE Settled(f, p, e, r)
      <4>1. CASE f \in X
        <5>1. f \in q.todo /\ f \notin p.todo /\ f \in Names(p.got) BY <2>3, <2>5, <4>1
        <5>2. f \notin Names(q.got) BY <3>8, <5>1 DEF Settled
        <5>3. \A g \in p.got : g.file = f => g.sum = Sum(r)
          BY <3>2, <3>5, <5>2 DEF Names
        <5> QED BY <5>1, <5>3 DEF Settled
      <4>2. CASE f \notin X
        <5>1. (f \in p.todo <=> f \in q.todo) /\ (f \in Names(p.got) <=> f \in Names(q.got))
          BY <2>3, <2>5, <4>2
        <5>2. \A g \in p.got : g.file = f => g \in q.got BY <3>5, <4>2
        <5> QED BY <2>3, <3>8, <5>1, <5>2 DEF Settled
      <4> QED BY <4>1, <4>2
    <3>9. q.last >= u /\ (f \in q.todo => r = NoEntry \/ Above(r, u)) BY <1>2, <3>1 DEF PassHonest
    <3>10. PassHonest(f, p, e, r, u, held[f])
      <4> HIDE DEF q, r, u, e
      <4> QED BY <2>3, <3>6, <3>7, <3>8, <3>9 DEF PassHonest, q
    <3> QED BY <2>2, <2>3, <3>1, <3>4, <3>10 DEF DeviceHonest
  <2>7. \A d \in Clients \ {c} :
            /\ folder'[d] = folder[d] /\ db'[d] = db[d] /\ usn'[d] = usn[d] /\ pass'[d] = pass[d]
            /\ exact'[d] = exact[d] /\ (d \in noticed' => d \in noticed)
    BY <1>1, <2>2
  <2> QED BY <2>2, <2>4, <2>6, <2>7, HonestIf
<1> QED BY <1>3, <1>4, <1>5, DownloadShape

LEMMA HonestRecord ==
    ASSUME Types, Types', ServerHonest, DevicesHonest, NEW c \in Clients, Record(c)
    PROVE  ServerHonest' /\ DevicesHonest'
<1> DEFINE p == pass[c]
<1>1. /\ db \in [Clients -> [Files -> Entry]] /\ pass \in [Clients -> Pass]
      /\ usn \in [Clients -> 0..last] /\ p \in Pass
  BY TypesParts DEF DeviceTypes, PassTypes, ServerTypes
<1>2. /\ p.stage = "download" /\ p.todo = {}
      /\ db' = [db EXCEPT ![c] = Recorded(c)]
      /\ UNCHANGED <<folder, exact, serverVars, events>> /\ noticed' = noticed \union {c}
      /\ usn' = [usn EXCEPT ![c] = p.last] /\ GoTo(c, FetchFrom(p.last))
      /\ blind' = blind \union {f \in Files : folder[c][f] # Sum(Recorded(c)[f])}
                        \union Outdated(c, p.clean)
  BY DEF Record, Recorded, FetchFrom, Sum
<1>3. /\ UNCHANGED <<folder, exact, srv, disk, last, held>> /\ blind \subseteq blind'
      /\ db'[c] = Recorded(c) /\ usn'[c] = p.last /\ pass'[c] = FetchFrom(p.last)
  BY <1>1, <1>2 DEF serverVars, GoTo
<1>4. ServerHonest' BY <1>3 DEF ServerHonest, RemoteSum
<1>5. p.last \in Nat BY <1>1 DEF Pass
<1>6. FetchFrom(p.last).stage = "fetch" /\ FetchFrom(p.last).last = p.last /\ Empty(FetchFrom(p.last))
  BY <1>5, PassForms
<1>7. ASSUME NEW f \in Files \ blind' PROVE DeviceHonest(c, f)'
  <2> DEFINE e == db[c][f]
             r == srv[f]
             n == Recorded(c)[f]
  <2>1. folder[c][f] = Sum(n) /\ f \notin Outdated(c, p.clean) BY <1>2
  <2>2. \A g \in p.clean : g.file = f => g.sum = Sum(e) BY <2>1, SumsMean DEF Outdated
  <2>3. EntryHonest(e, r, usn[c], held[f]) /\ PassHonest(f, p, e, r, usn[c], held[f])
    BY <1>3 DEF DevicesHonest, DeviceHonest
  <2>4. /\ f \in Names(p.got) => /\ ~Dirty(n)
                                 /\ \E g \in p.got : g.file = f /\ g.sum = Sum(n)
        /\ (f \notin Names(p.got) /\ f \in p.del) => n = NoEntry
        /\ (f \notin Names(p.got) /\ f \notin p.del) =>
                    /\ Sum(n) = Sum(e)
                    /\ f \notin Names(p.clean) => n = e
    BY RecordedMeans
  <2>5. f \in Names(p.clean) => \E g \in p.clean : g.file = f BY DEF Names
  <2>6. Above(r, p.last) \/ Settled(f, p, e, r) BY <1>2, <2>3 DEF PassHonest
  <2> HIDE DEF n, p, e, r
  <2>7. Sum(n) = Sum(r) \/ Dirty(n) \/ Above(r, p.last)
    <3>1. CASE Above(r, p.last) BY <3>1
    <3>2. CASE Settled(f, p, e, r) /\ f \in Names(p.got)
      BY <1>2, <2>4, <3>2 DEF Settled
    <3>3. CASE Settled(f, p, e, r) /\ f \notin Names(p.got) /\ f \in p.del
      BY <1>2, <2>4, <3>3 DEF Settled, Sum
    <3>4. CASE Settled(f, p, e, r) /\ f \notin Names(p.got) /\ f \notin p.del /\ f \in Names(p.clean)
      BY <1>2, <2>2, <2>4, <2>5, <3>4 DEF Settled
    <3>5. CASE Settled(f, p, e, r) /\ f \notin Names(p.got) /\ f \notin p.del /\ f \notin Names(p.clean)
      BY <1>2, <2>4, <3>5 DEF Settled
    <3> QED BY <2>6, <3>1, <3>2, <3>3, <3>4, <3>5
  <2>8. Dirty(n) \/ Sum(n) \in held[f] \union {Absent}
    <3>1. \A g \in p.got \union p.clean \union p.sent : g.file = f => g.sum \in held[f] \union {Absent}
      BY <2>3 DEF PassHonest
    <3>2. CASE f \in Names(p.got) BY <2>4, <3>1, <3>2
    <3>3. CASE f \notin Names(p.got) /\ f \in p.del BY <2>4, <3>3 DEF Sum
    <3>4. CASE f \notin Names(p.got) /\ f \notin p.del /\ f \in Names(p.clean)
      BY <2>2, <2>4, <2>5, <3>1, <3>4
    <3>5. CASE f \notin Names(p.got) /\ f \notin p.del /\ f \notin Names(p.clean)
      BY <2>3, <2>4, <3>5 DEF EntryHonest
    <3> QED BY <3>2, <3>3, <3>4, <3>5
  <2>9. FolderHonest(folder[c][f], n, r, p.last, Overlooked(c, f)', "fetch") BY <2>1 DEF FolderHonest
  <2>10. EntryHonest(n, r, p.last, held[f]) BY <2>7, <2>8 DEF EntryHonest
  <2>11. PassHonest(f, FetchFrom(p.last), n, r, p.last, held[f]) BY <1>6, EmptyPass
  <2> QED BY <1>3, <1>6, <2>9, <2>10, <2>11 DEF DeviceHonest, n, r
<1>8. \A d \in Clients \ {c} :
            /\ folder'[d] = folder[d] /\ db'[d] = db[d] /\ usn'[d] = usn[d] /\ pass'[d] = pass[d]
            /\ exact'[d] = exact[d] /\ (d \in noticed' => d \in noticed)
  BY <1>1, <1>2, <1>3 DEF GoTo
<1> HIDE DEF p
<1> QED BY <1>3, <1>4, <1>7, <1>8, HonestIf

LEMMA HonestUpload ==
    ASSUME Types, Types', ServerHonest, DevicesHonest, NEW c \in Clients, Upload(c)
    PROVE  ServerHonest' /\ DevicesHonest'
<1>1. /\ pass \in [Clients -> Pass] /\ usn[c] \in Nat /\ usn[c] <= last /\ last \in Nat
      /\ srv \in [Files -> Row]
  BY TypesParts, BoundsAssumption DEF PassTypes, ServerTypes
<1>2. pass[c].stage = "send" /\ UNCHANGED deviceVars BY UploadShape
<1>3. UNCHANGED <<folder, db, usn, noticed, exact>> BY <1>2 DEF deviceVars
<1>9. PICK X \in SUBSET Files : \E sent \in [X -> Sums] : Uploaded(c, X, sent)
  BY UploadShape
<1>4. PICK sent \in [X -> Sums] : Uploaded(c, X, sent) BY <1>9
<1>5. CASE \E Y \in SUBSET X : Torn(c, sent, Y)
  <2>1. PICK Y \in SUBSET X : Torn(c, sent, Y) BY <1>5
  <2>2. /\ UNCHANGED <<srv, last, held>> /\ blind' = blind \union Y /\ Stop(c)
        /\ disk' = [f \in Files |-> IF f \in Y THEN sent[f] ELSE disk[f]]
    BY <2>1 DEF Torn
  <2>3. \A f \in Files \ blind' : disk'[f] = disk[f] BY <2>2
  <2>4. ServerHonest' BY <2>2, <2>3 DEF ServerHonest, RemoteSum
  <2> QED BY <1>2, <2>2, <2>4, HonestStop
<1>6. CASE /\ ProcessUploadedChanges(sent) /\ UNCHANGED blind
           /\ last + Cardinality(Changed(sent)) <= MaxUsn
           /\ (\E p \in Pass : Answered(c, sent, p)) \/ (Stop(c) /\ Event)
  <2>1. /\ last <= last' /\ last' \in Nat
        /\ \A f \in Files : srv'[f] = srv[f] \/ Above(srv'[f], last)
        /\ \A f \in Files : /\ f \in X => Sum(srv'[f]) = sent[f]
                            /\ disk'[f] = disk[f] \/ disk'[f] = Sum(srv'[f])
                            /\ srv'[f] # srv[f] => disk'[f] = Sum(srv'[f])
                            /\ Sum(srv'[f]) \in held'[f] \union {Absent}
                            /\ held[f] \subseteq held'[f]
    BY <1>4, <1>6, <1>9, UploadTypes
  <2>2. ServerHonest'
    <3>1. \A f \in Files : RemoteSum(f)' = Sum(srv'[f]) BY DEF RemoteSum, Sum
    <3>2. \A f \in Files \ blind : disk'[f] = Sum(srv'[f])
      BY <2>1, SumsMean DEF ServerHonest
    <3> QED BY <1>6, <2>1, <3>1, <3>2 DEF ServerHonest
  <2>3. CASE Stop(c) /\ Event BY <1>2, <1>6, <2>1, <2>2, <2>3, HonestStop
  <2>4. CASE \E p \in Pass : Answered(c, sent, p)
    <3>1. PICK p \in Pass : Answered(c, sent, p) BY <2>4
    <3>2. /\ p.stage = "reply" /\ p.reply = last'
          /\ p.got = pass[c].got /\ p.clean = pass[c].clean
          /\ \A g \in p.sent : g.file \in X /\ g.sum = sent[g.file]
          /\ pass'[c] = p /\ \A d \in Clients \ {c} : pass'[d] = pass[d]
      BY <1>1, <1>4, <1>9, <3>1 DEF Answered, GoTo
    <3>3. ASSUME NEW f \in Files \ blind' PROVE DeviceHonest(c, f)'
      <4> DEFINE e == db[c][f]
                 r == srv[f]
                 s == srv'[f]
                 u == usn[c]
      <4>1. /\ FolderHonest(folder[c][f], e, r, u, Overlooked(c, f), "send")
            /\ EntryHonest(e, r, u, held[f])
            /\ PassHonest(f, pass[c], e, r, u, held[f])
        BY <1>2, <1>6 DEF DevicesHonest, DeviceHonest
      <4>2. s = r \/ Above(s, u) BY <1>1, <2>1, RowsAdvance
      <4>3. FolderHonest(folder[c][f], e, s, u, Overlooked(c, f)', "reply")
        BY <1>3, <4>1, <4>2 DEF FolderHonest, Overlooked
      <4>4. EntryHonest(e, s, u, held'[f]) BY <2>1, <4>1, <4>2 DEF EntryHonest
      <4>5. \A g \in p.sent : g.file = f => g.sum = Sum(s) BY <2>1, <3>2
      <4>6. \A g \in p.got \union p.clean \union p.sent : g.file = f => g.sum \in held'[f] \union {Absent}
        <5>1. \A g \in pass[c].got \union pass[c].clean : g.file = f => g.sum \in held[f] \union {Absent}
          BY <4>1 DEF PassHonest
        <5>2. Sum(s) \in held'[f] \union {Absent} /\ held[f] \subseteq held'[f] BY <2>1
        <5> QED BY <3>2, <4>5, <5>1, <5>2
      <4>7. p.reply >= u BY <1>1, <2>1, <3>2
      <4>8. PassHonest(f, p, e, s, u, held'[f])
        <5> HIDE DEF e, s, u
        <5> QED BY <3>2, <4>5, <4>6, <4>7 DEF PassHonest
      <4> QED BY <1>3, <3>2, <4>3, <4>4, <4>8 DEF DeviceHonest
    <3> QED BY <1>3, <1>6, <2>1, <2>2, <3>2, <3>3, HonestIf
  <2> QED BY <1>6, <2>3, <2>4
<1> QED BY <1>4, <1>5, <1>6 DEF Uploaded

LEMMA HonestReply ==
    ASSUME Types, Types', ServerHonest, DevicesHonest, NEW c \in Clients, Reply(c)
    PROVE  ServerHonest' /\ DevicesHonest'
<1> DEFINE p == pass[c]
<1>1. /\ db \in [Clients -> [Files -> Entry]] /\ pass \in [Clients -> Pass] /\ last \in Nat
      /\ usn \in [Clients -> 0..last] /\ Numbers /\ p \in Pass
  BY TypesParts, BoundsAssumption DEF DeviceTypes, PassTypes, ServerTypes
<1>2. /\ db' = [db EXCEPT ![c] = RecordClean(db[c], Names(p.sent))]
      /\ p.stage = "reply"
      /\ UNCHANGED <<folder, noticed, exact, serverVars, events>>
      /\ GoTo(c, AfterReply(c)) /\ Empty(AfterReply(c))
      /\ AfterReply(c).stage \in {"send", "sanity"}
      /\ Outdated(c, p.sent) \subseteq blind' /\ blind \subseteq blind'
      /\ \/ usn' = usn
         \/ /\ usn' = [usn EXCEPT ![c] = p.reply]
            /\ \A f \in Files \ Names(p.sent) :
                   (srv[f] # NoEntry /\ srv[f].usn \in (usn[c] + 1)..p.reply) => f \in blind'
  BY ReplyShape
<1>3. /\ UNCHANGED <<folder, noticed, exact, srv, disk, last, held>>
      /\ db'[c] = RecordClean(db[c], Names(p.sent)) /\ pass'[c] = AfterReply(c)
      /\ usn'[c] \in {usn[c], p.reply}
  BY <1>1, <1>2 DEF serverVars, GoTo
<1>4. ServerHonest' BY <1>2, <1>3 DEF ServerHonest, RemoteSum
<1>5. /\ \A f \in Files : /\ Sum(db'[c][f]) = Sum(db[c][f])
                          /\ f \notin Names(p.sent) => db'[c][f] = db[c][f]
  BY <1>1, <1>3, CleanMeans
<1>6. p.reply \in Nat /\ usn[c] \in Nat BY <1>1 DEF Pass
<1>7. ASSUME NEW f \in Files \ blind' PROVE DeviceHonest(c, f)'
  <2> DEFINE e == db[c][f]
             r == srv[f]
             n == db'[c][f]
             u == usn[c]
             w == usn'[c]
  <2>1. /\ FolderHonest(folder[c][f], e, r, u, Overlooked(c, f), "reply")
        /\ EntryHonest(e, r, u, held[f]) /\ PassHonest(f, p, e, r, u, held[f])
    BY <1>2 DEF DevicesHonest, DeviceHonest
  <2>2. Sum(n) = Sum(e) /\ (f \notin Names(p.sent) => n = e) BY <1>5
  <2>3. \A g \in p.sent : g.file = f => g.sum = Sum(e) BY <1>2, SumsMean DEF Outdated
  <2>4. f \in Names(p.sent) => \E g \in p.sent : g.file = f BY DEF Names
  <2>5. r # NoEntry => r.usn \in Nat BY <1>1 DEF Numbers
  <2>6. p.reply >= u /\ \A g \in p.sent : g.file = f => g.sum = Sum(r) \/ Above(r, p.reply)
    BY <1>2, <2>1 DEF PassHonest
  <2>7. \A g \in p.sent : g.file = f => g.sum \in held[f] \union {Absent}
    BY <2>1 DEF PassHonest
  <2>8. Above(r, p.reply) => Above(r, w) BY <1>3, <1>6, <2>5, <2>6 DEF Above
  <2>9. f \notin Names(p.sent) /\ Above(r, u) => Above(r, w)
    <3>1. CASE w = u BY <3>1
    <3>2. CASE w # u
      <4>1. w = p.reply BY <1>3, <3>2
      <4>2. \A g \in Files \ Names(p.sent) :
                   (srv[g] # NoEntry /\ srv[g].usn \in (usn[c] + 1)..p.reply) => g \in blind'
        BY <1>2, <3>2
      <4> QED BY <1>6, <2>5, <4>1, <4>2 DEF Above
    <3> QED BY <3>1, <3>2
  <2>10. FolderHonest(folder[c][f], n, r, w, Overlooked(c, f)', pass'[c].stage)
    BY <1>3, <2>1, <2>2 DEF FolderHonest, Overlooked
  <2>11. EntryHonest(n, r, w, held[f])
    <3>1. CASE f \in Names(p.sent)
      BY <2>2, <2>3, <2>4, <2>6, <2>7, <2>8, <3>1 DEF EntryHonest
    <3>2. CASE f \notin Names(p.sent)
      BY <2>1, <2>2, <2>9, <3>2 DEF EntryHonest
    <3> QED BY <3>1, <3>2
  <2>12. PassHonest(f, pass'[c], n, r, w, held[f]) BY <1>2, <1>3, EmptyPass
  <2> QED BY <1>3, <2>10, <2>11, <2>12 DEF DeviceHonest
<1>8. \A d \in Clients \ {c} :
            /\ folder'[d] = folder[d] /\ db'[d] = db[d] /\ usn'[d] = usn[d] /\ pass'[d] = pass[d]
            /\ exact'[d] = exact[d] /\ (d \in noticed' => d \in noticed)
  <2>1. \A d \in Clients \ {c} : usn'[d] = usn[d] BY <1>1, <1>2
  <2> QED BY <1>1, <1>2, <1>3, <2>1 DEF GoTo
<1>9. blind \subseteq blind' BY <1>2
<1> HIDE DEF p
<1> QED BY <1>3, <1>4, <1>7, <1>8, <1>9, HonestIf

LEMMA HonestSanity ==
    ASSUME Types, Types', ServerHonest, DevicesHonest, NEW c \in Clients, Sanity(c)
    PROVE  ServerHonest' /\ DevicesHonest'
<1>1. /\ db \in [Clients -> [Files -> Entry]] /\ pass \in [Clients -> Pass] /\ last \in Nat
      /\ usn \in [Clients -> 0..last] /\ Numbers /\ exact \in [Clients -> SUBSET Files]
  BY TypesParts, BoundsAssumption DEF DeviceTypes, PassTypes, ServerTypes
<1>2. UNCHANGED <<folder, serverVars, blind, events>> /\ Stop(c) BY DEF Sanity
<1>3. UNCHANGED <<folder, srv, disk, last, held, blind>> BY <1>2 DEF serverVars
<1>4. ServerHonest' BY <1>3 DEF ServerHonest, RemoteSum
<1>5. CASE UNCHANGED <<db, usn, noticed, exact>>
  <2>1. UNCHANGED deviceVars BY <1>3, <1>5 DEF deviceVars
  <2> QED BY <1>2, <1>3, <1>4, <2>1, HonestStop
<1>6. CASE /\ db' = [db EXCEPT ![c] = [f \in Files |-> NoEntry]]
           /\ usn' = [usn EXCEPT ![c] = 0]
           /\ noticed' = noticed \ {c}
           /\ exact' = [exact EXCEPT ![c] = {}]
  <2>1. /\ usn'[c] = 0 /\ pass'[c] = Idle /\ c \notin noticed' /\ exact'[c] = {}
        /\ \A f \in Files : db'[c][f] = NoEntry
    BY <1>1, <1>2, <1>6 DEF Stop, GoTo
  <2>2. Empty(Idle) /\ Idle.stage = "idle" BY PassForms DEF Stages
  <2>3. ASSUME NEW f \in Files \ blind' PROVE DeviceHonest(c, f)'
    <3>1. FolderHonest(folder[c][f], NoEntry, srv[f], 0, Overlooked(c, f)', "idle")
      BY <2>1 DEF FolderHonest, Overlooked
    <3>2. Above(srv[f], 0) \/ Sum(srv[f]) = Absent BY <1>1 DEF Numbers, Above, Sum
    <3>3. EntryHonest(NoEntry, srv[f], 0, held[f]) BY <3>2, EntryMeans DEF EntryHonest
    <3>4. PassHonest(f, Idle, NoEntry, srv[f], 0, held[f]) BY <2>2, EmptyPass
    <3> QED BY <1>3, <2>1, <2>2, <3>1, <3>3, <3>4 DEF DeviceHonest
  <2>4. \A d \in Clients \ {c} :
            /\ folder'[d] = folder[d] /\ db'[d] = db[d] /\ usn'[d] = usn[d] /\ pass'[d] = pass[d]
            /\ exact'[d] = exact[d] /\ (d \in noticed' => d \in noticed)
    BY <1>1, <1>2, <1>3, <1>6 DEF Stop, GoTo
  <2> QED BY <1>3, <1>4, <2>3, <2>4, HonestIf
<1> QED BY <1>5, <1>6 DEF Sanity

LEMMA HonestFail ==
    ASSUME Types, Types', ServerHonest, DevicesHonest, NEW c \in Clients, Fail(c)
    PROVE  ServerHonest' /\ DevicesHonest'
<1>1. UNCHANGED <<deviceVars, srv, disk, last, held, blind>> /\ Stop(c) BY DEF Fail, serverVars
<1>2. ServerHonest' BY <1>1 DEF ServerHonest, RemoteSum
<1> QED BY <1>1, <1>2, HonestStop

\* A pass does not count on entries that are pending.
LEMMA PassEntry ==
    ASSUME NEW f, NEW p, NEW e, NEW n, NEW r, NEW u, NEW h, PassHonest(f, p, e, r, u, h),
           Dirty(n) \/ n = e
    PROVE  PassHonest(f, p, n, r, u, h)
BY DEF PassHonest, Settled

\* What the changes of a folder have in common: a file that changed is in the database, to
\* be sent, or it is noticed.
LEMMA HonestFolder ==
    ASSUME Types, Types', ServerHonest, DevicesHonest, NEW c \in Clients,
           UNCHANGED <<usn, serverVars, pass>>, blind \subseteq blind',
           \A d \in Clients \ {c} : /\ folder'[d] = folder[d] /\ db'[d] = db[d]
                                    /\ exact'[d] = exact[d] /\ (d \in noticed' => d \in noticed),
           \A f \in Files \ blind' :
                /\ \/ folder'[c][f] = folder[c][f] /\ db'[c][f] = db[c][f]
                                                   /\ (Overlooked(c, f)' => Overlooked(c, f))
                   \/ folder'[c][f] = Sum(db'[c][f])
                   \/ ~Overlooked(c, f)'
                /\ Dirty(db'[c][f]) \/ db'[c][f] = db[c][f]
    PROVE  ServerHonest' /\ DevicesHonest'
<1>1. UNCHANGED <<usn, srv, disk, last, held, pass>> BY DEF serverVars
<1>2. ServerHonest' BY <1>1 DEF ServerHonest, RemoteSum
<1>3. ASSUME NEW f \in Files \ blind' PROVE DeviceHonest(c, f)'
  <2>1. /\ FolderHonest(folder[c][f], db[c][f], srv[f], usn[c], Overlooked(c, f), pass[c].stage)
        /\ EntryHonest(db[c][f], srv[f], usn[c], held[f])
        /\ PassHonest(f, pass[c], db[c][f], srv[f], usn[c], held[f])
    BY DEF DevicesHonest, DeviceHonest
  <2>2. FolderHonest(folder'[c][f], db'[c][f], srv[f], usn[c], Overlooked(c, f)', pass[c].stage)
    BY <2>1 DEF FolderHonest
  <2>3. EntryHonest(db'[c][f], srv[f], usn[c], held[f]) BY <2>1 DEF EntryHonest
  <2>4. PassHonest(f, pass[c], db'[c][f], srv[f], usn[c], held[f]) BY <2>1, PassEntry
  <2> QED BY <1>1, <2>2, <2>3, <2>4 DEF DeviceHonest
<1> QED BY <1>1, <1>2, <1>3, HonestIf

LEMMA HonestAddFile ==
    ASSUME Types, Types', ServerHonest, DevicesHonest,
           NEW c \in Clients, NEW f \in Files, NEW s \in Contents, AddFile(c, f, s)
    PROVE  ServerHonest' /\ DevicesHonest'
<1>1. /\ db \in [Clients -> [Files -> Entry]] /\ folder \in [Clients -> [Files -> Sums]]
      /\ exact \in [Clients -> SUBSET Files] /\ s \in Sums
  BY TypesParts DEF DeviceTypes, Sums
<1>2. /\ folder' = [folder EXCEPT ![c][f] = s] /\ UNCHANGED <<usn, noticed, serverVars, pass, blind>>
      /\ \/ /\ db' = [db EXCEPT ![c][f] = [sum |-> s, dirty |-> TRUE]]
            /\ exact' = [exact EXCEPT ![c] = exact[c] \ {f}]
         \/ /\ UNCHANGED <<db, exact>>
            /\ db[c][f] # NoEntry /\ LocalSum(c, f) = s
  BY DEF AddFile
<1>3. Sum(db'[c][f]) = s /\ (Dirty(db'[c][f]) \/ db'[c][f] = db[c][f])
  <2>1. CASE db' = [db EXCEPT ![c][f] = [sum |-> s, dirty |-> TRUE]]
    <3>1. db'[c][f] = [sum |-> s, dirty |-> TRUE] BY <1>1, <2>1
    <3> QED BY <1>1, <3>1, EntryMeans
  <2>2. CASE UNCHANGED <<db, exact>> /\ LocalSum(c, f) = s BY <2>2, SumsMean
  <2> QED BY <1>2, <2>1, <2>2
<1>4. \A d \in Clients, g \in Files : (d # c \/ g # f) => db'[d][g] = db[d][g]
  <2> DEFINE e == [sum |-> s, dirty |-> TRUE]
  <2>1. db' = db \/ db' = [db EXCEPT ![c][f] = e] BY <1>2
  <2> HIDE DEF e
  <2> QED BY <1>1, <2>1
<1>5. /\ folder'[c][f] = s /\ \A d \in Clients, g \in Files : (d # c \/ g # f) => folder'[d][g] = folder[d][g]
      /\ \A d \in Clients \ {c} : folder'[d] = folder[d]
  BY <1>1, <1>2
<1>6. \A d \in Clients \ {c} : db'[d] = db[d]
  <2> DEFINE e == [sum |-> s, dirty |-> TRUE]
  <2>1. db' = db \/ db' = [db EXCEPT ![c][f] = e] BY <1>2
  <2> HIDE DEF e
  <2> QED BY <1>1, <2>1
<1>7. (\A d \in Clients \ {c} : exact'[d] = exact[d]) /\ exact'[c] \subseteq exact[c]
  BY <1>1, <1>2
<1>8. \A g \in Files \ {f} : Overlooked(c, g)' => Overlooked(c, g)
  BY <1>2, <1>5, <1>7 DEF Overlooked
<1>9. \A g \in Files \ blind' :
                /\ \/ folder'[c][g] = folder[c][g] /\ db'[c][g] = db[c][g]
                                                   /\ (Overlooked(c, g)' => Overlooked(c, g))
                   \/ folder'[c][g] = Sum(db'[c][g])
                   \/ ~Overlooked(c, g)'
                /\ Dirty(db'[c][g]) \/ db'[c][g] = db[c][g]
  BY <1>3, <1>4, <1>5, <1>8
<1> QED BY <1>2, <1>5, <1>6, <1>7, <1>9, HonestFolder

LEMMA HonestRemoveFile ==
    ASSUME Types, Types', ServerHonest, DevicesHonest,
           NEW c \in Clients, NEW f \in Files, RemoveFile(c, f)
    PROVE  ServerHonest' /\ DevicesHonest'
<1>1. /\ db \in [Clients -> [Files -> Entry]] /\ folder \in [Clients -> [Files -> Sums]]
  BY TypesParts DEF DeviceTypes
<1>2. /\ folder' = [folder EXCEPT ![c][f] = Absent] /\ db' = [db EXCEPT ![c] = MarkRemoved(db[c], {f})]
      /\ UNCHANGED <<usn, noticed, exact, serverVars, pass, blind>>
  BY DEF RemoveFile
<1>3. /\ \A g \in Files \ {f} : db'[c][g] = db[c][g]
      /\ Sum(db'[c][f]) = Absent
      /\ Dirty(db'[c][f]) \/ db'[c][f] = db[c][f]
  <2>1. db'[c] = MarkRemoved(db[c], {f}) BY <1>1, <1>2
  <2> QED BY <1>1, <2>1, RemovedMeans
<1>4. /\ folder'[c][f] = Absent /\ \A g \in Files \ {f} : folder'[c][g] = folder[c][g]
      /\ \A d \in Clients \ {c} : folder'[d] = folder[d] /\ db'[d] = db[d]
  BY <1>1, <1>2
<1>5. \A g \in Files \ {f} : Overlooked(c, g)' => Overlooked(c, g)
  BY <1>2, <1>4 DEF Overlooked
<1>6. \A g \in Files \ blind' :
                /\ \/ folder'[c][g] = folder[c][g] /\ db'[c][g] = db[c][g]
                                                   /\ (Overlooked(c, g)' => Overlooked(c, g))
                   \/ folder'[c][g] = Sum(db'[c][g])
                   \/ ~Overlooked(c, g)'
                /\ Dirty(db'[c][g]) \/ db'[c][g] = db[c][g]
  BY <1>3, <1>4, <1>5
<1> QED BY <1>2, <1>4, <1>6, HonestFolder

LEMMA HonestOutsideChange ==
    ASSUME Types, Types', ServerHonest, DevicesHonest,
           NEW c \in Clients, NEW f \in Files, NEW s \in Sums, OutsideChange(c, f, s)
    PROVE  ServerHonest' /\ DevicesHonest'
<1>1. /\ folder \in [Clients -> [Files -> Sums]] /\ exact \in [Clients -> SUBSET Files]
      /\ noticed \subseteq Clients
  BY TypesParts DEF DeviceTypes
<1>2. /\ folder' = [folder EXCEPT ![c][f] = s] /\ UNCHANGED <<db, usn, serverVars, pass>>
      /\ \/ /\ noticed' = noticed \ {c}
            /\ exact' = [exact EXCEPT ![c] = exact[c] \ {f}]
            /\ UNCHANGED blind
         \/ /\ exact' = exact \/ exact' = [exact EXCEPT ![c] = exact[c] \ {f}]
            /\ blind' = IF c \in noticed \/ f \in exact'[c] THEN blind \union {f} ELSE blind
            /\ UNCHANGED noticed
  BY DEF OutsideChange
<1>3. /\ \A d \in Clients \ {c} : /\ exact'[d] = exact[d] /\ folder'[d] = folder[d] /\ db'[d] = db[d]
                                  /\ (d \in noticed' => d \in noticed)
      /\ exact'[c] \subseteq exact[c] /\ noticed' \subseteq noticed /\ blind \subseteq blind'
      /\ folder'[c][f] = s /\ \A g \in Files \ {f} : folder'[c][g] = folder[c][g]
  BY <1>1, <1>2
<1>4. f \in blind' \/ ~Overlooked(c, f)' BY <1>1, <1>2 DEF Overlooked
<1>5. \A g \in Files \ {f} : Overlooked(c, g)' => Overlooked(c, g) BY <1>3 DEF Overlooked
<1>6. \A g \in Files \ blind' :
                /\ \/ folder'[c][g] = folder[c][g] /\ db'[c][g] = db[c][g]
                                                   /\ (Overlooked(c, g)' => Overlooked(c, g))
                   \/ folder'[c][g] = Sum(db'[c][g])
                   \/ ~Overlooked(c, g)'
                /\ Dirty(db'[c][g]) \/ db'[c][g] = db[c][g]
  BY <1>2, <1>3, <1>4, <1>5
<1> QED BY <1>2, <1>3, <1>6, HonestFolder

LEMMA HonestStep == Types /\ Types' /\ ServerHonest /\ DevicesHonest /\ [Next]_vars
                        => ServerHonest' /\ DevicesHonest'
<1> SUFFICES ASSUME Types, Types', ServerHonest, DevicesHonest, [Next]_vars
             PROVE  ServerHonest' /\ DevicesHonest'
  OBVIOUS
<1>1. CASE UNCHANGED vars
  BY <1>1 DEF vars, deviceVars, serverVars, ServerHonest, DevicesHonest, DeviceHonest, Overlooked, RemoteSum
<1>2. CASE Next
  <2>1. PICK c \in Clients : SyncStep(c) \/ Fail(c) \/ FolderStep(c) BY <1>2 DEF Next
  <2>2. CASE SyncStep(c)
    BY <2>2, HonestBegin, HonestFetch, HonestDownload, HonestRecord, HonestUpload, HonestReply,
       HonestSanity
    DEF SyncStep
  <2>3. CASE Fail(c) BY <2>3, HonestFail
  <2>4. CASE FolderStep(c)
    BY <2>4, HonestAddFile, HonestRemoveFile, HonestOutsideChange DEF FolderStep
  <2> QED BY <2>1, <2>2, <2>3, <2>4
<1> QED BY <1>1, <1>2

IInv == Types /\ ServerHonest /\ DevicesHonest

LEMMA Inductive == Spec => []IInv
<1>1. Init => IInv BY TypesInit, HonestInit DEF IInv
<1>2. IInv /\ [Next]_vars => IInv' BY TypesStep, HonestStep DEF IInv
<1> QED BY <1>1, <1>2, PTL DEF Spec

\* sync/media/syncer.rs and changetracker.rs: no difference between a folder and the server
\* is overlooked by the passes to come, however many devices sync, crash, lose answers and
\* have their folders changed meanwhile, save for files hit by one of the listed windows.
THEOREM NothingIsMissed == Spec => []NothingMissed
<1>1. ASSUME IInv PROVE NothingMissed
  <2> SUFFICES ASSUME NEW c \in Clients, NEW f \in Files, folder[c][f] # RemoteSum(f), f \notin blind
               PROVE  Noticed(c, f)
    BY DEF NothingMissed
  <2>1. /\ FolderHonest(folder[c][f], db[c][f], srv[f], usn[c], Overlooked(c, f), pass[c].stage)
        /\ EntryHonest(db[c][f], srv[f], usn[c], held[f])
    BY <1>1 DEF IInv, DevicesHonest, DeviceHonest
  <2>2. CASE Above(srv[f], usn[c]) BY <2>2 DEF Above, Noticed
  <2>3. CASE Dirty(db[c][f]) BY <2>3, PendingMeans DEF Noticed
  <2>4. CASE ~Above(srv[f], usn[c]) /\ ~Dirty(db[c][f])
    <3>1. Sum(db[c][f]) = Sum(srv[f]) BY <2>1, <2>4 DEF EntryHonest
    <3>2. folder[c][f] # Sum(db[c][f]) BY <3>1, SumsMean
    <3>3. ~Overlooked(c, f) BY <2>1, <2>4, <3>2 DEF FolderHonest
    <3> QED BY <3>2, <3>3, SumsMean DEF Noticed, Overlooked
  <2> QED BY <2>2, <2>3, <2>4
<1> QED BY <1>1, Inductive, PTL

\* sync/media/changes.rs, determine_required_change: a deletion that comes from the server
\* takes away only what the server has held of that file.
THEOREM DeletionsSpare == Spec => DeletionsSpareUnsent
<1>1. ASSUME IInv, NEW c \in Clients, NEW f \in Files, Fetch(c),
             folder'[c][f] # folder[c][f], folder[c][f] = LocalSum(c, f), f \notin blind
      PROVE  folder[c][f] \in held[f]
  <2> DEFINE batch == MediaChangesChunk(pass[c].last)
             Required(g) == RequiredChange(Sum(db[c][g]), Sum(srv[g]), db[c][g] # NoEntry, Dirty(db[c][g]))
  <2>1. Types /\ folder \in [Clients -> [Files -> Sums]]
    BY <1>1, TypesParts DEF IInv, DeviceTypes
  <2>2. batch # {} BY <1>1, <2>1, FetchShape
  <2>3. /\ FetchDel(c) = {g \in batch : Required(g) = "delete"}
        /\ folder' = [folder EXCEPT ![c] =
               [g \in Files |-> IF g \in Trashed(c, FetchDel(c)) THEN Absent ELSE folder[c][g]]]
    BY <1>1, <2>1, <2>2, FetchShape
  <2>4. f \in Trashed(c, FetchDel(c)) /\ folder[c][f] # Absent BY <1>1, <2>1, <2>3
  <2>5. Required(f) = "delete" BY <2>3, <2>4 DEF Trashed
  <2>6. Sum(db[c][f]) = folder[c][f] BY <1>1, SumsMean
  <2>7. ~Dirty(db[c][f]) BY <2>4, <2>5, <2>6 DEF RequiredChange
  <2>8. EntryHonest(db[c][f], srv[f], usn[c], held[f])
    BY <1>1 DEF IInv, DevicesHonest, DeviceHonest
  <2> QED BY <2>4, <2>6, <2>7, <2>8 DEF EntryHonest
<1>2. IInv /\ [Next]_vars =>
        [\A c \in Clients, f \in Files :
            (Fetch(c) /\ folder'[c][f] # folder[c][f] /\ folder[c][f] = LocalSum(c, f))
                => folder[c][f] \in held[f] \/ f \in blind]_vars
  BY <1>1
<1> QED BY <1>2, Inductive, PTL DEF Spec, DeletionsSpareUnsent
=============================================================================
