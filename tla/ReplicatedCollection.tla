------------------------ MODULE ReplicatedCollection ------------------------
(***************************************************************************)
(* What a collection sync promises (abstract specification).               *)
(*                                                                         *)
(* Every site holds a content; a device remembers which objects it changed *)
(* since its last sync, and the server which objects it owes each device.  *)
(* A sync is one step: an object changed on one side only is copied, one   *)
(* changed on both sides becomes the newer version, or stays deleted if    *)
(* either side deleted it, and both sides end with the same version.  When *)
(* the device does not learn that the sync succeeded, only the server's    *)
(* half happens.                                                           *)
(*                                                                         *)
(* A device may be in doubt about an object: the server may not tell it of *)
(* a change. New doubt comes from a sync of another device, about what     *)
(* that device has sent, from an object put back after its deletion, and   *)
(* from a sync of a device that is apart. Of an object in doubt each side  *)
(* ends with one of the two versions or none.                              *)
(* CollectionSync implements this with requests, sessions, transactions    *)
(* and update sequence numbers.                                            *)
(***************************************************************************)
EXTENDS Naturals

CONSTANTS
    Clients, Server, Objects,
    Stamps   \* modification times an object may have: numbers, 0 when it is absent

VARIABLES
    content,  \* content[s][x]: modification time of x at s, 0 when absent
    unsent,   \* unsent[c]: objects changed on device c
    news,     \* news[c]: objects changed on the server that c has not had
    apart,    \* devices that can only sync in one direction
    doubt     \* doubt[c]: objects of which the server may not tell c

vars == <<content, unsent, news, apart, doubt>>

Nothing == [c \in Clients |-> {}]

Init ==
    /\ content \in [Clients \union {Server} -> [Objects -> Stamps]]
    /\ \A c \in Clients : content[c] = content[Server]
    /\ unsent = Nothing /\ news = Nothing /\ apart = {} /\ doubt = Nothing

\* A local change of at most one object, which may have been deleted before.  Once it was put
\* back, its next deletion may go unsent.
Change(c) ==
    /\ \E x \in Objects, m \in Stamps, back \in BOOLEAN, told \in BOOLEAN :
        /\ content' = [content EXCEPT ![c][x] = m]
        /\ told \/ x \in doubt[c]
        /\ unsent' = [unsent EXCEPT ![c] = IF c \in apart THEN {} ELSE IF told THEN @ \union {x} ELSE @ \ {x}]
        /\ doubt' = [d \in Clients |-> doubt[d] \union (IF back THEN {x} ELSE {})]
    /\ UNCHANGED <<news, apart>>

\* From now on the device needs a one-way sync.
Part(c) ==
    /\ apart' = apart \union {c}
    /\ unsent' = [unsent EXCEPT ![c] = {}]
    /\ news' = [news EXCEPT ![c] = {}]
    /\ UNCHANGED <<content, doubt>>

Winner(c, x) ==
    LET mine == content[c][x]
        theirs == content[Server][x]
    IN  IF x \notin unsent[c] THEN theirs
        ELSE IF x \notin news[c] THEN mine
        ELSE IF mine = 0 \/ theirs = 0 THEN 0
        ELSE IF mine > theirs THEN mine ELSE theirs

\* What a side may hold of x when c's sync is over.
Outcome(c, x, m) ==
    IF x \in doubt[c] \/ c \in apart THEN m \in {content[c][x], content[Server][x], 0}
    ELSE m = Winner(c, x)

\* The server owes a device what c's sync changed, or leaves the device in doubt.
Owes(c, d) ==
    IF d \in apart THEN news'[d] = {}
    ELSE /\ (news[d] \union {x \in Objects : content'[Server][x] # content[Server][x]}) \ doubt'[d] \subseteq news'[d]
         /\ c \notin apart => news'[d] \subseteq news[d] \union unsent[c]

\* A sync resolves doubts, and brings new ones to other devices only.
Doubts(c) ==
    /\ doubt' \in [Clients -> SUBSET Objects]
    /\ c \notin apart => \A d \in Clients :
           doubt'[d] \subseteq doubt[d] \union (IF d = c THEN {} ELSE unsent[c])

\* The device has had everything, though the server may offer some of it again.
Sync(c) ==
    /\ content' = [content EXCEPT ![c] = content'[c], ![Server] = content'[Server]]
    /\ \A x \in Objects : Outcome(c, x, content'[c][x]) /\ Outcome(c, x, content'[Server][x])
    /\ unsent' = [unsent EXCEPT ![c] = {}]
    /\ news' \in [Clients -> SUBSET Objects]
    /\ \A d \in Clients \ {c} : Owes(c, d)
    /\ news'[c] \subseteq news[c] \union unsent[c]
    /\ Doubts(c)
    /\ UNCHANGED apart

SyncUnanswered(c) ==
    /\ content' = [content EXCEPT ![Server] = content'[Server]]
    /\ \A x \in Objects : Outcome(c, x, content'[Server][x])
    /\ news' \in [Clients -> SUBSET Objects]
    /\ \A d \in Clients : Owes(c, d)
    /\ Doubts(c)
    /\ UNCHANGED <<unsent, apart>>

Upload(c) ==
    /\ c \in apart
    /\ content' = [content EXCEPT ![Server] = content[c]]
    /\ unsent' = Nothing /\ doubt' = Nothing
    /\ \E more \in SUBSET Objects : news' = [Nothing EXCEPT ![c] = more]
    /\ apart' = Clients \ {c}

Download(c) ==
    /\ c \in apart
    /\ content' = [content EXCEPT ![c] = content[Server]]
    /\ apart' = apart \ {c}
    /\ \E more \in SUBSET Objects : news' = [news EXCEPT ![c] = more]
    /\ \E left \in SUBSET doubt[c] : doubt' = [doubt EXCEPT ![c] = left]
    /\ UNCHANGED unsent

Next == \E c \in Clients :
    Change(c) \/ Part(c) \/ Sync(c) \/ SyncUnanswered(c) \/ Upload(c) \/ Download(c)

Spec == Init /\ [][Next]_vars
=============================================================================
