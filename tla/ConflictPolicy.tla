---------------------------- MODULE ConflictPolicy ----------------------------
(***************************************************************************)
(* The newest-wins rule that every content phase shares (conflict_policy), *)
(* and the time a pulled record is stored under (anki_apply).  Times are   *)
(* whole seconds; 0 is a time that is missing or cannot be read.           *)
(***************************************************************************)
EXTENDS Integers

CONSTANTS
    Resolution,   \* _TIMESTAMP_RESOLUTION_SECONDS (1)
    MaxSkew       \* _MAX_FUTURE_SKEW_SECONDS (300)

ASSUME PolicyAssumption == Resolution \in Nat \ {0} /\ MaxSkew \in Nat

\* A manifest row has the writer's time (client_modified_at) and the time the
\* server received it (modified_at); a local row has the second one only.
Times == [source : Nat, receipt : Nat]
LocalTimes(mod) == [source |-> 0, receipt |-> mod]

\* Mutant of ModifiedTimestamp: the time of receipt outranks the writer's.
ReceiptFirst(item) == IF item.receipt > 0 THEN item.receipt ELSE item.source

ModifiedTimestamp(item) == IF item.source > 0 THEN item.source ELSE item.receipt

Apart(a, b) == a - b >= Resolution \/ b - a >= Resolution

\* newest_side: "local", "server", or "none" when the two are not ordered.
\* now is the server's time of the manifest, 0 when it tells none.
NewestSide(localItem, serverItem, now) ==
    LET ceiling    == now + MaxSkew
        Future(t)  == now > 0 /\ t > ceiling
        localTime  == ModifiedTimestamp(localItem)
        sourceTime == ModifiedTimestamp(serverItem)
        serverTime == IF ~Future(sourceTime) THEN sourceTime
                      ELSE IF Future(serverItem.receipt) THEN 0
                      ELSE serverItem.receipt
    IN  IF serverTime = 0 THEN "none"
        ELSE IF Future(localTime) THEN "server"
        ELSE IF localTime = 0 \/ ~Apart(localTime, serverTime) THEN "none"
        ELSE IF localTime > serverTime THEN "local" ELSE "server"

\* _source_modified_seconds: the mod of a record that is applied here.
SourceModified(item, wallClock) ==
    LET source == ModifiedTimestamp(item)
        kept   == IF item.receipt > 0 /\ source > item.receipt + MaxSkew
                  THEN item.receipt ELSE source
    IN  IF kept = 0 THEN wallClock ELSE kept
=============================================================================
