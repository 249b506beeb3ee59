---------------------------- MODULE MCShadowSync ----------------------------
(***************************************************************************)
(* ShadowSync for TLC: two services, two decks, two notes.                 *)
(***************************************************************************)
EXTENDS ShadowSync

Of(deck, time) == [deck |-> deck, mod |-> time, card |-> time]
MCServices == <<"kelma", "ankiweb">>
MCServers(kelma) == [s \in ToSet(MCServices) |-> IF s = "kelma" THEN kelma ELSE <<>>]

\* Two notes of the desktop alone, with all decks synced to both services; or a note
\* that the first server has a newer text of, with decks that come later left to the
\* first service (as they are by default).
MCStarts ==
    {[master |-> (1 :> Of("A", 0) @@ 2 :> Of("A", 0)), server |-> MCServers(<<>>),
      route |-> [s \in ToSet(MCServices) |-> {"A", "B"}]],
     [master |-> (1 :> Of("A", 0)), server |-> MCServers(1 :> Of("A", 1)),
      route |-> ("kelma" :> {"A", "B"} @@ "ankiweb" :> {"A"})]}

\* One service, which has everything the desktop has.
OneService == <<"kelma">>
OneStart ==
    {[master |-> 1 :> Of("A", 0), server |-> "kelma" :> (1 :> Of("A", 0)), route |-> "kelma" :> {"A"}]}
=============================================================================
