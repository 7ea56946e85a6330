----------------------------- MODULE MCRoomPage -----------------------------
(* Instances of RoomPage for TLC. *)
EXTENDS RoomPage, TLC

CONSTANTS c1, c2, c3

MCEmpty == [story |-> "", reveal |-> FALSE, participants |-> <<>>]

Round(states) == [story |-> "s", reveal |-> FALSE, participants |-> states]

\* c1 is awaited alone, c1 and c2 are, all three are, and the votes are revealed.
MCViews ==
    {Round(c1 :> "waits" @@ c2 :> "voted"),
     Round(c1 :> "waits" @@ c2 :> "waits" @@ c3 :> "voted"),
     Round(c1 :> "waits" @@ c2 :> "waits" @@ c3 :> "waits"),
     [Round(c1 :> "waits" @@ c2 :> "voted") EXCEPT !.reveal = TRUE]}
=============================================================================
