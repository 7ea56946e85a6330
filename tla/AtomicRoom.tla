----------------------------- MODULE AtomicRoom -----------------------------
(***************************************************************************)
(* The room as its clients may think of it: it exists or not, and every    *)
(* command changes it at once and completely.  This is what the hubs       *)
(* promise to the use cases that lock (application/lock, domain/hub.go):   *)
(* RoomService and InMemoryHub implement it.                               *)
(***************************************************************************)
CONSTANTS
    NoRoom,         \* there is no room
    NewRoom,        \* a room nobody has joined yet
    Changes(_, _),  \* may one operation turn the first room into the second?
    Empties(_)      \* may the room lose its last client?

VARIABLE room

Init == room \in {NoRoom, NewRoom}

Create == room = NoRoom /\ room' = NewRoom

Change ==
    /\ room # NoRoom
    /\ room' # NoRoom
    /\ Changes(room, room')

Close ==
    /\ room # NoRoom
    /\ Empties(room)
    /\ room' = NoRoom

Next == Create \/ Change \/ Close

Spec == Init /\ [][Next]_room

=============================================================================
