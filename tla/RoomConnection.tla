--------------------------- MODULE RoomConnection ---------------------------
(***************************************************************************)
(* One browser tab and the connection of its room page                     *)
(* (hooks/room/useRoomConnection.ts, app/room/[roomId]/page.tsx): the      *)
(* effect that connects to the room of the address, the frames it takes,   *)
(* the timer that connects again, and leaving the room.                    *)
(*                                                                         *)
(* The visitor has given a name.  What a room looks like is a view, and    *)
(* the server sends any of them over a connection to the room; the room's  *)
(* version comes and goes with the view.  close() of a socket without      *)
(* handlers is its end: a browser delivers no message after it.  A         *)
(* navigation is rendered before the next one starts.  Frames and fields   *)
(* that only inform (command-ack, stale-command, connected) are left out.  *)
(***************************************************************************)
EXTENDS Naturals

CONSTANTS
    RoomIDs, ClientIDs,
    Sockets,     \* WebSocket objects; a closed one is used again
    Views,
    None

ASSUME PageAssumption == None \notin RoomIDs \cup ClientIDs \cup Sockets \cup Views

VARIABLES
    route,       \* the room of the address, None on any other page
    mounted,     \* the room whose effect is running
    socket,      \* socket.current
    sockets,     \* the sockets that are not closed
    timer,       \* reconnectTimeoutRef: the effect that is to connect again
    deliberate,  \* deliberateDisconnectRef
    savedID,     \* clientId of the session's storage
    clientId, snapshot, isConnected

storage == <<route, savedID>>
shown   == <<clientId, snapshot, isConnected>>
connectionVars == <<mounted, socket, sockets, timer, deliberate, storage, shown>>

-----------------------------------------------------------------------------
\* Mutant: a disconnect before the last connect still counts.
connect_StaysDeliberate(r) ==
    \E s \in Sockets :
        /\ sockets[s] = None
        /\ sockets' = [sockets EXCEPT ![s] = [room |-> r, client |-> savedID,
                                              phase |-> "connecting", told |-> FALSE]]
        /\ socket' = s
        /\ UNCHANGED deliberate

connect(r) ==
    \E s \in Sockets :
        /\ sockets[s] = None
        /\ sockets' = [sockets EXCEPT ![s] = [room |-> r, client |-> savedID,
                                              phase |-> "connecting", told |-> FALSE]]
        /\ socket' = s
        /\ deliberate' = FALSE

Forget == clientId' = None /\ snapshot' = None

Close == sockets' = [s \in Sockets |-> IF s = socket THEN None ELSE sockets[s]]

\* Mutant: the timer is left running.
disconnect_KeepsTimer ==
    /\ deliberate' = TRUE
    /\ Forget
    /\ Close
    /\ socket' = None
    /\ UNCHANGED timer

disconnect ==
    /\ deliberate' = TRUE
    /\ timer' = None
    /\ Forget
    /\ Close
    /\ socket' = None

-----------------------------------------------------------------------------
(* The page and its effect *)

Navigate(r) ==
    /\ route = mounted
    /\ r # route
    /\ route' = r
    /\ UNCHANGED <<mounted, socket, sockets, timer, deliberate, savedID, shown>>

\* The room of the address is known and the visitor allowed in: enabled.
Mount ==
    /\ mounted = None
    /\ route # None
    /\ mounted' = route
    /\ connect(route)
    /\ UNCHANGED <<timer, storage, shown>>

\* The address is no longer that of the room.  A page that comes back later
\* starts out as connected.
Cleanup ==
    /\ mounted \notin {None, route}
    /\ disconnect
    /\ mounted' = None
    /\ isConnected' = (route = None)
    /\ UNCHANGED storage

\* The visitor loads the page anew; only the session's storage is left.
Reload ==
    /\ mounted # None
    /\ mounted' = None
    /\ socket' = None
    /\ sockets' = [s \in Sockets |-> None]
    /\ timer' = None
    /\ deliberate' = FALSE
    /\ Forget
    /\ isConnected' = TRUE
    /\ UNCHANGED storage

\* Both disconnect, forget the identity and go to the start page.
LeavePage ==
    /\ disconnect
    /\ isConnected' = FALSE
    /\ savedID' = None
    /\ route' = None
    /\ UNCHANGED mounted

BackHome ==
    /\ mounted # None
    /\ route = mounted
    /\ LeavePage

\* The closure's own effect, not the one that runs now.
TimerFires ==
    /\ timer # None
    /\ timer' = None
    /\ IF timer = mounted THEN connect(timer)
       ELSE UNCHANGED <<socket, sockets, deliberate>>
    /\ UNCHANGED <<mounted, storage, shown>>

-----------------------------------------------------------------------------
(* What the network does to a socket *)

\* Not disposed, and still the current socket.
Heard(s) == socket = s /\ sockets[s].room = mounted

Is(s, phase) == sockets[s] # None /\ sockets[s].phase = phase

Opens(s) ==
    /\ Is(s, "connecting")
    /\ sockets' = [sockets EXCEPT ![s].phase = "open"]
    /\ isConnected' = (Heard(s) \/ isConnected)
    /\ UNCHANGED <<mounted, socket, timer, deliberate, storage, clientId, snapshot>>

\* Refused, lost or closed by the server.
Drops(s) ==
    /\ sockets[s] # None
    /\ sockets' = [sockets EXCEPT ![s] = None]
    /\ IF Heard(s)
       THEN /\ isConnected' = FALSE
            /\ socket' = None
            /\ timer' = IF deliberate THEN timer ELSE mounted
       ELSE UNCHANGED <<isConnected, socket, timer>>
    /\ UNCHANGED <<mounted, deliberate, storage, clientId, snapshot>>

\* update-client-id, once per connection: the identity the browser came with,
\* or else a new one.
GetsClientID(s, c) ==
    /\ Is(s, "open") /\ ~sockets[s].told
    /\ sockets[s].client \in {c, None}
    /\ Heard(s)
    /\ sockets' = [sockets EXCEPT ![s].told = TRUE]
    /\ clientId' = c
    /\ savedID' = c
    /\ UNCHANGED <<route, mounted, socket, timer, deliberate, snapshot, isConnected>>

\* room-state
GetsRoomState(s, v) ==
    /\ Is(s, "open")
    /\ Heard(s)
    /\ snapshot' = [room |-> sockets[s].room, view |-> v]
    /\ UNCHANGED <<mounted, socket, sockets, timer, deliberate, storage, clientId,
                   isConnected>>

\* kicked
GetsKicked(s) ==
    /\ Is(s, "open")
    /\ Heard(s)
    /\ LeavePage

-----------------------------------------------------------------------------
ConnectionInit ==
    /\ route = None
    /\ mounted = None
    /\ socket = None
    /\ sockets = [s \in Sockets |-> None]
    /\ timer = None
    /\ deliberate = FALSE
    /\ savedID = None
    /\ clientId = None /\ snapshot = None /\ isConnected = TRUE

\* The steps the page component lives through, and those that end it.
PageStep ==
    \/ \E r \in RoomIDs \cup {None} : Navigate(r)
    \/ Mount \/ BackHome \/ TimerFires
    \/ \E s \in Sockets :
          \/ Opens(s) \/ Drops(s) \/ GetsKicked(s)
          \/ \E c \in ClientIDs : GetsClientID(s, c)
          \/ \E v \in Views : GetsRoomState(s, v)

\* Effects run and timers fire; of infinitely many attempts to connect one
\* succeeds.
ConnectionFairness ==
    /\ WF_connectionVars(Mount)
    /\ WF_connectionVars(Cleanup)
    /\ WF_connectionVars(TimerFires)
    /\ SF_connectionVars(\E s \in Sockets : Opens(s))

-----------------------------------------------------------------------------
(* Every open socket is the current one and goes to the room of the page;  *)
(* what the page shows, and with it the version its guarded commands       *)
(* carry, and the identity it uses are of that room and that session.      *)
(* Once the visitor has left, was kicked or has moved on, no socket and no *)
(* timer is there to bring the tab back.                                   *)
PageFitsRoom ==
    /\ \A s \in Sockets :
          sockets[s] # None => s = socket /\ sockets[s].room = mounted
    /\ snapshot # None => mounted # None /\ snapshot.room = mounted
    /\ clientId \in {None, savedID}
    /\ timer # None => timer = mounted /\ socket = None
    /\ deliberate \/ mounted = None => socket = None /\ timer = None

(* A tab that stays on a room's page gets a connection to the room,        *)
(* however often it was disconnected, in whichever room it was before.     *)
ComesBack ==
    \A r \in RoomIDs :
        route = r ~> \/ route # r
                     \/ \E s \in Sockets : Is(s, "open") /\ sockets[s].room = r
=============================================================================
