--------------------------- MODULE RoomPageProofs ---------------------------
(***************************************************************************)
(* The page fits its room and its timers are due, for any number of rooms, *)
(* identities, views and sockets, and whatever the network does.           *)
(***************************************************************************)
EXTENDS RoomPage, TLAPS

SocketStates ==
    [room : RoomIDs, client : ClientIDs \cup {None},
     phase : {"connecting", "open"}, told : BOOLEAN]

TypeOK ==
    /\ route \in RoomIDs \cup {None}
    /\ mounted \in RoomIDs \cup {None}
    /\ savedID \in ClientIDs \cup {None}
    /\ socket \in Sockets \cup {None}
    /\ sockets \in [Sockets -> SocketStates \cup {None}]
    /\ timer \in RoomIDs \cup {None}

Inv == TypeOK /\ PageFitsRoom

(* disconnect, wherever it is called, leaves no socket and no timer.       *)
LEMMA DisconnectFacts ==
    ASSUME Inv, disconnect
    PROVE  /\ \A s \in Sockets : sockets'[s] = None
           /\ socket' = None /\ timer' = None
           /\ clientId' = None /\ snapshot' = None
           /\ sockets' \in [Sockets -> SocketStates \cup {None}]
<1>1. sockets' = [s \in Sockets |-> IF s = socket THEN None ELSE sockets[s]]
  BY DEF disconnect, Close
<1>2. \A s \in Sockets : s # socket => sockets[s] = None
  BY DEF Inv, PageFitsRoom
<1>3. QED
  BY <1>1, <1>2 DEF disconnect, Forget

(* A page that has no socket gets one, to the room it connects to.         *)
LEMMA ConnectFacts ==
    ASSUME Inv, NEW r \in RoomIDs, socket = None, connect(r)
    PROVE  /\ socket' \in Sockets
           /\ \A s \in Sockets : sockets'[s] # None => s = socket' /\ sockets'[s].room = r
           /\ sockets' \in [Sockets -> SocketStates \cup {None}]
           /\ deliberate' = FALSE
<1>1. PICK s \in Sockets :
        /\ sockets' = [sockets EXCEPT ![s] = [room |-> r, client |-> savedID,
                                              phase |-> "connecting", told |-> FALSE]]
        /\ socket' = s
        /\ deliberate' = FALSE
  BY DEF connect
<1>2. \A t \in Sockets : sockets[t] = None
  BY PageAssumption DEF Inv, PageFitsRoom
<1>3. [room |-> r, client |-> savedID, phase |-> "connecting", told |-> FALSE]
        \in SocketStates
  BY DEF Inv, TypeOK, SocketStates
<1>4. QED
  BY <1>1, <1>2, <1>3 DEF Inv, TypeOK

(* Frames and the ends of a connection keep the page in its room.          *)
LEMMA SocketStepOK ==
    ASSUME Inv, NEW s \in Sockets,
           \/ Opens(s) \/ Drops(s) \/ GetsKicked(s)
           \/ \E c \in ClientIDs : GetsClientID(s, c)
           \/ \E v \in Views : GetsRoomState(s, v)
    PROVE  Inv'
<1> USE PageAssumption DEF Is, storage, shown
<1>1. CASE Opens(s)
  <2>1. sockets[s] \in SocketStates
    BY <1>1 DEF Opens, Inv, TypeOK
  <2>2. /\ [sockets[s] EXCEPT !.phase = "open"] \in SocketStates
        /\ [sockets[s] EXCEPT !.phase = "open"].room = sockets[s].room
    BY <2>1 DEF SocketStates
  <2>3. sockets' = [sockets EXCEPT ![s] = [sockets[s] EXCEPT !.phase = "open"]]
    BY <1>1 DEF Opens
  <2>4. QED
    BY <1>1, <2>2, <2>3 DEF Opens, Inv, TypeOK, PageFitsRoom
<1>2. CASE Drops(s)
  <2>1. Heard(s) /\ ~deliberate /\ mounted # None
    BY <1>2 DEF Drops, Heard, Inv, PageFitsRoom
  <2>2. /\ socket' = None /\ timer' = mounted
        /\ sockets' = [sockets EXCEPT ![s] = None]
        /\ UNCHANGED <<mounted, deliberate, route, savedID, clientId, snapshot>>
    BY <1>2, <2>1 DEF Drops
  <2>3. \A t \in Sockets : sockets'[t] = None
    BY <2>1, <2>2 DEF Heard, Inv, TypeOK, PageFitsRoom
  <2>4. QED
    BY <2>1, <2>2, <2>3 DEF Inv, TypeOK, PageFitsRoom
<1>3. CASE GetsKicked(s)
  BY <1>3, DisconnectFacts DEF GetsKicked, LeavePage, Inv, TypeOK, PageFitsRoom
<1>4. ASSUME NEW c \in ClientIDs, GetsClientID(s, c) PROVE Inv'
  <2>1. sockets[s] \in SocketStates
    BY <1>4 DEF GetsClientID, Inv, TypeOK
  <2>2. /\ [sockets[s] EXCEPT !.told = TRUE] \in SocketStates
        /\ [sockets[s] EXCEPT !.told = TRUE].room = sockets[s].room
    BY <2>1 DEF SocketStates
  <2>3. sockets' = [sockets EXCEPT ![s] = [sockets[s] EXCEPT !.told = TRUE]]
    BY <1>4 DEF GetsClientID
  <2>4. QED
    BY <1>4, <2>2, <2>3 DEF GetsClientID, Inv, TypeOK, PageFitsRoom
<1>5. ASSUME NEW v \in Views, GetsRoomState(s, v) PROVE Inv'
  BY <1>5 DEF GetsRoomState, Heard, Inv, TypeOK, PageFitsRoom
<1>6. QED
  BY <1>1, <1>2, <1>3, <1>4, <1>5

(* What the page, its visitor and its timer do.                            *)
LEMMA PageStepOK ==
    ASSUME Inv, PageStep
    PROVE  Inv'
<1> USE PageAssumption DEF storage, shown
<1>1. ASSUME NEW r \in RoomIDs \cup {None}, Navigate(r) PROVE Inv'
  BY <1>1 DEF Navigate, Inv, TypeOK, PageFitsRoom
<1>2. CASE Mount
  <2>1. socket = None /\ timer = None /\ route \in RoomIDs
    BY <1>2 DEF Mount, Inv, TypeOK, PageFitsRoom
  <2>2. mounted' = route /\ connect(route)
    BY <1>2 DEF Mount
  <2>3. UNCHANGED <<timer, route, savedID, clientId, snapshot>>
    BY <1>2 DEF Mount
  <2>4. snapshot = None
    BY <1>2 DEF Mount, Inv, PageFitsRoom
  <2>5. QED
    BY <2>1, <2>2, <2>3, <2>4, ConnectFacts DEF Inv, TypeOK, PageFitsRoom
<1>3. CASE BackHome
  BY <1>3, DisconnectFacts DEF BackHome, LeavePage, Inv, TypeOK, PageFitsRoom
<1>4. CASE TimerFires
  <2>1. timer = mounted /\ mounted \in RoomIDs /\ socket = None
    BY <1>4 DEF TimerFires, Inv, TypeOK, PageFitsRoom
  <2>2. timer' = None /\ connect(mounted)
    BY <1>4, <2>1 DEF TimerFires
  <2>3. UNCHANGED <<mounted, route, savedID, clientId, snapshot>>
    BY <1>4 DEF TimerFires
  <2>4. QED
    BY <2>1, <2>2, <2>3, ConnectFacts DEF Inv, TypeOK, PageFitsRoom
<1>5. QED
  BY <1>1, <1>2, <1>3, <1>4, SocketStepOK DEF PageStep

(* The effect's end, with the page or with the room.                       *)
LEMMA CleanupOK ==
    ASSUME Inv, Cleanup \/ Reload
    PROVE  Inv'
<1> USE PageAssumption DEF storage
<1>1. CASE Cleanup
  <2>1. disconnect /\ mounted' = None /\ UNCHANGED <<route, savedID>>
    BY <1>1 DEF Cleanup
  <2>2. QED
    BY <2>1, DisconnectFacts DEF Inv, TypeOK, PageFitsRoom
<1>2. CASE Reload
  BY <1>2 DEF Reload, Forget, Inv, TypeOK, PageFitsRoom
<1>3. QED
  BY <1>1, <1>2

(* useRoomConnection.ts: every socket, snapshot, identity and timer of a   *)
(* tab is of the room its page shows, and none is left once it has gone.   *)
THEOREM PageAlwaysFits == Spec => []PageFitsRoom
<1>1. Init => Inv
  BY PageAssumption DEF Init, ConnectionInit, Inv, TypeOK, PageFitsRoom
<1>2. Inv /\ [Next]_vars => Inv'
  <2> SUFFICES ASSUME Inv, [Next]_vars PROVE Inv'
    OBVIOUS
  <2>1. CASE PageStep
    BY <2>1, PageStepOK
  <2>2. CASE UNCHANGED connectionVars
    BY <2>2 DEF connectionVars, storage, shown, Inv, TypeOK, PageFitsRoom
  <2>3. CASE Cleanup \/ Reload
    BY <2>3, CleanupOK
  <2>4. QED
    BY <2>1, <2>2, <2>3
    DEF Next, vars, RenderPage, Effect, Notify, MoveOn, EndPage, Restart
<1>3. Inv => PageFitsRoom
  BY DEF Inv
<1>4. QED
  BY <1>1, <1>2, <1>3, PTL DEF Spec

(* useUnvotedReminder.ts: a reminder's timer never outlives the state that *)
(* called for it.                                                          *)
THEOREM TimersAlwaysDue == Spec => []TimersAreDue
<1>1. Init => TimersAreDue
  BY DEF Init, Fresh, TimersAreDue
<1>2. TimersAreDue /\ [Next]_vars => TimersAreDue'
  <2> SUFFICES ASSUME TimersAreDue, [Next]_vars PROVE TimersAreDue'
    OBVIOUS
  <2>1. CASE UNCHANGED reminderVars
    BY <2>1 DEF reminderVars, TimersAreDue
  <2>2. CASE Render(Page)
    BY <2>2 DEF Render, TimersAreDue
  <2>3. CASE RunEffect
    BY <2>3 DEF RunEffect, TimersAreDue, MaxRepeats
  <2>4. CASE notify
    BY <2>4 DEF notify, TimersAreDue
  <2>5. CASE Unmounted(NewPage)
    BY <2>5 DEF Unmounted, TimersAreDue
  <2>6. QED
    BY <2>1, <2>2, <2>3, <2>4, <2>5
    DEF Next, vars, RenderPage, Effect, Notify, MoveOn, EndPage, Restart
<1>3. QED
  BY <1>1, <1>2, PTL DEF Spec
=============================================================================
