----------------------------- MODULE HubPresence -----------------------------
(***************************************************************************)
(* Connections: the WebSocket handler (http/websocket.go), the life of a   *)
(* bus (bus/websocketbus.go: Listen, Detach, Close), the buses, counts and *)
(* subscriptions each instance keeps (hub/redis/hub.go), the join, leave   *)
(* and admin use cases that tie them together, and the gauge of active     *)
(* users.                                                                  *)
(*                                                                         *)
(* Of a stored room there is its set of clients.  Every use case loads the *)
(* room and saves all of it, so each save writes back the clients that     *)
(* were loaded, also the save of a command that is about something else.   *)
(* Joins, leaves and most commands do this under the room's lock;          *)
(* update-name does not lock, and its save may undo a join or a leave.     *)
(*                                                                         *)
(* The lock does not expire here (RoomService has the rest).  Acquiring it *)
(* and the load that follows are one step: acquiring reads nothing that a  *)
(* save without the lock changes.  Redis gives up waiting for a lock after *)
(* a bounded number of retries.                                            *)
(***************************************************************************)
EXTENDS Integers, FiniteSets, FiniteSetsExt

CONSTANTS
    Instances, RoomIDs, ClientIDs,
    Buses,       \* connections, each used once
    AdminOn,     \* instances that admin requests reach
    MaxFailures, \* bound: failed calls
    None

ASSUME PresenceAssumption ==
    /\ None \notin Buses
    /\ "admin" \notin Buses
    /\ AdminOn \subseteq Instances

VARIABLES
    conn,       \* client, room and instance of each connection
    pc,         \* where the handler of each connection is
    fresh,      \* has the connection added its client to the room?
    old,        \* the bus that a reconnect replaces
    once,       \* closeOnce of each bus
    detached,   \* skipCleanup of each bus
    members,    \* the clients of each stored room
    copy,       \* the clients of its room as a handler has loaded them
    overwritten, \* has a rename written back other clients than it found?
    lock,       \* the holder of each room's lock
    buses,      \* the bus of each client, per instance
    roomClientCounts, roomSubs,
    activeUsers,
    admin,      \* the admin request under way
    failures

vars == <<conn, pc, fresh, old, once, detached, members, lock, buses,
          roomClientCounts, roomSubs, activeUsers, admin, failures, copy, overwritten>>
hub  == <<buses, roomClientCounts, roomSubs>>

client(b) == conn[b].client
room(b)   == conn[b].room
inst(b)   == conn[b].inst

Goto(b, label) == pc' = [pc EXCEPT ![b] = label]

Lock(r, holder) == lock[r] = None /\ lock' = [lock EXCEPT ![r] = holder]

Unlock(r) == lock' = [lock EXCEPT ![r] = None]

Load(b) == copy' = [copy EXCEPT ![b] = members[room(b)]]

Forget(b) == copy' = [copy EXCEPT ![b] = {}]

-----------------------------------------------------------------------------
(* The hub of an instance *)

\* Mutant: only the first client is counted.
AddBus_FirstOnly(i, c, b) ==
    LET r == room(b)
    IN  /\ buses' = [buses EXCEPT ![i][c] = b]
        /\ roomClientCounts' = [roomClientCounts EXCEPT ![i][r] = 1]
        /\ roomSubs' = [roomSubs EXCEPT ![i] = @ \cup {r}]

\* A bus that is replaced stays in the count.
AddBus(i, c, b) ==
    LET r == room(b)
    IN  /\ buses' = [buses EXCEPT ![i][c] = b]
        /\ roomClientCounts' = [roomClientCounts EXCEPT ![i][r] = @ + 1]
        /\ roomSubs' = [roomSubs EXCEPT ![i] = @ \cup {r}]

\* The subscription is not confirmed: the client's bus, also one it had
\* before, is gone from the map.
AddBusFails(i, c, b) ==
    /\ room(b) \notin roomSubs[i]
    /\ buses' = [buses EXCEPT ![i][c] = None]
    /\ UNCHANGED <<roomClientCounts, roomSubs>>

\* Whichever bus the client has now; the last one ends the subscription.
RemoveBus(i, c) ==
    LET b    == buses[i][c]
        r    == room(b)
        rest == IF roomClientCounts[i][r] > 0 THEN roomClientCounts[i][r] - 1 ELSE 0
    IN  IF b = None THEN UNCHANGED hub
        ELSE /\ buses' = [buses EXCEPT ![i][c] = None]
             /\ roomClientCounts' = [roomClientCounts EXCEPT ![i][r] = rest]
             /\ roomSubs' = IF rest = 0 THEN [roomSubs EXCEPT ![i] = @ \ {r}]
                            ELSE roomSubs

\* RemoveClient of the hub removes the bus on this instance, loads the room
\* and saves or deletes it without the client.  There is nothing to save when
\* the room was missing; a room without clients may also be there.
RemoveClientSaves(c, r, loaded) ==
    \/ members' = [members EXCEPT ![r] = loaded \ {c}]
    \/ loaded = {} /\ UNCHANGED members

decrementActiveUsers(i) ==
    activeUsers' = [activeUsers EXCEPT ![i] = IF @ > 0 THEN @ - 1 ELSE 0]

-----------------------------------------------------------------------------
(* JoinRoom *)

Connect(b, c, r, i) ==
    /\ pc[b] = "unused"
    /\ conn' = [conn EXCEPT ![b] = [client |-> c, room |-> r, inst |-> i]]
    /\ Goto(b, "join")
    /\ UNCHANGED <<fresh, old, once, detached, members, lock, hub, activeUsers,
                   admin, failures, copy, overwritten>>

\* A client the room does not have is to be added.  (A missing room is first
\* stored without clients, which the save that follows writes over.)
JoinNew(b) ==
    /\ pc[b] = "join"
    /\ Lock(room(b), b)
    /\ client(b) \notin members[room(b)]
    /\ fresh' = [fresh EXCEPT ![b] = TRUE]
    /\ Load(b)
    /\ Goto(b, "save")
    /\ UNCHANGED <<conn, old, once, detached, members, hub, activeUsers, admin,
                   failures, overwritten>>

\* AddClient
JoinSaves(b) ==
    /\ pc[b] = "save"
    /\ members' = [members EXCEPT ![room(b)] = copy[b] \cup {client(b)}]
    /\ Forget(b)
    /\ Goto(b, "addBus")
    /\ UNCHANGED <<conn, fresh, old, once, detached, lock, hub, activeUsers, admin,
                   failures, overwritten>>

\* For a client it has, the bus known to this instance is detached and closed.
JoinAgain(b) ==
    /\ pc[b] = "join"
    /\ Lock(room(b), b)
    /\ client(b) \in members[room(b)]
    /\ LET before == buses[inst(b)][client(b)]
       IN  IF before = None THEN Goto(b, "addBus") /\ UNCHANGED <<old, detached>>
           ELSE /\ old' = [old EXCEPT ![b] = before]
                /\ detached' = [detached EXCEPT ![before] = TRUE]
                /\ Goto(b, "closeOld")
    /\ UNCHANGED <<conn, fresh, once, members, hub, activeUsers, admin, failures, copy,
                   overwritten>>

JoinGivesUp(b) ==
    /\ pc[b] = "join"
    /\ lock[room(b)] # None
    /\ Goto(b, "failed")
    /\ UNCHANGED <<conn, fresh, old, once, detached, members, lock, hub, activeUsers,
                   admin, failures, copy, overwritten>>

\* Close of a detached bus by somebody else: closeOnce makes it wait while
\* the bus is leaving the room by itself.
CloseDetached(b) ==
    /\ once[b] # "running"
    /\ once' = [once EXCEPT ![b] = "done"]

\* Mutant: the old bus is left open.
CloseOld_Skipped(b) ==
    /\ pc[b] = "closeOld"
    /\ Goto(b, "addBus")
    /\ UNCHANGED <<conn, fresh, old, once, detached, members, lock, hub, activeUsers,
                   admin, failures, copy, overwritten>>

CloseOld(b) ==
    /\ pc[b] = "closeOld"
    /\ CloseDetached(old[b])
    /\ Goto(b, "addBus")
    /\ UNCHANGED <<conn, fresh, old, detached, members, lock, hub, activeUsers,
                   admin, failures, copy, overwritten>>

JoinAddsBus(b) ==
    /\ pc[b] = "addBus"
    /\ AddBus(inst(b), client(b), b)
    /\ Goto(b, "notify")
    /\ UNCHANGED <<conn, fresh, old, once, detached, members, lock, activeUsers,
                   admin, failures, copy, overwritten>>

\* Mutant: reconnects are counted too.
Notify_CountsAll(b) ==
    /\ pc[b] = "notify"
    /\ activeUsers' = [activeUsers EXCEPT ![inst(b)] = @ + 1]
    /\ Unlock(room(b))
    /\ Goto(b, "listen")
    /\ UNCHANGED <<conn, fresh, old, once, detached, members, hub, admin, failures,
                   copy, overwritten>>

\* notifyJoin and recordJoinMetrics; the handler goes on to Listen.
Notify(b) ==
    /\ pc[b] = "notify"
    /\ activeUsers' = IF fresh[b] THEN [activeUsers EXCEPT ![inst(b)] = @ + 1]
                      ELSE activeUsers
    /\ Unlock(room(b))
    /\ Goto(b, "listen")
    /\ UNCHANGED <<conn, fresh, old, once, detached, members, hub, admin, failures,
                   copy, overwritten>>

\* A new client is taken out again, a reconnect only loses its bus.
Rollback(b) ==
    /\ pc[b] = "rollback"
    /\ RemoveBus(inst(b), client(b))
    /\ IF fresh[b] THEN Load(b) /\ Goto(b, "undo") /\ UNCHANGED lock
       ELSE Unlock(room(b)) /\ Goto(b, "failed") /\ UNCHANGED copy
    /\ UNCHANGED <<conn, fresh, old, once, detached, members, activeUsers, admin,
                   failures, overwritten>>

RollbackSaves(b) ==
    /\ pc[b] = "undo"
    /\ RemoveClientSaves(client(b), room(b), copy[b])
    /\ Forget(b)
    /\ Unlock(room(b))
    /\ Goto(b, "failed")
    /\ UNCHANGED <<conn, fresh, old, once, detached, hub, activeUsers, admin, failures,
                   overwritten>>

-----------------------------------------------------------------------------
(* The commands that a bus reads, one after the other.                     *)

\* UpdateName, which does not lock.
RenameLoads(b) ==
    /\ pc[b] = "listen"
    /\ client(b) \in members[room(b)]
    /\ Load(b)
    /\ Goto(b, "rename")
    /\ UNCHANGED <<conn, fresh, old, once, detached, members, lock, hub, activeUsers,
                   admin, failures, overwritten>>

RenameSaves(b) ==
    /\ pc[b] = "rename"
    /\ members' = [members EXCEPT ![room(b)] = copy[b]]
    /\ overwritten' = (overwritten \/ copy[b] # members[room(b)])
    /\ Forget(b)
    /\ Goto(b, "listen")
    /\ UNCHANGED <<conn, fresh, old, once, detached, lock, hub, activeUsers, admin,
                   failures>>

\* Every other command.
CommandLocks(b) ==
    /\ pc[b] = "listen"
    /\ client(b) \in members[room(b)]
    /\ Lock(room(b), b)
    /\ Load(b)
    /\ Goto(b, "command")
    /\ UNCHANGED <<conn, fresh, old, once, detached, members, hub, activeUsers, admin,
                   failures, overwritten>>

\* A guarded command may be stale, any command may be refused.
CommandSaves(b) ==
    /\ pc[b] = "command"
    /\ members' = [members EXCEPT ![room(b)] = copy[b]] \/ UNCHANGED members
    /\ Forget(b)
    /\ Unlock(room(b))
    /\ Goto(b, "listen")
    /\ UNCHANGED <<conn, fresh, old, once, detached, hub, activeUsers, admin, failures,
                   overwritten>>

-----------------------------------------------------------------------------
(* Close of a bus whose connection has ended, and the LeaveRoom inside it *)

Close(b) ==
    /\ pc[b] = "listen"
    /\ IF once[b] = "done" \/ detached[b]
       THEN once' = [once EXCEPT ![b] = "done"] /\ Goto(b, "closed")
       ELSE once' = [once EXCEPT ![b] = "running"] /\ Goto(b, "leave")
    /\ UNCHANGED <<conn, fresh, old, detached, members, lock, hub, activeUsers,
                   admin, failures, copy, overwritten>>

LeaveLocks(b) ==
    /\ pc[b] = "leave"
    /\ Lock(room(b), b)
    /\ Goto(b, "leaving")
    /\ UNCHANGED <<conn, fresh, old, once, detached, members, hub, activeUsers,
                   admin, failures, copy, overwritten>>

\* Mutant: waits for the lock without end, as a mutex does.
LeaveGivesUp_Never(b) == FALSE /\ UNCHANGED vars

\* The client stays in the room.
LeaveGivesUp(b) ==
    /\ pc[b] = "leave"
    /\ lock[room(b)] # None
    /\ once' = [once EXCEPT ![b] = "done"]
    /\ Goto(b, "closed")
    /\ UNCHANGED <<conn, fresh, old, detached, members, lock, hub, activeUsers,
                   admin, failures, copy, overwritten>>

Leave(b) ==
    /\ pc[b] = "leaving"
    /\ RemoveBus(inst(b), client(b))
    /\ Load(b)
    /\ Goto(b, "left")
    /\ UNCHANGED <<conn, fresh, old, once, detached, members, lock, activeUsers, admin,
                   failures, overwritten>>

LeaveSaves(b) ==
    /\ pc[b] = "left"
    /\ RemoveClientSaves(client(b), room(b), copy[b])
    /\ Forget(b)
    /\ decrementActiveUsers(inst(b))
    /\ Unlock(room(b))
    /\ once' = [once EXCEPT ![b] = "done"]
    /\ Goto(b, "closed")
    /\ UNCHANGED <<conn, fresh, old, detached, hub, admin, failures, overwritten>>

-----------------------------------------------------------------------------
(* Kick and removal by the admin: the client and its bus are looked up     *)
(* before the room is locked, the bus is closed after it was unlocked.     *)

NoRequest == [pc |-> "idle"]

AdminLooksUp(i, c, r) ==
    /\ admin = NoRequest
    /\ c \in members[r]
    /\ admin' = [pc |-> "lock", inst |-> i, client |-> c, room |-> r,
                 bus |-> buses[i][c], copy |-> {}]
    /\ UNCHANGED <<conn, pc, fresh, old, once, detached, members, lock, hub,
                   activeUsers, failures, copy, overwritten>>

AdminGivesUp ==
    /\ admin.pc = "lock"
    /\ lock[admin.room] # None
    /\ admin' = NoRequest
    /\ UNCHANGED <<conn, pc, fresh, old, once, detached, members, lock, hub,
                   activeUsers, failures, copy, overwritten>>

AdminLocks ==
    /\ admin.pc = "lock"
    /\ Lock(admin.room, "admin")
    /\ admin' = [admin EXCEPT !.pc = "leaving"]
    /\ UNCHANGED <<conn, pc, fresh, old, once, detached, members, hub, activeUsers,
                   failures, copy, overwritten>>

AdminLeaves ==
    /\ admin.pc = "leaving"
    /\ RemoveBus(admin.inst, admin.client)
    /\ admin' = [admin EXCEPT !.pc = "left", !.copy = members[admin.room]]
    /\ UNCHANGED <<conn, pc, fresh, old, once, detached, members, lock, activeUsers,
                   failures, copy, overwritten>>

AdminSaves ==
    /\ admin.pc = "left"
    /\ RemoveClientSaves(admin.client, admin.room, admin.copy)
    /\ decrementActiveUsers(admin.inst)
    /\ Unlock(admin.room)
    /\ admin' = IF admin.bus = None THEN NoRequest
                ELSE [admin EXCEPT !.pc = "close", !.copy = {}]
    /\ UNCHANGED <<conn, pc, fresh, old, once, detached, hub, failures, copy, overwritten>>

\* Detach, and Close as soon as it does not have to wait.
AdminCloses ==
    /\ admin.pc = "close"
    /\ detached' = [detached EXCEPT ![admin.bus] = TRUE]
    /\ CloseDetached(admin.bus)
    /\ admin' = NoRequest
    /\ UNCHANGED <<conn, pc, fresh, old, members, lock, hub, activeUsers, failures, copy,
                   overwritten>>

-----------------------------------------------------------------------------
(* Failures *)

Fails == failures < MaxFailures /\ failures' = failures + 1

\* AddClient could not save the room, and says nothing.
JoinNotSaved(b) ==
    /\ Fails
    /\ pc[b] = "save"
    /\ Forget(b)
    /\ Goto(b, "addBus")
    /\ UNCHANGED <<conn, fresh, old, once, detached, members, lock, hub, activeUsers,
                   admin, overwritten>>

JoinHasNoBus(b) ==
    /\ Fails
    /\ pc[b] = "addBus"
    /\ AddBusFails(inst(b), client(b), b)
    /\ Goto(b, "rollback")
    /\ UNCHANGED <<conn, fresh, old, once, detached, members, lock, activeUsers, admin,
                   copy, overwritten>>

NotifyFails(b) ==
    /\ Fails
    /\ pc[b] = "notify"
    /\ Goto(b, "rollback")
    /\ UNCHANGED <<conn, fresh, old, once, detached, members, lock, hub, activeUsers,
                   admin, copy, overwritten>>

\* The lock, or the room once it is locked, cannot be had.
LockFails(b) ==
    /\ Fails
    /\ \/ pc[b] = "join" /\ Goto(b, "failed") /\ UNCHANGED once
       \/ pc[b] = "leave" /\ Goto(b, "closed") /\ once' = [once EXCEPT ![b] = "done"]
    /\ UNCHANGED <<conn, fresh, old, detached, members, lock, hub, activeUsers, admin,
                   copy, overwritten>>

\* RemoveClient fails after it has removed the bus: the room cannot be loaded,
\* or its save fails, which may have been executed.
RollbackFails(b) ==
    /\ Fails
    /\ \/ /\ pc[b] = "rollback"
          /\ fresh[b]
          /\ RemoveBus(inst(b), client(b))
          /\ UNCHANGED members
       \/ /\ pc[b] = "undo"
          /\ RemoveClientSaves(client(b), room(b), copy[b]) \/ UNCHANGED members
          /\ UNCHANGED hub
    /\ Forget(b)
    /\ Unlock(room(b))
    /\ Goto(b, "failed")
    /\ UNCHANGED <<conn, fresh, old, once, detached, activeUsers, admin, overwritten>>

LeaveFails(b) ==
    /\ Fails
    /\ \/ /\ pc[b] = "leaving"
          /\ RemoveBus(inst(b), client(b))
          /\ UNCHANGED members
       \/ /\ pc[b] = "left"
          /\ RemoveClientSaves(client(b), room(b), copy[b]) \/ UNCHANGED members
          /\ UNCHANGED hub
    /\ Forget(b)
    /\ Unlock(room(b))
    /\ once' = [once EXCEPT ![b] = "done"]
    /\ Goto(b, "closed")
    /\ UNCHANGED <<conn, fresh, old, detached, activeUsers, admin, overwritten>>

\* A rename that is not saved.  (One whose reply is lost ends as if it were.)
RenameFails(b) ==
    /\ Fails
    /\ pc[b] = "rename"
    /\ Forget(b)
    /\ Goto(b, "listen")
    /\ UNCHANGED <<conn, fresh, old, once, detached, members, lock, hub, activeUsers,
                   admin, overwritten>>

\* The kick ends with an error, also one of the broadcast after the removal,
\* and leaves the bus open.
AdminLeaveFails ==
    /\ Fails
    /\ \/ /\ admin.pc = "leaving"
          /\ RemoveBus(admin.inst, admin.client)
          /\ UNCHANGED <<members, activeUsers>>
       \/ /\ admin.pc = "left"
          /\ UNCHANGED hub
          /\ \/ RemoveClientSaves(admin.client, admin.room, admin.copy)
             \/ UNCHANGED members
          /\ UNCHANGED activeUsers
       \/ /\ admin.pc = "left"
          /\ UNCHANGED hub
          /\ RemoveClientSaves(admin.client, admin.room, admin.copy)
          /\ decrementActiveUsers(admin.inst)
    /\ Unlock(admin.room)
    /\ admin' = NoRequest
    /\ UNCHANGED <<conn, pc, fresh, old, once, detached, copy, overwritten>>

-----------------------------------------------------------------------------
Init ==
    /\ conn = [b \in Buses |-> None]
    /\ pc = [b \in Buses |-> "unused"]
    /\ fresh = [b \in Buses |-> FALSE]
    /\ old = [b \in Buses |-> None]
    /\ once = [b \in Buses |-> "no"]
    /\ detached = [b \in Buses |-> FALSE]
    /\ members = [r \in RoomIDs |-> {}]
    /\ copy = [b \in Buses |-> {}]
    /\ overwritten = FALSE
    /\ lock = [r \in RoomIDs |-> None]
    /\ buses = [i \in Instances |-> [c \in ClientIDs |-> None]]
    /\ roomClientCounts = [i \in Instances |-> [r \in RoomIDs |-> 0]]
    /\ roomSubs = [i \in Instances |-> {}]
    /\ activeUsers = [i \in Instances |-> 0]
    /\ admin = NoRequest
    /\ failures = 0

\* What a handler does by itself; only commands and Close wait for the client.
Step(b) ==
    \/ JoinNew(b) \/ JoinSaves(b) \/ JoinAgain(b) \/ JoinGivesUp(b)
    \/ CloseOld(b) \/ JoinAddsBus(b) \/ Notify(b) \/ Rollback(b) \/ RollbackSaves(b)
    \/ RenameSaves(b) \/ CommandSaves(b)
    \/ LeaveLocks(b) \/ LeaveGivesUp(b) \/ Leave(b) \/ LeaveSaves(b)

Receive(b) == RenameLoads(b) \/ CommandLocks(b)

AdminStep == AdminGivesUp \/ AdminLocks \/ AdminLeaves \/ AdminSaves \/ AdminCloses

Failure(b) ==
    \/ JoinNotSaved(b) \/ JoinHasNoBus(b) \/ NotifyFails(b) \/ LockFails(b)
    \/ RollbackFails(b) \/ LeaveFails(b) \/ RenameFails(b)

Next ==
    \/ \E b \in Buses :
          \/ \E c \in ClientIDs, r \in RoomIDs, i \in Instances : Connect(b, c, r, i)
          \/ Step(b)
          \/ Receive(b)
          \/ Close(b)
          \/ Failure(b)
    \/ \E i \in AdminOn, c \in ClientIDs, r \in RoomIDs : AdminLooksUp(i, c, r)
    \/ AdminStep
    \/ AdminLeaveFails

Spec == Init /\ [][Next]_vars

\* Handlers go on, and a wait for a lock ends after its retries.
FairSpec == Spec /\ (\A b \in Buses : WF_vars(Step(b))) /\ WF_vars(AdminStep)

-----------------------------------------------------------------------------
(* forwardToLocalClients finds the bus when the room is published.         *)
Reached(b) ==
    /\ room(b) \in roomSubs[inst(b)]
    /\ client(b) \in members[room(b)]
    /\ buses[inst(b)][client(b)] = b

(* On one instance with one room, as long as no call fails and no rename   *)
(* has written over a join or a leave, an open connection gets the room's  *)
(* snapshots: neither a reconnect nor the late close of the connection it  *)
(* replaces takes client or bus away from it, and other commands save the  *)
(* clients as they are, whatever they load and write back in between.      *)
ListenersAreReached ==
    failures = 0 /\ ~overwritten =>
        \A b \in Buses :
            pc[b] \in {"listen", "rename", "command"} /\ once[b] = "no" => Reached(b)

(* On one instance, as long as no call fails and no rename has written     *)
(* over a join or a leave, the gauge of active users is the number of      *)
(* clients in rooms whenever no join is under way: joins, reconnects,      *)
(* rollbacks and leaves count every client once.                           *)
UsersAreCounted ==
    /\ failures = 0
    /\ ~overwritten
    /\ \A b \in Buses : pc[b] \notin {"closeOld", "addBus", "notify", "rollback"}
    => \A i \in Instances :
          activeUsers[i] = Cardinality(UNION {{r} \X members[r] : r \in RoomIDs})

(* A bus in the map has a subscription behind it, on every instance and    *)
(* whatever fails: counting replaced buses, removals that find another bus *)
(* and failed subscriptions never end a subscription that is needed.       *)
MappedAreSubscribed ==
    \A i \in Instances, c \in ClientIDs :
        buses[i][c] # None => room(buses[i][c]) \in roomSubs[i]

(* Everyone waiting on everyone ends: a bus that closes waits for the      *)
(* room's lock inside closeOnce while the reconnect that holds the lock    *)
(* waits for closeOnce; the close gives up and both go on.                 *)
ClosesFinish == \A b \in Buses : once[b] = "running" ~> once[b] = "done"

(* test/integration/infra/boundaries/hub/redis/hub_test.go: the room's     *)
(* client count is removed after all clients disconnect.  (A reconnect is  *)
(* counted twice and removed once.)                                        *)
CountsEndWithClients ==
    \A i \in Instances, r \in RoomIDs :
        (\A c \in ClientIDs : buses[i][c] = None) => roomClientCounts[i][r] = 0

=============================================================================
