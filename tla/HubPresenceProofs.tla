-------------------------- MODULE HubPresenceProofs --------------------------
(***************************************************************************)
(* Subscriptions of the Redis hub: on every instance a bus in the map has  *)
(* a subscription behind it, for every number of instances, rooms, clients *)
(* and connections, and whatever fails.                                    *)
(*                                                                         *)
(* roomClientCounts is no exact count: a bus that is replaced stays in it. *)
(* The invariant is that it never falls below the number of mapped buses   *)
(* of the room, so that it reaches 0, which ends the subscription, only    *)
(* when none of them is left.                                              *)
(*                                                                         *)
(* And what one server promises for one room while no call fails and no    *)
(* rename writes over a join or a leave, for any number of clients and     *)
(* connections: open connections are reached, and active users are counted *)
(* once.                                                                   *)
(***************************************************************************)
EXTENDS HubPresence, FiniteSetTheorems, TLAPS

FunctionOn(S, f) == f = [x \in S |-> f[x]]

\* The clients with a bus of room r in the map of instance i.
Mapped(i, r) == {c \in ClientIDs : buses[i][c] # None /\ room(buses[i][c]) = r}

Connections == [client : ClientIDs, room : RoomIDs, inst : Instances]

HubTypeOK ==
    /\ buses \in [Instances -> [ClientIDs -> Buses \cup {None}]]
    /\ roomClientCounts \in [Instances -> [RoomIDs -> Nat]]
    /\ roomSubs \in [Instances -> SUBSET RoomIDs]

\* The count of a room on an instance, and its subscription.
Counted(i, r) ==
    /\ IsFiniteSet(Mapped(i, r))
    /\ Cardinality(Mapped(i, r)) <= roomClientCounts[i][r]
    /\ roomClientCounts[i][r] > 0 => r \in roomSubs[i]

HubOK ==
    /\ HubTypeOK
    /\ \A i \in Instances, c \in ClientIDs :
          buses[i][c] # None => pc[buses[i][c]] # "unused"
    /\ \A i \in Instances, r \in RoomIDs : Counted(i, r)

HandlersOK ==
    /\ FunctionOn(Buses, conn) /\ FunctionOn(Buses, pc)
    /\ \A b \in Buses : pc[b] # "unused" => conn[b] \in Connections
    /\ admin.pc # "idle" => admin.inst \in Instances /\ admin.client \in ClientIDs

PresenceInv == HubOK /\ HandlersOK

-----------------------------------------------------------------------------
(* A mapped bus is one of its room's, so its room is subscribed.           *)
LEMMA CountedAreSubscribed == PresenceInv => MappedAreSubscribed
<1> SUFFICES ASSUME PresenceInv, NEW i \in Instances, NEW c \in ClientIDs,
                    buses[i][c] # None
             PROVE  room(buses[i][c]) \in roomSubs[i]
  BY DEF MappedAreSubscribed
<1> DEFINE r == room(buses[i][c])
<1>1. buses[i][c] \in Buses /\ conn[buses[i][c]] \in Connections
  BY DEF PresenceInv, HubOK, HandlersOK, HubTypeOK
<1>2. r \in RoomIDs
  BY <1>1 DEF room, Connections
<1>3. Counted(i, r) /\ roomClientCounts[i][r] \in Nat
  BY <1>2 DEF PresenceInv, HubOK, HubTypeOK
<1>4. c \in Mapped(i, r)
  BY DEF Mapped
<1> HIDE DEF r
<1>5. Cardinality(Mapped(i, r)) \in Nat /\ Cardinality(Mapped(i, r)) # 0
  BY <1>3, <1>4, FS_CardinalityType, FS_EmptySet DEF Counted
<1>6. QED
  BY <1>3, <1>5 DEF Counted, r

(* Fewer mapped buses, counts and subscriptions as they were.              *)
LEMMA FewerMapped ==
    ASSUME NEW i, NEW r, Counted(i, r),
           Mapped(i, r)' \subseteq Mapped(i, r),
           roomClientCounts'[i][r] = roomClientCounts[i][r],
           roomClientCounts[i][r] \in Nat,
           r \in roomSubs[i] => r \in roomSubs'[i]
    PROVE  Counted(i, r)'
<1>1. /\ IsFiniteSet(Mapped(i, r)')
      /\ Cardinality(Mapped(i, r)') <= Cardinality(Mapped(i, r))
  BY FS_Subset DEF Counted
<1>2. Cardinality(Mapped(i, r)') \in Nat /\ Cardinality(Mapped(i, r)) \in Nat
  BY <1>1, FS_CardinalityType DEF Counted
<1>3. QED
  BY <1>1, <1>2 DEF Counted

-----------------------------------------------------------------------------
(* The operations of the hub. *)

LEMMA AddBusKeeps ==
    ASSUME HubOK, NEW i \in Instances, NEW c \in ClientIDs, NEW b \in Buses,
           NEW r \in RoomIDs, room(b) = r, pc[b] # "unused", AddBus(i, c, b),
           conn' = conn, \A x \in Buses : pc[x] # "unused" => pc'[x] # "unused"
    PROVE  HubOK'
<1>1. /\ buses' = [buses EXCEPT ![i][c] = b]
      /\ roomClientCounts' = [roomClientCounts EXCEPT ![i][r] = roomClientCounts[i][r] + 1]
      /\ roomSubs' = [roomSubs EXCEPT ![i] = roomSubs[i] \cup {r}]
  BY DEF AddBus
<1>2. HubTypeOK
  BY DEF HubOK
<1>3. HubTypeOK'
  BY <1>1, <1>2 DEF HubTypeOK
<1>4. \A j \in Instances, d \in ClientIDs :
        buses'[j][d] = IF j = i /\ d = c THEN b ELSE buses[j][d]
  BY <1>1, <1>2 DEF HubTypeOK
<1>5. \A x : room(x)' = room(x)
  BY DEF room
<1>6. \A j \in Instances, d \in ClientIDs : buses'[j][d] # None => pc'[buses'[j][d]] # "unused"
  BY <1>2, <1>4 DEF HubOK, HubTypeOK
<1>7. ASSUME NEW j \in Instances, NEW s \in RoomIDs PROVE Counted(j, s)'
  <2>1. Counted(j, s) /\ roomClientCounts[j][s] \in Nat
    BY <1>2 DEF HubOK, HubTypeOK
  <2>2. CASE j = i /\ s = r
    <3>1. Mapped(i, r)' = Mapped(i, r) \cup {c}
      BY <1>4, <1>5, PresenceAssumption DEF Mapped
    <3>2. /\ IsFiniteSet(Mapped(i, r)')
          /\ Cardinality(Mapped(i, r)') <= Cardinality(Mapped(i, r)) + 1
      <4>1. IsFiniteSet(Mapped(i, r)) /\ Cardinality(Mapped(i, r)) \in Nat
        BY <2>1, <2>2, FS_CardinalityType DEF Counted
      <4>2. /\ IsFiniteSet(Mapped(i, r) \cup {c})
            /\ Cardinality(Mapped(i, r) \cup {c}) =
                  IF c \in Mapped(i, r) THEN Cardinality(Mapped(i, r))
                  ELSE Cardinality(Mapped(i, r)) + 1
        BY <4>1, FS_AddElement
      <4>3. Cardinality(Mapped(i, r) \cup {c}) <= Cardinality(Mapped(i, r)) + 1
        BY <4>1, <4>2
      <4>4. QED
        BY <3>1, <4>2, <4>3
    <3>3. roomClientCounts'[i][r] = roomClientCounts[i][r] + 1 /\ r \in roomSubs'[i]
      BY <1>1, <1>2 DEF HubTypeOK
    <3>4. Cardinality(Mapped(i, r)) \in Nat /\ Cardinality(Mapped(i, r)') \in Nat
      BY <2>1, <2>2, <3>2, FS_CardinalityType DEF Counted
    <3>5. QED
      BY <2>1, <2>2, <3>2, <3>3, <3>4 DEF Counted
  <2>3. CASE ~(j = i /\ s = r)
    <3>1. Mapped(j, s)' \subseteq Mapped(j, s)
      BY <1>4, <1>5, <2>3 DEF Mapped
    <3>2. roomClientCounts'[j][s] = roomClientCounts[j][s]
      BY <1>1, <1>2, <2>3 DEF HubTypeOK
    <3>3. s \in roomSubs[j] => s \in roomSubs'[j]
      BY <1>1, <1>2 DEF HubTypeOK
    <3>4. QED
      BY <2>1, <3>1, <3>2, <3>3, FewerMapped
  <2>4. QED
    BY <2>2, <2>3
<1>8. QED
  BY <1>3, <1>6, <1>7 DEF HubOK

LEMMA AddBusFailsKeeps ==
    ASSUME HubOK, NEW i \in Instances, NEW c \in ClientIDs, NEW b, AddBusFails(i, c, b),
           conn' = conn, \A x \in Buses : pc[x] # "unused" => pc'[x] # "unused"
    PROVE  HubOK'
<1>1. /\ buses' = [buses EXCEPT ![i][c] = None]
      /\ UNCHANGED <<roomClientCounts, roomSubs>>
  BY DEF AddBusFails
<1>2. HubTypeOK
  BY DEF HubOK
<1>3. HubTypeOK'
  BY <1>1, <1>2 DEF HubTypeOK
<1>4. \A j \in Instances, d \in ClientIDs :
        buses'[j][d] = IF j = i /\ d = c THEN None ELSE buses[j][d]
  BY <1>1, <1>2 DEF HubTypeOK
<1>5. \A j \in Instances, d \in ClientIDs : buses'[j][d] # None => pc'[buses'[j][d]] # "unused"
  BY <1>2, <1>4, SMTT(30) DEF HubOK, HubTypeOK
<1>6. ASSUME NEW j \in Instances, NEW s \in RoomIDs PROVE Counted(j, s)'
  <2>1. Counted(j, s) /\ roomClientCounts[j][s] \in Nat
    BY <1>2 DEF HubOK, HubTypeOK
  <2>2. Mapped(j, s)' \subseteq Mapped(j, s)
    BY <1>4 DEF Mapped, room
  <2>3. QED
    BY <1>1, <2>1, <2>2, FewerMapped
<1>7. QED
  BY <1>3, <1>5, <1>6 DEF HubOK

LEMMA RemoveBusKeeps ==
    ASSUME HubOK, NEW i \in Instances, NEW c \in ClientIDs, RemoveBus(i, c),
           \A x \in Buses : pc[x] # "unused" => conn[x] \in Connections,
           conn' = conn, \A x \in Buses : pc[x] # "unused" => pc'[x] # "unused"
    PROVE  HubOK'
<1>1. HubTypeOK
  BY DEF HubOK
<1>2. CASE buses[i][c] = None
  <2>1. UNCHANGED <<buses, roomClientCounts, roomSubs>>
    BY <1>2 DEF RemoveBus, hub
  <2>2. HubTypeOK'
    BY <1>1, <2>1 DEF HubTypeOK
  <2>3. \A j \in Instances, d \in ClientIDs : buses'[j][d] # None => pc'[buses'[j][d]] # "unused"
    BY <1>1, <2>1 DEF HubOK, HubTypeOK
  <2>4. \A j \in Instances, s \in RoomIDs : Counted(j, s)'
    BY <2>1 DEF HubOK, Counted, Mapped, room
  <2>5. QED
    BY <2>2, <2>3, <2>4 DEF HubOK
<1>3. CASE buses[i][c] # None
  <2>1. PICK r \in RoomIDs : room(buses[i][c]) = r
    BY <1>1, <1>3 DEF HubOK, HubTypeOK, room, Connections
  <2>2. PICK count \in Nat : count = roomClientCounts[i][r]
    BY <1>1 DEF HubTypeOK
  <2>3. c \in Mapped(i, r) /\ Counted(i, r)
    BY <1>3, <2>1 DEF Mapped, HubOK
  <2>4. Cardinality(Mapped(i, r)) \in Nat /\ Cardinality(Mapped(i, r)) # 0
    BY <2>3, FS_CardinalityType, FS_EmptySet DEF Counted
  <2>5. count > 0
    BY <2>2, <2>3, <2>4 DEF Counted
  <2>6. /\ buses' = [buses EXCEPT ![i][c] = None]
        /\ roomClientCounts' = [roomClientCounts EXCEPT ![i][r] = count - 1]
        /\ roomSubs' = IF count - 1 = 0 THEN [roomSubs EXCEPT ![i] = roomSubs[i] \ {r}]
                       ELSE roomSubs
    BY <1>3, <2>1, <2>2, <2>5 DEF RemoveBus
  <2>7. HubTypeOK'
    BY <1>1, <2>5, <2>6 DEF HubTypeOK
  <2>8. \A j \in Instances, d \in ClientIDs :
          buses'[j][d] = IF j = i /\ d = c THEN None ELSE buses[j][d]
    BY <1>1, <2>6 DEF HubTypeOK
  <2>9. \A j \in Instances, d \in ClientIDs : buses'[j][d] # None => pc'[buses'[j][d]] # "unused"
    BY <1>1, <2>8 DEF HubOK, HubTypeOK
  <2>10. ASSUME NEW j \in Instances, NEW s \in RoomIDs PROVE Counted(j, s)'
    <3>1. Counted(j, s) /\ roomClientCounts[j][s] \in Nat
      BY <1>1 DEF HubOK, HubTypeOK
    <3>2. CASE j = i /\ s = r
      <4>1. Mapped(i, r)' = Mapped(i, r) \ {c}
        BY <2>8 DEF Mapped, room
      <4>2. /\ IsFiniteSet(Mapped(i, r)')
            /\ Cardinality(Mapped(i, r)') = Cardinality(Mapped(i, r)) - 1
        <5>1. IsFiniteSet(Mapped(i, r))
          BY <2>3 DEF Counted
        <5>2. QED
          BY <2>3, <4>1, <5>1, FS_RemoveElement
      <4>3. roomClientCounts'[i][r] = count - 1
        BY <1>1, <2>6 DEF HubTypeOK
      <4>4. count - 1 > 0 => r \in roomSubs'[i]
        BY <2>2, <2>3, <2>5, <2>6 DEF Counted
      <4>5. QED
        BY <2>2, <2>3, <2>4, <3>2, <4>2, <4>3, <4>4 DEF Counted
    <3>3. CASE ~(j = i /\ s = r)
      <4>1. Mapped(j, s)' \subseteq Mapped(j, s)
        BY <2>8 DEF Mapped, room
      <4>2. roomClientCounts'[j][s] = roomClientCounts[j][s]
        BY <1>1, <2>6, <3>3 DEF HubTypeOK
      <4>3. s \in roomSubs[j] => s \in roomSubs'[j]
        BY <1>1, <2>6, <3>3 DEF HubTypeOK
      <4>4. QED
        BY <3>1, <4>1, <4>2, <4>3, FewerMapped
    <3>4. QED
      BY <3>2, <3>3
  <2>11. QED
    BY <2>7, <2>9, <2>10 DEF HubOK
<1>4. QED
  BY <1>2, <1>3

\* A step that leaves the hub alone; only an unused bus may change its connection.
LEMMA OtherStepKeeps ==
    ASSUME HubOK, UNCHANGED hub,
           \A x \in Buses : pc[x] # "unused" => conn'[x] = conn[x] /\ pc'[x] # "unused"
    PROVE  HubOK'
<1>1. UNCHANGED <<buses, roomClientCounts, roomSubs>> /\ HubTypeOK
  BY DEF hub, HubOK
<1>2. HubTypeOK'
  BY <1>1 DEF HubTypeOK
<1>3. \A j \in Instances, d \in ClientIDs :
        buses[j][d] # None => buses[j][d] \in Buses /\ pc[buses[j][d]] # "unused"
  BY <1>1 DEF HubOK, HubTypeOK
<1>4. \A j \in Instances, d \in ClientIDs : buses'[j][d] # None => pc'[buses'[j][d]] # "unused"
  BY <1>1, <1>3
<1>5. ASSUME NEW j \in Instances, NEW s \in RoomIDs PROVE Counted(j, s)'
  <2>1. Counted(j, s) /\ roomClientCounts[j][s] \in Nat
    BY <1>1 DEF HubOK, HubTypeOK
  <2>2. Mapped(j, s)' \subseteq Mapped(j, s)
    BY <1>1, <1>3 DEF Mapped, room
  <2>3. QED
    BY <1>1, <2>1, <2>2, FewerMapped
<1>6. QED
  BY <1>2, <1>4, <1>5 DEF HubOK

-----------------------------------------------------------------------------
(* The handlers. *)

LEMMA GotoKeeps ==
    ASSUME HandlersOK, NEW b \in Buses, pc[b] # "unused", NEW label, label # "unused",
           Goto(b, label), conn' = conn,
           admin'.pc # "idle" => admin'.inst \in Instances /\ admin'.client \in ClientIDs
    PROVE  /\ HandlersOK'
           /\ \A x \in Buses : pc[x] # "unused" => pc'[x] # "unused"
BY DEF HandlersOK, Goto, FunctionOn

LEMMA AdminKeeps ==
    ASSUME HandlersOK, UNCHANGED <<pc, conn>>,
           admin'.pc # "idle" => admin'.inst \in Instances /\ admin'.client \in ClientIDs
    PROVE  /\ HandlersOK'
           /\ \A x \in Buses : pc[x] # "unused" => pc'[x] # "unused"
BY DEF HandlersOK

\* A handler that has begun knows its client, room and instance.
LEMMA HandlerFacts ==
    ASSUME PresenceInv, NEW b \in Buses, pc[b] # "unused"
    PROVE  /\ HubOK /\ HandlersOK
           /\ client(b) \in ClientIDs /\ room(b) \in RoomIDs /\ inst(b) \in Instances
           /\ admin.pc # "idle" => admin.inst \in Instances /\ admin.client \in ClientIDs
           /\ \A x \in Buses : pc[x] # "unused" => conn[x] \in Connections
BY DEF PresenceInv, HandlersOK, Connections, client, room, inst

\* What a handler does to the hub in a step.
HubStep(b) ==
    \/ UNCHANGED hub
    \/ AddBus(inst(b), client(b), b)
    \/ AddBusFails(inst(b), client(b), b)
    \/ RemoveBus(inst(b), client(b))

LEMMA HandlerKeeps ==
    ASSUME PresenceInv, NEW b \in Buses, pc[b] # "unused",
           \E label : label # "unused" /\ Goto(b, label),
           HubStep(b), UNCHANGED <<conn, admin>>
    PROVE  PresenceInv'
<1>1. /\ HubOK /\ HandlersOK
      /\ client(b) \in ClientIDs /\ room(b) \in RoomIDs /\ inst(b) \in Instances
      /\ admin.pc # "idle" => admin.inst \in Instances /\ admin.client \in ClientIDs
      /\ \A x \in Buses : pc[x] # "unused" => conn[x] \in Connections
  BY HandlerFacts
<1>2. /\ HandlersOK'
      /\ \A x \in Buses : pc[x] # "unused" => pc'[x] # "unused"
  BY <1>1, GotoKeeps
<1>3. CASE UNCHANGED hub
  BY <1>1, <1>2, <1>3, OtherStepKeeps DEF PresenceInv
<1>4. CASE AddBus(inst(b), client(b), b)
  BY <1>1, <1>2, <1>4, AddBusKeeps DEF PresenceInv
<1>5. CASE AddBusFails(inst(b), client(b), b)
  BY <1>1, <1>2, <1>5, AddBusFailsKeeps DEF PresenceInv
<1>6. CASE RemoveBus(inst(b), client(b))
  BY <1>1, <1>2, <1>6, RemoveBusKeeps DEF PresenceInv
<1>7. QED
  BY <1>3, <1>4, <1>5, <1>6 DEF HubStep

LEMMA StepKeeps ==
    ASSUME PresenceInv, NEW b \in Buses, Step(b) \/ Receive(b) \/ Close(b)
    PROVE  PresenceInv'
<1>1. /\ pc[b] # "unused" /\ UNCHANGED <<conn, admin>>
      /\ \E label : label # "unused" /\ Goto(b, label)
  BY DEF Step, Receive, Close, JoinNew, JoinSaves, JoinAgain, JoinGivesUp, CloseOld,
     JoinAddsBus, Notify, Rollback, RollbackSaves, RenameLoads, RenameSaves, CommandLocks,
     CommandSaves, LeaveLocks, LeaveGivesUp, Leave, LeaveSaves
<1>2. HubStep(b)
  BY DEF HubStep, Step, Receive, Close, JoinNew, JoinSaves, JoinAgain, JoinGivesUp,
     CloseOld, JoinAddsBus, Notify, Rollback, RollbackSaves, RenameLoads, RenameSaves,
     CommandLocks, CommandSaves, LeaveLocks, LeaveGivesUp, Leave, LeaveSaves
<1>3. QED
  BY <1>1, <1>2, HandlerKeeps

LEMMA FailureKeeps ==
    ASSUME PresenceInv, NEW b \in Buses, Failure(b)
    PROVE  PresenceInv'
<1>1. /\ pc[b] # "unused" /\ UNCHANGED <<conn, admin>>
      /\ \E label : label # "unused" /\ Goto(b, label)
  BY DEF Failure, JoinNotSaved, JoinHasNoBus, NotifyFails, LockFails, RollbackFails,
     LeaveFails, RenameFails
<1>2. HubStep(b)
  BY DEF HubStep, Failure, JoinNotSaved, JoinHasNoBus, NotifyFails, LockFails,
     RollbackFails, LeaveFails, RenameFails
<1>3. QED
  BY <1>1, <1>2, HandlerKeeps

LEMMA ConnectKeeps ==
    ASSUME PresenceInv, NEW b \in Buses, NEW c \in ClientIDs, NEW r \in RoomIDs,
           NEW i \in Instances, Connect(b, c, r, i)
    PROVE  PresenceInv'
<1>1. /\ pc[b] = "unused" /\ Goto(b, "join") /\ UNCHANGED <<hub, admin>>
      /\ conn' = [conn EXCEPT ![b] = [client |-> c, room |-> r, inst |-> i]]
  BY DEF Connect
<1>2. FunctionOn(Buses, conn) /\ FunctionOn(Buses, pc)
  BY DEF PresenceInv, HandlersOK
<1>3. /\ FunctionOn(Buses, conn') /\ FunctionOn(Buses, pc')
      /\ conn'[b] \in Connections /\ pc'[b] = "join"
      /\ \A x \in Buses \ {b} : conn'[x] = conn[x] /\ pc'[x] = pc[x]
  BY <1>1, <1>2 DEF Goto, FunctionOn, Connections
<1>4. HandlersOK'
  BY <1>1, <1>3 DEF PresenceInv, HandlersOK
<1>5. \A x \in Buses : pc[x] # "unused" => conn'[x] = conn[x] /\ pc'[x] # "unused"
  BY <1>1, <1>3
<1>6. QED
  BY <1>1, <1>4, <1>5, OtherStepKeeps DEF PresenceInv

LEMMA AdminRequestKeeps ==
    ASSUME PresenceInv,
           \/ \E i \in AdminOn, c \in ClientIDs, r \in RoomIDs : AdminLooksUp(i, c, r)
           \/ AdminStep
           \/ AdminLeaveFails
    PROVE  PresenceInv'
<1>1. /\ HubOK /\ HandlersOK
      /\ admin.pc # "idle" => admin.inst \in Instances /\ admin.client \in ClientIDs
      /\ \A x \in Buses : pc[x] # "unused" => conn[x] \in Connections
  BY DEF PresenceInv, HandlersOK
<1>2. UNCHANGED <<pc, conn>>
  BY DEF AdminStep, AdminLooksUp, AdminGivesUp, AdminLocks, AdminLeaves, AdminSaves,
     AdminCloses, AdminLeaveFails
<1>3. admin'.pc # "idle" => admin'.inst \in Instances /\ admin'.client \in ClientIDs
  <2>1. CASE \E i \in AdminOn, c \in ClientIDs, r \in RoomIDs : AdminLooksUp(i, c, r)
    BY <2>1, PresenceAssumption DEF AdminLooksUp
  <2>2. CASE AdminLocks
    BY <1>1, <2>2 DEF AdminLocks
  <2>3. CASE AdminLeaves
    BY <1>1, <2>3 DEF AdminLeaves
  <2>4. CASE AdminSaves
    <3>1. CASE admin.bus = None
      BY <2>4, <3>1 DEF AdminSaves, NoRequest
    <3>2. CASE admin.bus # None
      <4>1. admin.pc = "left" /\ admin' = [admin EXCEPT !.pc = "close", !.copy = {}]
        BY <2>4, <3>2 DEF AdminSaves
      <4>2. QED
        BY <1>1, <4>1
    <3>3. QED
      BY <3>1, <3>2
  <2>5. CASE AdminGivesUp \/ AdminCloses \/ AdminLeaveFails
    BY <2>5 DEF AdminGivesUp, AdminCloses, AdminLeaveFails, NoRequest
  <2>6. QED
    BY <2>1, <2>2, <2>3, <2>4, <2>5 DEF AdminStep
<1>4. \/ UNCHANGED hub
      \/ admin.pc # "idle" /\ RemoveBus(admin.inst, admin.client)
  BY DEF AdminStep, AdminLooksUp, AdminGivesUp, AdminLocks, AdminLeaves, AdminSaves,
     AdminCloses, AdminLeaveFails
<1>5. /\ HandlersOK'
      /\ \A x \in Buses : pc[x] # "unused" => pc'[x] # "unused"
  BY <1>1, <1>2, <1>3, AdminKeeps
<1>6. HubOK'
  BY <1>1, <1>2, <1>4, <1>5, OtherStepKeeps, RemoveBusKeeps
<1>7. QED
  BY <1>5, <1>6 DEF PresenceInv

LEMMA PresenceInitOK == Init => PresenceInv
<1> SUFFICES ASSUME Init PROVE PresenceInv
  OBVIOUS
<1>1. HubTypeOK
  BY DEF Init, HubTypeOK
<1>2. \A i \in Instances, c \in ClientIDs : buses[i][c] = None
  BY DEF Init
<1>3. ASSUME NEW i \in Instances, NEW r \in RoomIDs PROVE Counted(i, r)
  <2>1. Mapped(i, r) = {} /\ roomClientCounts[i][r] = 0
    BY <1>2 DEF Init, Mapped
  <2>2. QED
    BY <2>1, FS_EmptySet DEF Counted
<1>4. HandlersOK
  BY DEF Init, HandlersOK, FunctionOn, NoRequest
<1>5. QED
  BY <1>1, <1>2, <1>3, <1>4 DEF PresenceInv, HubOK

LEMMA PresenceStepOK == PresenceInv /\ [Next]_vars => PresenceInv'
<1> SUFFICES ASSUME PresenceInv, [Next]_vars PROVE PresenceInv'
  OBVIOUS
<1>1. CASE UNCHANGED vars
  <2>1. UNCHANGED <<conn, pc, admin, hub>>
    BY <1>1 DEF vars, hub
  <2>2. HubOK /\ HandlersOK
    BY DEF PresenceInv
  <2>3. HandlersOK'
    BY <2>1, <2>2 DEF HandlersOK, FunctionOn
  <2>4. QED
    BY <2>1, <2>2, <2>3, OtherStepKeeps DEF PresenceInv
<1>2. QED
  BY <1>1, ConnectKeeps, StepKeeps, FailureKeeps, AdminRequestKeeps DEF Next

-----------------------------------------------------------------------------
(* Buses in the map stay subscribed, whatever the order of joins,          *)
(* reconnects, leaves and kicks and whichever of their calls fail          *)
(* (MappedAreSubscribed).                                                  *)
THEOREM MappedStaySubscribed == Spec => []MappedAreSubscribed
BY PresenceInitOK, PresenceStepOK, CountedAreSubscribed, PTL DEF Spec

-----------------------------------------------------------------------------
(* One instance with one room, no admin requests, no failed call and no    *)
(* rename that changed the members.  Between requests the members of the   *)
(* room are the clients with a bus in the map.  A handler that has locked  *)
(* the room may be ahead of that: it has added the member before the bus,  *)
(* has removed the bus before the member, or counts the user only when it  *)
(* has told the others.  What it has loaded of the room stays true until   *)
(* it saves, as all others save under the lock or save what is there.  A   *)
(* reconnect closes the bus it replaces first, and a close that already    *)
(* runs keeps it waiting, so a connection that is still open always owns   *)
(* its client's place in the map.                                          *)

OneServer(i, r) == Instances = {i} /\ RoomIDs = {r} /\ AdminOn = {}

\* The handlers that hold the room's lock.
Holding(b) ==
    pc[b] \in {"save", "closeOld", "addBus", "notify", "command", "leaving", "left"}

\* Connections that are in the room and not closed yet.
Open(b) ==
    \/ pc[b] \in {"notify", "leave", "leaving"}
    \/ pc[b] \in {"listen", "rename", "command"} /\ once[b] = "no"

OwnsPlace(i, b) ==
    LET x == buses[i][client(b)]
    IN  /\ pc[b] = "closeOld" => x = old[b] /\ x # None
        /\ pc[b] = "addBus" => IF fresh[b] THEN x = None ELSE x # None /\ once[x] = "done"
        /\ pc[b] \in {"save", "left"} => x = None
        /\ Open(b) => x = b

HandlerOK(i, r, b) ==
    /\ Holding(b) => lock[r] = b
    /\ pc[b] \notin {"rollback", "undo"}
    /\ pc[b] \in {"unused", "join", "closeOld"} => ~fresh[b]
    /\ pc[b] = "save" => fresh[b]
    /\ pc[b] \in {"save", "command", "left"} => copy[b] = members[r]
    /\ once[b] = "running" <=> pc[b] \in {"leave", "leaving", "left"}
    /\ once[b] \in {"no", "running", "done"}
    /\ pc[b] # "unused" => OwnsPlace(i, b)

\* A member whose bus is not there yet, or not any more.
Between(c) == \E b \in Buses : pc[b] \in {"addBus", "left"} /\ client(b) = c

ClientOK(i, r, c) ==
    /\ buses[i][c] # None =>
          /\ client(buses[i][c]) = c
          /\ pc[buses[i][c]] \in
                {"notify", "listen", "rename", "command", "leave", "leaving", "closed"}
    /\ c \in members[r] <=> buses[i][c] # None \/ Between(c)

\* A member that the gauge does not count yet.
Uncounted == \E b \in Buses : pc[b] \in {"addBus", "notify"} /\ fresh[b]

CountOK(i, r) ==
    /\ IsFiniteSet(members[r])
    /\ activeUsers[i] \in Nat
    /\ Cardinality(members[r]) = IF Uncounted THEN activeUsers[i] + 1 ELSE activeUsers[i]

OneTypeOK ==
    /\ FunctionOn(Buses, fresh) /\ FunctionOn(Buses, old) /\ FunctionOn(Buses, once)
    /\ FunctionOn(Buses, copy)
    /\ FunctionOn(RoomIDs, lock) /\ FunctionOn(RoomIDs, members)
    /\ FunctionOn(Instances, activeUsers)
    /\ admin.pc = "idle"

OneServerOK(i, r) ==
    /\ OneTypeOK
    /\ \A b \in Buses : HandlerOK(i, r, b)
    /\ \A c \in ClientIDs : ClientOK(i, r, c)
    /\ CountOK(i, r)

OneServerInv(i, r) ==
    /\ PresenceInv
    /\ failures \in Nat
    /\ overwritten \in BOOLEAN
    /\ failures = 0 /\ ~overwritten => OneServerOK(i, r)

(* The handlers, the clients and the only instance and room.               *)
LEMMA OneServerFacts ==
    ASSUME NEW i, NEW r, OneServer(i, r), PresenceInv, OneServerOK(i, r)
    PROVE  /\ i \in Instances /\ r \in RoomIDs
           /\ \A b \in Buses : pc[b] # "unused" =>
                 room(b) = r /\ inst(b) = i /\ client(b) \in ClientIDs
           /\ \A c \in ClientIDs : buses[i][c] \in Buses \cup {None}
           /\ FunctionOn(Buses, pc) /\ FunctionOn(Buses, conn)
           /\ \A b \in Buses : HandlerOK(i, r, b)
           /\ \A c \in ClientIDs : ClientOK(i, r, c)
<1>1. i \in Instances /\ r \in RoomIDs
  BY DEF OneServer
<1>2. \A b \in Buses : pc[b] # "unused" =>
         room(b) = r /\ inst(b) = i /\ client(b) \in ClientIDs
  BY DEF OneServer, PresenceInv, HandlersOK, Connections, room, inst, client
<1>3. \A c \in ClientIDs : buses[i][c] \in Buses \cup {None}
  BY <1>1 DEF PresenceInv, HubOK, HubTypeOK
<1>4. QED
  BY <1>1, <1>2, <1>3 DEF OneServerOK, PresenceInv, HandlersOK

(* Only one handler at a time has the lock.                                *)
LEMMA OthersWait ==
    ASSUME NEW i, NEW r, OneServerOK(i, r), NEW b \in Buses,
           lock[r] = None \/ Holding(b)
    PROVE  \A y \in Buses \ {b} : ~Holding(y)
BY PresenceAssumption DEF OneServerOK, HandlerOK

(* A handler that did nothing, while its client kept its place.            *)
LEMMA OtherHandler ==
    ASSUME NEW i, NEW r, NEW y \in Buses, HandlerOK(i, r, y),
           pc'[y] = pc[y], fresh'[y] = fresh[y], old'[y] = old[y], once'[y] = once[y],
           lock'[r] = lock[r] \/ ~Holding(y), copy'[y] = copy[y],
           members'[r] = members[r] \/ ~Holding(y),
           pc[y] # "unused" =>
              /\ client(y)' = client(y)
              /\ buses'[i][client(y)] = buses[i][client(y)],
           pc[y] = "addBus" /\ ~fresh[y] => once'[buses[i][client(y)]] = "done"
    PROVE  HandlerOK(i, r, y)'
BY DEF HandlerOK, OwnsPlace, Holding, Open

-----------------------------------------------------------------------------
(* The steps of a handler, one by one. *)

LEMMA OneConnect ==
    ASSUME NEW i, NEW r, OneServer(i, r), PresenceInv, OneServerOK(i, r), NEW b \in Buses,
           NEW c \in ClientIDs, NEW s \in RoomIDs, NEW j \in Instances, Connect(b, c, s, j)
    PROVE  OneServerOK(i, r)'
<1>1. /\ pc[b] = "unused"
      /\ UNCHANGED <<fresh, old, once, members, copy, lock, buses, activeUsers, admin>>
  BY DEF Connect, hub
<1>2. /\ pc'[b] = "join"
      /\ \A y \in Buses \ {b} : pc'[y] = pc[y] /\ conn'[y] = conn[y]
  <2>1. /\ pc' = [pc EXCEPT ![b] = "join"]
        /\ conn' = [conn EXCEPT ![b] = [client |-> c, room |-> s, inst |-> j]]
        /\ FunctionOn(Buses, pc) /\ FunctionOn(Buses, conn)
    BY OneServerFacts DEF Connect, Goto
  <2>2. QED
    BY <2>1 DEF FunctionOn
<1>3. \A y \in Buses \ {b} : client(y)' = client(y)
  BY <1>2 DEF client
<1>4. HandlerOK(i, r, b) /\ HandlerOK(i, r, b)'
  BY <1>1, <1>2, OneServerFacts DEF HandlerOK, Holding, OwnsPlace, Open
<1>5. ASSUME NEW y \in Buses \ {b} PROVE HandlerOK(i, r, y)'
  BY <1>1, <1>2, <1>3, OneServerFacts DEF HandlerOK, OwnsPlace, Holding, Open
<1>6. \A d : Between(d)' <=> Between(d)
  BY <1>1, <1>2, <1>3 DEF Between
<1>7. ASSUME NEW d \in ClientIDs PROVE ClientOK(i, r, d)'
  <2>1. ClientOK(i, r, d) /\ buses[i][d] \in Buses \cup {None}
    BY OneServerFacts
  <2>2. QED
    BY <1>1, <1>2, <1>3, <1>6, <2>1 DEF ClientOK
<1>8. CountOK(i, r)'
  <2>1. Uncounted' <=> Uncounted
    BY <1>1, <1>2 DEF Uncounted
  <2>2. QED
    BY <1>1, <2>1 DEF OneServerOK, CountOK
<1>9. OneTypeOK'
  BY <1>1 DEF OneServerOK, OneTypeOK
<1>10. QED
  BY <1>4, <1>5, <1>7, <1>8, <1>9 DEF OneServerOK

(* What the steps of a handler that leave the hub, the members and the     *)
(* gauge alone have in common.                                             *)
LEMMA OneWalks ==
    ASSUME NEW i, NEW r, OneServer(i, r), PresenceInv, OneServerOK(i, r), NEW b \in Buses,
           pc[b] \notin {"unused", "addBus", "notify", "left"},
           pc'[b] \notin {"addBus", "notify", "left"},
           buses[i][client(b)] = b =>
              pc'[b] \in {"listen", "rename", "command", "leave", "leaving", "closed"},
           HandlerOK(i, r, b)', OneTypeOK',
           UNCHANGED <<conn, buses, members, activeUsers>>,
           \A y \in Buses \ {b} : /\ pc'[y] = pc[y] /\ fresh'[y] = fresh[y]
                                 /\ old'[y] = old[y] /\ once'[y] = once[y]
                                 /\ copy'[y] = copy[y],
           once[b] = "done" => once'[b] = "done",
           lock' = lock \/ lock[r] = None \/ Holding(b)
    PROVE  OneServerOK(i, r)'
<1>1. \A y : client(y)' = client(y)
  BY DEF client
<1>2. ASSUME NEW y \in Buses \ {b} PROVE HandlerOK(i, r, y)'
  <2>1. HandlerOK(i, r, y)
    BY OneServerFacts
  <2>2. lock'[r] = lock[r] \/ ~Holding(y)
    BY OthersWait
  <2>3. pc[y] = "addBus" /\ ~fresh[y] => once'[buses[i][client(y)]] = "done"
    BY <2>1, OneServerFacts DEF HandlerOK, OwnsPlace
  <2>4. QED
    BY <1>1, <2>1, <2>2, <2>3, OtherHandler
<1>3. \A d : Between(d)' <=> Between(d)
  BY <1>1 DEF Between
<1>4. ASSUME NEW d \in ClientIDs PROVE ClientOK(i, r, d)'
  <2>1. ClientOK(i, r, d) /\ buses[i][d] \in Buses \cup {None}
    BY OneServerFacts
  <2>2. QED
    BY <1>1, <1>3, <2>1 DEF ClientOK
<1>5. Uncounted' <=> Uncounted
  BY DEF Uncounted
<1>6. CountOK(i, r)'
  BY <1>5 DEF OneServerOK, CountOK
<1>7. QED
  BY <1>2, <1>4, <1>6 DEF OneServerOK

\* Where a handler goes; the others stay where they are.
LEMMA GoesOn ==
    ASSUME PresenceInv, NEW b \in Buses, NEW label, Goto(b, label)
    PROVE  pc'[b] = label /\ \A y \in Buses \ {b} : pc'[y] = pc[y]
BY DEF PresenceInv, HandlersOK, Goto, FunctionOn

LEMMA OneLeaveWalks ==
    ASSUME NEW i, NEW r, OneServer(i, r), PresenceInv, OneServerOK(i, r), NEW b \in Buses,
           JoinGivesUp(b) \/ LeaveLocks(b) \/ LeaveGivesUp(b) \/ Close(b)
    PROVE  OneServerOK(i, r)'
<1>0. pc[b] \in {"join", "leave", "listen"}
  BY DEF JoinGivesUp, LeaveLocks, LeaveGivesUp, Close
<1>1. /\ room(b) = r /\ HandlerOK(i, r, b) /\ client(b) \in ClientIDs
      /\ ClientOK(i, r, client(b)) /\ r \in RoomIDs
  BY <1>0, OneServerFacts
<1>2. /\ UNCHANGED <<conn, fresh, old, members, copy, buses, activeUsers, admin>>
      /\ OneTypeOK
  BY DEF JoinGivesUp, LeaveLocks, LeaveGivesUp, Close, hub, OneServerOK
<1>3. /\ client(b)' = client(b)
      /\ buses[i][client(b)] = b => pc[b] # "join"
  BY <1>0, <1>1, <1>2, PresenceAssumption DEF client, ClientOK
<1>4. CASE JoinGivesUp(b)
  <2>1. pc[b] = "join" /\ UNCHANGED <<once, lock>>
    BY <1>4 DEF JoinGivesUp
  <2>2. pc'[b] = "failed" /\ \A y \in Buses \ {b} : pc'[y] = pc[y]
    BY <1>4, GoesOn DEF JoinGivesUp
  <2>3. OneTypeOK' /\ HandlerOK(i, r, b)'
    BY <1>1, <1>2, <2>1, <2>2 DEF OneTypeOK, HandlerOK, OwnsPlace, Holding, Open
  <2>4. QED
    BY <1>2, <1>3, <2>1, <2>2, <2>3, OneWalks
<1>5. CASE LeaveLocks(b)
  <2>1. /\ pc[b] = "leave" /\ lock[r] = None /\ lock' = [lock EXCEPT ![r] = b]
        /\ once' = once
    BY <1>1, <1>5 DEF LeaveLocks, Lock
  <2>2. pc'[b] = "leaving" /\ \A y \in Buses \ {b} : pc'[y] = pc[y]
    BY <1>5, GoesOn DEF LeaveLocks
  <2>3. lock'[r] = b /\ FunctionOn(RoomIDs, lock')
    BY <1>1, <1>2, <2>1 DEF OneTypeOK, FunctionOn
  <2>4. OneTypeOK' /\ HandlerOK(i, r, b)'
    BY <1>1, <1>2, <1>3, <2>1, <2>2, <2>3 DEF OneTypeOK, HandlerOK, OwnsPlace, Holding, Open
  <2>5. QED
    BY <1>2, <1>3, <2>1, <2>2, <2>4, OneWalks
<1>6. ASSUME NEW label, NEW state, Goto(b, label),
             once' = [once EXCEPT ![b] = state], UNCHANGED lock,
             \/ label = "closed" /\ state = "done"
             \/ label = "leave" /\ state = "running" /\ pc[b] = "listen" /\ once[b] # "done",
             pc[b] \in {"leave", "listen"}
      PROVE  OneServerOK(i, r)'
  <2>1. pc'[b] = label /\ \A y \in Buses \ {b} : pc'[y] = pc[y]
    BY <1>6, GoesOn
  <2>2. /\ once'[b] = state /\ FunctionOn(Buses, once')
        /\ \A y \in Buses \ {b} : once'[y] = once[y]
    BY <1>2, <1>6 DEF OneTypeOK, FunctionOn
  <2>3. OneTypeOK'
    BY <1>2, <1>6, <2>2 DEF OneTypeOK
  <2>4. HandlerOK(i, r, b)'
    BY <1>1, <1>2, <1>3, <1>6, <2>1, <2>2 DEF HandlerOK, OwnsPlace, Holding, Open
  <2>5. QED
    BY <1>2, <1>3, <1>6, <2>1, <2>2, <2>3, <2>4, OneWalks
<1>7. CASE LeaveGivesUp(b)
  BY <1>6, <1>7 DEF LeaveGivesUp
<1>8. CASE Close(b)
  BY <1>6, <1>8 DEF Close
<1>9. QED
  BY <1>4, <1>5, <1>7, <1>8

LEMMA OneCloseOld ==
    ASSUME NEW i, NEW r, OneServer(i, r), PresenceInv, OneServerOK(i, r), NEW b \in Buses,
           CloseOld(b)
    PROVE  OneServerOK(i, r)'
<1> DEFINE x == buses[i][client(b)]
<1>1. /\ HandlerOK(i, r, b) /\ client(b) \in ClientIDs
      /\ pc[b] = "closeOld" /\ x = old[b] /\ x \in Buses /\ once[x] # "running"
      /\ ~fresh[b]
  <2>1. /\ pc[b] = "closeOld" /\ once[old[b]] # "running"
    BY DEF CloseOld, CloseDetached
  <2>2. HandlerOK(i, r, b) /\ client(b) \in ClientIDs /\ x \in Buses \cup {None}
    BY <2>1, OneServerFacts
  <2>3. QED
    BY <2>1, <2>2 DEF HandlerOK, OwnsPlace
<1>2. /\ UNCHANGED <<conn, fresh, old, members, copy, lock, buses, activeUsers, admin>>
      /\ once' = [once EXCEPT ![x] = "done"] /\ OneTypeOK
  BY <1>1 DEF CloseOld, CloseDetached, hub, OneServerOK
<1>3. pc'[b] = "addBus" /\ \A y \in Buses \ {b} : pc'[y] = pc[y]
  BY GoesOn DEF CloseOld
<1>4. ClientOK(i, r, client(b)) /\ x # b
  <2>1. ClientOK(i, r, client(b))
    BY <1>1, OneServerFacts
  <2>2. QED
    BY <1>1, <2>1, PresenceAssumption DEF ClientOK
<1>5. /\ once'[x] = "done" /\ FunctionOn(Buses, once')
      /\ \A y \in Buses \ {x} : once'[y] = once[y]
  BY <1>1, <1>2 DEF OneTypeOK, FunctionOn
<1>6. \A y : client(y)' = client(y)
  BY <1>2 DEF client
<1>7. x # None
  BY <1>1, PresenceAssumption
<1>8. HandlerOK(i, r, b)'
  BY <1>1, <1>2, <1>3, <1>4, <1>5, <1>6, <1>7 DEF HandlerOK, OwnsPlace, Holding, Open
<1>9. ASSUME NEW y \in Buses \ {b} PROVE HandlerOK(i, r, y)'
  <2>1. HandlerOK(i, r, y) /\ ~Holding(y) /\ HandlerOK(i, r, x)
    BY <1>1, OthersWait, OneServerFacts DEF Holding
  <2>2. CASE y # x
    BY <1>2, <1>3, <1>5, <1>6, <2>1, <2>2, OtherHandler DEF Holding
  <2>3. CASE y = x
    <3>1. pc[y] \notin {"notify", "leave", "leaving", "closeOld", "addBus"}
      BY <1>1, <2>1, <2>3 DEF Holding, HandlerOK
    <3>2. QED
      BY <1>2, <1>3, <1>5, <2>1, <2>3, <3>1 DEF HandlerOK, OwnsPlace, Holding, Open
  <2>4. QED
    BY <2>2, <2>3
<1>10. ASSUME NEW d \in ClientIDs PROVE ClientOK(i, r, d)'
  <2>1. ClientOK(i, r, d) /\ buses[i][d] \in Buses \cup {None} /\ buses[i][d] # b
    <3>1. ClientOK(i, r, d) /\ buses[i][d] \in Buses \cup {None}
      BY OneServerFacts
    <3>2. QED
      BY <1>1, <3>1, PresenceAssumption DEF ClientOK
  <2>2. Between(d)' <=> Between(d) \/ d = client(b)
    BY <1>1, <1>3, <1>6 DEF Between
  <2>3. d = client(b) => buses[i][d] # None
    BY <1>7
  <2>4. QED
    BY <1>2, <1>3, <1>6, <2>1, <2>2, <2>3 DEF ClientOK
<1>11. CountOK(i, r)'
  <2>1. Uncounted' <=> Uncounted
    BY <1>1, <1>2, <1>3 DEF Uncounted
  <2>2. QED
    BY <1>2, <2>1 DEF OneServerOK, CountOK
<1>12. OneTypeOK'
  BY <1>2, <1>5 DEF OneTypeOK
<1>13. QED
  BY <1>8, <1>9, <1>10, <1>11, <1>12 DEF OneServerOK

LEMMA OneJoinNew ==
    ASSUME NEW i, NEW r, OneServer(i, r), PresenceInv, OneServerOK(i, r), NEW b \in Buses,
           JoinNew(b)
    PROVE  OneServerOK(i, r)'
<1> DEFINE c == client(b)
<1>1. pc[b] = "join"
  BY DEF JoinNew
<1>2. /\ HandlerOK(i, r, b) /\ c \in ClientIDs /\ ClientOK(i, r, c) /\ room(b) = r
      /\ r \in RoomIDs
  BY <1>1, OneServerFacts
<1>3. /\ lock[r] = None /\ c \notin members[r]
      /\ lock' = [lock EXCEPT ![r] = b] /\ fresh' = [fresh EXCEPT ![b] = TRUE]
      /\ copy' = [copy EXCEPT ![b] = members[r]]
      /\ UNCHANGED <<conn, old, once, members, buses, activeUsers, admin>>
  BY <1>2 DEF JoinNew, Lock, Load, hub
<1>4. pc'[b] = "save" /\ \A y \in Buses \ {b} : pc'[y] = pc[y]
  BY GoesOn DEF JoinNew
<1>5. OneTypeOK
  BY DEF OneServerOK
<1>6. /\ lock'[r] = b /\ FunctionOn(RoomIDs, lock')
      /\ copy'[b] = members[r] /\ FunctionOn(Buses, copy')
      /\ fresh'[b] /\ FunctionOn(Buses, fresh')
      /\ \A y \in Buses \ {b} : fresh'[y] = fresh[y] /\ copy'[y] = copy[y]
  BY <1>2, <1>3, <1>5 DEF OneTypeOK, FunctionOn
<1>7. client(b)' = client(b)
  BY <1>3 DEF client
<1>8. buses[i][c] = None /\ b # None
  BY <1>2, <1>3, PresenceAssumption DEF ClientOK
<1>9. HandlerOK(i, r, b)'
  BY <1>1, <1>2, <1>3, <1>4, <1>6, <1>7, <1>8 DEF HandlerOK, OwnsPlace, Holding, Open
<1>10. OneTypeOK'
  BY <1>3, <1>5, <1>6 DEF OneTypeOK
<1>11. QED
  BY <1>1, <1>3, <1>4, <1>6, <1>8, <1>9, <1>10, OneWalks

LEMMA OneJoinSaves ==
    ASSUME NEW i, NEW r, OneServer(i, r), PresenceInv, OneServerOK(i, r), NEW b \in Buses,
           JoinSaves(b)
    PROVE  OneServerOK(i, r)'
<1> DEFINE c == client(b)
<1>1. pc[b] = "save" /\ Holding(b)
  BY DEF JoinSaves, Holding
<1>2. /\ HandlerOK(i, r, b) /\ c \in ClientIDs /\ ClientOK(i, r, c) /\ room(b) = r
      /\ r \in RoomIDs
  BY <1>1, OneServerFacts
<1>3. /\ members' = [members EXCEPT ![r] = members[r] \cup {c}]
      /\ copy' = [copy EXCEPT ![b] = {}]
      /\ UNCHANGED <<conn, fresh, old, once, lock, buses, activeUsers, admin>>
  BY <1>1, <1>2 DEF JoinSaves, Forget, HandlerOK, hub
<1>4. pc'[b] = "addBus" /\ \A y \in Buses \ {b} : pc'[y] = pc[y]
  BY GoesOn DEF JoinSaves
<1>5. OneTypeOK
  BY DEF OneServerOK
<1>6. /\ members'[r] = members[r] \cup {c} /\ FunctionOn(RoomIDs, members')
      /\ copy'[b] = {} /\ FunctionOn(Buses, copy')
      /\ \A y \in Buses \ {b} : copy'[y] = copy[y]
  BY <1>2, <1>3, <1>5 DEF OneTypeOK, FunctionOn
<1>7. \A y : client(y)' = client(y)
  BY <1>3 DEF client
<1>8. \A y \in Buses \ {b} : ~Holding(y) /\ HandlerOK(i, r, y)
  BY <1>1, OthersWait, OneServerFacts
<1>9. HandlerOK(i, r, b)'
  BY <1>1, <1>2, <1>3, <1>4, <1>7 DEF HandlerOK, OwnsPlace, Holding, Open
<1>10. ASSUME NEW y \in Buses \ {b} PROVE HandlerOK(i, r, y)'
  BY <1>3, <1>4, <1>6, <1>7, <1>8, OtherHandler DEF Holding
<1>11. ASSUME NEW d \in ClientIDs PROVE ClientOK(i, r, d)'
  <2>1. ClientOK(i, r, d) /\ buses[i][d] \in Buses \cup {None}
    BY OneServerFacts
  <2>2. Between(d)' <=> Between(d) \/ d = c
    BY <1>1, <1>4, <1>7, <1>8 DEF Between, Holding
  <2>3. d \in members'[r] <=> d \in members[r] \/ d = c
    BY <1>6
  <2>4. QED
    BY <1>1, <1>3, <1>4, <1>7, <2>1, <2>2, <2>3 DEF ClientOK
<1>12. CountOK(i, r)'
  <2>1. ~Uncounted /\ Uncounted'
    BY <1>1, <1>2, <1>3, <1>4, <1>8 DEF Uncounted, Holding, HandlerOK
  <2>2. /\ IsFiniteSet(members[r]) /\ activeUsers[i] \in Nat
        /\ Cardinality(members[r]) = activeUsers[i]
    BY <2>1 DEF OneServerOK, CountOK
  <2>3. c \notin members[r]
    <3>1. buses[i][c] = None
      BY <1>1, <1>2 DEF HandlerOK, OwnsPlace
    <3>2. ~Between(c)
      BY <1>1, <1>8 DEF Between, Holding
    <3>3. QED
      BY <1>2, <3>1, <3>2 DEF ClientOK
  <2>4. /\ IsFiniteSet(members[r] \cup {c})
        /\ Cardinality(members[r] \cup {c}) = activeUsers[i] + 1
    BY <2>2, <2>3, FS_AddElement
  <2>5. QED
    BY <1>3, <1>6, <2>1, <2>2, <2>4 DEF CountOK
<1>13. OneTypeOK'
  BY <1>3, <1>5, <1>6 DEF OneTypeOK
<1>14. QED
  BY <1>9, <1>10, <1>11, <1>12, <1>13 DEF OneServerOK

(* The client of a reconnect has a bus, so that bus is closed first.       *)
LEMMA OneJoinAgain ==
    ASSUME NEW i, NEW r, OneServer(i, r), PresenceInv, OneServerOK(i, r), NEW b \in Buses,
           JoinAgain(b)
    PROVE  OneServerOK(i, r)'
<1> DEFINE c == client(b)
<1>1. pc[b] = "join"
  BY DEF JoinAgain
<1>2. /\ HandlerOK(i, r, b) /\ c \in ClientIDs /\ ClientOK(i, r, c)
      /\ room(b) = r /\ inst(b) = i /\ r \in RoomIDs
  BY <1>1, OneServerFacts
<1>3. lock[r] = None /\ c \in members[r] /\ lock' = [lock EXCEPT ![r] = b]
  BY <1>2 DEF JoinAgain, Lock
<1>4. \A y \in Buses : ~Holding(y)
  BY <1>1, <1>3, OthersWait DEF Holding
<1>5. buses[i][c] # None /\ buses[i][c] # b
  <2>1. ~Between(c)
    BY <1>4 DEF Between, Holding
  <2>2. buses[i][c] # None
    BY <1>2, <1>3, <2>1 DEF ClientOK
  <2>3. QED
    BY <1>1, <1>2, <2>2 DEF ClientOK
<1>6. /\ old' = [old EXCEPT ![b] = buses[i][c]] /\ Goto(b, "closeOld")
      /\ UNCHANGED <<conn, fresh, once, members, copy, buses, activeUsers, admin>>
  BY <1>2, <1>5 DEF JoinAgain, hub
<1>7. pc'[b] = "closeOld" /\ \A y \in Buses \ {b} : pc'[y] = pc[y]
  BY <1>6, GoesOn
<1>8. OneTypeOK
  BY DEF OneServerOK
<1>9. /\ lock'[r] = b /\ FunctionOn(RoomIDs, lock')
      /\ old'[b] = buses[i][c] /\ FunctionOn(Buses, old')
      /\ \A y \in Buses \ {b} : old'[y] = old[y]
  BY <1>2, <1>3, <1>6, <1>8 DEF OneTypeOK, FunctionOn
<1>10. client(b)' = client(b)
  BY <1>6 DEF client
<1>11. HandlerOK(i, r, b)'
  BY <1>1, <1>2, <1>5, <1>6, <1>7, <1>9, <1>10 DEF HandlerOK, OwnsPlace, Holding, Open
<1>12. OneTypeOK'
  BY <1>6, <1>8, <1>9 DEF OneTypeOK
<1>13. QED
  BY <1>1, <1>3, <1>5, <1>6, <1>7, <1>9, <1>11, <1>12, OneWalks

LEMMA OneJoinAddsBus ==
    ASSUME NEW i, NEW r, OneServer(i, r), PresenceInv, OneServerOK(i, r), NEW b \in Buses,
           JoinAddsBus(b)
    PROVE  OneServerOK(i, r)'
<1> DEFINE c == client(b)
<1>1. pc[b] = "addBus" /\ Holding(b)
  BY DEF JoinAddsBus, Holding
<1>2. /\ HandlerOK(i, r, b) /\ c \in ClientIDs /\ ClientOK(i, r, c)
      /\ inst(b) = i /\ i \in Instances
  BY <1>1, OneServerFacts
<1>3. /\ buses' = [buses EXCEPT ![i][c] = b]
      /\ UNCHANGED <<conn, fresh, old, once, members, copy, lock, activeUsers, admin>>
  BY <1>2 DEF JoinAddsBus, AddBus
<1>4. pc'[b] = "notify" /\ \A y \in Buses \ {b} : pc'[y] = pc[y]
  BY GoesOn DEF JoinAddsBus
<1>5. buses'[i][c] = b /\ \A d \in ClientIDs \ {c} : buses'[i][d] = buses[i][d]
  BY <1>2, <1>3 DEF PresenceInv, HubOK, HubTypeOK
<1>6. \A y : client(y)' = client(y)
  BY <1>3 DEF client
<1>7. HandlerOK(i, r, b)'
  BY <1>1, <1>2, <1>3, <1>4, <1>5, <1>6 DEF HandlerOK, OwnsPlace, Holding, Open
<1>8. ASSUME NEW y \in Buses \ {b} PROVE HandlerOK(i, r, y)'
  <2>1. HandlerOK(i, r, y) /\ ~Holding(y)
    BY <1>1, OthersWait, OneServerFacts
  <2>2. CASE pc[y] = "unused"
    BY <1>3, <1>4, <2>1, <2>2 DEF HandlerOK, Holding
  <2>3. CASE pc[y] # "unused" /\ client(y) # c
    <3>1. client(y) \in ClientIDs
      BY <2>3, OneServerFacts
    <3>2. QED
      BY <1>3, <1>4, <1>5, <1>6, <2>1, <2>3, <3>1, OtherHandler DEF Holding
  <2>4. CASE pc[y] # "unused" /\ client(y) = c
    <3>1. ~Open(y)
      <4>1. buses[i][c] # None => once[buses[i][c]] = "done"
        BY <1>1, <1>2 DEF HandlerOK, OwnsPlace
      <4>2. Open(y) => buses[i][c] = y /\ once[y] # "done"
        BY <2>1, <2>4 DEF HandlerOK, OwnsPlace, Open, Holding
      <4>3. QED
        BY <4>1, <4>2, PresenceAssumption
    <3>2. QED
      BY <1>3, <1>4, <2>1, <3>1 DEF HandlerOK, OwnsPlace, Holding, Open
  <2>5. QED
    BY <2>2, <2>3, <2>4
<1>9. ASSUME NEW d \in ClientIDs PROVE ClientOK(i, r, d)'
  <2>1. ClientOK(i, r, d) /\ buses[i][d] \in Buses \cup {None}
    BY OneServerFacts
  <2>2. CASE d = c
    <3>1. c \in members[r]
      BY <1>1, <1>2 DEF ClientOK, Between
    <3>2. QED
      BY <1>3, <1>4, <1>5, <1>6, <2>2, <3>1, PresenceAssumption DEF ClientOK
  <2>3. CASE d # c
    <3>1. Between(d)' <=> Between(d)
      BY <1>1, <1>4, <1>6, <2>3 DEF Between
    <3>2. QED
      BY <1>3, <1>4, <1>5, <1>6, <2>1, <2>3, <3>1 DEF ClientOK
  <2>4. QED
    BY <2>2, <2>3
<1>10. CountOK(i, r)'
  <2>1. Uncounted' <=> Uncounted
    BY <1>1, <1>3, <1>4 DEF Uncounted
  <2>2. QED
    BY <1>3, <2>1 DEF OneServerOK, CountOK
<1>11. OneTypeOK'
  BY <1>3 DEF OneServerOK, OneTypeOK
<1>12. QED
  BY <1>7, <1>8, <1>9, <1>10, <1>11 DEF OneServerOK

LEMMA OneNotify ==
    ASSUME NEW i, NEW r, OneServer(i, r), PresenceInv, OneServerOK(i, r), NEW b \in Buses,
           Notify(b)
    PROVE  OneServerOK(i, r)'
<1>1. pc[b] = "notify" /\ Holding(b)
  BY DEF Notify, Holding
<1>2. /\ HandlerOK(i, r, b) /\ client(b) \in ClientIDs
      /\ room(b) = r /\ inst(b) = i /\ i \in Instances /\ r \in RoomIDs
  BY <1>1, OneServerFacts
<1>3. /\ lock' = [lock EXCEPT ![r] = None]
      /\ activeUsers' = IF fresh[b] THEN [activeUsers EXCEPT ![i] = activeUsers[i] + 1]
                        ELSE activeUsers
      /\ UNCHANGED <<conn, fresh, old, once, members, copy, buses, admin>>
  BY <1>2 DEF Notify, Unlock, hub
<1>4. pc'[b] = "listen" /\ \A y \in Buses \ {b} : pc'[y] = pc[y]
  BY GoesOn DEF Notify
<1>5. OneTypeOK
  BY DEF OneServerOK
<1>6. /\ FunctionOn(RoomIDs, lock') /\ FunctionOn(Instances, activeUsers')
      /\ activeUsers'[i] = IF fresh[b] THEN activeUsers[i] + 1 ELSE activeUsers[i]
  BY <1>2, <1>3, <1>5 DEF OneTypeOK, FunctionOn
<1>7. \A y : client(y)' = client(y)
  BY <1>3 DEF client
<1>8. \A y \in Buses \ {b} : ~Holding(y) /\ HandlerOK(i, r, y)
  BY <1>1, OthersWait, OneServerFacts
<1>9. HandlerOK(i, r, b)'
  BY <1>1, <1>2, <1>3, <1>4, <1>7 DEF HandlerOK, OwnsPlace, Holding, Open
<1>10. ASSUME NEW y \in Buses \ {b} PROVE HandlerOK(i, r, y)'
  BY <1>3, <1>4, <1>7, <1>8, OtherHandler DEF Holding
<1>11. ASSUME NEW d \in ClientIDs PROVE ClientOK(i, r, d)'
  <2>1. ClientOK(i, r, d) /\ buses[i][d] \in Buses \cup {None}
    BY OneServerFacts
  <2>2. Between(d)' <=> Between(d)
    BY <1>1, <1>4, <1>7 DEF Between
  <2>3. QED
    BY <1>3, <1>4, <1>7, <2>1, <2>2 DEF ClientOK
<1>12. CountOK(i, r)'
  <2>1. (Uncounted <=> fresh[b]) /\ ~Uncounted'
    BY <1>1, <1>3, <1>4, <1>8 DEF Uncounted, Holding
  <2>2. /\ IsFiniteSet(members[r]) /\ activeUsers[i] \in Nat
        /\ Cardinality(members[r]) = IF fresh[b] THEN activeUsers[i] + 1 ELSE activeUsers[i]
    BY <2>1 DEF OneServerOK, CountOK
  <2>3. activeUsers'[i] \in Nat /\ Cardinality(members[r]) = activeUsers'[i]
    BY <1>6, <2>2
  <2>4. QED
    BY <1>3, <2>1, <2>2, <2>3 DEF CountOK
<1>13. OneTypeOK'
  BY <1>3, <1>5, <1>6 DEF OneTypeOK
<1>14. QED
  BY <1>9, <1>10, <1>11, <1>12, <1>13 DEF OneServerOK

(* A command saves the clients it has loaded under the lock, and so does a *)
(* rename that writes over nothing.                                        *)
LEMMA OneReceive ==
    ASSUME NEW i, NEW r, OneServer(i, r), PresenceInv, OneServerOK(i, r), NEW b \in Buses,
           Receive(b)
    PROVE  OneServerOK(i, r)'
<1>1. pc[b] = "listen" /\ \E label \in {"rename", "command"} : Goto(b, label)
  BY DEF Receive, RenameLoads, CommandLocks
<1>2. /\ HandlerOK(i, r, b) /\ room(b) = r /\ r \in RoomIDs /\ OneTypeOK
  BY <1>1, OneServerFacts DEF OneServerOK
<1>3. /\ pc'[b] \in {"rename", "command"}
      /\ \A y \in Buses \ {b} : pc'[y] = pc[y]
  BY <1>1, GoesOn
<1>4. /\ copy' = [copy EXCEPT ![b] = members[r]]
      /\ \/ lock[r] = None /\ lock' = [lock EXCEPT ![r] = b]
         \/ Goto(b, "rename") /\ lock' = lock
      /\ UNCHANGED <<conn, fresh, old, once, members, buses, activeUsers, admin>>
  BY <1>2 DEF Receive, RenameLoads, CommandLocks, Load, Lock, hub
<1>5. /\ copy'[b] = members[r] /\ FunctionOn(Buses, copy')
      /\ \A y \in Buses \ {b} : copy'[y] = copy[y]
  BY <1>2, <1>4 DEF OneTypeOK, FunctionOn
<1>6. /\ FunctionOn(RoomIDs, lock')
      /\ pc'[b] = "command" => lock'[r] = b
  <2>1. CASE lock' = [lock EXCEPT ![r] = b]
    BY <1>2, <2>1 DEF OneTypeOK, FunctionOn
  <2>2. CASE Goto(b, "rename") /\ lock' = lock
    BY <1>2, <2>2, GoesOn DEF OneTypeOK
  <2>3. QED
    BY <1>4, <2>1, <2>2
<1>7. client(b)' = client(b)
  BY <1>4 DEF client
<1>8. HandlerOK(i, r, b)'
  BY <1>1, <1>2, <1>3, <1>4, <1>5, <1>6, <1>7 DEF HandlerOK, OwnsPlace, Holding, Open
<1>9. OneTypeOK'
  BY <1>2, <1>4, <1>5, <1>6 DEF OneTypeOK
<1>10. QED
  BY <1>1, <1>3, <1>4, <1>5, <1>8, <1>9, OneWalks

LEMMA OneCommand ==
    ASSUME NEW i, NEW r, OneServer(i, r), PresenceInv, OneServerOK(i, r), NEW b \in Buses,
           \/ RenameSaves(b) /\ ~overwritten'
           \/ CommandSaves(b)
    PROVE  OneServerOK(i, r)'
<1>1. pc[b] \in {"rename", "command"} /\ Goto(b, "listen")
  BY DEF RenameSaves, CommandSaves
<1>2. /\ HandlerOK(i, r, b) /\ room(b) = r /\ r \in RoomIDs /\ OneTypeOK
  BY <1>1, OneServerFacts DEF OneServerOK
<1>3. pc'[b] = "listen" /\ \A y \in Buses \ {b} : pc'[y] = pc[y]
  BY <1>1, GoesOn
<1>4. members' = members
  <2>1. members' = [members EXCEPT ![r] = members[r]] \/ members' = members
    BY <1>2 DEF RenameSaves, CommandSaves, HandlerOK
  <2>2. QED
    BY <1>2, <2>1 DEF OneTypeOK, FunctionOn
<1>5. /\ copy' = [copy EXCEPT ![b] = {}]
      /\ \/ lock' = lock
         \/ Holding(b) /\ lock' = [lock EXCEPT ![r] = None]
      /\ UNCHANGED <<conn, fresh, old, once, buses, activeUsers, admin>>
  BY <1>2 DEF RenameSaves, CommandSaves, Forget, Unlock, Holding, hub
<1>6. /\ FunctionOn(Buses, copy') /\ FunctionOn(RoomIDs, lock')
      /\ \A y \in Buses \ {b} : copy'[y] = copy[y]
  BY <1>2, <1>5 DEF OneTypeOK, FunctionOn
<1>7. client(b)' = client(b)
  BY <1>5 DEF client
<1>8. HandlerOK(i, r, b)'
  BY <1>1, <1>2, <1>3, <1>5, <1>7 DEF HandlerOK, OwnsPlace, Holding, Open
<1>9. OneTypeOK'
  BY <1>2, <1>4, <1>5, <1>6 DEF OneTypeOK
<1>10. QED
  BY <1>1, <1>3, <1>4, <1>5, <1>6, <1>8, <1>9, OneWalks

(* The bus that a leave finds is the one that closes.                      *)
LEMMA OneLeave ==
    ASSUME NEW i, NEW r, OneServer(i, r), PresenceInv, OneServerOK(i, r), NEW b \in Buses,
           Leave(b)
    PROVE  OneServerOK(i, r)'
<1> DEFINE c == client(b)
<1>1. pc[b] = "leaving" /\ Holding(b)
  BY DEF Leave, Holding
<1>2. /\ HandlerOK(i, r, b) /\ c \in ClientIDs /\ ClientOK(i, r, c)
      /\ room(b) = r /\ inst(b) = i /\ i \in Instances /\ r \in RoomIDs
  BY <1>1, OneServerFacts
<1>3. buses[i][c] = b /\ b # None /\ c \in members[r]
  BY <1>1, <1>2, PresenceAssumption DEF HandlerOK, OwnsPlace, Open, ClientOK
<1>4. /\ buses' = [buses EXCEPT ![i][c] = None]
      /\ copy' = [copy EXCEPT ![b] = members[r]]
      /\ UNCHANGED <<conn, fresh, old, once, members, lock, activeUsers, admin>>
  BY <1>2, <1>3 DEF Leave, RemoveBus, Load
<1>5. pc'[b] = "left" /\ \A y \in Buses \ {b} : pc'[y] = pc[y]
  BY GoesOn DEF Leave
<1>6. OneTypeOK
  BY DEF OneServerOK
<1>7. /\ copy'[b] = members[r] /\ FunctionOn(Buses, copy')
      /\ \A y \in Buses \ {b} : copy'[y] = copy[y]
  BY <1>4, <1>6 DEF OneTypeOK, FunctionOn
<1>8. buses'[i][c] = None /\ \A d \in ClientIDs \ {c} : buses'[i][d] = buses[i][d]
  BY <1>2, <1>4 DEF PresenceInv, HubOK, HubTypeOK
<1>9. \A y : client(y)' = client(y)
  BY <1>4 DEF client
<1>10. \A y \in Buses \ {b} : ~Holding(y) /\ HandlerOK(i, r, y)
  BY <1>1, OthersWait, OneServerFacts
<1>11. HandlerOK(i, r, b)'
  BY <1>1, <1>2, <1>4, <1>5, <1>7, <1>8, <1>9 DEF HandlerOK, OwnsPlace, Holding, Open
<1>12. ASSUME NEW y \in Buses \ {b} PROVE HandlerOK(i, r, y)'
  <2>1. CASE pc[y] = "unused"
    BY <1>4, <1>5, <1>10, <2>1 DEF HandlerOK, Holding
  <2>2. CASE pc[y] # "unused" /\ client(y) # c
    <3>1. client(y) \in ClientIDs
      BY <2>2, OneServerFacts
    <3>2. QED
      BY <1>4, <1>5, <1>7, <1>8, <1>9, <1>10, <2>2, <3>1, OtherHandler DEF Holding
  <2>3. CASE pc[y] # "unused" /\ client(y) = c
    <3>1. ~Open(y)
      BY <1>3, <1>10, <2>3 DEF HandlerOK, OwnsPlace
    <3>2. QED
      BY <1>4, <1>5, <1>10, <3>1 DEF HandlerOK, OwnsPlace, Holding, Open
  <2>4. QED
    BY <2>1, <2>2, <2>3
<1>13. ASSUME NEW d \in ClientIDs PROVE ClientOK(i, r, d)'
  <2>1. ClientOK(i, r, d) /\ buses[i][d] \in Buses \cup {None}
    BY OneServerFacts
  <2>2. ~Between(d) /\ (Between(d)' <=> d = c)
    BY <1>1, <1>5, <1>9, <1>10 DEF Between, Holding
  <2>3. CASE d = c
    BY <1>3, <1>4, <1>8, <2>2, <2>3 DEF ClientOK
  <2>4. CASE d # c
    <3>1. buses[i][d] # b
      BY <2>1, <2>4, PresenceAssumption DEF ClientOK
    <3>2. QED
      BY <1>4, <1>5, <1>8, <1>9, <2>1, <2>2, <2>4, <3>1 DEF ClientOK
  <2>5. QED
    BY <2>3, <2>4
<1>14. CountOK(i, r)'
  <2>1. ~Uncounted /\ ~Uncounted'
    BY <1>1, <1>5, <1>10 DEF Uncounted, Holding
  <2>2. QED
    BY <1>4, <2>1 DEF OneServerOK, CountOK
<1>15. OneTypeOK'
  BY <1>4, <1>6, <1>7 DEF OneTypeOK
<1>16. QED
  BY <1>11, <1>12, <1>13, <1>14, <1>15 DEF OneServerOK

LEMMA OneLeaveSaves ==
    ASSUME NEW i, NEW r, OneServer(i, r), PresenceInv, OneServerOK(i, r), NEW b \in Buses,
           LeaveSaves(b)
    PROVE  OneServerOK(i, r)'
<1> DEFINE c == client(b)
<1>1. pc[b] = "left" /\ Holding(b)
  BY DEF LeaveSaves, Holding
<1>2. /\ HandlerOK(i, r, b) /\ c \in ClientIDs /\ ClientOK(i, r, c)
      /\ room(b) = r /\ inst(b) = i /\ i \in Instances /\ r \in RoomIDs
  BY <1>1, OneServerFacts
<1>3. buses[i][c] = None /\ c \in members[r] /\ copy[b] = members[r]
  BY <1>1, <1>2 DEF HandlerOK, OwnsPlace, ClientOK, Between
<1>4. /\ members' = [members EXCEPT ![r] = members[r] \ {c}]
      /\ activeUsers' = [activeUsers EXCEPT ![i] =
                            IF activeUsers[i] > 0 THEN activeUsers[i] - 1 ELSE 0]
      /\ lock' = [lock EXCEPT ![r] = None]
      /\ once' = [once EXCEPT ![b] = "done"]
      /\ copy' = [copy EXCEPT ![b] = {}]
      /\ UNCHANGED <<conn, fresh, old, buses, admin>>
  BY <1>2, <1>3 DEF LeaveSaves, RemoveClientSaves, decrementActiveUsers, Unlock, Forget, hub
<1>5. pc'[b] = "closed" /\ \A y \in Buses \ {b} : pc'[y] = pc[y]
  BY GoesOn DEF LeaveSaves
<1>6. OneTypeOK
  BY DEF OneServerOK
<1>7. /\ FunctionOn(RoomIDs, lock')
      /\ members'[r] = members[r] \ {c} /\ FunctionOn(RoomIDs, members')
      /\ activeUsers'[i] = IF activeUsers[i] > 0 THEN activeUsers[i] - 1 ELSE 0
      /\ FunctionOn(Instances, activeUsers')
      /\ once'[b] = "done" /\ FunctionOn(Buses, once')
      /\ FunctionOn(Buses, copy')
      /\ \A y \in Buses \ {b} : once'[y] = once[y] /\ copy'[y] = copy[y]
  BY <1>2, <1>4, <1>6 DEF OneTypeOK, FunctionOn
<1>8. \A y : client(y)' = client(y)
  BY <1>4 DEF client
<1>9. \A y \in Buses \ {b} : ~Holding(y) /\ HandlerOK(i, r, y)
  BY <1>1, OthersWait, OneServerFacts
<1>10. HandlerOK(i, r, b)'
  BY <1>1, <1>2, <1>4, <1>5, <1>7 DEF HandlerOK, OwnsPlace, Holding, Open
<1>11. ASSUME NEW y \in Buses \ {b} PROVE HandlerOK(i, r, y)'
  BY <1>4, <1>5, <1>7, <1>8, <1>9, OtherHandler DEF Holding
<1>12. ASSUME NEW d \in ClientIDs PROVE ClientOK(i, r, d)'
  <2>1. ClientOK(i, r, d) /\ buses[i][d] \in Buses \cup {None}
    BY OneServerFacts
  <2>2. (Between(d) <=> d = c) /\ ~Between(d)'
    BY <1>1, <1>5, <1>9 DEF Between, Holding
  <2>3. CASE d = c
    BY <1>3, <1>4, <1>7, <2>2, <2>3 DEF ClientOK
  <2>4. CASE d # c
    <3>1. buses[i][d] # b
      BY <1>1, <2>1, PresenceAssumption DEF ClientOK
    <3>2. QED
      BY <1>4, <1>5, <1>7, <1>8, <2>1, <2>2, <2>4, <3>1 DEF ClientOK
  <2>5. QED
    BY <2>3, <2>4
<1>13. CountOK(i, r)'
  <2>1. ~Uncounted /\ ~Uncounted'
    BY <1>1, <1>5, <1>9 DEF Uncounted, Holding
  <2>2. /\ IsFiniteSet(members[r]) /\ activeUsers[i] \in Nat
        /\ Cardinality(members[r]) = activeUsers[i]
    BY <2>1 DEF OneServerOK, CountOK
  <2>3. /\ IsFiniteSet(members[r] \ {c})
        /\ Cardinality(members[r] \ {c}) = activeUsers[i] - 1
    BY <1>3, <2>2, FS_RemoveElement
  <2>4. activeUsers[i] # 0
    BY <1>3, <2>2, FS_EmptySet
  <2>5. activeUsers'[i] = activeUsers[i] - 1 /\ activeUsers'[i] \in Nat
    BY <1>7, <2>2, <2>4
  <2>6. QED
    BY <1>7, <2>1, <2>3, <2>5 DEF CountOK
<1>14. OneTypeOK'
  BY <1>4, <1>6, <1>7 DEF OneTypeOK
<1>15. QED
  BY <1>10, <1>11, <1>12, <1>13, <1>14 DEF OneServerOK

(* What each step does to the two that the promises depend on.             *)
LEMMA Scope ==
    ASSUME failures \in Nat, overwritten \in BOOLEAN, [Next]_vars
    PROVE  /\ failures' = failures \/ failures' = failures + 1
           /\ overwritten' \in BOOLEAN /\ (overwritten => overwritten')
<1>1. ASSUME NEW b \in Buses,
             \/ Step(b) \/ Receive(b) \/ Close(b)
             \/ \E c \in ClientIDs, s \in RoomIDs, j \in Instances : Connect(b, c, s, j)
      PROVE  failures' = failures /\ (overwritten' = overwritten \/ RenameSaves(b))
  BY <1>1 DEF Step, Receive, Close, Connect, JoinNew, JoinSaves, JoinAgain, JoinGivesUp,
     CloseOld, JoinAddsBus, Notify, Rollback, RollbackSaves, RenameLoads, RenameSaves,
     CommandLocks, CommandSaves, LeaveLocks, LeaveGivesUp, Leave, LeaveSaves
<1>2. CASE \E b \in Buses : Failure(b)
  BY <1>2 DEF Failure, JoinNotSaved, JoinHasNoBus, NotifyFails, LockFails, RollbackFails,
     LeaveFails, RenameFails, Fails
<1>3. CASE \/ AdminStep \/ AdminLeaveFails
           \/ \E j \in AdminOn, c \in ClientIDs, s \in RoomIDs : AdminLooksUp(j, c, s)
  BY <1>3 DEF AdminStep, AdminLooksUp, AdminGivesUp, AdminLocks, AdminLeaves, AdminSaves,
     AdminCloses, AdminLeaveFails, Fails
<1>4. CASE UNCHANGED vars
  BY <1>4 DEF vars
<1>5. ASSUME NEW b \in Buses, RenameSaves(b)
      PROVE  overwritten' \in BOOLEAN /\ (overwritten => overwritten')
  BY <1>5, Zenon DEF RenameSaves
<1>6. QED
  BY <1>1, <1>2, <1>3, <1>4, <1>5 DEF Next

LEMMA OneServerStepOK ==
    ASSUME NEW i, NEW r, OneServer(i, r), OneServerInv(i, r), [Next]_vars
    PROVE  OneServerInv(i, r)'
<1>1. PresenceInv /\ PresenceInv'
  BY PresenceStepOK DEF OneServerInv
<1>2. /\ failures \in Nat /\ overwritten \in BOOLEAN
      /\ failures' = failures \/ failures' = failures + 1
      /\ overwritten' \in BOOLEAN /\ (overwritten => overwritten')
  BY Scope DEF OneServerInv
<1>3. CASE failures' # 0 \/ overwritten'
  BY <1>1, <1>2, <1>3 DEF OneServerInv
<1>4. CASE failures' = 0 /\ ~overwritten'
  <2>1. failures = 0 /\ ~overwritten /\ OneServerOK(i, r)
    BY <1>2, <1>4 DEF OneServerInv
  <2>2. ASSUME NEW b \in Buses, NEW c \in ClientIDs, NEW s \in RoomIDs,
               NEW j \in Instances, Connect(b, c, s, j)
        PROVE  OneServerOK(i, r)'
    BY <1>1, <2>1, <2>2, OneConnect
  <2>3. ASSUME NEW b \in Buses, Step(b) \/ Receive(b) \/ Close(b)
        PROVE  OneServerOK(i, r)'
    <3>1. ~Rollback(b) /\ ~RollbackSaves(b)
      BY <2>1 DEF Rollback, RollbackSaves, OneServerOK, HandlerOK
    <3>2. QED
      BY <1>1, <1>4, <2>1, <2>3, <3>1, OneJoinNew, OneJoinSaves, OneJoinAgain, OneLeaveWalks,
         OneCloseOld, OneJoinAddsBus, OneNotify, OneReceive, OneCommand, OneLeave,
         OneLeaveSaves DEF Step
  <2>4. ASSUME NEW b \in Buses PROVE ~Failure(b)
    BY <1>2, <1>4, <2>1 DEF Failure, JoinNotSaved, JoinHasNoBus, NotifyFails,
       LockFails, RollbackFails, LeaveFails, RenameFails, Fails
  <2>5. /\ ~AdminStep /\ ~AdminLeaveFails
        /\ ~\E j \in AdminOn, c \in ClientIDs, s \in RoomIDs : AdminLooksUp(j, c, s)
    BY <2>1 DEF OneServerOK, OneTypeOK, OneServer, AdminStep, AdminGivesUp, AdminLocks,
       AdminLeaves, AdminSaves, AdminCloses, AdminLeaveFails
  <2>6. ASSUME UNCHANGED vars PROVE OneServerOK(i, r)'
    <3>1. /\ UNCHANGED <<conn, pc, fresh, old, once, members, copy, lock, buses>>
          /\ UNCHANGED <<activeUsers, admin>>
      BY <2>6 DEF vars
    <3>2. (\A c : Between(c)' <=> Between(c)) /\ (Uncounted' <=> Uncounted)
      BY <3>1 DEF Between, Uncounted, client
    <3>3. \A b \in Buses : HandlerOK(i, r, b) => HandlerOK(i, r, b)'
      BY <3>1 DEF HandlerOK, Holding, OwnsPlace, Open, client
    <3>4. \A c \in ClientIDs : ClientOK(i, r, c) => ClientOK(i, r, c)'
      BY <3>1, <3>2 DEF ClientOK, client
    <3>5. CountOK(i, r) => CountOK(i, r)'
      BY <3>1, <3>2 DEF CountOK
    <3>6. OneTypeOK => OneTypeOK'
      BY <3>1 DEF OneTypeOK
    <3>7. QED
      BY <2>1, <3>3, <3>4, <3>5, <3>6 DEF OneServerOK
  <2>7. OneServerOK(i, r)'
    BY <2>2, <2>3, <2>4, <2>5, <2>6 DEF Next
  <2>8. QED
    BY <1>1, <1>2, <2>7 DEF OneServerInv
<1>5. QED
  BY <1>3, <1>4

LEMMA OneServerInitOK ==
    ASSUME NEW i, NEW r, OneServer(i, r), Init
    PROVE  OneServerInv(i, r)
<1>1. PresenceInv
  BY PresenceInitOK
<1>2. i \in Instances /\ r \in RoomIDs
  BY DEF OneServer
<1>3. \A b \in Buses : pc[b] = "unused"
  BY DEF Init
<1>4. OneTypeOK
  BY DEF Init, OneTypeOK, FunctionOn, NoRequest
<1>5. \A b \in Buses : HandlerOK(i, r, b)
  BY <1>3 DEF Init, HandlerOK, Holding
<1>6. ASSUME NEW c \in ClientIDs PROVE ClientOK(i, r, c)
  <2>1. buses[i][c] = None /\ members[r] = {} /\ ~Between(c)
    BY <1>2, <1>3 DEF Init, Between
  <2>2. QED
    BY <2>1 DEF ClientOK
<1>7. CountOK(i, r)
  <2>1. members[r] = {} /\ activeUsers[i] = 0 /\ ~Uncounted
    BY <1>2, <1>3 DEF Init, Uncounted
  <2>2. QED
    BY <2>1, FS_EmptySet DEF CountOK
<1>8. QED
  BY <1>1, <1>4, <1>5, <1>6, <1>7 DEF Init, OneServerInv, OneServerOK

(* On one instance with one room, as long as no call fails and no rename   *)
(* writes over a join or a leave, an open connection gets the room's       *)
(* snapshots, for every number of clients and of connections each of them  *)
(* opens (ListenersAreReached).                                            *)
THEOREM OneServerReachesListeners ==
    ASSUME NEW i, NEW r, OneServer(i, r)
    PROVE  Spec => []ListenersAreReached
<1>1. Init => OneServerInv(i, r)
  BY OneServerInitOK
<1>2. OneServerInv(i, r) /\ [Next]_vars => OneServerInv(i, r)'
  BY OneServerStepOK
<1>3. OneServerInv(i, r) => ListenersAreReached
  <2> SUFFICES ASSUME OneServerInv(i, r), failures = 0, ~overwritten, NEW b \in Buses,
                      pc[b] \in {"listen", "rename", "command"}, once[b] = "no"
               PROVE  Reached(b)
    BY DEF ListenersAreReached
  <2>1. PresenceInv /\ OneServerOK(i, r)
    BY DEF OneServerInv
  <2>2. /\ room(b) = r /\ inst(b) = i /\ client(b) \in ClientIDs /\ i \in Instances
        /\ HandlerOK(i, r, b) /\ ClientOK(i, r, client(b))
    BY <2>1, OneServerFacts
  <2>3. buses[i][client(b)] = b /\ b # None
    BY <2>2, PresenceAssumption DEF HandlerOK, OwnsPlace, Open
  <2>4. client(b) \in members[r]
    BY <2>2, <2>3 DEF ClientOK
  <2>5. r \in roomSubs[i]
    BY <2>1, <2>2, <2>3, CountedAreSubscribed DEF MappedAreSubscribed
  <2>6. QED
    BY <2>2, <2>3, <2>4, <2>5 DEF Reached
<1>4. QED
  BY <1>1, <1>2, <1>3, PTL DEF Spec

(* There the gauge of active users is the number of clients in the room    *)
(* whenever no join is under way: joins, reconnects and leaves that give   *)
(* up count every client once, whatever commands load and save in between  *)
(* (UsersAreCounted).                                                      *)
THEOREM OneServerCountsUsers ==
    ASSUME NEW i, NEW r, OneServer(i, r)
    PROVE  Spec => []UsersAreCounted
<1>1. Init => OneServerInv(i, r)
  BY OneServerInitOK
<1>2. OneServerInv(i, r) /\ [Next]_vars => OneServerInv(i, r)'
  BY OneServerStepOK
<1>3. OneServerInv(i, r) => UsersAreCounted
  <2> SUFFICES ASSUME OneServerInv(i, r), failures = 0, ~overwritten,
                      \A b \in Buses : pc[b] \notin {"closeOld", "addBus", "notify", "rollback"}
               PROVE  \A j \in Instances :
                         activeUsers[j] = Cardinality(UNION {{s} \X members[s] : s \in RoomIDs})
    BY DEF UsersAreCounted
  <2>1. IsFiniteSet(members[r]) /\ Cardinality(members[r]) = activeUsers[i] /\ activeUsers[i] \in Nat
    BY DEF OneServerInv, OneServerOK, CountOK, Uncounted
  <2>2. UNION {{s} \X members[s] : s \in RoomIDs} = {r} \X members[r]
    BY DEF OneServer
  <2>3. IsFiniteSet({r}) /\ Cardinality({r}) = 1
    BY FS_Singleton
  <2>4. Cardinality({r} \X members[r]) = 1 * Cardinality(members[r])
    BY <2>1, <2>3, FS_Product
  <2>5. Cardinality({r} \X members[r]) = activeUsers[i]
    BY <2>1, <2>4
  <2>6. QED
    BY <2>2, <2>5 DEF OneServer
<1>4. QED
  BY <1>1, <1>2, <1>3, PTL DEF Spec

=============================================================================
