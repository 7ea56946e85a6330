----------------------------- MODULE InMemoryHub -----------------------------
(***************************************************************************)
(* Requests of one server on one room when the hub and the locks are in    *)
(* memory (hub/inmemory/hub.go, lock/inmemory.go), as in the integration   *)
(* tests.                                                                  *)
(*                                                                         *)
(* LoadRoom hands out the live room itself: a use case changes it in       *)
(* place, before it is saved.  Beside it the hub keeps a copy, the saved   *)
(* room, whose version the guarded commands are compared with and from     *)
(* which a stale guarded command is undone.  Every call to the hub is a    *)
(* step; room objects have references, because the live object may be      *)
(* replaced while a request holds the old one.                             *)
(*                                                                         *)
(* The mutexes neither time out nor fail; only sends to clients fail.      *)
(***************************************************************************)
EXTENDS RoomCommands

CONSTANTS
    Procs,        \* requests that may run at the same time
    MaxCommands,  \* bound: commands that arrive in a behaviour
    MaxFailures   \* bound: broadcasts that fail

ASSUME HubAssumption ==
    /\ IsFiniteSet(Procs)
    /\ None \notin Procs \cup Nat \cup Rooms \cup [room : Rooms, version : Nat]

VARIABLES
    heap,     \* room objects: reference -> [room, version], or None
    live,     \* h.Rooms: the reference of the room, or None
    saved,    \* h.saved: [room, version], or None
    Clients,  \* h.Clients
    removedClients, \* clients whose removal can be waited for
    Buses,    \* h.Buses: client -> the last room it was sent, or None
    lock,     \* the holder of the room's mutex, or None
    pc, task, \* where each request is, and the command it executes
    ptr,      \* the reference a request has loaded, or None
    joined,   \* clients whose join was completed at some time
    renamed,  \* has an update-name arrived?
    begun, failures

vars == <<heap, live, saved, Clients, removedClients, Buses, lock, pc, task, ptr,
          joined, renamed, begun, failures>>
store   == <<heap, live, saved>>
clients == <<Clients, removedClients, Buses>>
arrived == <<renamed, begun>>
bounds  == <<arrived, failures>>

-----------------------------------------------------------------------------
(* Room objects.  One reference is always free for a new object; objects   *)
(* that nobody refers to are collected.                                    *)

Refs == 0 .. Cardinality(Procs) + 1

Object(r, version) == [room |-> r, version |-> version]

NewRef == CHOOSE x \in Refs : heap[x] = None

\* The heap is h, without what the other variables do not reach any more.
Collect(h) ==
    heap' = [x \in Refs |->
                IF x = live' \/ \E p \in Procs : ptr'[p] = x THEN h[x] ELSE None]

Mine(p) == heap[ptr[p]]

\* Mutant: the copy is not taken again.
refreshSavedRoom_Never(o) == saved' = saved

\* The saved room becomes a copy of the object, under the same version.
refreshSavedRoom(o) ==
    saved' = IF saved = None THEN None ELSE Object(o.room, saved.version)

-----------------------------------------------------------------------------
(* Requests *)

Idle(p) == pc[p] = "idle"
Locks(p) == task[p].kind # "update-name"
Guarded(p) == task[p].kind \in GuardedKinds
Removes(p) == task[p].kind \in {"leave", "rollback"}

Goto(p, label) == pc' = [pc EXCEPT ![p] = label]

NoTask == [kind |-> "none"]

\* The use case returns; only the deferred unlock is left.
Return(p) ==
    /\ Goto(p, IF Locks(p) THEN "unlock" ELSE "idle")
    /\ task' = IF Locks(p) THEN task ELSE [task EXCEPT ![p] = NoTask]
    /\ ptr' = [ptr EXCEPT ![p] = None]

\* A command arrives.  Guarded ones carry any version, or none.
Begin(p, command, expected) ==
    /\ Idle(p)
    /\ begun < MaxCommands
    /\ command.kind \notin {"join", "admin-toggle-owner"} => command.sender \in joined
    /\ expected # None => command.kind \in GuardedKinds
    /\ task' = [task EXCEPT ![p] = [kind |-> command.kind, sender |-> command.sender,
                                    arg |-> command.arg, expected |-> expected]]
    /\ Goto(p, IF command.kind = "update-name" THEN "load" ELSE "lock")
    /\ renamed' = (renamed \/ command.kind = "update-name")
    /\ begun' = begun + 1
    /\ UNCHANGED <<store, clients, lock, ptr, joined, failures>>

Lock(p) ==
    /\ pc[p] = "lock"
    /\ lock = None
    /\ lock' = p
    /\ Goto(p, IF task[p].kind = "leave" THEN "remove" ELSE "load")
    /\ UNCHANGED <<store, clients, task, ptr, joined, bounds>>

Unlock(p) ==
    /\ pc[p] = "unlock"
    /\ lock' = None
    /\ Goto(p, "idle")
    /\ task' = [task EXCEPT ![p] = NoTask]
    /\ UNCHANGED <<store, clients, ptr, joined, bounds>>

LoadRoom(p) ==
    /\ pc[p] = "load"
    /\ live # None
    /\ ptr' = [ptr EXCEPT ![p] = live]
    /\ Goto(p, "apply")
    /\ UNCHANGED <<store, clients, lock, task, joined, bounds>>

\* ErrRoomNotFound: a join creates the room.
LoadMissing(p) ==
    /\ pc[p] = "load"
    /\ live = None
    /\ IF task[p].kind = "join"
       THEN Goto(p, "create") /\ UNCHANGED <<task, ptr>>
       ELSE Return(p)
    /\ UNCHANGED <<store, clients, lock, joined, bounds>>

\* NewRoomWithID
Create(p) ==
    /\ pc[p] = "create"
    /\ live' = NewRef
    /\ saved' = Object(NewRoom, 0)
    /\ ptr' = [ptr EXCEPT ![p] = NewRef]
    /\ Collect([heap EXCEPT ![NewRef] = Object(NewRoom, 0)])
    /\ Goto(p, "apply")
    /\ UNCHANGED <<clients, lock, task, joined, bounds>>

-----------------------------------------------------------------------------
(* Joins *)

\* Mutant: every join makes a new client.
Reconnects_Never(p) == FALSE

Reconnects(p) == FindClient(Mine(p).room, task[p].sender)

ApplyJoin(p) ==
    /\ pc[p] = "apply"
    /\ task[p].kind = "join"
    /\ IF Reconnects(p)
       THEN /\ task' = [task EXCEPT ![p].kind = "rejoin"]
            /\ Goto(p, "bus")
            /\ UNCHANGED heap
       ELSE /\ heap' = [heap EXCEPT ![ptr[p]].room = NewClient(@, task[p].sender)]
            /\ Goto(p, "add")
            /\ UNCHANGED task
    /\ UNCHANGED <<live, saved, clients, lock, ptr, joined, bounds>>

AddClient(p) ==
    /\ pc[p] = "add"
    /\ Clients' = Clients \cup {task[p].sender}
    /\ removedClients' = removedClients \cup {task[p].sender}
    /\ refreshSavedRoom(Mine(p))
    /\ Goto(p, "bus")
    /\ UNCHANGED <<heap, live, Buses, lock, task, ptr, joined, bounds>>

\* A reconnect closes the client's old bus before; see HubPresence for that.
AddBus(p) ==
    /\ pc[p] = "bus"
    /\ Buses' = [c \in DOMAIN Buses \cup {task[p].sender} |->
                    IF c = task[p].sender THEN None ELSE Buses[c]]
    /\ Goto(p, "publish")
    /\ UNCHANGED <<store, Clients, removedClients, lock, task, ptr, joined, bounds>>

RemoveBus(c) == Buses' = Restrict(Buses, DOMAIN Buses \ {c})

-----------------------------------------------------------------------------
(* Operations *)

Apply(p) ==
    /\ pc[p] = "apply"
    /\ task[p].kind # "join"
    /\ IF OperationError(task[p], Mine(p).room) = OK
       THEN /\ heap' = [heap EXCEPT ![ptr[p]].room = Operation(task[p], @)]
            /\ Goto(p, "save")
            /\ UNCHANGED <<live, saved, task, ptr>>
       ELSE /\ Return(p)
            /\ UNCHANGED <<live, saved>>
            /\ Collect(heap)
    /\ UNCHANGED <<clients, lock, joined, bounds>>

\* The object is saved under a new version.
SaveAs(p, version) ==
    /\ saved' = Object(Mine(p).room, version)
    /\ heap' = [heap EXCEPT ![ptr[p]].version = version]
    /\ Goto(p, "publish")
    /\ UNCHANGED <<live, task, ptr>>

SaveRoom(p) ==
    /\ pc[p] = "save"
    /\ ~Guarded(p)
    /\ SaveAs(p, (IF saved = None THEN Mine(p).version ELSE saved.version) + 1)
    /\ UNCHANGED <<clients, lock, joined, bounds>>

persistedVersion == IF saved = None THEN 0 ELSE saved.version

SaveRoomIfVersion(p) ==
    /\ pc[p] = "save"
    /\ Guarded(p)
    /\ live = ptr[p]
    /\ task[p].expected = persistedVersion
    /\ SaveAs(p, persistedVersion + 1)
    /\ UNCHANGED <<clients, lock, joined, bounds>>

\* Mutant: the operation stays in the live room.
SaveStale_Keeps(p) ==
    /\ pc[p] = "save"
    /\ Guarded(p)
    /\ live # ptr[p] \/ task[p].expected # persistedVersion
    /\ Return(p)
    /\ UNCHANGED <<live, saved>>
    /\ Collect(heap)
    /\ UNCHANGED <<clients, lock, joined, bounds>>

\* ErrStaleRoomVersion: the live room is replaced by a copy of the saved one,
\* unless it is not the request's any more.
SaveStale(p) ==
    /\ pc[p] = "save"
    /\ Guarded(p)
    /\ live # ptr[p] \/ task[p].expected # persistedVersion
    /\ Return(p)
    /\ UNCHANGED saved
    /\ IF live = ptr[p] /\ saved # None
       THEN live' = NewRef /\ Collect([heap EXCEPT ![NewRef] = saved])
       ELSE UNCHANGED live /\ Collect(heap)
    /\ UNCHANGED <<clients, lock, joined, bounds>>

-----------------------------------------------------------------------------
(* Leaving, also of a join that is rolled back *)

\* The room after its client has gone.
Left(p) == RemoveClient(heap[live].room, task[p].sender)

\* Who waits for the client's removal is woken, unless the room is missing.
ClientRemoved(p) ==
    /\ Clients' = Clients \ {task[p].sender}
    /\ RemoveBus(task[p].sender)
    /\ removedClients' = IF live = None THEN removedClients
                         ELSE removedClients \ {task[p].sender}

\* RemoveClient, with RemoveRoom or refreshSavedRoom; a leave is published.
RemoveRoomClient(p) ==
    /\ pc[p] = "remove"
    /\ ClientRemoved(p)
    /\ IF live = None
       THEN Return(p) /\ UNCHANGED store
       ELSE IF IsEmpty(Left(p))
       THEN /\ Return(p)
            /\ live' = None
            /\ saved' = None
            /\ Collect(heap)
       ELSE /\ refreshSavedRoom(Object(Left(p), 0))
            /\ UNCHANGED live
            /\ IF task[p].kind = "leave"
               THEN /\ ptr' = [ptr EXCEPT ![p] = live]
                    /\ Goto(p, "publish")
                    /\ UNCHANGED task
               ELSE Return(p)
            /\ Collect([heap EXCEPT ![live].room = Left(p)])
    /\ UNCHANGED <<lock, joined, bounds>>

-----------------------------------------------------------------------------
(* Broadcasts *)

\* Mutant: not to the sender of the command.
SendTo_Others(p, cs) ==
    Buses' = [c \in DOMAIN Buses |-> IF c \in cs \ {task[p].sender} THEN Mine(p).room
                                     ELSE Buses[c]]

\* Who of the room's clients the request's room is sent to.
SendTo(p, cs) ==
    Buses' = [c \in DOMAIN Buses |-> IF c \in cs THEN Mine(p).room ELSE Buses[c]]

\* The room may have gone only under an update-name, which has no lock.
BroadcastToRoom(p) ==
    /\ pc[p] = "publish"
    /\ SendTo(p, IF live = None THEN {} ELSE Present(heap[live].room))
    /\ joined' = IF task[p].kind \in {"join", "rejoin"}
                 THEN joined \cup {task[p].sender} ELSE joined
    /\ Return(p)
    /\ UNCHANGED <<live, saved>>
    /\ Collect(heap)
    /\ UNCHANGED <<Clients, removedClients, lock, bounds>>

\* A send fails: the clients behind it get nothing, and a join is undone; a
\* reconnect only loses its bus.
BroadcastFails(p) ==
    /\ pc[p] = "publish"
    /\ failures < MaxFailures
    /\ failures' = failures + 1
    /\ live # None
    /\ \E n \in 0 .. Len(heap[live].room.clients) - 1 :
          LET cs == Range(SubSeq(heap[live].room.clients, 1, n))
          IN  IF task[p].kind = "rejoin"
              THEN Buses' = [c \in DOMAIN Buses \ {task[p].sender} |->
                                IF c \in cs THEN Mine(p).room ELSE Buses[c]]
              ELSE SendTo(p, cs)
    /\ IF task[p].kind = "join"
       THEN /\ task' = [task EXCEPT ![p].kind = "rollback"]
            /\ Goto(p, "remove")
            /\ ptr' = [ptr EXCEPT ![p] = None]
       ELSE Return(p)
    /\ UNCHANGED <<live, saved>>
    /\ Collect(heap)
    /\ UNCHANGED <<Clients, removedClients, lock, joined, arrived>>

-----------------------------------------------------------------------------
\* The hub is empty, or NewRoom has just created the room.
Init ==
    /\ \/ live = None /\ saved = None /\ heap = [x \in Refs |-> None]
       \/ /\ live = 0
          /\ saved = Object(NewRoom, 0)
          /\ heap = [x \in Refs |-> IF x = 0 THEN saved ELSE None]
    /\ Clients = {}
    /\ removedClients = {}
    /\ Buses = <<>>
    /\ lock = None
    /\ pc   = [p \in Procs |-> "idle"]
    /\ task = [p \in Procs |-> NoTask]
    /\ ptr  = [p \in Procs |-> None]
    /\ joined = {}
    /\ renamed = FALSE
    /\ begun = 0
    /\ failures = 0

Step(p) ==
    \/ Lock(p) \/ Unlock(p) \/ LoadRoom(p) \/ LoadMissing(p) \/ Create(p)
    \/ ApplyJoin(p) \/ AddClient(p) \/ AddBus(p)
    \/ Apply(p) \/ SaveRoom(p) \/ SaveRoomIfVersion(p) \/ SaveStale(p)
    \/ RemoveRoomClient(p) \/ BroadcastToRoom(p) \/ BroadcastFails(p)

Next ==
    \E p \in Procs :
        \/ \E command \in Commands, expected \in 0 .. MaxCommands \cup {None} :
              Begin(p, command, expected)
        \/ Step(p)

Spec == Init /\ [][Next]_vars

-----------------------------------------------------------------------------
(* Every room object, and the saved room, is one the domain model allows,  *)
(* whoever else holds the object, and whatever update-name saves that has  *)
(* loaded an object which is not the live one any more.                    *)
RoomsCorrect ==
    /\ \A x \in Refs : heap[x] # None => RoomOK(heap[x].room)
    /\ saved # None => RoomOK(saved.room)

\* The mutex is free, and nobody has gone past it.
Quiet == lock = None /\ ~renamed

(* Between use cases that lock, the live room and its copy are the same,   *)
(* with the same version: what a stale guarded command has done is undone, *)
(* and every other change is saved, whichever path it takes.  And the hub  *)
(* knows exactly the clients of the room: those that left, or whose join   *)
(* was undone, have no client, no bus and no channel that somebody could   *)
(* wait on for ever.                                                       *)
HubIsSettled ==
    Quiet =>
        LET present == IF live = None THEN {} ELSE Present(heap[live].room)
        IN  /\ saved = (IF live = None THEN None ELSE heap[live])
            /\ Clients = present
            /\ removedClients = present
            /\ DOMAIN Buses \subseteq present

(* Unless a send failed, every client of the room has last been sent the   *)
(* room as it now is, between use cases.                                   *)
EveryoneIsShown ==
    Quiet /\ failures = 0 /\ live # None =>
        \A c \in Present(heap[live].room) :
            c \in DOMAIN Buses /\ Buses[c] = heap[live].room

savedRoom == IF saved = None THEN None ELSE saved.room

\* The abstract room is the saved one.
Atomic == INSTANCE AtomicRoom
    WITH NoRoom <- None, Changes <- OneOperation, Empties <- LastLeaves,
         room <- savedRoom

(* Although use cases change the live room in place and in several steps,  *)
(* the saved room changes by one whole operation at a time, as in Redis,   *)
(* as long as all of them lock.                                            *)
SavedChangesAtomically == [][~renamed' => [Atomic!Next]_savedRoom]_vars

=============================================================================
