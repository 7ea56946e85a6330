----------------------------- MODULE RoomService -----------------------------
(***************************************************************************)
(* Requests of several server instances on one room: the use cases         *)
(* (internal/application/planningpoker/usecase) on the Redis hub           *)
(* (hub/redis/hub.go) under the Redis lock (lock/redis.go).                *)
(*                                                                         *)
(* A use case locks the room, loads a copy, applies an operation of the    *)
(* aggregate to it, saves the copy and publishes it.  Each call to Redis   *)
(* is a step of its own, so requests interleave between the calls; a call  *)
(* may fail, a request may die, and a lock may expire.  update-name takes  *)
(* no lock.                                                                *)
(*                                                                         *)
(* Redis numbers the saves of a room; a room that was deleted starts again *)
(* at 0 (saveInitialRoom) or 1 (saveRoomScript).  The model also numbers   *)
(* these incarnations, which the program cannot see.                       *)
(***************************************************************************)
EXTENDS RoomCommands

CONSTANTS
    Procs,           \* requests that may run at the same time
    MaxCommands,     \* bound: commands that arrive in a behaviour
    MaxFailures,     \* bound: failed calls, crashes and early expiries
    HoldersMayStall  \* may a lock expire before its holder is done?

ASSUME ServiceAssumption ==
    /\ HoldersMayStall \in BOOLEAN
    /\ None \notin Procs
    /\ None \notin Rooms \cup [inc : Nat, version : Nat, room : Rooms]

VARIABLES
    stored,   \* the room in Redis with its version, or None
    lock,     \* the value of the room's lock key: its holder, or None
    pc, task, \* where each request is, and the command it executes
    base,     \* the stored room it last read or wrote
    work,     \* its copy of the room
    shown,    \* the last published version, or None
    seen,     \* all published versions
    joined,   \* clients whose join was completed at some time
    inc,      \* incarnations of the room so far
    begun, failures

vars == <<stored, lock, pc, task, base, work, shown, seen, joined, inc, begun, failures>>
request == <<pc, task, base, work>>
bounds  == <<begun, failures>>

-----------------------------------------------------------------------------
(* The room in Redis *)

Snapshot(i, version, r) == [inc |-> i, version |-> version, room |-> r]

Stamp(snapshot) == [inc |-> snapshot.inc, version |-> snapshot.version]

\* saveRoomScript: the version after the stored one, whatever was loaded.
Saved(r) ==
    IF stored = None THEN Snapshot(inc + 1, 1, r)
    ELSE Snapshot(inc, stored.version + 1, r)

\* Mutant: a stored room that is newer than expected will do.
versionMatches_Newer(expected) ==
    /\ expected # None
    /\ stored # None
    /\ stored.version >= expected.version

\* compareAndSaveRoomScript; a missing expected version is stale too.
versionMatches(expected) ==
    /\ expected # None
    /\ stored # None
    /\ stored.version = expected.version

-----------------------------------------------------------------------------
(* Requests *)

Idle(p) == pc[p] = "idle"
Locks(p) == task[p].kind # "update-name"
Guarded(p) == task[p].kind \in GuardedKinds

\* RemoveClient of the hub: for leave, and for a join that is rolled back.
Removes(p) == task[p].kind \in {"leave", "rollback"}

\* Mutant: empty copies are saved too.
Deletes_Never(p) == FALSE

\* Empty copies are not saved: the room is deleted.
Deletes(p) == Removes(p) /\ IsEmpty(work[p])

Goto(p, label) == pc' = [pc EXCEPT ![p] = label]

NoTask == [kind |-> "none"]

Stop(p, label) ==
    /\ Goto(p, label)
    /\ base' = [base EXCEPT ![p] = None]
    /\ work' = [work EXCEPT ![p] = None]

\* The request ends.
End(p) == Stop(p, "idle") /\ task' = [task EXCEPT ![p] = NoTask]

\* The use case returns: the deferred release is left, if it has locked.
Return(p) ==
    IF Locks(p) THEN Stop(p, "release") /\ UNCHANGED task ELSE End(p)

\* A command arrives.  Its sender has joined before, but may be gone by now;
\* guarded commands carry a version that was published at some time, or none.
Begin(p, command, expected) ==
    /\ Idle(p)
    /\ begun < MaxCommands
    /\ command.kind \notin {"join", "admin-toggle-owner"} => command.sender \in joined
    /\ expected # None => command.kind \in GuardedKinds
    /\ task' = [task EXCEPT ![p] = [kind |-> command.kind, sender |-> command.sender,
                                    arg |-> command.arg, expected |-> expected]]
    /\ Goto(p, IF command.kind = "update-name" THEN "load" ELSE "lock")
    /\ begun' = begun + 1
    /\ UNCHANGED <<stored, lock, base, work, shown, seen, joined, inc, failures>>

\* Mutant: SET instead of SetNX.
Acquire_Blind(p) ==
    /\ pc[p] = "lock"
    /\ lock' = p
    /\ Goto(p, "load")
    /\ UNCHANGED <<stored, task, base, work, shown, seen, joined, inc, bounds>>

\* SetNX succeeds.
Acquire(p) ==
    /\ pc[p] = "lock"
    /\ lock = None
    /\ lock' = p
    /\ Goto(p, "load")
    /\ UNCHANGED <<stored, task, base, work, shown, seen, joined, inc, bounds>>

\* All retries found the lock taken: the request fails.
GiveUp(p) ==
    /\ pc[p] = "lock"
    /\ lock # None
    /\ End(p)
    /\ UNCHANGED <<stored, lock, shown, seen, joined, inc, bounds>>

\* The room key is missing: a join creates the room, a leave is done with.
LoadMissing(p) ==
    /\ pc[p] = "load"
    /\ stored = None
    /\ CASE task[p].kind = "join"  -> Goto(p, "create") /\ UNCHANGED <<task, base, work>>
         [] task[p].kind = "leave" -> Goto(p, "reload") /\ UNCHANGED <<task, base, work>>
         [] OTHER -> Return(p)
    /\ UNCHANGED <<stored, lock, shown, seen, joined, inc, bounds>>

\* The room is loaded and the operation applied to the copy.
Load(p, next, r) ==
    /\ Goto(p, next)
    /\ base' = [base EXCEPT ![p] = stored]
    /\ work' = [work EXCEPT ![p] = r]

LoadForJoin(p) ==
    LET c == task[p].sender
    IN  /\ pc[p] = "load"
        /\ stored # None
        /\ task[p].kind = "join"
        /\ IF FindClient(stored.room, c)
           THEN /\ Load(p, "publish", stored.room)
                /\ task' = [task EXCEPT ![p].kind = "rejoin"]
           ELSE Load(p, "save", NewClient(stored.room, c)) /\ UNCHANGED task
        /\ UNCHANGED <<stored, lock, shown, seen, joined, inc, bounds>>

LoadForRemoval(p) ==
    /\ pc[p] = "load"
    /\ stored # None
    /\ Removes(p)
    /\ Load(p, "save", RemoveClient(stored.room, task[p].sender))
    /\ UNCHANGED <<stored, lock, task, shown, seen, joined, inc, bounds>>

LoadForOperation(p) ==
    /\ pc[p] = "load"
    /\ stored # None
    /\ task[p].kind # "join"
    /\ ~Removes(p)
    /\ IF OperationError(task[p], stored.room) = OK
       THEN Load(p, "save", Operation(task[p], stored.room)) /\ UNCHANGED task
       ELSE Return(p)
    /\ UNCHANGED <<stored, lock, shown, seen, joined, inc, bounds>>

\* saveInitialRoom: a plain SET.
Create(p) ==
    /\ pc[p] = "create"
    /\ inc' = inc + 1
    /\ stored' = Snapshot(inc + 1, 0, NewRoom)
    /\ base' = [base EXCEPT ![p] = stored']
    /\ work' = [work EXCEPT ![p] = NewClient(NewRoom, task[p].sender)]
    /\ Goto(p, "save")
    /\ UNCHANGED <<lock, task, shown, seen, joined, bounds>>

\* What Redis does for the save of a request.
WriteRoom(p) ==
    /\ stored' = IF Deletes(p) THEN None ELSE Saved(work[p])
    /\ inc' = IF stored = None /\ ~Deletes(p) THEN inc + 1 ELSE inc

\* After the save: a leave loads the room once more to publish it.
Continue(p) ==
    CASE task[p].kind = "leave"    -> Goto(p, "reload") /\ UNCHANGED <<task, base, work>>
      [] task[p].kind = "rollback" -> Return(p)
      [] OTHER -> /\ Goto(p, "publish")
                  /\ base' = [base EXCEPT ![p] = stored']
                  /\ UNCHANGED <<task, work>>

Save(p) ==
    /\ pc[p] = "save"
    /\ Guarded(p) => versionMatches(task[p].expected)
    /\ WriteRoom(p)
    /\ Continue(p)
    /\ UNCHANGED <<lock, shown, seen, joined, bounds>>

\* ErrStaleRoomVersion
SaveStale(p) ==
    /\ pc[p] = "save"
    /\ Guarded(p)
    /\ ~versionMatches(task[p].expected)
    /\ Return(p)
    /\ UNCHANGED <<stored, lock, shown, seen, joined, inc, bounds>>

\* Mutant: a leave is not announced.
Reload_Silent(p) ==
    /\ pc[p] = "reload"
    /\ Return(p)
    /\ UNCHANGED <<stored, lock, shown, seen, joined, inc, bounds>>

\* LeaveRoom broadcasts what is stored after the removal, if anything.
Reload(p) ==
    /\ pc[p] = "reload"
    /\ IF stored = None THEN Return(p)
       ELSE /\ Goto(p, "publish")
            /\ base' = [base EXCEPT ![p] = stored]
            /\ UNCHANGED <<task, work>>
    /\ UNCHANGED <<stored, lock, shown, seen, joined, inc, bounds>>

\* BroadcastToRoom of the request's copy.
publish(p) ==
    /\ shown' = Stamp(base[p])
    /\ seen'  = seen \cup {Stamp(base[p])}

Publish(p) ==
    /\ pc[p] = "publish"
    /\ publish(p)
    /\ joined' = IF task[p].kind \in {"join", "rejoin"}
                 THEN joined \cup {task[p].sender} ELSE joined
    /\ Return(p)
    /\ UNCHANGED <<stored, lock, inc, bounds>>

\* releaseLock deletes the key only if it still has the request's value.
Release(p) ==
    /\ pc[p] = "release"
    /\ lock' = IF lock = p THEN None ELSE lock
    /\ End(p)
    /\ UNCHANGED <<stored, shown, seen, joined, inc, bounds>>

-----------------------------------------------------------------------------
(* Failures *)

Fails == failures < MaxFailures /\ failures' = failures + 1 /\ UNCHANGED begun

\* A load or the creation of a room fails, and with it the use case.
CallFails(p) ==
    /\ Fails
    /\ pc[p] \in {"load", "create", "reload"}
    /\ Return(p)
    /\ UNCHANGED <<stored, lock, shown, seen, joined, inc>>

\* The reply of a save is an error; the script may have run all the same.
\* AddClient and RemoveRoom only log that, and the use case goes on.
SaveFails(p) ==
    /\ Fails
    /\ pc[p] = "save"
    /\ \/ UNCHANGED <<stored, inc>>
       \/ (Guarded(p) => versionMatches(task[p].expected)) /\ WriteRoom(p)
    /\ IF task[p].kind = "join"
       THEN Goto(p, "publish") /\ UNCHANGED <<task, base, work>>
       ELSE IF Deletes(p) THEN Continue(p) ELSE Return(p)
    /\ UNCHANGED <<lock, shown, seen, joined>>

\* The broadcast fails, or AddBus before it.  A new client's join is rolled
\* back under the same lock.
PublishFails(p) ==
    /\ Fails
    /\ pc[p] = "publish"
    /\ UNCHANGED <<shown, seen>> \/ publish(p)
    /\ IF task[p].kind = "join"
       THEN /\ task' = [task EXCEPT ![p].kind = "rollback"]
            /\ Goto(p, "load")
            /\ UNCHANGED <<base, work>>
       ELSE Return(p)
    /\ UNCHANGED <<stored, lock, joined, inc>>

\* The request dies with its instance, or its release fails.
Crash(p) ==
    /\ Fails
    /\ ~Idle(p)
    /\ End(p)
    /\ UNCHANGED <<stored, lock, shown, seen, joined, inc>>

\* Is the lock's holder still in its use case?
HolderAlive == pc[lock] \notin {"idle", "lock"} /\ Locks(lock)

\* Mutants: a TTL shorter than a request; a lock key without a TTL.
Expire_Short ==
    /\ lock # None
    /\ lock' = None
    /\ UNCHANGED <<stored, request, shown, seen, joined, inc, bounds>>
Expire_Never == FALSE /\ UNCHANGED vars

\* The lock key's TTL passes.
Expire ==
    /\ lock # None
    /\ ~HolderAlive
    /\ lock' = None
    /\ UNCHANGED <<stored, request, shown, seen, joined, inc, bounds>>

ExpireEarly ==
    /\ HoldersMayStall
    /\ lock # None
    /\ HolderAlive
    /\ Fails
    /\ lock' = None
    /\ UNCHANGED <<stored, request, shown, seen, joined, inc>>

-----------------------------------------------------------------------------
\* The room does not exist, or CreateRoom has just created it.
Init ==
    /\ \/ stored = None /\ inc = 0
       \/ stored = Snapshot(1, 0, NewRoom) /\ inc = 1
    /\ lock = None
    /\ pc   = [p \in Procs |-> "idle"]
    /\ task = [p \in Procs |-> NoTask]
    /\ base = [p \in Procs |-> None]
    /\ work = [p \in Procs |-> None]
    /\ shown = None
    /\ seen = {}
    /\ joined = {}
    /\ begun = 0
    /\ failures = 0

\* What a request does by itself once it has begun.
Step(p) ==
    \/ Acquire(p) \/ GiveUp(p)
    \/ LoadMissing(p) \/ LoadForJoin(p) \/ LoadForRemoval(p) \/ LoadForOperation(p)
    \/ Create(p) \/ Save(p) \/ SaveStale(p) \/ Reload(p) \/ Publish(p) \/ Release(p)

Failure(p) == CallFails(p) \/ SaveFails(p) \/ PublishFails(p) \/ Crash(p)

Next ==
    \/ \E p \in Procs :
          \/ \E command \in Commands, expected \in seen \cup {None} :
                Begin(p, command, expected)
          \/ Step(p)
          \/ Failure(p)
    \/ Expire
    \/ ExpireEarly

Spec == Init /\ [][Next]_vars

\* Requests run to their end, Redis drops expired keys.
FairSpec == Spec /\ (\A p \in Procs : WF_vars(Step(p))) /\ WF_vars(Expire)

-----------------------------------------------------------------------------
(* The steps in which a request writes the room. *)
Writes(p) == pc[p] \in {"create", "save"} /\ pc'[p] # pc[p] /\ stored' # stored

(* Whatever order the calls of concurrent requests are in, and whichever   *)
(* of them fail, the room in Redis is a room the domain model allows: with *)
(* an owner, a valid current story and coherent results.                   *)
StoredRoomCorrect == stored # None => RoomOK(stored.room)

(* No update is lost among the use cases that lock: what one of them       *)
(* writes, it computed from the room that it overwrites.                   *)
SavesSeeLatest == [][\A p \in Procs : Writes(p) => base[p] = stored]_vars

(* Guarded commands lose no update even to update-name and to requests     *)
(* that outlive their lock: SaveRoomIfVersion succeeds only on the room    *)
(* that was loaded.  It compares numbers: a version of an earlier room of  *)
(* the same id passes once the new one has reached it, hence "of its life".*)
GuardedSavesSeeLatest ==
    [][\A p \in Procs :
          Writes(p) /\ Guarded(p) /\ task[p].expected.inc = inc
          => base[p] = stored]_vars

(* Snapshots are published in the order of their versions: publishing is   *)
(* inside the lock, so clients never go back to an older room.             *)
SnapshotsInOrder ==
    [][shown # None /\ shown' # shown
       => \/ shown'.inc > shown.inc
          \/ shown'.inc = shown.inc /\ shown'.version >= shown.version]_vars

(* When no request is under way and nothing has failed, the last published *)
(* snapshot is the stored room: no change stays unannounced.  (The room    *)
(* that CreateRoom leaves, version 0, has nobody to announce it to.)       *)
QuietRoomIsShown ==
    /\ \A p \in Procs : Idle(p)
    /\ failures = 0
    /\ stored # None
    /\ stored.version > 0
    => shown = Stamp(stored)

(* A lock that is taken is freed, also when its holder dies: nobody is     *)
(* locked out of a room for good.                                          *)
LockIsFreed == lock # None ~> lock = None

\* The abstract room is the one in Redis.
Atomic == INSTANCE AtomicRoom
    WITH NoRoom <- None, Changes <- OneOperation, Empties <- LastLeaves,
         room <- IF stored = None THEN None ELSE stored.room

(* For the use cases that lock, the room in Redis is the atomic room that  *)
(* clients may think of: whatever requests overlap, fail or die, it        *)
(* changes by one whole operation of the aggregate at a time, applied to   *)
(* the room as it then is, and it goes when its last client leaves.        *)
ImplementsRoom == Atomic!Spec

(* protocol/README.md: update-name changes the current client display      *)
(* name.  (It also writes back all the rest of the room it has loaded.)    *)
RenameOnlyRenames ==
    [][\A p \in Procs :
          Writes(p) /\ task[p].kind = "update-name"
          => /\ stored # None
             /\ stored'.room = UpdateClientName(stored.room, task[p].sender, task[p].arg)]_vars

=============================================================================
