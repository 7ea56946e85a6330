-------------------------- MODULE RoomServiceProofs --------------------------
(***************************************************************************)
(* What holds under every interleaving and failure of RoomService, for     *)
(* every set of clients, commands and requests: the stored room stays      *)
(* correct, and guarded commands lose no update.  Then what the lock adds: *)
(* the requests implement AtomicRoom, no update of theirs is lost, and     *)
(* snapshots are published in order.                                       *)
(***************************************************************************)
EXTENDS RoomService, RoomAggregateProofs

-----------------------------------------------------------------------------
(* The inductive invariant: the stored room is correct, and so is every    *)
(* copy that a request is about to save.                                   *)

FunctionOfProcs(f) == f = [p \in Procs |-> f[p]]

Shape == FunctionOfProcs(pc) /\ FunctionOfProcs(task) /\ FunctionOfProcs(work)

RequestOK(p) ==
    /\ pc[p] # "idle" => TaskOK(task[p])
    /\ pc[p] \in {"lock", "load"} => task[p].kind # "rejoin"
    /\ pc[p] = "save" => RoomOK(work[p])

ServiceInv == Shape /\ StoredRoomCorrect /\ \A p \in Procs : RequestOK(p)

-----------------------------------------------------------------------------
(* What a step of one request does to the requests. *)

(* Only request p changed, and it is still in order. *)
OnlyChanged(p) ==
    /\ Shape'
    /\ RequestOK(p)'
    /\ \A q \in Procs \ {p} : pc'[q] = pc[q] /\ task'[q] = task[q] /\ work'[q] = work[q]

(* A request that moves on without a new copy. *)
LEMMA GotoFacts ==
    ASSUME Shape, NEW p \in Procs, RequestOK(p), pc[p] # "idle",
           NEW label, Goto(p, label), label \in {"create", "reload", "publish", "release"},
           UNCHANGED <<task, work>>
    PROVE  OnlyChanged(p)
<1>1. Shape'
  BY DEF Shape, Goto, FunctionOfProcs
<1>2. pc'[p] = label /\ \A q \in Procs \ {p} : pc'[q] = pc[q]
  BY DEF Shape, Goto, FunctionOfProcs
<1>3. QED
  BY <1>1, <1>2 DEF OnlyChanged, RequestOK

(* A request that ends, or is left with its release. *)
LEMMA EndFacts ==
    ASSUME Shape, NEW p \in Procs, RequestOK(p), pc[p] # "idle"
    PROVE  /\ End(p) => OnlyChanged(p)
           /\ Return(p) => OnlyChanged(p)
<1>0. FunctionOfProcs(pc) /\ FunctionOfProcs(work) /\ FunctionOfProcs(task)
  BY DEF Shape
<1>1. ASSUME NEW label, Stop(p, label)
      PROVE  /\ FunctionOfProcs(pc') /\ pc'[p] = label
             /\ \A q \in Procs \ {p} : pc'[q] = pc[q]
             /\ FunctionOfProcs(work')
             /\ \A q \in Procs \ {p} : work'[q] = work[q]
  <2>1. pc' = [pc EXCEPT ![p] = label] /\ work' = [work EXCEPT ![p] = None]
    BY <1>1 DEF Stop, Goto
  <2>2. /\ FunctionOfProcs(pc') /\ pc'[p] = label
        /\ \A q \in Procs \ {p} : pc'[q] = pc[q]
    BY <1>0, <2>1 DEF FunctionOfProcs
  <2>3. /\ FunctionOfProcs(work')
        /\ \A q \in Procs \ {p} : work'[q] = work[q]
    BY <1>0, <2>1 DEF FunctionOfProcs
  <2>4. QED
    BY <2>2, <2>3
<1>2. ASSUME End(p) PROVE OnlyChanged(p)
  <2>1. Stop(p, "idle") /\ task' = [task EXCEPT ![p] = NoTask]
    BY <1>2 DEF End
  <2>2. FunctionOfProcs(task') /\ \A q \in Procs \ {p} : task'[q] = task[q]
    BY <1>0, <2>1 DEF FunctionOfProcs
  <2>3. QED
    BY <1>1, <2>1, <2>2 DEF OnlyChanged, RequestOK, Shape
<1>3. ASSUME Stop(p, "release"), UNCHANGED task PROVE OnlyChanged(p)
  <2>1. RequestOK(p)'
    BY <1>1, <1>3 DEF RequestOK
  <2>2. QED
    BY <1>0, <1>1, <1>3, <2>1 DEF OnlyChanged, Shape
<1>4. QED
  BY <1>2, <1>3 DEF Return

(* A request that loads a room and computes a correct copy of it. *)
LEMMA LoadFacts ==
    ASSUME Shape, NEW p \in Procs, RequestOK(p), pc[p] # "idle",
           NEW r, RoomOK(r), Load(p, "save", r), UNCHANGED task
    PROVE  OnlyChanged(p)
<1>1. /\ pc' = [pc EXCEPT ![p] = "save"] /\ work' = [work EXCEPT ![p] = r]
      /\ task' = task
  BY DEF Load, Goto
<1>2. FunctionOfProcs(pc) /\ FunctionOfProcs(work) /\ FunctionOfProcs(task)
  BY DEF Shape
<1>3. /\ FunctionOfProcs(pc') /\ pc'[p] = "save"
      /\ \A q \in Procs \ {p} : pc'[q] = pc[q]
  BY <1>1, <1>2 DEF FunctionOfProcs
<1>4. /\ FunctionOfProcs(work') /\ work'[p] = r
      /\ \A q \in Procs \ {p} : work'[q] = work[q]
  BY <1>1, <1>2 DEF FunctionOfProcs
<1>5. Shape'
  BY <1>1, <1>2, <1>3, <1>4 DEF Shape
<1>6. RequestOK(p)'
  BY <1>1, <1>3, <1>4 DEF RequestOK
<1>7. QED
  BY <1>1, <1>3, <1>4, <1>5, <1>6 DEF OnlyChanged

(* Together with a correct stored room that gives the invariant. *)
LEMMA OneRequest ==
    ASSUME ServiceInv, NEW p \in Procs, OnlyChanged(p), StoredRoomCorrect'
    PROVE  ServiceInv'
<1>1. ASSUME NEW q \in Procs \ {p} PROVE RequestOK(q)'
  <2>1. RequestOK(q)
    BY DEF ServiceInv
  <2>2. QED
    BY <2>1 DEF OnlyChanged, RequestOK
<1>2. QED
  BY <1>1 DEF OnlyChanged, ServiceInv

(* The invariant of a request that is not idle. *)
LEMMA RequestFacts ==
    ASSUME ServiceInv, NEW p \in Procs
    PROVE  /\ Shape /\ RequestOK(p) /\ StoredRoomCorrect
           /\ pc[p] # "idle" => TaskOK(task[p]) /\ task[p].sender \in ClientIDs
BY DEF ServiceInv, RequestOK, TaskOK

-----------------------------------------------------------------------------
(* One lemma for each group of actions. *)

(* Begin: the command is one of Commands, hence in order. *)
LEMMA BeginOK ==
    ASSUME ServiceInv, NEW p \in Procs, NEW command \in Commands, NEW expected,
           Begin(p, command, expected)
    PROVE  ServiceInv'
<1> DEFINE t == [kind |-> command.kind, sender |-> command.sender,
                 arg |-> command.arg, expected |-> expected]
<1>1. Shape /\ StoredRoomCorrect
  BY DEF ServiceInv
<1>2. /\ task' = [task EXCEPT ![p] = t] /\ work' = work /\ stored' = stored
      /\ Goto(p, IF command.kind = "update-name" THEN "load" ELSE "lock")
  BY DEF Begin
<1>3. /\ t.kind = command.kind /\ t.sender = command.sender /\ t.arg = command.arg
  OBVIOUS
<1>4. TaskOK(t) /\ t.kind # "rejoin"
  BY <1>3, CommandAssumption DEF TaskOK, Kinds, GuardedKinds
<1> HIDE DEF t
<1>5. /\ FunctionOfProcs(task') /\ task'[p] = t
      /\ \A q \in Procs \ {p} : task'[q] = task[q]
  BY <1>1, <1>2 DEF Shape, FunctionOfProcs
<1>6. /\ FunctionOfProcs(pc') /\ pc'[p] \in {"load", "lock"}
      /\ \A q \in Procs \ {p} : pc'[q] = pc[q]
  BY <1>1, <1>2 DEF Shape, FunctionOfProcs, Goto
<1>7. OnlyChanged(p)
  BY <1>1, <1>2, <1>4, <1>5, <1>6 DEF OnlyChanged, Shape, RequestOK
<1>8. StoredRoomCorrect'
  BY <1>1, <1>2 DEF StoredRoomCorrect
<1>9. QED
  BY <1>7, <1>8, OneRequest

(* Acquire, GiveUp and Release only touch the lock. *)
LEMMA LockStepOK ==
    ASSUME ServiceInv, NEW p \in Procs, Acquire(p) \/ GiveUp(p) \/ Release(p)
    PROVE  ServiceInv'
<1>1. Shape /\ StoredRoomCorrect /\ RequestOK(p)
  BY RequestFacts
<1>2. StoredRoomCorrect' /\ pc[p] # "idle"
  BY <1>1 DEF StoredRoomCorrect, Acquire, GiveUp, Release
<1>3. ASSUME Acquire(p) PROVE OnlyChanged(p)
  <2>1. Goto(p, "load") /\ UNCHANGED <<task, work>> /\ pc[p] = "lock"
    BY <1>3 DEF Acquire
  <2>2. /\ FunctionOfProcs(pc') /\ pc'[p] = "load"
        /\ \A q \in Procs \ {p} : pc'[q] = pc[q]
    BY <1>1, <2>1 DEF Shape, FunctionOfProcs, Goto
  <2>3. QED
    BY <1>1, <2>1, <2>2 DEF OnlyChanged, Shape, RequestOK
<1>4. ASSUME GiveUp(p) \/ Release(p) PROVE OnlyChanged(p)
  BY <1>1, <1>2, <1>4, EndFacts DEF GiveUp, Release
<1>5. QED
  BY <1>2, <1>3, <1>4, OneRequest

(* The loads: copies are computed from a correct room by an operation that *)
(* keeps it correct.                                                       *)
LEMMA LoadStepOK ==
    ASSUME ServiceInv, NEW p \in Procs,
           LoadMissing(p) \/ LoadForJoin(p) \/ LoadForRemoval(p) \/ LoadForOperation(p)
    PROVE  ServiceInv'
<1>1. Shape /\ StoredRoomCorrect /\ RequestOK(p)
  BY RequestFacts
<1>2. pc[p] = "load" /\ stored' = stored
  BY DEF LoadMissing, LoadForJoin, LoadForRemoval, LoadForOperation
<1>3. StoredRoomCorrect' /\ pc[p] # "idle"
  BY <1>1, <1>2 DEF StoredRoomCorrect
<1>4. TaskOK(task[p]) /\ task[p].sender \in ClientIDs /\ task[p].kind # "rejoin"
  BY <1>1, <1>2 DEF RequestOK, TaskOK
<1>5. ASSUME LoadMissing(p) PROVE OnlyChanged(p)
  <2>1. \/ Goto(p, "create") /\ UNCHANGED <<task, base, work>>
        \/ Goto(p, "reload") /\ UNCHANGED <<task, base, work>>
        \/ Return(p)
    BY <1>5 DEF LoadMissing
  <2>2. QED
    BY <1>1, <1>3, <2>1, GotoFacts, EndFacts
<1>6. ASSUME LoadForJoin(p) PROVE OnlyChanged(p)
  <2>1. RoomOK(stored.room)
    BY <1>1, <1>6 DEF LoadForJoin, StoredRoomCorrect
  <2>2. CASE FindClient(stored.room, task[p].sender)
    <3>1. /\ pc' = [pc EXCEPT ![p] = "publish"]
          /\ work' = [work EXCEPT ![p] = stored.room]
          /\ task' = [task EXCEPT ![p].kind = "rejoin"]
      BY <1>6, <2>2 DEF LoadForJoin, Load, Goto
    <3>2. /\ FunctionOfProcs(pc') /\ FunctionOfProcs(work') /\ FunctionOfProcs(task')
          /\ \A q \in Procs \ {p} : pc'[q] = pc[q] /\ task'[q] = task[q] /\ work'[q] = work[q]
      BY <1>1, <3>1 DEF Shape, FunctionOfProcs
    <3>3. pc'[p] = "publish"
      BY <1>1, <3>1 DEF Shape, FunctionOfProcs
    <3>4. TaskOK(task[p])'
      <4>1. task'[p] = [task[p] EXCEPT !.kind = "rejoin"]
        BY <1>1, <3>1 DEF Shape, FunctionOfProcs
      <4>2. QED
        BY <1>4, <4>1 DEF TaskOK, Kinds, GuardedKinds
    <3>5. QED
      BY <3>2, <3>3, <3>4 DEF OnlyChanged, Shape, RequestOK
  <2>3. CASE ~FindClient(stored.room, task[p].sender)
    <3>1. Load(p, "save", NewClient(stored.room, task[p].sender)) /\ UNCHANGED task
      BY <1>6, <2>3 DEF LoadForJoin
    <3>2. RoomOK(NewClient(stored.room, task[p].sender))
      BY <1>4, <2>1, <2>3, NewClientOK
    <3>3. QED
      BY <1>1, <1>3, <3>1, <3>2, LoadFacts
  <2>4. QED
    BY <2>2, <2>3
<1>7. ASSUME LoadForRemoval(p) PROVE OnlyChanged(p)
  <2>1. RoomOK(RemoveClient(stored.room, task[p].sender))
    BY <1>1, <1>4, <1>7, RemoveClientOK DEF LoadForRemoval, StoredRoomCorrect
  <2>2. QED
    BY <1>1, <1>3, <1>7, <2>1, LoadFacts DEF LoadForRemoval
<1>8. ASSUME LoadForOperation(p) PROVE OnlyChanged(p)
  <2>1. CASE OperationError(task[p], stored.room) = OK
    <3>1. task[p].kind \in Kinds \ {"join", "leave"}
      BY <1>4, <1>8 DEF LoadForOperation, Removes, TaskOK
    <3>2. RoomOK(stored.room)
      BY <1>1, <1>8 DEF LoadForOperation, StoredRoomCorrect
    <3>3. RoomOK(Operation(task[p], stored.room))
      BY <1>4, <2>1, <3>1, <3>2, OperationOK
    <3>4. Load(p, "save", Operation(task[p], stored.room)) /\ UNCHANGED task
      BY <1>8, <2>1 DEF LoadForOperation
    <3>5. QED
      BY <1>1, <1>3, <3>3, <3>4, LoadFacts
  <2>2. CASE OperationError(task[p], stored.room) # OK
    BY <1>1, <1>3, <1>8, <2>2, EndFacts DEF LoadForOperation
  <2>3. QED
    BY <2>1, <2>2
<1>9. QED
  BY <1>3, <1>5, <1>6, <1>7, <1>8, OneRequest

(* What a save may leave in Redis: nothing, or the request's copy. *)
LEMMA WriteOK ==
    ASSUME NEW p, RoomOK(work[p]), WriteRoom(p)
    PROVE  StoredRoomCorrect'
<1>1. stored' = None \/ stored'.room = work[p]
  BY DEF WriteRoom, Saved, Snapshot
<1>2. QED
  BY <1>1 DEF StoredRoomCorrect

(* After a save the request reloads, publishes or returns. *)
LEMMA ContinueFacts ==
    ASSUME Shape, NEW p \in Procs, RequestOK(p), pc[p] # "idle", Continue(p)
    PROVE  OnlyChanged(p)
<1>1. \/ Goto(p, "reload") /\ UNCHANGED <<task, work>>
      \/ Goto(p, "publish") /\ UNCHANGED <<task, work>>
      \/ Return(p)
  BY DEF Continue
<1>2. QED
  BY <1>1, GotoFacts, EndFacts

(* Create stores a new room, and the copy that is saved next has the       *)
(* joining client in it.                                                   *)
LEMMA CreateOK ==
    ASSUME ServiceInv, NEW p \in Procs, Create(p)
    PROVE  ServiceInv'
<1> DEFINE joining == NewClient(NewRoom, task[p].sender)
<1>1. Shape /\ RequestOK(p) /\ pc[p] # "idle" /\ task[p].sender \in ClientIDs
  BY RequestFacts DEF Create
<1>2. /\ stored' = Snapshot(inc + 1, 0, NewRoom) /\ task' = task
      /\ work' = [work EXCEPT ![p] = joining] /\ Goto(p, "save")
  BY DEF Create
<1>3. stored'.room = NewRoom
  BY <1>2 DEF Snapshot
<1>4. StoredRoomCorrect'
  BY <1>3, NewRoomOK DEF StoredRoomCorrect
<1>5. ~FindClient(NewRoom, task[p].sender)
  BY DEF FindClient, Present, NewRoom, Range
<1>6. RoomOK(joining)
  BY <1>1, <1>5, NewRoomOK, NewClientOK
<1> HIDE DEF joining
<1>7. /\ FunctionOfProcs(pc') /\ pc'[p] = "save"
      /\ \A q \in Procs \ {p} : pc'[q] = pc[q]
  BY <1>1, <1>2 DEF Goto, Shape, FunctionOfProcs
<1>8. /\ FunctionOfProcs(work') /\ work'[p] = joining
      /\ \A q \in Procs \ {p} : work'[q] = work[q]
  BY <1>1, <1>2 DEF Shape, FunctionOfProcs
<1>9. RequestOK(p)'
  BY <1>1, <1>2, <1>6, <1>7, <1>8 DEF RequestOK
<1>10. OnlyChanged(p)
  BY <1>1, <1>2, <1>7, <1>8, <1>9 DEF OnlyChanged, Shape
<1>11. QED
  BY <1>4, <1>10, OneRequest

(* Save, SaveStale and SaveFails. *)
LEMMA SaveStepOK ==
    ASSUME ServiceInv, NEW p \in Procs, Save(p) \/ SaveStale(p) \/ SaveFails(p)
    PROVE  ServiceInv'
<1>1. Shape /\ StoredRoomCorrect /\ RequestOK(p)
  BY RequestFacts
<1>2. pc[p] = "save" /\ pc[p] # "idle"
  BY DEF Save, SaveStale, SaveFails
<1>3. RoomOK(work[p])
  BY <1>1, <1>2 DEF RequestOK
<1>4. StoredRoomCorrect'
  <2>1. WriteRoom(p) \/ stored' = stored
    BY DEF Save, SaveStale, SaveFails
  <2>2. QED
    BY <1>1, <1>3, <2>1, WriteOK DEF StoredRoomCorrect
<1>5. \/ Continue(p)
      \/ Return(p)
      \/ Goto(p, "publish") /\ UNCHANGED <<task, work>>
  BY DEF Save, SaveStale, SaveFails
<1>6. OnlyChanged(p)
  BY <1>1, <1>2, <1>5, ContinueFacts, EndFacts, GotoFacts
<1>7. QED
  BY <1>4, <1>6, OneRequest

(* Reload, Publish and the failures that return. *)
LEMMA ReturnStepOK ==
    ASSUME ServiceInv, NEW p \in Procs,
           Reload(p) \/ Publish(p) \/ CallFails(p) \/ Crash(p)
    PROVE  ServiceInv'
<1>1. Shape /\ StoredRoomCorrect /\ RequestOK(p)
  BY RequestFacts
<1>2. pc[p] # "idle" /\ stored' = stored
  BY DEF Reload, Publish, CallFails, Crash, Idle
<1>3. StoredRoomCorrect'
  BY <1>1, <1>2 DEF StoredRoomCorrect
<1>4. \/ Return(p)
      \/ End(p)
      \/ Goto(p, "publish") /\ UNCHANGED <<task, work>>
  BY DEF Reload, Publish, CallFails, Crash
<1>5. OnlyChanged(p)
  BY <1>1, <1>2, <1>4, EndFacts, GotoFacts
<1>6. QED
  BY <1>3, <1>5, OneRequest

(* PublishFails turns a join into its rollback. *)
LEMMA PublishFailsOK ==
    ASSUME ServiceInv, NEW p \in Procs, PublishFails(p)
    PROVE  ServiceInv'
<1>1. Shape /\ StoredRoomCorrect /\ RequestOK(p)
  BY RequestFacts
<1>2. pc[p] = "publish" /\ stored' = stored
  BY DEF PublishFails
<1>3. StoredRoomCorrect' /\ pc[p] # "idle"
  BY <1>1, <1>2 DEF StoredRoomCorrect
<1>4. CASE task[p].kind = "join"
  <2>1. /\ task' = [task EXCEPT ![p].kind = "rollback"] /\ work' = work
        /\ pc' = [pc EXCEPT ![p] = "load"]
    BY <1>4 DEF PublishFails, Goto
  <2>2. /\ FunctionOfProcs(pc') /\ FunctionOfProcs(work') /\ FunctionOfProcs(task')
        /\ \A q \in Procs \ {p} : pc'[q] = pc[q] /\ task'[q] = task[q] /\ work'[q] = work[q]
    BY <1>1, <2>1 DEF Shape, FunctionOfProcs
  <2>3. pc'[p] = "load" /\ task'[p] = [task[p] EXCEPT !.kind = "rollback"]
    BY <1>1, <2>1 DEF Shape, FunctionOfProcs
  <2>4. TaskOK(task[p])
    BY <1>1, <1>3 DEF RequestOK
  <2>5. TaskOK(task'[p]) /\ task'[p].kind # "rejoin"
    BY <1>4, <2>3, <2>4 DEF TaskOK, Kinds, GuardedKinds
  <2>6. OnlyChanged(p)
    BY <2>2, <2>3, <2>5 DEF OnlyChanged, Shape, RequestOK
  <2>7. QED
    BY <1>3, <2>6, OneRequest
<1>5. CASE task[p].kind # "join"
  BY <1>1, <1>3, <1>5, EndFacts, OneRequest DEF PublishFails
<1>6. QED
  BY <1>4, <1>5

(* Steps that leave the room and the requests alone. *)
LEMMA OtherStepOK ==
    ASSUME ServiceInv, UNCHANGED <<stored, pc, task, work>>
    PROVE  ServiceInv'
BY DEF ServiceInv, Shape, FunctionOfProcs, StoredRoomCorrect, RequestOK

-----------------------------------------------------------------------------
(* No step breaks it. *)
LEMMA ServiceStepOK == ServiceInv /\ [Next]_vars => ServiceInv'
<1> SUFFICES ASSUME ServiceInv, [Next]_vars PROVE ServiceInv'
  OBVIOUS
<1>1. ASSUME NEW p \in Procs, NEW command \in Commands, NEW expected,
             Begin(p, command, expected)
      PROVE  ServiceInv'
  BY <1>1, BeginOK
<1>2. ASSUME NEW p \in Procs, Step(p) PROVE ServiceInv'
  BY <1>2, LockStepOK, LoadStepOK, CreateOK, SaveStepOK, ReturnStepOK DEF Step
<1>3. ASSUME NEW p \in Procs, Failure(p) PROVE ServiceInv'
  BY <1>3, SaveStepOK, ReturnStepOK, PublishFailsOK DEF Failure
<1>4. ASSUME Expire \/ ExpireEarly PROVE ServiceInv'
  BY <1>4, OtherStepOK DEF Expire, ExpireEarly, request
<1>5. ASSUME UNCHANGED vars PROVE ServiceInv'
  BY <1>5, OtherStepOK DEF vars
<1>6. QED
  BY <1>1, <1>2, <1>3, <1>4, <1>5 DEF Next

LEMMA ServiceInitOK == Init => ServiceInv
<1> SUFFICES ASSUME Init PROVE ServiceInv
  OBVIOUS
<1>1. StoredRoomCorrect
  BY NewRoomOK DEF Init, StoredRoomCorrect, Snapshot
<1>2. Shape
  BY DEF Init, Shape, FunctionOfProcs
<1>3. \A p \in Procs : pc[p] = "idle"
  BY DEF Init
<1>4. QED
  BY <1>1, <1>2, <1>3 DEF ServiceInv, RequestOK

(* No interleaving of the requests, no failed call, crash or expired lock  *)
(* makes Redis hold a room that the domain model does not allow.           *)
THEOREM StoredRoomAlwaysCorrect == Spec => []StoredRoomCorrect
<1>1. ServiceInv => StoredRoomCorrect
  BY DEF ServiceInv
<1>2. QED
  BY <1>1, ServiceInitOK, ServiceStepOK, PTL DEF Spec

-----------------------------------------------------------------------------
(* Guarded saves.  Versions of one incarnation name rooms: what a request  *)
(* has loaded is no newer than the stored room and, under the same number, *)
(* is that room.  A version that was published before the load is no newer *)
(* than what was loaded, so that it can match the stored one only if       *)
(* nothing was saved since.                                                *)

\* s, a snapshot or a stamp, is no newer than the room st of incarnation i.
AtStore(s, i, st) ==
    /\ s.inc \in Nat /\ s.version \in Nat /\ s.inc <= i
    /\ st # None /\ s.inc = i => s.version <= st.version

LoadedFrom(b, i, st) ==
    /\ AtStore(b, i, st)
    /\ st # None /\ b.inc = i /\ b.version = st.version => b = st

NotAfter(e, b) == e.inc <= b.inc /\ (e.inc = b.inc => e.version <= b.version)

StoreNumbered(i, st) ==
    i \in Nat /\ (st # None => st.inc = i /\ st.version \in Nat)

VersionRequest(p) ==
    /\ pc[p] = "create" => task[p].kind = "join"
    /\ pc[p] \in {"save", "publish"} => LoadedFrom(base[p], inc, stored)
    /\ Guarded(p) /\ task[p].expected # None =>
        /\ pc[p] \in {"lock", "load", "save"} => task[p].expected \in seen
        /\ pc[p] = "save" => NotAfter(task[p].expected, base[p])

VersionInv ==
    /\ FunctionOfProcs(base)
    /\ StoreNumbered(inc, stored)
    /\ \A s \in seen : AtStore(s, inc, stored)
    /\ \A p \in Procs : VersionRequest(p)

\* What writes do to the store: the number goes up, or the incarnation.
StoreMovesOn ==
    /\ inc' \in Nat /\ inc <= inc'
    /\ \/ stored' = stored /\ inc' = inc
       \/ stored' = None
       \/ /\ stored'.inc = inc' /\ stored'.version \in Nat
          /\ inc < inc' \/ (stored # None /\ stored.version < stored'.version)

LEMMA NoNewer ==
    ASSUME StoreNumbered(inc, stored), StoreMovesOn
    PROVE  /\ StoreNumbered(inc', stored')
           /\ \A s : AtStore(s, inc, stored) => AtStore(s, inc', stored')
           /\ \A b : LoadedFrom(b, inc, stored) => LoadedFrom(b, inc', stored')
           /\ stored' # None => LoadedFrom(stored', inc', stored')
<1>1. StoreNumbered(inc', stored')
  BY DEF StoreNumbered, StoreMovesOn
<1>2. ASSUME NEW s, AtStore(s, inc, stored) PROVE AtStore(s, inc', stored')
  BY <1>2 DEF StoreNumbered, StoreMovesOn, AtStore
<1>3. ASSUME NEW b, LoadedFrom(b, inc, stored) PROVE LoadedFrom(b, inc', stored')
  <2>1. AtStore(b, inc', stored')
    BY <1>2, <1>3 DEF LoadedFrom
  <2>2. stored' # None /\ b.inc = inc' /\ b.version = stored'.version => b = stored'
    BY <1>3 DEF StoreNumbered, StoreMovesOn, LoadedFrom, AtStore
  <2>3. QED
    BY <2>1, <2>2 DEF LoadedFrom
<1>4. stored' # None => LoadedFrom(stored', inc', stored')
  BY <1>1 DEF StoreNumbered, LoadedFrom, AtStore
<1>5. QED
  BY <1>1, <1>2, <1>3, <1>4

\* Only request p moves, and it publishes nothing but what it has.
OnlyMoves(p) ==
    /\ FunctionOfProcs(base')
    /\ \A q \in Procs \ {p} : pc'[q] = pc[q] /\ task'[q] = task[q] /\ base'[q] = base[q]

LEMMA OneMover ==
    ASSUME VersionInv, NEW p \in Procs, OnlyMoves(p), StoreMovesOn,
           VersionRequest(p)', seen \subseteq seen',
           \A s \in seen' : s \in seen \/ AtStore(s, inc, stored)
    PROVE  VersionInv'
<1>1. /\ StoreNumbered(inc', stored')
      /\ \A s : AtStore(s, inc, stored) => AtStore(s, inc', stored')
      /\ \A b : LoadedFrom(b, inc, stored) => LoadedFrom(b, inc', stored')
  BY NoNewer DEF VersionInv
<1>2. \A s \in seen' : AtStore(s, inc', stored')
  BY <1>1 DEF VersionInv
<1>3. ASSUME NEW q \in Procs \ {p} PROVE VersionRequest(q)'
  <2>1. VersionRequest(q) /\ pc'[q] = pc[q] /\ task'[q] = task[q] /\ base'[q] = base[q]
    BY DEF VersionInv, OnlyMoves
  <2>2. QED
    BY <1>1, <2>1 DEF VersionRequest, Guarded
<1>4. QED
  BY <1>1, <1>2, <1>3 DEF VersionInv, OnlyMoves

(* What a request's variables are when it moves on. *)
LEMMA MovedOn ==
    ASSUME Shape, FunctionOfProcs(base), NEW p \in Procs
    PROVE  /\ \A label : Goto(p, label) =>
                 pc'[p] = label /\ \A q \in Procs \ {p} : pc'[q] = pc[q]
           /\ \A t : task' = [task EXCEPT ![p] = t] =>
                 task'[p] = t /\ \A q \in Procs \ {p} : task'[q] = task[q]
           /\ \A b : base' = [base EXCEPT ![p] = b] =>
                 /\ FunctionOfProcs(base') /\ base'[p] = b
                 /\ \A q \in Procs \ {p} : base'[q] = base[q]
           /\ UNCHANGED base => FunctionOfProcs(base')
BY DEF Shape, Goto, FunctionOfProcs

LEMMA Returned ==
    ASSUME Shape, FunctionOfProcs(base), NEW p \in Procs, Return(p) \/ End(p)
    PROVE  OnlyMoves(p) /\ pc'[p] \in {"idle", "release"} /\ VersionRequest(p)'
<1>1. PICK label \in {"idle", "release"} : Stop(p, label)
  BY DEF Return, End
<1>2. task' = task \/ task' = [task EXCEPT ![p] = NoTask]
  BY DEF Return, End
<1>3. pc'[p] = label /\ \A q \in Procs \ {p} : pc'[q] = pc[q]
  BY <1>1, MovedOn DEF Stop
<1>4. FunctionOfProcs(base') /\ \A q \in Procs \ {p} : base'[q] = base[q]
  BY <1>1, MovedOn DEF Stop
<1>5. \A q \in Procs \ {p} : task'[q] = task[q]
  BY <1>2, MovedOn
<1>6. QED
  BY <1>3, <1>4, <1>5 DEF OnlyMoves, VersionRequest

LEMMA StoreStays ==
    ASSUME VersionInv, UNCHANGED <<stored, inc>>
    PROVE  StoreMovesOn
BY DEF VersionInv, StoreNumbered, StoreMovesOn

(* A step of p that neither writes nor publishes. *)
LEMMA MovesOnly ==
    ASSUME VersionInv, NEW p \in Procs, OnlyMoves(p), VersionRequest(p)',
           UNCHANGED <<stored, inc, seen>>
    PROVE  VersionInv'
<1>1. StoreMovesOn
  BY StoreStays
<1>2. QED
  BY <1>1, OneMover

LEMMA ReturnsVersioned ==
    ASSUME ServiceInv, VersionInv, NEW p \in Procs, Return(p) \/ End(p),
           UNCHANGED <<stored, inc, seen>>
    PROVE  VersionInv'
<1>1. OnlyMoves(p) /\ VersionRequest(p)'
  BY Returned DEF ServiceInv, VersionInv
<1>2. QED
  BY <1>1, MovesOnly

LEMMA BeginVersioned ==
    ASSUME ServiceInv, VersionInv, NEW p \in Procs, NEW command \in Commands,
           NEW expected \in seen \cup {None}, Begin(p, command, expected)
    PROVE  VersionInv'
<1> DEFINE t == [kind |-> command.kind, sender |-> command.sender,
                 arg |-> command.arg, expected |-> expected]
<1>1. Shape /\ FunctionOfProcs(base)
  BY DEF ServiceInv, VersionInv
<1>2. task'[p] = t /\ \A q \in Procs \ {p} : task'[q] = task[q]
  BY <1>1, MovedOn DEF Begin
<1>3. pc'[p] \in {"lock", "load"} /\ \A q \in Procs \ {p} : pc'[q] = pc[q]
  BY <1>1, MovedOn DEF Begin
<1>4. UNCHANGED <<base, stored, inc, seen>>
  BY DEF Begin
<1>5. OnlyMoves(p)
  BY <1>1, <1>2, <1>3, <1>4 DEF OnlyMoves, FunctionOfProcs
<1>6. task'[p].expected = expected
  BY <1>2
<1>7. VersionRequest(p)'
  BY <1>3, <1>4, <1>6 DEF VersionRequest
<1>8. QED
  BY <1>4, <1>5, <1>7, MovesOnly

LEMMA AcquireVersioned ==
    ASSUME ServiceInv, VersionInv, NEW p \in Procs, Acquire(p)
    PROVE  VersionInv'
<1>1. Shape /\ FunctionOfProcs(base) /\ VersionRequest(p)
  BY DEF ServiceInv, VersionInv
<1>2. pc[p] = "lock" /\ UNCHANGED <<task, base, stored, inc, seen>>
  BY DEF Acquire
<1>3. pc'[p] = "load" /\ \A q \in Procs \ {p} : pc'[q] = pc[q]
  BY <1>1, MovedOn DEF Acquire
<1>4. OnlyMoves(p)
  BY <1>1, <1>2, <1>3 DEF OnlyMoves, FunctionOfProcs
<1>5. VersionRequest(p)'
  BY <1>1, <1>2, <1>3 DEF VersionRequest, Guarded
<1>6. QED
  BY <1>2, <1>4, <1>5, MovesOnly

LEMMA LoadMissingVersioned ==
    ASSUME ServiceInv, VersionInv, NEW p \in Procs, LoadMissing(p)
    PROVE  VersionInv'
<1>1. Shape /\ FunctionOfProcs(base)
  BY DEF ServiceInv, VersionInv
<1>2. UNCHANGED <<stored, inc, seen>>
  BY DEF LoadMissing
<1>3. CASE Return(p)
  BY <1>2, <1>3, ReturnsVersioned
<1>4. ASSUME NEW label \in {"create", "reload"}, Goto(p, label), UNCHANGED <<task, base>>,
             label = "create" => task[p].kind = "join"
      PROVE  VersionInv'
  <2>1. pc'[p] = label /\ \A q \in Procs \ {p} : pc'[q] = pc[q]
    BY <1>1, <1>4, MovedOn
  <2>2. OnlyMoves(p)
    BY <1>1, <1>4, <2>1 DEF OnlyMoves, FunctionOfProcs
  <2>3. VersionRequest(p)'
    BY <1>4, <2>1 DEF VersionRequest
  <2>4. QED
    BY <1>2, <2>2, <2>3, MovesOnly
<1>5. QED
  BY <1>3, <1>4 DEF LoadMissing

(* The loaded copy is the stored room. *)
LEMMA LoadsVersioned ==
    ASSUME ServiceInv, VersionInv, NEW p \in Procs, stored # None,
           pc'[p] \in {"save", "publish"}, \A q \in Procs \ {p} : pc'[q] = pc[q],
           base' = [base EXCEPT ![p] = stored],
           \A q \in Procs \ {p} : task'[q] = task[q],
           pc'[p] = "save" /\ Guarded(p)' => task'[p] = task[p] /\ pc[p] = "load",
           UNCHANGED <<stored, inc, seen>>
    PROVE  VersionInv'
<1>1. Shape /\ FunctionOfProcs(base) /\ VersionRequest(p) /\ StoreNumbered(inc, stored)
  BY DEF ServiceInv, VersionInv
<1>2. FunctionOfProcs(base') /\ base'[p] = stored /\ \A q \in Procs \ {p} : base'[q] = base[q]
  BY <1>1, MovedOn
<1>3. OnlyMoves(p)
  BY <1>2 DEF OnlyMoves
<1>4. LoadedFrom(stored, inc, stored)
  BY <1>1 DEF StoreNumbered, LoadedFrom, AtStore
<1>5. ASSUME pc'[p] = "save", Guarded(p)', task'[p].expected # None
      PROVE  task'[p].expected \in seen /\ NotAfter(task'[p].expected, stored)
  <2>1. task'[p] = task[p] /\ Guarded(p) /\ pc[p] = "load"
    BY <1>5 DEF Guarded
  <2>2. task[p].expected \in seen
    BY <1>1, <1>5, <2>1 DEF VersionRequest
  <2>3. AtStore(task[p].expected, inc, stored)
    BY <2>2 DEF VersionInv
  <2>4. NotAfter(task[p].expected, stored)
    BY <1>1, <2>3 DEF AtStore, NotAfter, StoreNumbered
  <2>5. QED
    BY <2>1, <2>2, <2>4
<1>6. VersionRequest(p)'
  BY <1>2, <1>4, <1>5 DEF VersionRequest
<1>7. QED
  BY <1>3, <1>6, MovesOnly

LEMMA LoadStepVersioned ==
    ASSUME ServiceInv, VersionInv, NEW p \in Procs,
           LoadForJoin(p) \/ LoadForRemoval(p) \/ LoadForOperation(p) \/ Reload(p)
    PROVE  VersionInv'
<1>1. Shape /\ FunctionOfProcs(base)
  BY DEF ServiceInv, VersionInv
<1>2. UNCHANGED <<stored, inc, seen>>
  BY DEF LoadForJoin, LoadForRemoval, LoadForOperation, Reload
<1>3. CASE Return(p)
  BY <1>2, <1>3, ReturnsVersioned
<1>4. ASSUME NEW label \in {"save", "publish"}, Goto(p, label), stored # None,
             base' = [base EXCEPT ![p] = stored],
             \/ UNCHANGED task /\ pc[p] = "load"
             \/ UNCHANGED task /\ label = "publish"
             \/ /\ task' = [task EXCEPT ![p] = [task[p] EXCEPT !.kind = "rejoin"]]
                /\ label = "publish"
      PROVE  VersionInv'
  <2>1. pc'[p] = label /\ \A q \in Procs \ {p} : pc'[q] = pc[q]
    BY <1>1, <1>4, MovedOn
  <2>2. \A q \in Procs \ {p} : task'[q] = task[q]
    BY <1>1, <1>4, MovedOn
  <2>3. pc'[p] = "save" /\ Guarded(p)' => task'[p] = task[p] /\ pc[p] = "load"
    BY <1>4, <2>1
  <2>4. QED
    BY <1>2, <1>4, <2>1, <2>2, <2>3, LoadsVersioned
<1>5. CASE LoadForJoin(p)
  BY <1>4, <1>5 DEF LoadForJoin, Load
<1>6. CASE LoadForRemoval(p)
  BY <1>4, <1>6 DEF LoadForRemoval, Load
<1>7. CASE LoadForOperation(p)
  BY <1>3, <1>4, <1>7 DEF LoadForOperation, Load
<1>8. CASE Reload(p)
  BY <1>3, <1>4, <1>8 DEF Reload
<1>9. QED
  BY <1>5, <1>6, <1>7, <1>8

LEMMA CreateVersioned ==
    ASSUME ServiceInv, VersionInv, NEW p \in Procs, Create(p)
    PROVE  VersionInv'
<1>1. Shape /\ FunctionOfProcs(base) /\ VersionRequest(p) /\ StoreNumbered(inc, stored)
  BY DEF ServiceInv, VersionInv
<1>2. UNCHANGED <<task, seen>> /\ task[p].kind = "join"
  BY <1>1 DEF Create, VersionRequest
<1>3. pc'[p] = "save" /\ \A q \in Procs \ {p} : pc'[q] = pc[q]
  BY <1>1, MovedOn DEF Create
<1>4. /\ FunctionOfProcs(base') /\ base'[p] = stored'
      /\ \A q \in Procs \ {p} : base'[q] = base[q]
  BY <1>1, MovedOn DEF Create
<1>5. OnlyMoves(p)
  BY <1>2, <1>3, <1>4 DEF OnlyMoves
<1>6. /\ inc' = inc + 1 /\ inc \in Nat
      /\ stored'.inc = inc' /\ stored'.version = 0
  BY <1>1 DEF Create, Snapshot, StoreNumbered
<1>7. StoreMovesOn
  BY <1>6 DEF StoreMovesOn
<1>8. LoadedFrom(stored', inc', stored')
  BY <1>6 DEF LoadedFrom, AtStore
<1>9. VersionRequest(p)'
  BY <1>2, <1>3, <1>4, <1>8 DEF VersionRequest, Guarded, GuardedKinds
<1>10. QED
  BY <1>2, <1>5, <1>7, <1>9, OneMover DEF VersionInv

LEMMA WriteMovesOn ==
    ASSUME VersionInv, NEW p \in Procs, WriteRoom(p)
    PROVE  StoreMovesOn /\ (~Deletes(p) => LoadedFrom(stored', inc', stored'))
<1>1. StoreNumbered(inc, stored) /\ inc \in Nat
  BY DEF VersionInv, StoreNumbered
<1>2. CASE Deletes(p)
  BY <1>1, <1>2 DEF WriteRoom, StoreMovesOn
<1>3. CASE ~Deletes(p) /\ stored = None
  <2>1. inc' = inc + 1 /\ stored'.inc = inc + 1 /\ stored'.version = 1
    BY <1>3 DEF WriteRoom, Saved, Snapshot
  <2>2. QED
    BY <1>1, <2>1 DEF StoreMovesOn, LoadedFrom, AtStore
<1>4. CASE ~Deletes(p) /\ stored # None
  <2>1. inc' = inc /\ stored'.inc = inc /\ stored'.version = stored.version + 1
    BY <1>4 DEF WriteRoom, Saved, Snapshot
  <2>2. stored.version \in Nat
    BY <1>1, <1>4 DEF StoreNumbered
  <2>3. QED
    BY <1>1, <1>4, <2>1, <2>2 DEF StoreMovesOn, LoadedFrom, AtStore
<1>5. QED
  BY <1>2, <1>3, <1>4

LEMMA SaveVersioned ==
    ASSUME ServiceInv, VersionInv, NEW p \in Procs, Save(p)
    PROVE  VersionInv'
<1>1. Shape /\ FunctionOfProcs(base)
  BY DEF ServiceInv, VersionInv
<1>2. StoreMovesOn /\ seen' = seen
  BY WriteMovesOn DEF Save
<1>3. CASE Return(p)
  <2>1. OnlyMoves(p) /\ VersionRequest(p)'
    BY <1>1, <1>3, Returned
  <2>2. QED
    BY <1>2, <2>1, OneMover
<1>4. CASE Goto(p, "reload") /\ UNCHANGED <<task, base>>
  <2>1. pc'[p] = "reload" /\ \A q \in Procs \ {p} : pc'[q] = pc[q]
    BY <1>1, <1>4, MovedOn
  <2>2. OnlyMoves(p)
    BY <1>1, <1>4, <2>1 DEF OnlyMoves, FunctionOfProcs
  <2>3. VersionRequest(p)'
    BY <2>1 DEF VersionRequest
  <2>4. QED
    BY <1>2, <2>2, <2>3, OneMover
<1>5. ASSUME Goto(p, "publish"), base' = [base EXCEPT ![p] = stored'], UNCHANGED task,
             task[p].kind \notin {"leave", "rollback"}
      PROVE  VersionInv'
  <2>1. pc'[p] = "publish" /\ \A q \in Procs \ {p} : pc'[q] = pc[q]
    BY <1>1, <1>5, MovedOn
  <2>2. /\ FunctionOfProcs(base') /\ base'[p] = stored'
        /\ \A q \in Procs \ {p} : base'[q] = base[q]
    BY <1>1, <1>5, MovedOn
  <2>3. OnlyMoves(p)
    BY <1>5, <2>1, <2>2 DEF OnlyMoves
  <2>4. ~Deletes(p) /\ WriteRoom(p)
    BY <1>5 DEF Deletes, Removes, Save
  <2>5. LoadedFrom(stored', inc', stored')
    BY <2>4, WriteMovesOn
  <2>6. VersionRequest(p)'
    BY <2>1, <2>2, <2>5 DEF VersionRequest
  <2>7. QED
    BY <1>2, <2>3, <2>6, OneMover
<1>6. QED
  BY <1>3, <1>4, <1>5 DEF Save, Continue

(* A join whose save has failed keeps its copy. *)
LEMMA SaveFailsVersioned ==
    ASSUME ServiceInv, VersionInv, NEW p \in Procs, SaveFails(p)
    PROVE  VersionInv'
<1>1. Shape /\ FunctionOfProcs(base) /\ VersionRequest(p) /\ pc[p] = "save"
  BY DEF ServiceInv, VersionInv, SaveFails
<1>2. StoreMovesOn /\ seen' = seen
  <2>1. UNCHANGED <<stored, inc>> \/ WriteRoom(p)
    BY DEF SaveFails
  <2>2. QED
    BY <2>1, StoreStays, WriteMovesOn DEF SaveFails
<1>3. CASE Return(p)
  <2>1. OnlyMoves(p) /\ VersionRequest(p)'
    BY <1>1, <1>3, Returned
  <2>2. QED
    BY <1>2, <2>1, OneMover
<1>4. ASSUME NEW label \in {"reload", "publish"}, Goto(p, label), UNCHANGED <<task, base>>
      PROVE  VersionInv'
  <2>1. pc'[p] = label /\ \A q \in Procs \ {p} : pc'[q] = pc[q]
    BY <1>1, <1>4, MovedOn
  <2>2. OnlyMoves(p)
    BY <1>1, <1>4, <2>1 DEF OnlyMoves, FunctionOfProcs
  <2>3. LoadedFrom(base[p], inc', stored')
    BY <1>1, <1>2, NoNewer DEF VersionRequest, VersionInv
  <2>4. VersionRequest(p)'
    BY <1>4, <2>1, <2>3 DEF VersionRequest
  <2>5. QED
    BY <1>2, <2>2, <2>4, OneMover
<1>5. CASE task[p].kind = "join"
  BY <1>4, <1>5 DEF SaveFails
<1>6. CASE task[p].kind # "join" /\ Deletes(p)
  <2>1. task[p].kind \in {"leave", "rollback"} /\ Continue(p)
    BY <1>6 DEF SaveFails, Deletes, Removes
  <2>2. QED
    BY <1>3, <1>4, <2>1 DEF Continue
<1>7. CASE task[p].kind # "join" /\ ~Deletes(p)
  BY <1>3, <1>7 DEF SaveFails
<1>8. QED
  BY <1>5, <1>6, <1>7

(* What a request publishes, it has loaded or saved. *)
LEMMA PublishVersioned ==
    ASSUME ServiceInv, VersionInv, NEW p \in Procs, Publish(p) \/ PublishFails(p)
    PROVE  VersionInv'
<1>1. Shape /\ FunctionOfProcs(base) /\ VersionRequest(p) /\ pc[p] = "publish"
  BY DEF ServiceInv, VersionInv, Publish, PublishFails
<1>2. UNCHANGED <<stored, inc>> /\ StoreMovesOn
  BY StoreStays DEF Publish, PublishFails
<1>3. seen \subseteq seen' /\ \A s \in seen' : s \in seen \/ AtStore(s, inc, stored)
  <2>1. seen' = seen \/ seen' = seen \cup {Stamp(base[p])}
    BY DEF Publish, PublishFails, publish
  <2>2. AtStore(base[p], inc, stored)
    BY <1>1 DEF VersionRequest, LoadedFrom
  <2>3. AtStore(Stamp(base[p]), inc, stored)
    BY <2>2 DEF AtStore, Stamp
  <2>4. QED
    BY <2>1, <2>3
<1>4. CASE Return(p)
  <2>1. OnlyMoves(p) /\ VersionRequest(p)'
    BY <1>1, <1>4, Returned
  <2>2. QED
    BY <1>2, <1>3, <2>1, OneMover
<1>5. ASSUME task[p].kind = "join", Goto(p, "load"), UNCHANGED base,
             task' = [task EXCEPT ![p] = [task[p] EXCEPT !.kind = "rollback"]]
      PROVE  VersionInv'
  <2>1. pc'[p] = "load" /\ \A q \in Procs \ {p} : pc'[q] = pc[q]
    BY <1>1, <1>5, MovedOn
  <2>2. /\ task'[p] = [task[p] EXCEPT !.kind = "rollback"]
        /\ \A q \in Procs \ {p} : task'[q] = task[q]
    BY <1>1, <1>5, MovedOn
  <2>3. OnlyMoves(p)
    BY <1>1, <1>5, <2>1, <2>2 DEF OnlyMoves, FunctionOfProcs
  <2>4. ~Guarded(p)'
    BY <1>5, <2>2 DEF Guarded, GuardedKinds
  <2>5. VersionRequest(p)'
    BY <2>1, <2>4 DEF VersionRequest
  <2>6. QED
    BY <1>2, <1>3, <2>3, <2>5, OneMover
<1>6. QED
  BY <1>4, <1>5 DEF Publish, PublishFails

LEMMA LockOnlyVersioned ==
    ASSUME VersionInv, UNCHANGED <<stored, inc, seen, pc, task, base>>
    PROVE  VersionInv'
<1>1. \A p \in Procs : VersionRequest(p)'
  BY DEF VersionInv, VersionRequest, Guarded
<1>2. QED
  BY <1>1 DEF VersionInv, FunctionOfProcs

LEMMA VersionStepOK ==
    ASSUME ServiceInv, VersionInv, [Next]_vars
    PROVE  VersionInv'
<1>1. ASSUME NEW p \in Procs, NEW command \in Commands, NEW expected \in seen \cup {None},
             Begin(p, command, expected)
      PROVE  VersionInv'
  BY <1>1, BeginVersioned
<1>2. ASSUME NEW p \in Procs, Step(p) PROVE VersionInv'
  <2>1. CASE GiveUp(p) \/ SaveStale(p) \/ Release(p)
    BY <2>1, ReturnsVersioned DEF GiveUp, SaveStale, Release
  <2>2. CASE Acquire(p) \/ LoadMissing(p)
    BY <2>2, AcquireVersioned, LoadMissingVersioned
  <2>3. CASE LoadForJoin(p) \/ LoadForRemoval(p) \/ LoadForOperation(p) \/ Reload(p)
    BY <2>3, LoadStepVersioned
  <2>4. CASE Create(p) \/ Save(p) \/ Publish(p)
    BY <2>4, CreateVersioned, SaveVersioned, PublishVersioned
  <2>5. QED
    BY <1>2, <2>1, <2>2, <2>3, <2>4 DEF Step
<1>3. ASSUME NEW p \in Procs, Failure(p) PROVE VersionInv'
  <2>1. CASE CallFails(p) \/ Crash(p)
    BY <2>1, ReturnsVersioned DEF CallFails, Crash
  <2>2. CASE SaveFails(p) \/ PublishFails(p)
    BY <2>2, SaveFailsVersioned, PublishVersioned
  <2>3. QED
    BY <1>3, <2>1, <2>2 DEF Failure
<1>4. CASE Expire \/ ExpireEarly \/ UNCHANGED vars
  BY <1>4, LockOnlyVersioned DEF Expire, ExpireEarly, vars, request
<1>5. QED
  BY <1>1, <1>2, <1>3, <1>4 DEF Next

LEMMA VersionInitOK == Init => VersionInv
<1> SUFFICES ASSUME Init PROVE VersionInv
  OBVIOUS
<1>1. StoreNumbered(inc, stored)
  BY DEF Init, Snapshot, StoreNumbered
<1>2. \A p \in Procs : pc[p] = "idle"
  BY DEF Init
<1>3. FunctionOfProcs(base) /\ seen = {}
  BY DEF Init, FunctionOfProcs
<1>4. QED
  BY <1>1, <1>2, <1>3 DEF VersionInv, VersionRequest

(* An expected version that lies between what was loaded and what is       *)
(* stored leaves no room between the two.                                  *)
LEMMA NothingBetween ==
    ASSUME NEW e, NEW b, NEW i, NEW st, StoreNumbered(i, st), LoadedFrom(b, i, st),
           AtStore(e, i, st), NotAfter(e, b), e.inc = i,
           st # None, st.version = e.version
    PROVE  b = st
<1>1. b.inc = i
  BY DEF LoadedFrom, AtStore, NotAfter
<1>2. b.version = st.version
  <2>1. b.version \in Nat /\ e.version \in Nat /\ b.version <= st.version /\ e.version <= b.version
    BY <1>1 DEF LoadedFrom, AtStore, NotAfter
  <2>2. QED
    BY <2>1
<1>3. QED
  BY <1>1, <1>2 DEF LoadedFrom

\* A step that changes the stored room and where p is, is a save of p.
LEMMA WriterSaves ==
    ASSUME ServiceInv, VersionInv, [Next]_vars, NEW p \in Procs, Writes(p), Guarded(p)
    PROVE  pc[p] = "save" /\ versionMatches(task[p].expected)
<1>1. pc[p] = "save"
  BY DEF Writes, VersionInv, VersionRequest, Guarded, GuardedKinds
<1>2. pc'[p] # pc[p] /\ stored' # stored
  BY DEF Writes
<1>3. ~Expire /\ ~ExpireEarly /\ ~UNCHANGED vars
  BY <1>2 DEF Expire, ExpireEarly, vars
<1>4. PICK q \in Procs :
         \/ \E command \in Commands, expected \in seen \cup {None} : Begin(q, command, expected)
         \/ Step(q)
         \/ Failure(q)
  BY <1>3 DEF Next
<1>5. Create(q) \/ Save(q) \/ SaveFails(q)
  BY <1>2, <1>4 DEF Begin, Step, Failure, Acquire, GiveUp, LoadMissing, LoadForJoin,
     LoadForRemoval, LoadForOperation, SaveStale, Reload, Publish, Release,
     CallFails, PublishFails, Crash
<1>6. q = p
  <2>1. \E label : Goto(q, label)
    BY <1>5 DEF Create, Save, SaveFails, Continue, Return, End, Stop
  <2>2. QED
    BY <1>2, <2>1, MovedOn DEF ServiceInv, VersionInv
<1>7. QED
  BY <1>1, <1>2, <1>5, <1>6 DEF Create, Save, SaveFails

LEMMA GuardedStepOK ==
    ASSUME ServiceInv, VersionInv, [Next]_vars, NEW p \in Procs,
           Writes(p), Guarded(p), task[p].expected.inc = inc
    PROVE  base[p] = stored
<1> DEFINE e == task[p].expected
<1>1. pc[p] = "save" /\ e # None /\ stored # None /\ stored.version = e.version
  BY WriterSaves DEF versionMatches
<1>2. LoadedFrom(base[p], inc, stored) /\ e \in seen /\ NotAfter(e, base[p])
  BY <1>1 DEF VersionInv, VersionRequest
<1>3. StoreNumbered(inc, stored) /\ AtStore(e, inc, stored)
  BY <1>2 DEF VersionInv
<1>4. QED
  BY <1>1, <1>2, <1>3, NothingBetween

(* Guarded commands lose no update, not even to update-name, which takes   *)
(* no lock, or to a request that outlives its lock: SaveRoomIfVersion is   *)
(* what they rely on, for any number of requests, failures and expiries.   *)
THEOREM GuardedNeverLoseUpdates == Spec => GuardedSavesSeeLatest
<1>1. Init => ServiceInv /\ VersionInv
  BY ServiceInitOK, VersionInitOK
<1>2. ServiceInv /\ VersionInv /\ [Next]_vars => (ServiceInv /\ VersionInv)'
  BY ServiceStepOK, VersionStepOK
<1>3. ServiceInv /\ VersionInv /\ [Next]_vars
      => [\A p \in Procs :
             Writes(p) /\ Guarded(p) /\ task[p].expected.inc = inc
             => base[p] = stored]_vars
  BY GuardedStepOK
<1>4. QED
  BY <1>1, <1>2, <1>3, PTL DEF Spec, GuardedSavesSeeLatest

-----------------------------------------------------------------------------
(***************************************************************************)
(* The use cases that lock implement AtomicRoom and lose no update, for    *)
(* every number of requests, failed calls and crashes: the room in Redis   *)
(* changes by one whole operation at a time.                               *)
(*                                                                         *)
(* The argument is the lock's.  A request that is past acquiring it owns   *)
(* it, because Redis drops the key only when its holder is done; so        *)
(* nobody else writes between a request's load and its save, and the room  *)
(* it overwrites is the one it computed its copy from.                     *)
(***************************************************************************)

\* What service with update-name or with outlived locks does not have.
OnlyLocking ==
    /\ ~HoldersMayStall
    /\ \A command \in Commands : command.kind # "update-name"

InLock(p) == pc[p] \notin {"idle", "lock"}

\* The task of a request is a command, or what a join may turn into.
IsCommand(t) ==
    \/ t.kind \in {"rejoin", "rollback"}
    \/ \E command \in Commands :
          /\ command.kind = t.kind
          /\ command.sender = t.sender
          /\ command.arg = t.arg

\* What a request computed from the room it has loaded.
Computed(t, r, s) ==
    \/ t.kind = "join" /\ ~FindClient(r, t.sender) /\ s = NewClient(r, t.sender)
    \/ t.kind \in {"leave", "rollback"} /\ s = RemoveClient(r, t.sender)
    \/ /\ t.kind \notin {"join", "leave", "rejoin", "rollback"}
       /\ OperationError(t, r) = OK
       /\ s = Operation(t, r)

\* The copy of a request that is about to save.
CopyIsCurrent(p) ==
    /\ stored # None
    /\ base[p] = stored
    /\ Computed(task[p], stored.room, work[p])

\* A request that has not loaded the room yet; a rollback loads it again.
Unloaded(p) ==
    \/ pc[p] \in {"idle", "lock", "create"}
    \/ pc[p] = "load" /\ task[p].kind # "rollback"

LockedRequest(p) ==
    /\ pc[p] # "idle" => IsCommand(task[p])
    /\ InLock(p) => lock = p
    /\ Unloaded(p) => base[p] = None
    /\ pc[p] = "create" => stored = None /\ task[p].kind = "join"
    /\ pc[p] = "save" => CopyIsCurrent(p)

StoredOK ==
    /\ inc \in Nat
    /\ stored = None \/ stored \in [inc : Nat, version : Nat, room : Rooms]

LockedInv ==
    /\ ServiceInv
    /\ FunctionOfProcs(base)
    /\ StoredOK
    /\ \A p \in Procs : LockedRequest(p)

-----------------------------------------------------------------------------
(* What a step of one request does to the others: nothing, because either  *)
(* it holds the lock and they do not, or it leaves the room alone.         *)

Alone(p) ==
    /\ FunctionOfProcs(base')
    /\ \A q \in Procs \ {p} : /\ pc'[q] = pc[q] /\ task'[q] = task[q]
                              /\ base'[q] = base[q] /\ work'[q] = work[q]

LEMMA OneLockedRequest ==
    ASSUME LockedInv, ServiceInv', StoredOK', NEW p \in Procs, Alone(p),
           LockedRequest(p)',
           \/ InLock(p)
           \/ stored' = stored /\ (lock' = lock \/ lock = None)
    PROVE  LockedInv'
<1>1. ASSUME NEW q \in Procs \ {p} PROVE LockedRequest(q)'
  <2>1. /\ pc'[q] = pc[q] /\ task'[q] = task[q]
        /\ base'[q] = base[q] /\ work'[q] = work[q]
    BY DEF Alone
  <2>2. LockedRequest(q) /\ LockedRequest(p)
    BY DEF LockedInv
  <2>3. CASE InLock(q)
    <3>1. lock = q /\ lock # p /\ lock # None
      BY <2>2, <2>3, ServiceAssumption DEF LockedRequest
    <3>2. stored' = stored /\ lock' = lock
      BY <2>2, <3>1 DEF LockedRequest
    <3>3. QED
      BY <2>1, <2>2, <3>2 DEF LockedRequest, Unloaded, InLock, CopyIsCurrent
  <2>4. CASE ~InLock(q)
    BY <2>1, <2>2, <2>4 DEF LockedRequest, Unloaded, InLock
  <2>5. QED
    BY <2>3, <2>4
<1>2. QED
  BY <1>1 DEF LockedInv, Alone

LEMMA Functions ==
    ASSUME LockedInv
    PROVE  /\ FunctionOfProcs(pc) /\ FunctionOfProcs(task)
           /\ FunctionOfProcs(base) /\ FunctionOfProcs(work)
BY DEF LockedInv, ServiceInv, Shape

(* One request moves on: what its variables are then. *)
LEMMA MoveFacts ==
    ASSUME LockedInv, NEW p \in Procs
    PROVE  /\ \A label : Goto(p, label) =>
                 /\ pc'[p] = label
                 /\ \A q \in Procs \ {p} : pc'[q] = pc[q]
           /\ \A t : task' = [task EXCEPT ![p] = t] =>
                 /\ task'[p] = t
                 /\ \A q \in Procs \ {p} : task'[q] = task[q]
           /\ \A b : base' = [base EXCEPT ![p] = b] =>
                 /\ FunctionOfProcs(base')
                 /\ base'[p] = b
                 /\ \A q \in Procs \ {p} : base'[q] = base[q]
           /\ \A r : work' = [work EXCEPT ![p] = r] =>
                 /\ work'[p] = r
                 /\ \A q \in Procs \ {p} : work'[q] = work[q]
BY Functions DEF Goto, FunctionOfProcs

Quiet == {"reload", "publish", "release"}

(* A request that ends, is left with its release, or goes on without       *)
(* anything to save.                                                       *)
LEMMA QuietFacts ==
    ASSUME LockedInv, NEW p \in Procs,
           \/ End(p)
           \/ Return(p)
           \/ /\ \E label \in Quiet : Goto(p, label)
              /\ base' = base \/ \E b : base' = [base EXCEPT ![p] = b]
              /\ UNCHANGED <<task, work>>
    PROVE  /\ Alone(p)
           /\ \/ pc'[p] = "idle" /\ base'[p] = None
              \/ pc'[p] \in Quiet /\ task'[p] = task[p]
<1>0. FunctionOfProcs(base)
  BY DEF LockedInv
<1>1. ASSUME NEW label, Stop(p, label)
      PROVE  /\ FunctionOfProcs(base') /\ pc'[p] = label /\ base'[p] = None
             /\ \A q \in Procs \ {p} : pc'[q] = pc[q] /\ base'[q] = base[q]
                                       /\ work'[q] = work[q]
  BY <1>1, Functions DEF Stop, Goto, FunctionOfProcs
<1>2. CASE End(p)
  <2>1. \A q \in Procs \ {p} : task'[q] = task[q]
    BY <1>2, MoveFacts DEF End
  <2>2. QED
    BY <1>1, <1>2, <2>1 DEF End, Alone
<1>3. CASE Return(p) /\ ~End(p)
  <2>1. Stop(p, "release") /\ UNCHANGED task
    BY <1>3 DEF Return
  <2>2. QED
    BY <1>1, <2>1 DEF Alone, Quiet
<1>4. CASE ~End(p) /\ ~Return(p)
  <2>1. PICK label \in Quiet : Goto(p, label)
    BY <1>4
  <2>2. pc'[p] = label /\ \A q \in Procs \ {p} : pc'[q] = pc[q]
    BY <2>1, MoveFacts
  <2>3. /\ FunctionOfProcs(base')
        /\ \A q \in Procs \ {p} : base'[q] = base[q]
    BY <1>0, <1>4, MoveFacts
  <2>4. QED
    BY <1>4, <2>2, <2>3 DEF Alone
<1>5. QED
  BY <1>2, <1>3, <1>4

(* Such a step keeps the invariant when the request holds the lock.        *)
LEMMA QuietOK ==
    ASSUME LockedInv, ServiceInv', StoredOK', NEW p \in Procs, InLock(p), Alone(p),
           \/ pc'[p] = "idle" /\ base'[p] = None
           \/ lock' = lock /\ pc'[p] \in Quiet /\ task'[p] = task[p]
    PROVE  LockedInv'
<1>1. LockedRequest(p)
  BY DEF LockedInv
<1>2. LockedRequest(p)'
  BY <1>1 DEF LockedRequest, Unloaded, InLock, Quiet
<1>3. QED
  BY <1>2, OneLockedRequest

-----------------------------------------------------------------------------
(* One lemma for each group of actions; stored and inc keep their types.   *)

LEMMA BeginLocked ==
    ASSUME OnlyLocking, LockedInv, ServiceInv', StoredOK',
           NEW p \in Procs, NEW command \in Commands, NEW expected,
           Begin(p, command, expected)
    PROVE  LockedInv'
<1> DEFINE t == [kind |-> command.kind, sender |-> command.sender,
                 arg |-> command.arg, expected |-> expected]
<1>1. IsCommand(t)
  BY DEF IsCommand
<1>2. /\ task' = [task EXCEPT ![p] = t] /\ Goto(p, "lock")
      /\ UNCHANGED <<stored, lock, base, work>>
  BY DEF Begin, OnlyLocking
<1> HIDE DEF t
<1>0. base[p] = None
  BY DEF Begin, Idle, LockedInv, LockedRequest, Unloaded
<1>3. /\ task'[p] = t /\ pc'[p] = "lock"
      /\ \A q \in Procs \ {p} : task'[q] = task[q] /\ pc'[q] = pc[q]
  BY <1>2, MoveFacts
<1>4. LockedRequest(p)'
  BY <1>0, <1>1, <1>2, <1>3 DEF LockedRequest, Unloaded, InLock
<1>5. Alone(p)
  BY <1>2, <1>3 DEF Alone, LockedInv, FunctionOfProcs
<1>6. QED
  BY <1>2, <1>4, <1>5, OneLockedRequest

LEMMA LockLocked ==
    ASSUME LockedInv, ServiceInv', StoredOK', NEW p \in Procs,
           Acquire(p) \/ GiveUp(p) \/ Release(p)
    PROVE  LockedInv'
<1>1. LockedRequest(p)
  BY DEF LockedInv
<1>2. CASE Acquire(p)
  <2>1. /\ pc[p] = "lock" /\ lock = None /\ lock' = p /\ Goto(p, "load")
        /\ UNCHANGED <<stored, task, base, work>>
    BY <1>2 DEF Acquire
  <2>2. pc'[p] = "load" /\ \A q \in Procs \ {p} : pc'[q] = pc[q]
    BY <2>1, MoveFacts
  <2>3. LockedRequest(p)'
    BY <1>1, <2>1, <2>2 DEF LockedRequest, Unloaded, InLock
  <2>4. Alone(p)
    BY <2>1, <2>2 DEF Alone, LockedInv, FunctionOfProcs
  <2>5. QED
    BY <2>1, <2>3, <2>4, OneLockedRequest
<1>3. CASE GiveUp(p)
  <2>1. End(p) /\ UNCHANGED <<stored, lock>>
    BY <1>3 DEF GiveUp
  <2>2. Alone(p) /\ pc'[p] = "idle" /\ base'[p] = None
    BY <2>1, MoveFacts, QuietFacts DEF End, Stop
  <2>3. LockedRequest(p)'
    BY <2>2 DEF LockedRequest, Unloaded, InLock
  <2>4. QED
    BY <2>1, <2>2, <2>3, OneLockedRequest
<1>4. CASE Release(p)
  <2>1. End(p) /\ InLock(p)
    BY <1>4 DEF Release, InLock
  <2>2. Alone(p) /\ pc'[p] = "idle" /\ base'[p] = None
    BY <2>1, MoveFacts, QuietFacts DEF End, Stop
  <2>3. QED
    BY <2>1, <2>2, QuietOK
<1>5. QED
  BY <1>2, <1>3, <1>4

(* A request that has loaded the room and has something to save.           *)
LEMMA LoadedOK ==
    ASSUME LockedInv, ServiceInv', StoredOK', NEW p \in Procs, InLock(p),
           stored # None, NEW r, Load(p, "save", r),
           UNCHANGED <<stored, lock, task>>,
           Computed(task[p], stored.room, r)
    PROVE  LockedInv'
<1>1. Goto(p, "save") /\ base' = [base EXCEPT ![p] = stored]
      /\ work' = [work EXCEPT ![p] = r]
  BY DEF Load
<1>2. /\ pc'[p] = "save" /\ base'[p] = stored /\ work'[p] = r
      /\ FunctionOfProcs(base')
      /\ \A q \in Procs \ {p} : pc'[q] = pc[q] /\ base'[q] = base[q]
                                /\ work'[q] = work[q]
  BY <1>1, Functions DEF Goto, FunctionOfProcs
<1>3. Alone(p)
  BY <1>2 DEF Alone
<1>4. LockedRequest(p)
  BY DEF LockedInv
<1>5. CopyIsCurrent(p)'
  BY <1>2 DEF CopyIsCurrent
<1>6. LockedRequest(p)'
  BY <1>2, <1>4, <1>5 DEF LockedRequest, Unloaded, InLock
<1>7. QED
  BY <1>3, <1>6, OneLockedRequest

LEMMA LoadLocked ==
    ASSUME LockedInv, ServiceInv', StoredOK', NEW p \in Procs,
           LoadMissing(p) \/ LoadForJoin(p) \/ LoadForRemoval(p) \/ LoadForOperation(p)
    PROVE  LockedInv'
<1>1. LockedRequest(p) /\ RequestOK(p)
  BY DEF LockedInv, ServiceInv
<1>2. pc[p] = "load" /\ InLock(p) /\ UNCHANGED <<stored, lock>>
  BY DEF LoadMissing, LoadForJoin, LoadForRemoval, LoadForOperation, InLock
<1>3. CASE LoadMissing(p)
  <2>1. CASE task[p].kind = "join"
    <3>1. Goto(p, "create") /\ UNCHANGED <<task, base, work>> /\ stored = None
      BY <1>3, <2>1 DEF LoadMissing
    <3>2. pc'[p] = "create" /\ \A q \in Procs \ {p} : pc'[q] = pc[q]
      BY <3>1, MoveFacts
    <3>3. LockedRequest(p)'
      BY <1>1, <1>2, <2>1, <3>1, <3>2 DEF LockedRequest, Unloaded, InLock
    <3>4. Alone(p)
      BY <3>1, <3>2 DEF Alone, LockedInv, FunctionOfProcs
    <3>5. QED
      BY <1>2, <3>3, <3>4, OneLockedRequest
  <2>2. CASE task[p].kind # "join"
    <3>1. \/ Goto(p, "reload") /\ UNCHANGED <<task, base, work>>
          \/ Return(p)
      BY <1>3, <2>2 DEF LoadMissing
    <3>2. QED
      BY <1>2, <3>1, QuietFacts, QuietOK DEF Quiet
  <2>3. QED
    BY <2>1, <2>2
<1>4. CASE LoadForJoin(p) /\ FindClient(stored.room, task[p].sender)
  <2>1. /\ Goto(p, "publish") /\ base' = [base EXCEPT ![p] = stored]
        /\ work' = [work EXCEPT ![p] = stored.room]
        /\ task' = [task EXCEPT ![p].kind = "rejoin"]
    BY <1>4 DEF LoadForJoin, Load
  <2>2. task' = [task EXCEPT ![p] = [task[p] EXCEPT !.kind = "rejoin"]]
    BY <2>1
  <2>3. /\ pc'[p] = "publish" /\ FunctionOfProcs(base')
        /\ \A q \in Procs \ {p} : /\ pc'[q] = pc[q] /\ base'[q] = base[q]
                                  /\ work'[q] = work[q]
    BY <2>1, Functions DEF Goto, FunctionOfProcs
  <2>4. /\ task'[p] = [task[p] EXCEPT !.kind = "rejoin"]
        /\ \A q \in Procs \ {p} : task'[q] = task[q]
    BY <2>2, Functions DEF Goto, FunctionOfProcs
  <2>5. IsCommand(task[p])'
    <3>1. IsCommand(task[p])
      BY <1>1, <1>2 DEF LockedRequest
    <3>2. QED
      BY <2>4, <3>1 DEF IsCommand
  <2>6. LockedRequest(p)'
    BY <1>1, <1>2, <2>3, <2>5 DEF LockedRequest, Unloaded, InLock
  <2>7. Alone(p)
    BY <2>3, <2>4 DEF Alone
  <2>8. QED
    BY <1>2, <2>6, <2>7, OneLockedRequest
<1>5. CASE LoadForJoin(p) /\ ~FindClient(stored.room, task[p].sender)
  <2>1. /\ Load(p, "save", NewClient(stored.room, task[p].sender))
        /\ UNCHANGED task /\ stored # None
        /\ task[p].kind = "join"
    BY <1>5 DEF LoadForJoin
  <2>2. Computed(task[p], stored.room, NewClient(stored.room, task[p].sender))
    BY <1>5, <2>1 DEF Computed
  <2>3. QED
    BY <1>2, <2>1, <2>2, LoadedOK
<1>6. CASE LoadForRemoval(p)
  <2>1. /\ Load(p, "save", RemoveClient(stored.room, task[p].sender))
        /\ UNCHANGED task /\ stored # None
        /\ task[p].kind \in {"leave", "rollback"}
    BY <1>6 DEF LoadForRemoval, Removes
  <2>2. Computed(task[p], stored.room, RemoveClient(stored.room, task[p].sender))
    BY <2>1 DEF Computed
  <2>3. QED
    BY <1>2, <2>1, <2>2, LoadedOK
<1>7. CASE LoadForOperation(p)
  <2>1. CASE OperationError(task[p], stored.room) = OK
    <3>1. /\ Load(p, "save", Operation(task[p], stored.room))
          /\ UNCHANGED task /\ stored # None
      BY <1>7, <2>1 DEF LoadForOperation
    <3>2. task[p].kind \notin {"join", "leave", "rejoin", "rollback"}
      BY <1>1, <1>2, <1>7 DEF LoadForOperation, Removes, RequestOK
    <3>3. Computed(task[p], stored.room, Operation(task[p], stored.room))
      BY <2>1, <3>2 DEF Computed
    <3>4. QED
      BY <1>2, <3>1, <3>3, LoadedOK
  <2>2. CASE OperationError(task[p], stored.room) # OK
    <3>1. Return(p)
      BY <1>7, <2>2 DEF LoadForOperation
    <3>2. QED
      BY <1>2, <3>1, QuietFacts, QuietOK
  <2>3. QED
    BY <2>1, <2>2
<1>8. QED
  BY <1>3, <1>4, <1>5, <1>6, <1>7

LEMMA CreateLocked ==
    ASSUME LockedInv, ServiceInv', StoredOK', NEW p \in Procs, Create(p), stored' # None
    PROVE  LockedInv'
<1> DEFINE joining == NewClient(NewRoom, task[p].sender)
<1>1. LockedRequest(p) /\ pc[p] = "create" /\ InLock(p)
  BY DEF LockedInv, Create, InLock
<1>2. /\ stored'.room = NewRoom /\ base' = [base EXCEPT ![p] = stored']
      /\ work' = [work EXCEPT ![p] = joining] /\ Goto(p, "save")
      /\ UNCHANGED <<lock, task>>
  BY DEF Create, Snapshot
<1>3. task[p].kind = "join"
  BY <1>1 DEF LockedRequest
<1>4. Computed(task[p], NewRoom, joining)
  BY <1>3 DEF Computed, FindClient, Present, NewRoom, Range
<1> HIDE DEF joining
<1>5. /\ pc'[p] = "save" /\ base'[p] = stored' /\ work'[p] = joining
      /\ FunctionOfProcs(base')
      /\ \A q \in Procs \ {p} : pc'[q] = pc[q] /\ base'[q] = base[q]
                                /\ work'[q] = work[q]
  BY <1>2, Functions DEF Goto, FunctionOfProcs
<1>6. CopyIsCurrent(p)'
  BY <1>2, <1>4, <1>5 DEF CopyIsCurrent
<1>7. LockedRequest(p)'
  BY <1>1, <1>2, <1>5, <1>6 DEF LockedRequest, Unloaded, InLock
<1>8. Alone(p)
  BY <1>2, <1>5 DEF Alone
<1>9. QED
  BY <1>1, <1>7, <1>8, OneLockedRequest

LEMMA SaveLocked ==
    ASSUME LockedInv, ServiceInv', StoredOK', NEW p \in Procs,
           Save(p) \/ SaveStale(p) \/ SaveFails(p)
    PROVE  LockedInv'
<1>1. InLock(p) /\ lock' = lock
  BY DEF Save, SaveStale, SaveFails, InLock
<1>2. \/ Continue(p)
      \/ Return(p)
      \/ Goto(p, "publish") /\ UNCHANGED <<task, base, work>>
  BY DEF Save, SaveStale, SaveFails
<1>3. Continue(p) =>
        \/ Return(p)
        \/ /\ \E label \in Quiet : Goto(p, label)
           /\ base' = base \/ \E b : base' = [base EXCEPT ![p] = b]
           /\ UNCHANGED <<task, work>>
  BY DEF Continue, Quiet
<1>4. Goto(p, "publish") => \E label \in Quiet : Goto(p, label)
  BY DEF Quiet
<1>5. QED
  BY <1>1, <1>2, <1>3, <1>4, QuietFacts, QuietOK

LEMMA ReturnLocked ==
    ASSUME LockedInv, ServiceInv', StoredOK', NEW p \in Procs,
           Reload(p) \/ Publish(p) \/ CallFails(p)
    PROVE  LockedInv'
<1>1. InLock(p) /\ lock' = lock
  BY DEF Reload, Publish, CallFails, InLock
<1>2. \/ Return(p)
      \/ /\ Goto(p, "publish")
         /\ base' = [base EXCEPT ![p] = stored]
         /\ UNCHANGED <<task, work>>
  BY DEF Reload, Publish, CallFails
<1>3. Goto(p, "publish") => \E label \in Quiet : Goto(p, label)
  BY DEF Quiet
<1>4. QED
  BY <1>1, <1>2, <1>3, QuietFacts, QuietOK

LEMMA CrashLocked ==
    ASSUME LockedInv, ServiceInv', StoredOK', NEW p \in Procs, Crash(p)
    PROVE  LockedInv'
<1>1. End(p) /\ UNCHANGED <<stored, lock>>
  BY DEF Crash
<1>2. Alone(p) /\ pc'[p] = "idle" /\ base'[p] = None
  BY <1>1, MoveFacts, QuietFacts DEF End, Stop
<1>3. LockedRequest(p)'
  BY <1>2 DEF LockedRequest, Unloaded, InLock
<1>4. QED
  BY <1>1, <1>2, <1>3, OneLockedRequest

LEMMA PublishFailsLocked ==
    ASSUME LockedInv, ServiceInv', StoredOK', NEW p \in Procs, PublishFails(p)
    PROVE  LockedInv'
<1>1. LockedRequest(p) /\ InLock(p) /\ pc[p] = "publish" /\ UNCHANGED <<stored, lock>>
  BY DEF LockedInv, PublishFails, InLock
<1>2. CASE task[p].kind = "join"
  <2>1. /\ task' = [task EXCEPT ![p].kind = "rollback"]
        /\ Goto(p, "load") /\ UNCHANGED <<base, work>>
    BY <1>2 DEF PublishFails
  <2>2. task' = [task EXCEPT ![p] = [task[p] EXCEPT !.kind = "rollback"]]
    BY <2>1
  <2>3. pc'[p] = "load" /\ \A q \in Procs \ {p} : pc'[q] = pc[q]
    BY <2>1, MoveFacts
  <2>4. /\ task'[p] = [task[p] EXCEPT !.kind = "rollback"]
        /\ \A q \in Procs \ {p} : task'[q] = task[q]
    BY <2>2, Functions DEF Goto, FunctionOfProcs
  <2>5. IsCommand(task[p])'
    <3>1. IsCommand(task[p])
      BY <1>1 DEF LockedRequest
    <3>2. QED
      BY <2>4, <3>1 DEF IsCommand
  <2>6. LockedRequest(p)'
    BY <1>1, <2>3, <2>4, <2>5 DEF LockedRequest, Unloaded, InLock
  <2>7. Alone(p)
    BY <2>1, <2>3, <2>4 DEF Alone, LockedInv, FunctionOfProcs
  <2>8. QED
    BY <1>1, <2>6, <2>7, OneLockedRequest
<1>3. CASE task[p].kind # "join"
  <2>1. Return(p)
    BY <1>3 DEF PublishFails
  <2>2. QED
    BY <1>1, <2>1, QuietFacts, QuietOK
<1>4. QED
  BY <1>2, <1>3

(* Redis drops the key only of a holder that is done: with OnlyLocking,    *)
(* one that is in its use case and past the lock is alive.                 *)
LEMMA ExpireLocked ==
    ASSUME OnlyLocking, LockedInv, ServiceInv', StoredOK', Expire \/ ExpireEarly
    PROVE  LockedInv'
<1>1. ~HolderAlive /\ UNCHANGED <<stored, pc, task, base, work>>
  BY DEF Expire, ExpireEarly, OnlyLocking, request
<1>2. ASSUME NEW p \in Procs PROVE LockedRequest(p)'
  <2>1. LockedRequest(p)
    BY DEF LockedInv
  <2>2. ~InLock(p)
    <3> SUFFICES ASSUME InLock(p) PROVE FALSE
      OBVIOUS
    <3>1. lock = p /\ IsCommand(task[p])
      BY <2>1 DEF LockedRequest, Unloaded, InLock
    <3>2. Locks(p)
      BY <3>1 DEF Locks, IsCommand, OnlyLocking
    <3>3. QED
      BY <1>1, <3>1, <3>2 DEF HolderAlive, InLock
  <2>3. QED
    BY <1>1, <2>1, <2>2 DEF LockedRequest, Unloaded, InLock
<1>3. QED
  BY <1>1, <1>2 DEF LockedInv, FunctionOfProcs

-----------------------------------------------------------------------------
(* The stored room has its type, and None is no room. *)

LEMMA RoomIsNotNone ==
    ASSUME NEW r, RoomOK(r)
    PROVE  r \in Rooms /\ r # None
BY ServiceAssumption DEF RoomOK, RoomTypeOK

LEMMA SnapshotFacts ==
    ASSUME NEW i \in Nat, NEW v \in Nat, NEW r \in Rooms
    PROVE  /\ Snapshot(i, v, r) \in [inc : Nat, version : Nat, room : Rooms]
           /\ Snapshot(i, v, r) # None
           /\ Snapshot(i, v, r).room = r
BY ServiceAssumption DEF Snapshot

LEMMA StoredSnapshot ==
    ASSUME NEW i \in Nat, NEW v \in Nat, NEW r \in Rooms,
           stored' = Snapshot(i, v, r), inc' \in Nat
    PROVE  StoredOK' /\ stored' # None /\ stored'.room = r
<1>1. StoredOK'
  BY SnapshotFacts DEF StoredOK
<1>2. QED
  BY <1>1, SnapshotFacts

(* What a save leaves: nothing when the last client was removed, else the  *)
(* copy.                                                                   *)
LEMMA WriteFacts ==
    ASSUME LockedInv, NEW p \in Procs, pc[p] = "save", WriteRoom(p)
    PROVE  /\ StoredOK'
           /\ IF Deletes(p) THEN stored' = None
              ELSE stored' # None /\ stored'.room = work[p]
<1>1. RoomOK(work[p]) /\ StoredOK
  BY DEF LockedInv, ServiceInv, RequestOK
<1>2. work[p] \in Rooms
  BY <1>1, RoomIsNotNone
<1>3. CASE Deletes(p)
  BY <1>1, <1>3 DEF WriteRoom, StoredOK
<1>4. CASE ~Deletes(p) /\ stored = None
  <2>1. stored' = Snapshot(inc + 1, 1, work[p]) /\ inc' = inc + 1
    BY <1>4 DEF WriteRoom, Saved
  <2>2. inc + 1 \in Nat /\ 1 \in Nat
    BY <1>1 DEF StoredOK
  <2>3. inc' \in Nat
    BY <2>1, <2>2
  <2>4. StoredOK' /\ stored' # None /\ stored'.room = work[p]
    BY <1>2, <2>1, <2>2, <2>3, StoredSnapshot
  <2>5. QED
    BY <1>4, <2>4
<1>5. CASE ~Deletes(p) /\ stored # None
  <2>1. stored' = Snapshot(inc, stored.version + 1, work[p]) /\ inc' = inc
    BY <1>5 DEF WriteRoom, Saved
  <2>2. inc \in Nat /\ stored.version + 1 \in Nat
    BY <1>1, <1>5 DEF StoredOK
  <2>3. inc' \in Nat
    BY <2>1, <2>2
  <2>4. StoredOK' /\ stored' # None /\ stored'.room = work[p]
    BY <1>2, <2>1, <2>2, <2>3, StoredSnapshot
  <2>5. QED
    BY <1>5, <2>4
<1>6. QED
  BY <1>3, <1>4, <1>5

LEMMA CreateFacts ==
    ASSUME LockedInv, NEW p \in Procs, Create(p)
    PROVE  /\ StoredOK'
           /\ stored = None /\ stored' # None /\ stored'.room = NewRoom
<1>1. NewRoom \in Rooms /\ inc + 1 \in Nat /\ 0 \in Nat
  BY NewRoomOK, RoomIsNotNone DEF LockedInv, StoredOK
<1>2. stored' = Snapshot(inc + 1, 0, NewRoom) /\ inc' = inc + 1 /\ pc[p] = "create"
  BY DEF Create
<1>3. stored = None
  BY <1>2 DEF LockedInv, LockedRequest
<1>4. QED
  BY <1>1, <1>2, <1>3, StoredSnapshot

-----------------------------------------------------------------------------
(* The invariant holds. *)

LEMMA LockedInitOK == Init => LockedInv
<1> SUFFICES ASSUME Init PROVE LockedInv
  OBVIOUS
<1>1. ServiceInv /\ FunctionOfProcs(base)
  BY ServiceInitOK DEF Init, FunctionOfProcs
<1>2. StoredOK
  <2>1. NewRoom \in Rooms /\ 0 \in Nat /\ 1 \in Nat
    BY NewRoomOK, RoomIsNotNone
  <2>2. QED
    BY <2>1, SnapshotFacts DEF Init, StoredOK
<1>3. \A p \in Procs : pc[p] = "idle" /\ base[p] = None
  BY DEF Init
<1>4. QED
  BY <1>1, <1>2, <1>3 DEF LockedInv, LockedRequest, InLock

(* Who writes the room: a join that creates it, or a request that saves.   *)
LEMMA WhoWrites ==
    ASSUME [Next]_vars
    PROVE  \/ UNCHANGED <<stored, inc>>
           \/ \E p \in Procs : Create(p)
           \/ \E p \in Procs : pc[p] = "save" /\ WriteRoom(p)
<1>1. ASSUME NEW p \in Procs, Step(p)
      PROVE  \/ UNCHANGED <<stored, inc>>
             \/ Create(p)
             \/ pc[p] = "save" /\ WriteRoom(p)
  BY <1>1 DEF Step, Acquire, GiveUp, LoadMissing, LoadForJoin, LoadForRemoval,
     LoadForOperation, Save, SaveStale, Reload, Publish, Release
<1>2. ASSUME NEW p \in Procs, Failure(p)
      PROVE  \/ UNCHANGED <<stored, inc>>
             \/ pc[p] = "save" /\ WriteRoom(p)
  BY <1>2 DEF Failure, CallFails, SaveFails, PublishFails, Crash
<1>3. ASSUME NEW p \in Procs, NEW command \in Commands, NEW expected,
             Begin(p, command, expected)
      PROVE  UNCHANGED <<stored, inc>>
  BY <1>3 DEF Begin
<1>4. Expire \/ ExpireEarly \/ UNCHANGED vars => UNCHANGED <<stored, inc>>
  BY DEF Expire, ExpireEarly, vars
<1>5. QED
  BY <1>1, <1>2, <1>3, <1>4 DEF Next

LEMMA LockedStepOK ==
    ASSUME OnlyLocking, LockedInv, [Next]_vars
    PROVE  LockedInv'
<1>1. ServiceInv'
  BY ServiceStepOK DEF LockedInv
<1>2. StoredOK'
  BY WhoWrites, CreateFacts, WriteFacts DEF LockedInv, StoredOK
<1>3. ASSUME NEW p \in Procs, NEW command \in Commands, NEW expected,
             Begin(p, command, expected)
      PROVE  LockedInv'
  BY <1>1, <1>2, <1>3, BeginLocked
<1>4. ASSUME NEW p \in Procs, Step(p) PROVE LockedInv'
  <2>1. Create(p) => stored' # None
    BY CreateFacts
  <2>2. QED
    BY <1>1, <1>2, <1>4, <2>1, LockLocked, LoadLocked, CreateLocked, SaveLocked,
       ReturnLocked DEF Step
<1>5. ASSUME NEW p \in Procs, Failure(p) PROVE LockedInv'
  BY <1>1, <1>2, <1>5, SaveLocked, ReturnLocked, CrashLocked, PublishFailsLocked
     DEF Failure
<1>6. ASSUME Expire \/ ExpireEarly PROVE LockedInv'
  BY <1>1, <1>2, <1>6, ExpireLocked
<1>7. ASSUME UNCHANGED vars PROVE LockedInv'
  BY <1>1, <1>2, <1>7
     DEF vars, LockedInv, FunctionOfProcs, LockedRequest, Unloaded, InLock, CopyIsCurrent
<1>8. QED
  BY <1>3, <1>4, <1>5, <1>6, <1>7 DEF Next

-----------------------------------------------------------------------------
(* The theorems. *)

(* What a request saves is one whole operation on the room it overwrites.  *)
LEMMA SaveIsOperation ==
    ASSUME LockedInv, NEW p \in Procs, pc[p] = "save"
    PROVE  /\ stored # None
           /\ IF Deletes(p) THEN LastLeaves(stored.room)
              ELSE OneOperation(stored.room, work[p])
<1>1. CopyIsCurrent(p) /\ IsCommand(task[p]) /\ task[p].sender \in ClientIDs
  BY RequestFacts DEF LockedInv, LockedRequest
<1>2. stored # None /\ Computed(task[p], stored.room, work[p])
  BY <1>1 DEF CopyIsCurrent
<1>3. CASE task[p].kind = "join"
  BY <1>1, <1>2, <1>3 DEF Computed, Deletes, Removes, OneOperation
<1>4. CASE task[p].kind \in {"leave", "rollback"}
  BY <1>1, <1>2, <1>4 DEF Computed, Deletes, Removes, OneOperation, LastLeaves
<1>5. CASE task[p].kind \notin {"join", "leave", "rollback"}
  <2>1. /\ task[p].kind # "rejoin"
        /\ OperationError(task[p], stored.room) = OK
        /\ work[p] = Operation(task[p], stored.room)
    BY <1>2, <1>5 DEF Computed
  <2>2. PICK command \in Commands : /\ command.kind = task[p].kind
                                    /\ command.sender = task[p].sender
                                    /\ command.arg = task[p].arg
    BY <1>1, <1>5, <2>1 DEF IsCommand
  <2>3. /\ OperationError(command, stored.room) = OperationError(task[p], stored.room)
        /\ Operation(command, stored.room) = Operation(task[p], stored.room)
    BY <2>2 DEF OperationError, Operation
  <2>4. OneOperation(stored.room, work[p])
    BY <1>5, <2>1, <2>2, <2>3 DEF OneOperation
  <2>5. QED
    BY <1>1, <1>5, <2>4 DEF CopyIsCurrent, Deletes, Removes
<1>6. QED
  BY <1>1, <1>3, <1>4, <1>5 DEF CopyIsCurrent

(* RoomService with the use cases that lock implements AtomicRoom: for any *)
(* number of requests, commands, failed calls and crashes, the room in     *)
(* Redis changes by one whole operation at a time.                         *)
THEOREM LockedImplementsRoom ==
    ASSUME OnlyLocking PROVE Spec => ImplementsRoom
<1>1. LockedInv => (stored # None => stored.room # None)
  BY RoomIsNotNone DEF LockedInv, ServiceInv, StoredRoomCorrect
<1>2. Init => Atomic!Init
  <2>1. NewRoom \in Rooms /\ 0 \in Nat /\ 1 \in Nat
    BY NewRoomOK, RoomIsNotNone
  <2>2. QED
    BY <2>1, SnapshotFacts DEF Init, Atomic!Init
<1>3. LockedInv /\ LockedInv' /\ [Next]_vars
      => [Atomic!Next]_(IF stored = None THEN None ELSE stored.room)
  <2> SUFFICES ASSUME LockedInv, LockedInv', [Next]_vars
               PROVE  [Atomic!Next]_(IF stored = None THEN None ELSE stored.room)
    OBVIOUS
  <2>1. CASE UNCHANGED <<stored, inc>>
    BY <2>1
  <2>2. ASSUME NEW p \in Procs, Create(p)
        PROVE  Atomic!Create
    BY <2>2, CreateFacts DEF Atomic!Create
  <2>3. ASSUME NEW p \in Procs, pc[p] = "save", WriteRoom(p)
        PROVE  Atomic!Change \/ Atomic!Close
    <3>1. stored # None /\ stored.room # None
      BY <1>1, <2>3, SaveIsOperation
    <3>2. CASE Deletes(p)
      BY <2>3, <3>1, <3>2, SaveIsOperation, WriteFacts DEF Atomic!Close
    <3>3. CASE ~Deletes(p)
      <4>1. work[p] # None
        BY <2>3, RoomIsNotNone DEF LockedInv, ServiceInv, RequestOK
      <4>2. stored' # None /\ stored'.room = work[p]
        BY <2>3, <3>3, WriteFacts
      <4>3. OneOperation(stored.room, work[p])
        BY <2>3, <3>3, SaveIsOperation
      <4>4. QED
        BY <3>1, <4>1, <4>2, <4>3 DEF Atomic!Change
    <3>4. QED
      BY <3>2, <3>3
  <2>4. QED
    BY <2>1, <2>2, <2>3, WhoWrites DEF Atomic!Next
<1>4. LockedInv /\ [Next]_vars => LockedInv'
  BY LockedStepOK
<1>5. QED
  BY <1>2, <1>3, <1>4, LockedInitOK, PTL DEF Spec, ImplementsRoom, Atomic!Spec

(* No update is lost among the use cases that lock: what a request writes, *)
(* it computed from the room that it overwrites (SavesSeeLatest).          *)
THEOREM LockedSavesSeeLatest ==
    ASSUME OnlyLocking PROVE Spec => SavesSeeLatest
<1>1. LockedInv => \A p \in Procs : pc[p] \in {"create", "save"} => base[p] = stored
  BY DEF LockedInv, LockedRequest, Unloaded, CopyIsCurrent
<1>2. LockedInv /\ [Next]_vars => [\A p \in Procs : Writes(p) => base[p] = stored]_vars
  BY <1>1 DEF Writes
<1>3. LockedInv /\ [Next]_vars => LockedInv'
  BY LockedStepOK
<1>4. QED
  BY <1>2, <1>3, LockedInitOK, PTL DEF Spec, SavesSeeLatest

-----------------------------------------------------------------------------
(* The order of snapshots.  While a request holds the lock nothing newer   *)
(* than what it has loaded is shown, and nothing it has loaded is newer    *)
(* than the stored room.                                                   *)

Before(s, t) == s.inc < t.inc \/ (s.inc = t.inc /\ s.version <= t.version)

Numbered(s) == s.inc \in Nat /\ s.version \in Nat

\* No newer than the stored room, or than its last incarnation.
Old(s) ==
    /\ Numbered(s)
    /\ s.inc <= inc
    /\ stored # None => Before(s, stored)

OrderedRequest(p) ==
    /\ pc[p] = "publish" => base[p] # None
    /\ InLock(p) /\ base[p] # None =>
          Old(base[p]) /\ (shown # None => Before(shown, base[p]))

OrderInv ==
    /\ LockedInv
    /\ stored # None => stored.inc = inc
    /\ shown # None => Old(shown)
    /\ \A p \in Procs : OrderedRequest(p)

\* The same of the store after a step.
OldThen(s) ==
    /\ Numbered(s)
    /\ s.inc <= inc'
    /\ stored' # None => Before(s, stored')

(* The store only moves on.                                                *)
LEMMA OldStaysOld ==
    ASSUME LockedInv, LockedInv', stored # None => stored.inc = inc, [Next]_vars
    PROVE  /\ stored' # None => stored'.inc = inc' /\ OldThen(stored')
           /\ \A s : Old(s) => OldThen(s)
<1>1. /\ StoredOK /\ StoredOK'
      /\ \A p \in Procs : pc[p] = "save" => stored # None
  BY DEF LockedInv, LockedRequest, CopyIsCurrent
<1>2. CASE UNCHANGED <<stored, inc>>
  BY <1>1, <1>2 DEF StoredOK, Old, OldThen, Numbered, Before
<1>3. ASSUME NEW p \in Procs, Create(p)
      PROVE  /\ inc' = inc + 1 /\ stored' # None /\ stored'.inc = inc + 1
             /\ stored'.version = 0
  BY <1>3, CreateFacts DEF Create, Snapshot
<1>4. ASSUME NEW p \in Procs, pc[p] = "save", WriteRoom(p)
      PROVE  /\ inc' = inc /\ stored # None
             /\ stored' # None => /\ stored'.inc = inc
                                 /\ stored'.version = stored.version + 1
  BY <1>1, <1>4 DEF WriteRoom, Saved, Snapshot
<1>5. CASE \E p \in Procs : Create(p)
  <2>1. inc' = inc + 1 /\ stored'.inc = inc + 1 /\ stored'.version = 0
    BY <1>3, <1>5
  <2>2. QED
    BY <1>1, <2>1 DEF StoredOK, Old, OldThen, Numbered, Before
<1>6. CASE \E p \in Procs : pc[p] = "save" /\ WriteRoom(p)
  <2>1. /\ inc' = inc /\ stored # None
        /\ stored' # None => /\ stored'.inc = inc
                            /\ stored'.version = stored.version + 1
    BY <1>4, <1>6
  <2>2. QED
    BY <1>1, <2>1 DEF StoredOK, Old, OldThen, Numbered, Before
<1>7. QED
  BY <1>2, <1>5, <1>6, WhoWrites

(* What a request has loaded after a step: nothing, the stored room, or    *)
(* what it had.                                                            *)
BaseMoves(p) ==
    \/ base'[p] = None /\ pc'[p] # "publish"
    \/ base'[p] = stored' /\ stored' # None
    \/ InLock(p) /\ base'[p] = base[p] /\ (pc'[p] = "publish" => base[p] # None)

LEMMA StopMoves ==
    ASSUME LockedInv, NEW p \in Procs, Return(p) \/ End(p)
    PROVE  BaseMoves(p)
<1>1. Stop(p, "release") \/ Stop(p, "idle")
  BY DEF Return, End
<1>2. base'[p] = None /\ pc'[p] \in {"release", "idle"}
  BY <1>1, MoveFacts DEF Stop
<1>3. QED
  BY <1>2 DEF BaseMoves

LEMMA StepMoves ==
    ASSUME LockedInv, NEW p \in Procs, Step(p)
    PROVE  BaseMoves(p)
<1>1. LockedRequest(p)
  BY DEF LockedInv
<1>2. CASE Acquire(p)
  <2>1. pc'[p] = "load" /\ base[p] = None /\ base' = base
    BY <1>1, <1>2, MoveFacts DEF Acquire, LockedRequest, Unloaded
  <2>2. QED
    BY <2>1 DEF BaseMoves
<1>3. CASE GiveUp(p) \/ SaveStale(p) \/ Publish(p) \/ Release(p)
  BY <1>3, StopMoves DEF GiveUp, SaveStale, Publish, Release
<1>4. CASE LoadMissing(p)
  <2>1. CASE Return(p)
    BY <2>1, StopMoves
  <2>2. CASE ~Return(p)
    <3>1. pc'[p] \in {"create", "reload"} /\ base' = base /\ InLock(p)
      BY <1>4, <2>2, MoveFacts DEF LoadMissing, InLock
    <3>2. QED
      BY <3>1 DEF BaseMoves
  <2>3. QED
    BY <2>1, <2>2
<1>5. CASE LoadForJoin(p) \/ LoadForRemoval(p) \/ LoadForOperation(p)
  <2>1. CASE Return(p)
    BY <2>1, StopMoves
  <2>2. CASE ~Return(p)
    <3>1. base' = [base EXCEPT ![p] = stored] /\ stored' = stored /\ stored # None
      BY <1>5, <2>2 DEF LoadForJoin, LoadForRemoval, LoadForOperation, Load
    <3>2. QED
      BY <3>1, MoveFacts DEF BaseMoves
  <2>3. QED
    BY <2>1, <2>2
<1>6. CASE Create(p)
  <2>1. base' = [base EXCEPT ![p] = stored'] /\ stored' # None
    BY <1>6, CreateFacts DEF Create
  <2>2. QED
    BY <2>1, MoveFacts DEF BaseMoves
<1>7. CASE Save(p)
  <2>1. pc[p] = "save" /\ InLock(p) /\ WriteRoom(p) /\ Continue(p)
    BY <1>7 DEF Save, InLock
  <2>2. CASE task[p].kind = "leave"
    <3>1. pc'[p] = "reload" /\ base' = base
      BY <2>1, <2>2, MoveFacts DEF Continue
    <3>2. QED
      BY <2>1, <3>1 DEF BaseMoves
  <2>3. CASE task[p].kind = "rollback"
    BY <2>1, <2>3, StopMoves DEF Continue
  <2>4. CASE task[p].kind \notin {"leave", "rollback"}
    <3>1. base' = [base EXCEPT ![p] = stored']
      BY <2>1, <2>4 DEF Continue
    <3>2. stored' # None
      BY <2>1, <2>4, WriteFacts DEF Deletes, Removes
    <3>3. QED
      BY <3>1, <3>2, MoveFacts DEF BaseMoves
  <2>5. QED
    BY <2>2, <2>3, <2>4
<1>8. CASE Reload(p)
  <2>1. CASE stored = None
    BY <1>8, <2>1, StopMoves DEF Reload
  <2>2. CASE stored # None
    <3>1. base' = [base EXCEPT ![p] = stored] /\ stored' = stored
      BY <1>8, <2>2 DEF Reload
    <3>2. QED
      BY <2>2, <3>1, MoveFacts DEF BaseMoves
  <2>3. QED
    BY <2>1, <2>2
<1>9. QED
  BY <1>2, <1>3, <1>4, <1>5, <1>6, <1>7, <1>8 DEF Step

LEMMA FailureMoves ==
    ASSUME LockedInv, NEW p \in Procs, Failure(p)
    PROVE  BaseMoves(p)
<1>1. CASE CallFails(p) \/ Crash(p)
  BY <1>1, StopMoves DEF CallFails, Crash
<1>2. CASE SaveFails(p)
  <2>1. pc[p] = "save" /\ InLock(p) /\ base[p] # None
    BY <1>2 DEF SaveFails, InLock, LockedInv, LockedRequest, CopyIsCurrent
  <2>2. CASE task[p].kind = "join"
    <3>1. base' = base
      BY <1>2, <2>2 DEF SaveFails
    <3>2. QED
      BY <2>1, <3>1 DEF BaseMoves
  <2>3. CASE task[p].kind # "join" /\ Deletes(p) /\ task[p].kind = "leave"
    <3>1. base' = base
      BY <1>2, <2>3 DEF SaveFails, Continue
    <3>2. QED
      BY <2>1, <3>1 DEF BaseMoves
  <2>4. CASE task[p].kind # "join" /\ ~(Deletes(p) /\ task[p].kind = "leave")
    <3>1. Return(p)
      BY <1>2, <2>4 DEF SaveFails, Continue, Deletes, Removes
    <3>2. QED
      BY <3>1, StopMoves
  <2>5. QED
    BY <2>2, <2>3, <2>4
<1>3. CASE PublishFails(p)
  <2>1. CASE task[p].kind = "join"
    <3>1. pc'[p] = "load" /\ base' = base /\ InLock(p)
      BY <1>3, <2>1, MoveFacts DEF PublishFails, InLock
    <3>2. QED
      BY <3>1 DEF BaseMoves
  <2>2. CASE task[p].kind # "join"
    BY <1>3, <2>2, StopMoves DEF PublishFails
  <2>3. QED
    BY <2>1, <2>2
<1>4. QED
  BY <1>1, <1>2, <1>3 DEF Failure

(* The others keep what they have.                                         *)
LEMMA OthersKeepBase ==
    ASSUME LockedInv, NEW p \in Procs, Step(p) \/ Failure(p)
    PROVE  \A q \in Procs \ {p} : pc'[q] = pc[q] /\ base'[q] = base[q]
<1>1. /\ \E label : Goto(p, label)
      /\ base' = base \/ \E b : base' = [base EXCEPT ![p] = b]
  <2>1. CASE Return(p) \/ End(p)
    BY <2>1 DEF Return, End, Stop
  <2>2. CASE ~Return(p) /\ ~End(p) /\ Step(p)
    BY <2>2 DEF Step, Acquire, GiveUp, LoadMissing, LoadForJoin, LoadForRemoval,
       LoadForOperation, Load, Create, Save, Continue, SaveStale, Reload, Publish, Release
  <2>3. CASE ~Return(p) /\ ~End(p) /\ Failure(p)
    BY <2>3 DEF Failure, CallFails, SaveFails, Continue, PublishFails, Crash
  <2>4. QED
    BY <2>1, <2>2, <2>3
<1>2. QED
  BY <1>1, MoveFacts

(* Only a publication changes what is shown.                               *)
LEMMA WhoShows ==
    ASSUME [Next]_vars
    PROVE  \/ shown' = shown
           \/ \E p \in Procs : /\ pc[p] = "publish"
                              /\ shown' = Stamp(base[p])
                              /\ UNCHANGED <<stored, inc>>
<1>1. ASSUME NEW p \in Procs, Step(p)
      PROVE  \/ shown' = shown
             \/ pc[p] = "publish" /\ shown' = Stamp(base[p]) /\ UNCHANGED <<stored, inc>>
  BY <1>1 DEF Step, Acquire, GiveUp, LoadMissing, LoadForJoin, LoadForRemoval,
     LoadForOperation, Create, Save, SaveStale, Reload, Publish, publish, Release
<1>2. ASSUME NEW p \in Procs, Failure(p)
      PROVE  \/ shown' = shown
             \/ pc[p] = "publish" /\ shown' = Stamp(base[p]) /\ UNCHANGED <<stored, inc>>
  BY <1>2 DEF Failure, CallFails, SaveFails, PublishFails, publish, Crash
<1>3. ASSUME NEW p \in Procs, NEW command \in Commands, NEW expected,
             Begin(p, command, expected)
      PROVE  shown' = shown
  BY <1>3 DEF Begin
<1>4. Expire \/ ExpireEarly \/ UNCHANGED vars => shown' = shown
  BY DEF Expire, ExpireEarly, vars
<1>5. QED
  BY <1>1, <1>2, <1>3, <1>4 DEF Next

LEMMA EveryBase ==
    ASSUME LockedInv, [Next]_vars, NEW q \in Procs
    PROVE  BaseMoves(q) \/ (pc'[q] = pc[q] /\ base'[q] = base[q])
<1>1. ASSUME NEW p \in Procs, Step(p) \/ Failure(p)
      PROVE  BaseMoves(q) \/ (pc'[q] = pc[q] /\ base'[q] = base[q])
  BY <1>1, StepMoves, FailureMoves, OthersKeepBase
<1>2. ASSUME NEW p \in Procs, NEW command \in Commands, NEW expected,
             Begin(p, command, expected)
      PROVE  BaseMoves(q) \/ (pc'[q] = pc[q] /\ base'[q] = base[q])
  <2>1. /\ base[p] = None /\ base' = base
        /\ Goto(p, IF command.kind = "update-name" THEN "load" ELSE "lock")
    BY <1>2 DEF Begin, Idle, LockedInv, LockedRequest, Unloaded
  <2>2. pc'[p] \in {"load", "lock"} /\ \A o \in Procs \ {p} : pc'[o] = pc[o]
    BY <2>1, MoveFacts
  <2>3. QED
    BY <2>1, <2>2 DEF BaseMoves
<1>3. Expire \/ ExpireEarly \/ UNCHANGED vars => UNCHANGED <<pc, base>>
  BY DEF Expire, ExpireEarly, vars, request
<1>4. QED
  BY <1>1, <1>2, <1>3 DEF Next

LEMMA StampFacts ==
    ASSUME NEW s
    PROVE  /\ OldThen(s) => OldThen(Stamp(s))
           /\ Numbered(s) => Before(Stamp(s), s)
BY DEF Stamp, OldThen, Numbered, Before

LEMMA OrderStepOK ==
    ASSUME OnlyLocking, OrderInv, [Next]_vars
    PROVE  OrderInv'
<1>1. LockedInv /\ LockedInv'
  BY LockedStepOK DEF OrderInv
<1>2. /\ stored' # None => stored'.inc = inc' /\ OldThen(stored')
      /\ \A s : Old(s) => OldThen(s)
  BY <1>1, OldStaysOld DEF OrderInv
<1>3. ASSUME NEW p \in Procs, pc[p] = "publish"
      PROVE  InLock(p) /\ base[p] # None /\ Old(base[p])
  BY <1>3 DEF OrderInv, OrderedRequest, InLock
<1>4. shown' # None => OldThen(shown')
  <2>1. CASE shown' = shown
    BY <1>2, <2>1 DEF OrderInv
  <2>2. ASSUME NEW p \in Procs, pc[p] = "publish", shown' = Stamp(base[p])
        PROVE  OldThen(shown')
    BY <1>2, <1>3, <2>2, StampFacts
  <2>3. QED
    BY <2>1, <2>2, WhoShows
<1>5. ASSUME NEW q \in Procs PROVE OrderedRequest(q)'
  <2>1. OrderedRequest(q)
    BY DEF OrderInv
  <2>2. CASE base'[q] = None /\ pc'[q] # "publish"
    BY <2>2 DEF OrderedRequest
  <2>3. CASE base'[q] = stored' /\ stored' # None
    <3>1. Old(base[q])'
      BY <1>2, <2>3 DEF Old, OldThen
    <3>2. shown' # None => Before(shown', base'[q])
      BY <1>4, <2>3 DEF OldThen
    <3>3. QED
      BY <2>3, <3>1, <3>2 DEF OrderedRequest, Before
  <2>4. CASE /\ base'[q] = base[q] /\ InLock(q)
             /\ pc'[q] = "publish" => base[q] # None
    <3> SUFFICES ASSUME base[q] # None
                 PROVE  Old(base[q])' /\ (shown' # None => Before(shown', base[q]))
      BY <2>4 DEF OrderedRequest, Before
    <3>1. Old(base[q]) /\ (shown # None => Before(shown, base[q]))
      BY <2>1, <2>4 DEF OrderedRequest
    <3>2. OldThen(base[q])
      BY <1>2, <3>1
    <3>3. Old(base[q])'
      BY <2>4, <3>2 DEF Old, OldThen
    <3>4. ASSUME NEW p \in Procs, pc[p] = "publish", shown' = Stamp(base[p])
          PROVE  Before(shown', base[q])
      <4>1. p = q
        BY <1>1, <1>3, <2>4, <3>4 DEF LockedInv, LockedRequest
      <4>2. QED
        BY <3>1, <3>4, <4>1, StampFacts DEF Old
    <3>5. QED
      BY <3>1, <3>3, <3>4, WhoShows
  <2>5. CASE pc'[q] = pc[q] /\ base'[q] = base[q] /\ ~InLock(q)
    BY <2>1, <2>5 DEF OrderedRequest, InLock
  <2>6. CASE pc'[q] = pc[q] /\ base'[q] = base[q] /\ InLock(q)
    BY <2>1, <2>4, <2>6 DEF OrderedRequest
  <2>7. QED
    BY <1>1, <2>2, <2>3, <2>4, <2>5, <2>6, EveryBase DEF BaseMoves
<1>6. (shown # None => Old(shown))'
  BY <1>4 DEF Old, OldThen
<1>7. QED
  BY <1>1, <1>2, <1>5, <1>6 DEF OrderInv

LEMMA OrderInitOK == Init => OrderInv
<1> SUFFICES ASSUME Init PROVE OrderInv
  OBVIOUS
<1>1. stored # None => stored.inc = inc
  BY DEF Init, Snapshot
<1>2. \A p \in Procs : pc[p] = "idle" /\ base[p] = None
  BY DEF Init
<1>3. shown = None
  BY DEF Init
<1>4. QED
  BY <1>1, <1>2, <1>3, LockedInitOK DEF OrderInv, OrderedRequest

(* Snapshots are published in the order of their versions, whatever fails: *)
(* a client that shows whichever it received last never goes back          *)
(* (SnapshotsInOrder).                                                     *)
THEOREM LockedSnapshotsInOrder ==
    ASSUME OnlyLocking PROVE Spec => SnapshotsInOrder
<1>1. OrderInv /\ [Next]_vars => OrderInv'
  BY OrderStepOK
<1>2. OrderInv /\ [Next]_vars
      => [shown # None /\ shown' # shown
          => \/ shown'.inc > shown.inc
             \/ shown'.inc = shown.inc /\ shown'.version >= shown.version]_vars
  <2> SUFFICES ASSUME OrderInv, [Next]_vars, shown # None, shown' # shown
               PROVE  \/ shown'.inc > shown.inc
                      \/ shown'.inc = shown.inc /\ shown'.version >= shown.version
    OBVIOUS
  <2>1. PICK p \in Procs : pc[p] = "publish" /\ shown' = Stamp(base[p])
    BY WhoShows
  <2>2. InLock(p) /\ base[p] # None /\ Old(base[p]) /\ Before(shown, base[p]) /\ Old(shown)
    BY <2>1 DEF OrderInv, OrderedRequest, InLock
  <2>3. shown'.inc = base[p].inc /\ shown'.version = base[p].version
    BY <2>1 DEF Stamp
  <2>4. QED
    BY <2>2, <2>3 DEF Before, Old, Numbered
<1>3. QED
  BY <1>1, <1>2, OrderInitOK, PTL DEF Spec, SnapshotsInOrder

-----------------------------------------------------------------------------
(* No change stays unannounced.  While nothing has failed, a change that   *)
(* is not shown yet belongs to a request in lock that is on its way to     *)
(* publish, and what that request publishes is the stored room.            *)

ToAnnounce(p) == pc[p] \in {"reload", "publish"}

Announced == stored # None /\ stored.version > 0 => shown = Stamp(stored)

PublishesStored(p) ==
    /\ task[p].kind # "rollback"
    /\ pc[p] = "publish" => base[p] = stored

Announcing ==
    /\ \A p \in Procs : PublishesStored(p)
    /\ Announced \/ \E p \in Procs : ToAnnounce(p)

AnnounceInv == LockedInv /\ failures \in Nat /\ (failures = 0 => Announcing)

(* A step of one request: it leaves the room alone and owed nothing        *)
(* before, or it holds the lock and all is announced or it still owes it.  *)
LEMMA OneAnnounces ==
    ASSUME LockedInv, Announcing, NEW p \in Procs, PublishesStored(p)',
           \A q \in Procs \ {p} :
              /\ pc'[q] = pc[q] /\ base'[q] = base[q]
              /\ task'[q].kind # "rollback",
           \/ UNCHANGED <<stored, shown>> /\ ~ToAnnounce(p)
           \/ InLock(p) /\ (Announced' \/ ToAnnounce(p)')
    PROVE  Announcing'
<1>1. ASSUME NEW q \in Procs \ {p} PROVE PublishesStored(q)'
  <2>1. PublishesStored(q)
    BY DEF Announcing
  <2>2. ~(InLock(p) /\ InLock(q))
    BY DEF LockedInv, LockedRequest
  <2>3. pc[q] = "publish" => stored' = stored
    BY <2>2 DEF InLock
  <2>4. QED
    BY <2>1, <2>3 DEF PublishesStored
<1>2. Announced' \/ \E q \in Procs : ToAnnounce(q)'
  <2>1. CASE UNCHANGED <<stored, shown>> /\ ~ToAnnounce(p)
    <3>1. Announced => Announced'
      BY <2>1 DEF Announced, Stamp
    <3>2. ASSUME NEW q \in Procs, ToAnnounce(q) PROVE ToAnnounce(q)'
      BY <2>1, <3>2 DEF ToAnnounce
    <3>3. QED
      BY <3>1, <3>2 DEF Announcing
  <2>2. QED
    BY <2>1
<1>3. QED
  BY <1>1, <1>2 DEF Announcing

(* No step makes a join a rollback but a failure.                          *)
LEMMA NoRollback ==
    ASSUME LockedInv, Announcing, NEW p \in Procs, Step(p)
    PROVE  \A q \in Procs : task'[q].kind # "rollback"
<1>1. \/ task' = task
      \/ task' = [task EXCEPT ![p] = NoTask]
      \/ task' = [task EXCEPT ![p] = [task[p] EXCEPT !.kind = "rejoin"]]
  BY DEF Step, Acquire, GiveUp, LoadMissing, LoadForJoin, LoadForRemoval,
     LoadForOperation, Create, Save, Continue, SaveStale, Reload, Publish, Release,
     Return, End, Stop
<1>2. ASSUME task' = [task EXCEPT ![p] = [task[p] EXCEPT !.kind = "rejoin"]]
      PROVE  task'[p].kind # "rollback"
  <2> DEFINE t == [task[p] EXCEPT !.kind = "rejoin"]
  <2>1. t.kind # "rollback"
    <3>1. task[p].kind # "rollback"
      BY DEF Announcing, PublishesStored
    <3>2. QED
      BY <3>1
  <2> HIDE DEF t
  <2>2. task' = [task EXCEPT ![p] = t]
    BY <1>2 DEF t
  <2>3. task'[p] = t
    BY <2>2, MoveFacts
  <2>4. QED
    BY <2>1, <2>3
<1>3. \A q \in Procs : task[q].kind # "rollback"
  BY DEF Announcing, PublishesStored
<1>4. NoTask.kind # "rollback"
  BY DEF NoTask
<1>5. QED
  BY <1>1, <1>2, <1>3, <1>4, MoveFacts

LEMMA StepAnnounces ==
    ASSUME LockedInv, Announcing, NEW p \in Procs, Step(p)
    PROVE  Announcing'
<1>1. \A q \in Procs \ {p} : /\ pc'[q] = pc[q] /\ base'[q] = base[q]
                            /\ task'[q].kind # "rollback"
  BY NoRollback, OthersKeepBase
<1>2. task'[p].kind # "rollback" /\ task[p].kind # "rollback"
  BY NoRollback DEF Announcing, PublishesStored
<1>3. Return(p) \/ End(p) => pc'[p] \in {"idle", "release"}
  BY MoveFacts DEF Return, End, Stop
<1>4. CASE Acquire(p) \/ GiveUp(p) \/ SaveStale(p) \/ Release(p) \/ LoadMissing(p)
  <2>1. UNCHANGED <<stored, shown>> /\ ~ToAnnounce(p)
    BY <1>4 DEF Acquire, GiveUp, SaveStale, Release, LoadMissing, ToAnnounce
  <2>2. pc'[p] # "publish"
    BY <1>3, <1>4, MoveFacts DEF Acquire, GiveUp, SaveStale, Release, LoadMissing
  <2>3. QED
    BY <1>1, <1>2, <2>1, <2>2, OneAnnounces DEF PublishesStored
<1>5. CASE LoadForJoin(p) \/ LoadForRemoval(p) \/ LoadForOperation(p)
  <2>1. UNCHANGED <<stored, shown>> /\ ~ToAnnounce(p)
    BY <1>5 DEF LoadForJoin, LoadForRemoval, LoadForOperation, ToAnnounce
  <2>2. Return(p) \/ base' = [base EXCEPT ![p] = stored]
    BY <1>5 DEF LoadForJoin, LoadForRemoval, LoadForOperation, Load
  <2>3. pc'[p] = "publish" => base'[p] = stored'
    BY <1>3, <2>1, <2>2, MoveFacts
  <2>4. QED
    BY <1>1, <1>2, <2>1, <2>3, OneAnnounces DEF PublishesStored
<1>6. CASE Create(p)
  <2>1. InLock(p) /\ pc'[p] = "save" /\ stored' = Snapshot(inc + 1, 0, NewRoom)
    BY <1>6, MoveFacts DEF Create, InLock
  <2>2. Announced'
    BY <2>1 DEF Announced, Snapshot
  <2>3. QED
    BY <1>1, <1>2, <2>1, <2>2, OneAnnounces DEF PublishesStored
<1>7. CASE Save(p)
  <2>1. InLock(p) /\ Continue(p)
    BY <1>7 DEF Save, InLock
  <2>2. \/ Goto(p, "reload")
        \/ Goto(p, "publish") /\ base' = [base EXCEPT ![p] = stored']
    BY <1>2, <2>1 DEF Continue
  <2>3. ToAnnounce(p)' /\ (pc'[p] = "publish" => base'[p] = stored')
    BY <2>2, MoveFacts DEF ToAnnounce
  <2>4. QED
    BY <1>1, <1>2, <2>1, <2>3, OneAnnounces DEF PublishesStored
<1>8. CASE Reload(p)
  <2>1. InLock(p) /\ stored' = stored
    BY <1>8 DEF Reload, InLock
  <2>2. \/ stored' = None /\ Return(p)
        \/ Goto(p, "publish") /\ base' = [base EXCEPT ![p] = stored]
    BY <1>8 DEF Reload
  <2>3. /\ Announced' \/ ToAnnounce(p)'
        /\ pc'[p] = "publish" => base'[p] = stored'
    BY <1>3, <2>1, <2>2, MoveFacts DEF Announced, ToAnnounce
  <2>4. QED
    BY <1>1, <1>2, <2>1, <2>3, OneAnnounces DEF PublishesStored
<1>9. CASE Publish(p)
  <2>1. /\ InLock(p) /\ pc[p] = "publish" /\ Return(p)
        /\ stored' = stored /\ shown' = Stamp(base[p])
    BY <1>9 DEF Publish, publish, InLock
  <2>2. base[p] = stored
    BY <2>1 DEF Announcing, PublishesStored
  <2>3. Announced'
    BY <2>1, <2>2 DEF Announced, Stamp
  <2>4. QED
    BY <1>1, <1>2, <1>3, <2>1, <2>3, OneAnnounces DEF PublishesStored
<1>10. QED
  BY <1>4, <1>5, <1>6, <1>7, <1>8, <1>9 DEF Step

LEMMA BeginAnnounces ==
    ASSUME LockedInv, Announcing, NEW p \in Procs,
           NEW command \in Commands, NEW expected, Begin(p, command, expected)
    PROVE  Announcing'
<1> DEFINE t == [kind |-> command.kind, sender |-> command.sender,
                 arg |-> command.arg, expected |-> expected]
<1>1. t.kind # "rollback"
  BY CommandAssumption DEF Kinds, GuardedKinds
<1>2. /\ task' = [task EXCEPT ![p] = t]
      /\ \E label \in {"load", "lock"} : Goto(p, label)
      /\ UNCHANGED <<stored, shown, base>> /\ ~ToAnnounce(p)
  BY DEF Begin, Idle, ToAnnounce
<1> HIDE DEF t
<1>3. /\ task'[p] = t /\ pc'[p] # "publish"
      /\ \A q \in Procs \ {p} : task'[q] = task[q] /\ pc'[q] = pc[q] /\ base'[q] = base[q]
  BY <1>2, MoveFacts
<1>4. \A q \in Procs : task'[q].kind # "rollback"
  BY <1>1, <1>3 DEF Announcing, PublishesStored
<1>5. QED
  BY <1>2, <1>3, <1>4, OneAnnounces DEF PublishesStored

LEMMA AnnounceStepOK ==
    ASSUME OnlyLocking, AnnounceInv, [Next]_vars
    PROVE  AnnounceInv'
<1>1. LockedInv /\ LockedInv'
  BY LockedStepOK DEF AnnounceInv
<1>2. CASE UNCHANGED vars
  BY <1>1, <1>2 DEF AnnounceInv, vars, Announcing, PublishesStored, Announced, ToAnnounce,
     Stamp
<1>3. CASE Expire
  BY <1>1, <1>3 DEF AnnounceInv, Expire, request, bounds, Announcing, PublishesStored,
     Announced, ToAnnounce, Stamp
<1>4. CASE ExpireEarly
  BY <1>4 DEF ExpireEarly, OnlyLocking
<1>5. ASSUME NEW p \in Procs, Failure(p) PROVE AnnounceInv'
  <2>1. failures' = failures + 1
    BY <1>5 DEF Failure, CallFails, SaveFails, PublishFails, Crash, Fails
  <2>2. QED
    BY <1>1, <2>1 DEF AnnounceInv
<1>6. ASSUME NEW p \in Procs, Step(p) PROVE AnnounceInv'
  <2>1. failures' = failures
    BY <1>6 DEF Step, Acquire, GiveUp, LoadMissing, LoadForJoin, LoadForRemoval,
       LoadForOperation, Create, Save, SaveStale, Reload, Publish, Release, bounds
  <2>2. QED
    BY <1>1, <1>6, <2>1, StepAnnounces DEF AnnounceInv
<1>7. ASSUME NEW p \in Procs, NEW command \in Commands, NEW expected,
             Begin(p, command, expected)
      PROVE  AnnounceInv'
  <2>1. failures' = failures
    BY <1>7 DEF Begin
  <2>2. QED
    BY <1>1, <1>7, <2>1, BeginAnnounces DEF AnnounceInv
<1>8. QED
  BY <1>2, <1>3, <1>4, <1>5, <1>6, <1>7 DEF Next

(* Among the use cases that lock, when no request is under way and nothing *)
(* has failed, the last published snapshot is the stored room              *)
(* (QuietRoomIsShown): every change a request saved, somebody published.   *)
THEOREM LockedQuietRoomIsShown ==
    ASSUME OnlyLocking PROVE Spec => []QuietRoomIsShown
<1>1. Init => AnnounceInv
  <2> SUFFICES ASSUME Init PROVE AnnounceInv
    OBVIOUS
  <2>1. Announced
    BY DEF Init, Announced, Snapshot
  <2>2. \A p \in Procs : PublishesStored(p)
    BY DEF Init, PublishesStored, NoTask
  <2>3. QED
    BY <2>1, <2>2, LockedInitOK DEF Init, AnnounceInv, Announcing
<1>2. AnnounceInv /\ [Next]_vars => AnnounceInv'
  BY AnnounceStepOK
<1>3. AnnounceInv => QuietRoomIsShown
  BY DEF AnnounceInv, Announcing, Announced, ToAnnounce, QuietRoomIsShown, Idle
<1>4. QED
  BY <1>1, <1>2, <1>3, PTL DEF Spec

=============================================================================
