-------------------------- MODULE InMemoryHubProofs --------------------------
(***************************************************************************)
(* What holds under every interleaving of requests in memory, for every    *)
(* set of clients and commands and any finite number of requests at a      *)
(* time: every room object is correct, also where update-name takes part;  *)
(* as long as it does not, the hub is settled between requests, everyone   *)
(* is shown the room, and the saved room changes by whole operations.      *)
(***************************************************************************)
EXTENDS InMemoryHub, RoomAggregateProofs, FiniteSetTheorems

-----------------------------------------------------------------------------
(* The heap: objects are correct rooms, references denote objects, and     *)
(* there is no garbage, which is why a new reference is always found.      *)

FunctionOfProcs(f) == f = [p \in Procs |-> f[p]]

Shape == FunctionOfProcs(pc) /\ FunctionOfProcs(task) /\ FunctionOfProcs(ptr)

Objects == [room : Rooms, version : Nat]

ObjectOK(o) == o \in Objects /\ RoomOK(o.room)

Held(x) == x = live \/ \E p \in Procs : ptr[p] = x

\* A heap in which a reference, if it is one, denotes an object.
Denotes(h, x) == x # None => x \in Refs /\ h[x] # None

ObjectsOK(h) ==
    /\ h \in [Refs -> Objects \cup {None}]
    /\ \A x \in Refs : h[x] # None => ObjectOK(h[x])

HeapOK ==
    /\ ObjectsOK(heap)
    /\ Denotes(heap, live)
    /\ \A p \in Procs : Denotes(heap, ptr[p])
    /\ \A x \in Refs : heap[x] # None => Held(x)

\* Where a request works on the object it has loaded.
HasLoaded == {"apply", "add", "bus", "save", "publish"}

RequestOK(p) ==
    /\ pc[p] # "idle" => TaskOK(task[p])
    /\ pc[p] = "lock" => task[p].kind \notin {"rejoin", "rollback"}
    /\ pc[p] \in {"load", "create", "apply"} =>
            task[p].kind \notin {"leave", "rejoin", "rollback"}
    /\ pc[p] \in {"create", "add"} => task[p].kind = "join"
    /\ pc[p] = "remove" => task[p].kind \in {"leave", "rollback"}
    /\ pc[p] \in HasLoaded <=> ptr[p] # None

HubInv ==
    /\ Shape
    /\ HeapOK
    /\ saved # None => ObjectOK(saved)
    /\ \A p \in Procs : RequestOK(p)

-----------------------------------------------------------------------------
(* References and objects *)

(* A rewritten object is still one, when its new room is correct. *)
LEMMA RewriteObject ==
    ASSUME NEW o, ObjectOK(o)
    PROVE  /\ \A r : RoomOK(r) => ObjectOK([o EXCEPT !.room = r])
           /\ \A v \in Nat : ObjectOK([o EXCEPT !.version = v])
           /\ \A r, v : RoomOK(r) /\ v \in Nat => ObjectOK(Object(r, v))
BY DEF ObjectOK, Objects, Object, RoomOK, RoomTypeOK

(* Objects and references are told apart from None. *)
LEMMA NoneIsNoObject ==
    /\ \A x \in Refs : x # None
    /\ \A o : ObjectOK(o) => o # None
    /\ Cardinality(Procs) \in Nat
<1>1. Cardinality(Procs) \in Nat
  BY HubAssumption, FS_CardinalityType
<1>2. QED
  BY <1>1, HubAssumption DEF Refs, ObjectOK, Objects

(* There are more references than can be held, and what is not held is     *)
(* free: so a new object always finds a reference.                         *)
LEMMA NewRefFree ==
    ASSUME HeapOK
    PROVE  NewRef \in Refs /\ heap[NewRef] = None
<1> DEFINE holders == Procs \cup {None}
           holder  == [x \in Refs |-> IF x = live THEN None
                                      ELSE CHOOSE p \in Procs : ptr[p] = x]
<1>1. SUFFICES ASSUME \A x \in Refs : heap[x] # None
               PROVE  FALSE
  BY <1>1 DEF NewRef
<1>2. \A x \in Refs : x = live \/ \E p \in Procs : ptr[p] = x
  BY <1>1 DEF HeapOK, Held
<1>3. None \notin Procs /\ IsFiniteSet(Procs) /\ Cardinality(Procs) \in Nat
  BY HubAssumption, NoneIsNoObject
<1>4. /\ IsFiniteSet(holders) /\ Cardinality(holders) = Cardinality(Procs) + 1
  BY <1>3, FS_AddElement
<1>5. /\ IsFiniteSet(Refs) /\ Cardinality(Refs) = Cardinality(Procs) + 2
  <2>1. /\ IsFiniteSet(0 .. Cardinality(Procs) + 1)
        /\ Cardinality(0 .. Cardinality(Procs) + 1) =
             IF 0 > Cardinality(Procs) + 1 THEN 0 ELSE Cardinality(Procs) + 1 - 0 + 1
    BY <1>3, FS_Interval
  <2>2. QED
    BY <1>3, <2>1 DEF Refs
<1>6. holder \in [Refs -> holders]
  BY <1>2
<1> HIDE DEF holders
<1>7. Cardinality(holders) < Cardinality(Refs)
  BY <1>3, <1>4, <1>5
<1>8. PICK x \in Refs, y \in Refs : x # y /\ holder[x] = holder[y]
  <2> HIDE DEF holder
  <2>1. QED
    BY <1>4, <1>5, <1>6, <1>7, FS_PigeonHole
<1>9. ASSUME NEW z \in Refs, z # live
      PROVE  holder[z] \in Procs /\ ptr[holder[z]] = z
  BY <1>2, <1>9
<1>10. \A z \in Refs : z = live => holder[z] = None
  OBVIOUS
<1> HIDE DEF holder
<1>11. QED
  BY <1>3, <1>8, <1>9, <1>10

(* Collecting garbage leaves a heap in order. *)
LEMMA CollectOK ==
    ASSUME NEW h, Collect(h), ObjectsOK(h), Denotes(h, live'),
           \A p \in Procs : Denotes(h, ptr'[p])
    PROVE  /\ HeapOK'
           /\ \A x \in Refs : x = live' \/ (\E p \in Procs : ptr'[p] = x)
                                => heap'[x] = h[x]
<1>1. heap' = [x \in Refs |->
                 IF x = live' \/ \E p \in Procs : ptr'[p] = x THEN h[x] ELSE None]
  BY DEF Collect
<1>2. ObjectsOK(heap')
  BY <1>1 DEF ObjectsOK
<1>3. Denotes(heap', live') /\ \A p \in Procs : Denotes(heap', ptr'[p])
  BY <1>1 DEF Denotes
<1>4. \A x \in Refs : heap'[x] # None => Held(x)'
  BY <1>1 DEF Held
<1>5. QED
  BY <1>1, <1>2, <1>3, <1>4 DEF HeapOK, ObjectsOK, Denotes

(* A heap that is left alone, while p may take the live reference. *)
LEMMA KeptHeapOK ==
    ASSUME Shape, HeapOK, NEW p \in Procs, heap' = heap, live' = live,
           \/ ptr' = ptr
           \/ ptr' = [ptr EXCEPT ![p] = live] /\ ptr[p] = None
           \/ ptr' = [ptr EXCEPT ![p] = None] /\ ptr[p] = None
    PROVE  HeapOK'
<1>1. FunctionOfProcs(ptr)
  BY DEF Shape
<1>2. /\ \A q \in Procs : ptr'[q] \in {ptr[q], live, None}
      /\ \A q \in Procs : ptr[q] # None => ptr'[q] = ptr[q]
  BY <1>1 DEF FunctionOfProcs
<1>3. ObjectsOK(heap)' /\ Denotes(heap, live)'
  BY DEF HeapOK, ObjectsOK, Denotes
<1>4. \A q \in Procs : Denotes(heap, ptr[q])'
  BY <1>2 DEF HeapOK, Denotes
<1>5. \A x \in Refs : heap[x] # None => Held(x)'
  BY <1>2, NoneIsNoObject DEF HeapOK, Held
<1>6. QED
  BY <1>3, <1>4, <1>5 DEF HeapOK

(* A heap in which the object of p is replaced by another one. *)
LEMMA RewriteHeapOK ==
    ASSUME HeapOK, NEW p \in Procs, ptr[p] # None, NEW o, ObjectOK(o),
           heap' = [heap EXCEPT ![ptr[p]] = o], live' = live, ptr' = ptr
    PROVE  HeapOK'
<1>1. ptr[p] \in Refs /\ heap \in [Refs -> Objects \cup {None}]
  BY DEF HeapOK, Denotes, ObjectsOK
<1>2. o # None /\ o \in Objects
  BY NoneIsNoObject DEF ObjectOK
<1>3. /\ heap' \in [Refs -> Objects \cup {None}]
      /\ \A x \in Refs : heap'[x] = IF x = ptr[p] THEN o ELSE heap[x]
  BY <1>1, <1>2
<1>4. ObjectsOK(heap')
  BY <1>3 DEF HeapOK, ObjectsOK
<1>5. Denotes(heap', live) /\ \A q \in Procs : Denotes(heap', ptr[q])
  BY <1>2, <1>3 DEF HeapOK, Denotes
<1>6. \A x \in Refs : heap'[x] # None => Held(x)'
  BY <1>3 DEF HeapOK, Held
<1>7. QED
  BY <1>4, <1>5, <1>6 DEF HeapOK

-----------------------------------------------------------------------------
(* What a step does to the requests *)

(* Only request p changed, and it is still in order. *)
OnlyChanged(p) ==
    /\ Shape'
    /\ RequestOK(p)'
    /\ \A q \in Procs \ {p} : pc'[q] = pc[q] /\ task'[q] = task[q] /\ ptr'[q] = ptr[q]

SavedOK == saved # None => ObjectOK(saved)

(* Together with a heap in order that gives the invariant.  That only p    *)
(* has changed is what every lemma about an action of p shows besides.     *)
LEMMA OneRequest ==
    ASSUME HubInv, NEW p \in Procs, OnlyChanged(p), HeapOK', SavedOK'
    PROVE  HubInv' /\ OnlyChanged(p)
<1>1. ASSUME NEW q \in Procs \ {p} PROVE RequestOK(q)'
  <2>1. RequestOK(q)
    BY DEF HubInv
  <2>2. QED
    BY <2>1 DEF OnlyChanged, RequestOK
<1>2. QED
  BY <1>1 DEF OnlyChanged, HubInv, SavedOK

(* What the actions assume and what they find. *)
LEMMA RequestFacts ==
    ASSUME HubInv, NEW p \in Procs
    PROVE  /\ Shape /\ HeapOK /\ SavedOK /\ RequestOK(p)
           /\ pc[p] # "idle" => TaskOK(task[p]) /\ task[p].sender \in ClientIDs
           /\ ptr[p] # None => ptr[p] \in Refs /\ ObjectOK(Mine(p))
           /\ live # None => live \in Refs /\ ObjectOK(heap[live])
BY DEF HubInv, SavedOK, RequestOK, TaskOK, HeapOK, Denotes, ObjectsOK, Mine

(* The program counter moves. *)
LEMMA GotoFacts ==
    ASSUME Shape, NEW p \in Procs, NEW label, Goto(p, label)
    PROVE  /\ FunctionOfProcs(pc') /\ pc'[p] = label
           /\ \A q \in Procs \ {p} : pc'[q] = pc[q]
BY DEF Shape, Goto, FunctionOfProcs

(* A request changes its reference, or its task. *)
LEMMA AssignFacts ==
    ASSUME Shape, NEW p \in Procs, NEW x
    PROVE  /\ ptr' = [ptr EXCEPT ![p] = x] =>
                /\ FunctionOfProcs(ptr') /\ ptr'[p] = x
                /\ \A q \in Procs \ {p} : ptr'[q] = ptr[q]
           /\ task' = [task EXCEPT ![p] = x] =>
                /\ FunctionOfProcs(task') /\ task'[p] = x
                /\ \A q \in Procs \ {p} : task'[q] = task[q]
BY DEF Shape, FunctionOfProcs

(* A request that moves on with the task and the reference it has. *)
LEMMA MoveFacts ==
    ASSUME Shape, NEW p \in Procs, NEW label, Goto(p, label), RequestOK(p),
           UNCHANGED <<task, ptr>>, pc[p] # "idle",
           label \notin {"idle", "lock", "load", "create", "apply", "remove"},
           label = "add" => task[p].kind = "join",
           label \in HasLoaded <=> pc[p] \in HasLoaded
    PROVE  OnlyChanged(p)
<1>1. /\ FunctionOfProcs(pc') /\ pc'[p] = label
      /\ \A q \in Procs \ {p} : pc'[q] = pc[q]
  BY GotoFacts
<1>2. Shape'
  BY <1>1 DEF Shape
<1>3. RequestOK(p)'
  BY <1>1 DEF RequestOK
<1>4. QED
  BY <1>1, <1>2, <1>3 DEF OnlyChanged

(* A request that returns: it has no reference any more. *)
LEMMA ReturnFacts ==
    ASSUME Shape, NEW p \in Procs, RequestOK(p), pc[p] # "idle", Return(p)
    PROVE  OnlyChanged(p) /\ ptr'[p] = None
<1>1. /\ FunctionOfProcs(pc) /\ FunctionOfProcs(ptr) /\ FunctionOfProcs(task)
  BY DEF Shape
<1>2. /\ FunctionOfProcs(pc') /\ pc'[p] = (IF Locks(p) THEN "unlock" ELSE "idle")
      /\ \A q \in Procs \ {p} : pc'[q] = pc[q]
  BY GotoFacts DEF Return
<1>3. /\ FunctionOfProcs(ptr') /\ ptr'[p] = None
      /\ \A q \in Procs \ {p} : ptr'[q] = ptr[q]
  BY AssignFacts DEF Return
<1>4. /\ FunctionOfProcs(task')
      /\ \A q \in Procs \ {p} : task'[q] = task[q]
      /\ Locks(p) => task'[p] = task[p]
  <2>1. \/ task' = task /\ Locks(p)
        \/ task' = [task EXCEPT ![p] = NoTask] /\ ~Locks(p)
    BY DEF Return
  <2>2. QED
    BY <1>1, <2>1, AssignFacts
<1>5. Shape'
  BY <1>2, <1>3, <1>4 DEF Shape
<1>6. RequestOK(p)'
  BY <1>2, <1>3, <1>4 DEF RequestOK, HasLoaded
<1>7. QED
  BY <1>2, <1>3, <1>4, <1>5, <1>6 DEF OnlyChanged

-----------------------------------------------------------------------------
(* One lemma for each group of actions *)

(* Begin: the command is one of Commands, hence in order. *)
LEMMA BeginOK ==
    ASSUME HubInv, NEW p \in Procs, NEW command \in Commands, NEW expected,
           Begin(p, command, expected)
    PROVE  HubInv' /\ OnlyChanged(p)
<1> DEFINE t == [kind |-> command.kind, sender |-> command.sender,
                 arg |-> command.arg, expected |-> expected]
<1>1. Shape /\ HeapOK /\ SavedOK /\ RequestOK(p)
  BY RequestFacts
<1>2. /\ task' = [task EXCEPT ![p] = t] /\ pc[p] = "idle"
      /\ Goto(p, IF command.kind = "update-name" THEN "load" ELSE "lock")
      /\ UNCHANGED <<heap, live, saved, ptr>>
  BY DEF Begin, Idle, store
<1>3. /\ t.kind = command.kind /\ t.sender = command.sender /\ t.arg = command.arg
  OBVIOUS
<1>4. TaskOK(t) /\ t.kind \notin {"rejoin", "rollback"}
  BY <1>3, CommandAssumption DEF TaskOK, Kinds, GuardedKinds
<1> HIDE DEF t
<1>5. /\ FunctionOfProcs(task') /\ task'[p] = t
      /\ \A q \in Procs \ {p} : task'[q] = task[q]
  BY <1>1, <1>2, AssignFacts
<1>6. /\ FunctionOfProcs(pc')
      /\ pc'[p] = IF t.kind = "update-name" THEN "load" ELSE "lock"
      /\ \A q \in Procs \ {p} : pc'[q] = pc[q]
  BY <1>1, <1>2, <1>3, GotoFacts
<1>7. RequestOK(p)'
  BY <1>1, <1>2, <1>4, <1>5, <1>6 DEF RequestOK, HasLoaded
<1>8. OnlyChanged(p)
  BY <1>1, <1>2, <1>5, <1>6, <1>7 DEF OnlyChanged, Shape
<1>9. HeapOK' /\ SavedOK'
  BY <1>1, <1>2, KeptHeapOK DEF SavedOK
<1>10. QED
  BY <1>8, <1>9, OneRequest

(* The lock, and loading the room. *)
LEMMA LoadStepOK ==
    ASSUME HubInv, NEW p \in Procs, Lock(p) \/ Unlock(p) \/ LoadRoom(p) \/ LoadMissing(p)
    PROVE  HubInv' /\ OnlyChanged(p)
<1>1. Shape /\ HeapOK /\ SavedOK /\ RequestOK(p)
  BY RequestFacts
<1>2. /\ pc[p] \in {"lock", "unlock", "load"} /\ pc[p] # "idle" /\ pc[p] \notin HasLoaded
      /\ heap' = heap /\ live' = live /\ saved' = saved
  BY DEF Lock, Unlock, LoadRoom, LoadMissing, store, HasLoaded
<1>3. ptr[p] = None
  BY <1>1, <1>2 DEF RequestOK
<1>4. ASSUME Lock(p) PROVE OnlyChanged(p) /\ ptr' = ptr
  <2>1. /\ Goto(p, IF task[p].kind = "leave" THEN "remove" ELSE "load")
        /\ UNCHANGED <<task, ptr>> /\ pc[p] = "lock"
    BY <1>4 DEF Lock
  <2>2. /\ FunctionOfProcs(pc')
        /\ pc'[p] = IF task[p].kind = "leave" THEN "remove" ELSE "load"
        /\ \A q \in Procs \ {p} : pc'[q] = pc[q]
    BY <1>1, <2>1, GotoFacts
  <2>3. RequestOK(p)'
    BY <1>1, <1>3, <2>1, <2>2 DEF RequestOK, HasLoaded
  <2>4. QED
    BY <1>1, <2>1, <2>2, <2>3 DEF OnlyChanged, Shape
<1>5. ASSUME Unlock(p) PROVE OnlyChanged(p) /\ ptr' = ptr
  <2>1. Goto(p, "idle") /\ task' = [task EXCEPT ![p] = NoTask] /\ ptr' = ptr
    BY <1>5 DEF Unlock
  <2>2. /\ FunctionOfProcs(pc') /\ pc'[p] = "idle"
        /\ \A q \in Procs \ {p} : pc'[q] = pc[q]
    BY <1>1, <2>1, GotoFacts
  <2>3. FunctionOfProcs(task') /\ \A q \in Procs \ {p} : task'[q] = task[q]
    BY <1>1, <2>1, AssignFacts
  <2>4. RequestOK(p)'
    BY <1>1, <1>3, <2>1, <2>2 DEF RequestOK, HasLoaded
  <2>5. QED
    BY <1>1, <2>1, <2>2, <2>3, <2>4 DEF OnlyChanged, Shape
<1>6. ASSUME LoadRoom(p) PROVE OnlyChanged(p) /\ ptr' = [ptr EXCEPT ![p] = live]
  <2>1. /\ Goto(p, "apply") /\ task' = task /\ ptr' = [ptr EXCEPT ![p] = live]
        /\ live # None /\ pc[p] = "load"
    BY <1>6 DEF LoadRoom
  <2>2. /\ FunctionOfProcs(pc') /\ pc'[p] = "apply"
        /\ \A q \in Procs \ {p} : pc'[q] = pc[q]
    BY <1>1, <2>1, GotoFacts
  <2>3. /\ FunctionOfProcs(ptr') /\ ptr'[p] = live
        /\ \A q \in Procs \ {p} : ptr'[q] = ptr[q]
    BY <1>1, <2>1, AssignFacts
  <2>4. RequestOK(p)'
    BY <1>1, <2>1, <2>2, <2>3 DEF RequestOK, HasLoaded
  <2>5. QED
    BY <1>1, <2>1, <2>2, <2>3, <2>4 DEF OnlyChanged, Shape
<1>7. ASSUME LoadMissing(p)
      PROVE  /\ OnlyChanged(p)
             /\ ptr' = ptr \/ ptr' = [ptr EXCEPT ![p] = None]
  <2>1. CASE task[p].kind = "join"
    <3>1. Goto(p, "create") /\ UNCHANGED <<task, ptr>>
      BY <1>7, <2>1 DEF LoadMissing
    <3>2. /\ FunctionOfProcs(pc') /\ pc'[p] = "create"
          /\ \A q \in Procs \ {p} : pc'[q] = pc[q]
      BY <1>1, <3>1, GotoFacts
    <3>3. RequestOK(p)'
      BY <1>1, <1>2, <1>3, <2>1, <3>1, <3>2 DEF RequestOK, HasLoaded
    <3>4. QED
      BY <1>1, <3>1, <3>2, <3>3 DEF OnlyChanged, Shape
  <2>2. CASE task[p].kind # "join"
    BY <1>1, <1>2, <1>7, <2>2, ReturnFacts DEF LoadMissing, Return
  <2>3. QED
    BY <2>1, <2>2
<1>8. HeapOK' /\ SavedOK' /\ OnlyChanged(p)
  BY <1>1, <1>2, <1>3, <1>4, <1>5, <1>6, <1>7, KeptHeapOK DEF SavedOK
<1>9. QED
  BY <1>8, OneRequest

(* Create: the new object takes a free reference, and nobody else's        *)
(* reference is touched.                                                   *)
LEMMA CreateOK ==
    ASSUME HubInv, NEW p \in Procs, Create(p)
    PROVE  HubInv' /\ OnlyChanged(p)
<1> DEFINE o == Object(NewRoom, 0)
           h == [heap EXCEPT ![NewRef] = o]
<1>1. Shape /\ HeapOK /\ SavedOK /\ RequestOK(p)
  BY RequestFacts
<1>2. /\ pc[p] = "create" /\ live' = NewRef /\ saved' = o /\ task' = task
      /\ ptr' = [ptr EXCEPT ![p] = NewRef] /\ Collect(h) /\ Goto(p, "apply")
  BY DEF Create
<1>3. ObjectOK(o) /\ o # None /\ o \in Objects
  <2>1. ObjectOK(o)
    BY NewRoomOK DEF ObjectOK, Objects, Object, RoomOK, RoomTypeOK
  <2>2. QED
    BY <2>1, NoneIsNoObject DEF ObjectOK
<1> HIDE DEF o
<1>4. NewRef \in Refs /\ NewRef # None /\ heap[NewRef] = None
  BY <1>1, NewRefFree, NoneIsNoObject
<1>5. /\ FunctionOfProcs(pc') /\ pc'[p] = "apply"
      /\ \A q \in Procs \ {p} : pc'[q] = pc[q]
  BY <1>1, <1>2, GotoFacts
<1>6. /\ FunctionOfProcs(ptr') /\ ptr'[p] = NewRef
      /\ \A q \in Procs \ {p} : ptr'[q] = ptr[q]
  BY <1>1, <1>2, AssignFacts
<1>7. RequestOK(p)'
  BY <1>1, <1>2, <1>4, <1>5, <1>6 DEF RequestOK, HasLoaded
<1>8. OnlyChanged(p)
  BY <1>1, <1>2, <1>5, <1>6, <1>7 DEF OnlyChanged, Shape
<1>9. HeapOK'
  <2>1. ObjectsOK(h) /\ h[NewRef] = o /\ \A x \in Refs : x # NewRef => h[x] = heap[x]
    BY <1>1, <1>3, <1>4 DEF HeapOK, ObjectsOK
  <2> HIDE DEF h
  <2>2. \A q \in Procs : Denotes(h, ptr'[q])
    BY <1>1, <1>3, <1>4, <1>6, <2>1 DEF HeapOK, Denotes
  <2>3. Denotes(h, live')
    BY <1>2, <1>3, <1>4, <2>1 DEF Denotes
  <2>4. QED
    BY <1>2, <2>1, <2>2, <2>3, CollectOK
<1>10. SavedOK'
  BY <1>2, <1>3 DEF SavedOK
<1>11. QED
  BY <1>8, <1>9, <1>10, OneRequest

(* The saved room becomes a copy of a correct one. *)
LEMMA RefreshOK ==
    ASSUME SavedOK, NEW o, RoomOK(o.room), refreshSavedRoom(o)
    PROVE  SavedOK'
<1>1. saved # None => saved.version \in Nat
  BY DEF SavedOK, ObjectOK, Objects
<1>2. CASE saved # None
  <2>1. saved' = Object(o.room, saved.version)
    BY <1>2 DEF refreshSavedRoom
  <2>2. QED
    BY <1>1, <1>2, <2>1 DEF SavedOK, ObjectOK, Objects, Object, RoomOK, RoomTypeOK
<1>3. QED
  BY <1>2 DEF refreshSavedRoom, SavedOK

(* A join: the client comes into the object, then into the hub. *)
LEMMA JoinStepOK ==
    ASSUME HubInv, NEW p \in Procs, ApplyJoin(p) \/ AddClient(p) \/ AddBus(p)
    PROVE  HubInv' /\ OnlyChanged(p)
<1>1. Shape /\ HeapOK /\ SavedOK /\ RequestOK(p)
  BY RequestFacts
<1>2. pc[p] \in HasLoaded /\ pc[p] # "idle" /\ live' = live /\ ptr' = ptr
  BY DEF ApplyJoin, AddClient, AddBus, HasLoaded, store
<1>3. /\ ptr[p] # None /\ ptr[p] \in Refs /\ ObjectOK(Mine(p))
      /\ task[p].sender \in ClientIDs /\ TaskOK(task[p])
  BY <1>1, <1>2, RequestFacts DEF RequestOK
<1>4. ASSUME ApplyJoin(p), Reconnects(p) PROVE OnlyChanged(p) /\ HeapOK'
  <2>1. /\ task' = [task EXCEPT ![p].kind = "rejoin"] /\ Goto(p, "bus") /\ heap' = heap
    BY <1>4 DEF ApplyJoin
  <2>2. /\ FunctionOfProcs(pc') /\ pc'[p] = "bus"
        /\ \A q \in Procs \ {p} : pc'[q] = pc[q]
    BY <1>1, <2>1, GotoFacts
  <2>3. /\ FunctionOfProcs(task') /\ task'[p] = [task[p] EXCEPT !.kind = "rejoin"]
        /\ \A q \in Procs \ {p} : task'[q] = task[q]
    BY <1>1, <2>1 DEF Shape, FunctionOfProcs
  <2>4. TaskOK(task'[p])
    BY <1>3, <2>3 DEF TaskOK, Kinds, GuardedKinds
  <2>5. RequestOK(p)'
    BY <1>1, <1>2, <1>3, <2>2, <2>4 DEF RequestOK, HasLoaded
  <2>6. OnlyChanged(p)
    BY <1>1, <1>2, <2>2, <2>3, <2>5 DEF OnlyChanged, Shape
  <2>7. HeapOK'
    BY <1>1, <1>2, <2>1, KeptHeapOK
  <2>8. QED
    BY <2>6, <2>7
<1>5. ASSUME ApplyJoin(p), ~Reconnects(p) PROVE OnlyChanged(p) /\ HeapOK'
  <2> DEFINE r == NewClient(Mine(p).room, task[p].sender)
             o == [Mine(p) EXCEPT !.room = r]
  <2>1. /\ heap' = [heap EXCEPT ![ptr[p]] = o] /\ Goto(p, "add") /\ task' = task
        /\ task[p].kind = "join"
    BY <1>5 DEF ApplyJoin, Mine
  <2>2. RoomOK(r)
    BY <1>3, <1>5, NewClientOK DEF ObjectOK, Reconnects
  <2> HIDE DEF r
  <2>3. ObjectOK(o)
    BY <1>3, <2>2, RewriteObject
  <2> HIDE DEF o
  <2>4. HeapOK'
    BY <1>1, <1>2, <1>3, <2>1, <2>3, RewriteHeapOK
  <2>5. OnlyChanged(p)
    <3>1. "add" \in HasLoaded
      BY DEF HasLoaded
    <3>2. QED
      BY <1>1, <1>2, <2>1, <3>1, MoveFacts
  <2>6. QED
    BY <2>4, <2>5
<1>6. ASSUME AddClient(p) \/ AddBus(p) PROVE OnlyChanged(p) /\ HeapOK'
  <2>1. /\ Goto(p, "bus") \/ Goto(p, "publish")
        /\ heap' = heap /\ task' = task
    BY <1>6 DEF AddClient, AddBus, store
  <2>2. "bus" \in HasLoaded /\ "publish" \in HasLoaded
    BY DEF HasLoaded
  <2>3. OnlyChanged(p)
    BY <1>1, <1>2, <2>1, <2>2, MoveFacts
  <2>4. QED
    BY <1>1, <1>2, <2>1, <2>3, KeptHeapOK
<1>7. SavedOK'
  <2>1. CASE AddClient(p)
    BY <1>1, <1>3, <2>1, RefreshOK DEF AddClient, ObjectOK
  <2>2. CASE ApplyJoin(p) \/ AddBus(p)
    BY <1>1, <2>2 DEF SavedOK, ApplyJoin, AddBus, store
  <2>3. QED
    BY <2>1, <2>2
<1>8. QED
  BY <1>4, <1>5, <1>6, <1>7, OneRequest

(* A request that lets go of its object: it may be collected. *)
LEMMA LetGoOK ==
    ASSUME HubInv, NEW p \in Procs, OnlyChanged(p), ptr'[p] = None,
           Collect(heap), live' = live
    PROVE  HeapOK'
<1>1. HeapOK
  BY DEF HubInv
<1>2. \A q \in Procs : Denotes(heap, ptr'[q])
  BY <1>1 DEF HeapOK, Denotes, OnlyChanged
<1>3. QED
  BY <1>1, <1>2, CollectOK DEF HeapOK

(* An operation changes the object in place, and keeps it correct. *)
LEMMA ApplyOK ==
    ASSUME HubInv, NEW p \in Procs, Apply(p)
    PROVE  HubInv' /\ OnlyChanged(p)
<1>1. Shape /\ HeapOK /\ SavedOK /\ RequestOK(p)
  BY RequestFacts
<1>2. /\ pc[p] = "apply" /\ pc[p] \in HasLoaded /\ "save" \in HasLoaded
      /\ live' = live /\ saved' = saved /\ task[p].kind # "join"
  BY DEF Apply, HasLoaded
<1>3. /\ ptr[p] # None /\ ptr[p] \in Refs /\ ObjectOK(Mine(p)) /\ TaskOK(task[p])
  BY <1>1, <1>2, RequestFacts DEF RequestOK
<1>4. SavedOK'
  BY <1>1, <1>2 DEF SavedOK
<1>5. CASE OperationError(task[p], Mine(p).room) = OK
  <2> DEFINE r == Operation(task[p], Mine(p).room)
             o == [Mine(p) EXCEPT !.room = r]
  <2>1. /\ heap' = [heap EXCEPT ![ptr[p]] = o] /\ Goto(p, "save")
        /\ task' = task /\ ptr' = ptr
    BY <1>5 DEF Apply, Mine
  <2>2. task[p].kind \in Kinds \ {"join", "leave"}
    BY <1>1, <1>2, <1>3 DEF RequestOK, TaskOK
  <2>3. RoomOK(r)
    BY <1>3, <1>5, <2>2, OperationOK DEF ObjectOK
  <2> HIDE DEF r
  <2>4. ObjectOK(o)
    BY <1>3, <2>3, RewriteObject
  <2> HIDE DEF o
  <2>5. HeapOK'
    BY <1>1, <1>2, <1>3, <2>1, <2>4, RewriteHeapOK
  <2>6. OnlyChanged(p)
    BY <1>1, <1>2, <2>1, MoveFacts
  <2>7. QED
    BY <1>4, <2>5, <2>6, OneRequest
<1>6. CASE OperationError(task[p], Mine(p).room) # OK
  <2>1. Return(p) /\ Collect(heap)
    BY <1>6 DEF Apply
  <2>2. OnlyChanged(p) /\ ptr'[p] = None
    BY <1>1, <1>2, <2>1, ReturnFacts
  <2>3. QED
    BY <1>2, <1>4, <2>1, <2>2, LetGoOK, OneRequest
<1>7. QED
  BY <1>5, <1>6

(* A save copies the object, under a new version. *)
LEMMA SaveStepOK ==
    ASSUME HubInv, NEW p \in Procs, SaveRoom(p) \/ SaveRoomIfVersion(p)
    PROVE  HubInv' /\ OnlyChanged(p)
<1>1. Shape /\ HeapOK /\ SavedOK /\ RequestOK(p)
  BY RequestFacts
<1>2. pc[p] = "save" /\ pc[p] \in HasLoaded /\ "publish" \in HasLoaded
  BY DEF SaveRoom, SaveRoomIfVersion, HasLoaded
<1>3. ptr[p] # None /\ ptr[p] \in Refs /\ ObjectOK(Mine(p))
  BY <1>1, <1>2, RequestFacts DEF RequestOK
<1>4. PICK v \in Nat : SaveAs(p, v)
  BY <1>1, <1>3 DEF SaveRoom, SaveRoomIfVersion, persistedVersion, SavedOK,
                    ObjectOK, Objects
<1> DEFINE o == [Mine(p) EXCEPT !.version = v]
<1>5. /\ saved' = Object(Mine(p).room, v) /\ heap' = [heap EXCEPT ![ptr[p]] = o]
      /\ Goto(p, "publish") /\ UNCHANGED <<live, task, ptr>>
  BY <1>4 DEF SaveAs, Mine
<1>6. ObjectOK(o) /\ ObjectOK(Object(Mine(p).room, v))
  BY <1>3, RewriteObject DEF ObjectOK
<1> HIDE DEF o
<1>7. HeapOK'
  BY <1>1, <1>3, <1>5, <1>6, RewriteHeapOK
<1>8. SavedOK'
  BY <1>5, <1>6 DEF SavedOK
<1>9. OnlyChanged(p)
  BY <1>1, <1>2, <1>5, MoveFacts
<1>10. QED
  BY <1>7, <1>8, <1>9, OneRequest

(* A refused save: the live room may become a copy of the saved one. *)
LEMMA SaveStaleOK ==
    ASSUME HubInv, NEW p \in Procs, SaveStale(p)
    PROVE  HubInv' /\ OnlyChanged(p)
<1>1. Shape /\ HeapOK /\ SavedOK /\ RequestOK(p)
  BY RequestFacts
<1>2. pc[p] # "idle" /\ Return(p) /\ saved' = saved
  BY DEF SaveStale
<1>3. OnlyChanged(p) /\ ptr'[p] = None
  BY <1>1, <1>2, ReturnFacts
<1>4. SavedOK'
  BY <1>1, <1>2 DEF SavedOK
<1>5. CASE live = ptr[p] /\ saved # None
  <2> DEFINE h == [heap EXCEPT ![NewRef] = saved]
  <2>1. live' = NewRef /\ Collect(h)
    BY <1>5 DEF SaveStale
  <2>2. NewRef \in Refs /\ NewRef # None /\ heap[NewRef] = None
    BY <1>1, NewRefFree, NoneIsNoObject
  <2>3. ObjectOK(saved) /\ saved \in Objects
    BY <1>1, <1>5 DEF SavedOK, ObjectOK
  <2>4. ObjectsOK(h) /\ h[NewRef] = saved /\ \A x \in Refs : x # NewRef => h[x] = heap[x]
    BY <1>1, <2>2, <2>3 DEF HeapOK, ObjectsOK
  <2> HIDE DEF h
  <2>5. \A q \in Procs : Denotes(h, ptr'[q])
    BY <1>1, <1>3, <2>2, <2>4 DEF HeapOK, Denotes, OnlyChanged
  <2>6. Denotes(h, live')
    BY <1>5, <2>1, <2>2, <2>4 DEF Denotes
  <2>7. HeapOK'
    BY <2>1, <2>4, <2>5, <2>6, CollectOK
  <2>8. QED
    BY <1>3, <1>4, <2>7, OneRequest
<1>6. CASE ~(live = ptr[p] /\ saved # None)
  <2>1. live' = live /\ Collect(heap)
    BY <1>6 DEF SaveStale
  <2>2. QED
    BY <1>3, <1>4, <2>1, LetGoOK, OneRequest
<1>7. QED
  BY <1>5, <1>6

(* A leave, or a join that is undone: the room without its client is       *)
(* correct, and goes when it is empty.                                     *)
LEMMA RemoveOK ==
    ASSUME HubInv, NEW p \in Procs, RemoveRoomClient(p)
    PROVE  HubInv' /\ OnlyChanged(p)
<1>1. Shape /\ HeapOK /\ SavedOK /\ RequestOK(p)
  BY RequestFacts
<1>2. pc[p] = "remove" /\ pc[p] \notin HasLoaded /\ pc[p] # "idle"
  BY DEF RemoveRoomClient, HasLoaded
<1>3. ptr[p] = None /\ task[p].sender \in ClientIDs
  BY <1>1, <1>2, RequestFacts DEF RequestOK
<1>4. Return(p) => OnlyChanged(p) /\ ptr'[p] = None
  BY <1>1, <1>2, ReturnFacts
<1>5. CASE live = None
  <2>1. Return(p) /\ UNCHANGED <<heap, live, saved>>
    BY <1>5 DEF RemoveRoomClient, store
  <2>2. HeapOK'
    BY <1>1, <1>3, <2>1, KeptHeapOK DEF Return
  <2>3. QED
    BY <1>1, <1>4, <2>1, <2>2, OneRequest DEF SavedOK
<1>6. CASE live # None /\ IsEmpty(Left(p))
  <2>1. Return(p) /\ live' = None /\ saved' = None /\ Collect(heap)
    BY <1>6 DEF RemoveRoomClient
  <2>2. \A q \in Procs : Denotes(heap, ptr'[q])
    BY <1>1, <1>4, <2>1 DEF HeapOK, Denotes, OnlyChanged
  <2>3. HeapOK'
    BY <1>1, <2>1, <2>2, CollectOK DEF HeapOK, Denotes
  <2>4. QED
    BY <1>4, <2>1, <2>3, OneRequest DEF SavedOK
<1>7. CASE live # None /\ ~IsEmpty(Left(p))
  <2> DEFINE o == [heap[live] EXCEPT !.room = Left(p)]
             h == [heap EXCEPT ![live] = o]
  <2>1. /\ refreshSavedRoom(Object(Left(p), 0)) /\ live' = live /\ Collect(h)
        /\ \/ Return(p)
           \/ /\ ptr' = [ptr EXCEPT ![p] = live]
              /\ Goto(p, "publish")
              /\ task' = task
    BY <1>7 DEF RemoveRoomClient
  <2>2. live \in Refs /\ ObjectOK(heap[live])
    BY <1>7, RequestFacts
  <2>3. RoomOK(Left(p))
    BY <1>3, <2>2, RemoveClientOK DEF Left, ObjectOK
  <2>4. ObjectOK(o) /\ o # None /\ o \in Objects
    <3>1. ObjectOK(o)
      BY <2>2, <2>3, RewriteObject
    <3>2. QED
      BY <3>1, NoneIsNoObject DEF ObjectOK
  <2> HIDE DEF o
  <2>5. ObjectsOK(h) /\ h[live] = o /\ \A x \in Refs : x # live => h[x] = heap[x]
    BY <1>1, <2>2, <2>4 DEF HeapOK, ObjectsOK
  <2> HIDE DEF h
  <2>6. OnlyChanged(p) /\ ptr'[p] \in {None, live}
    <3>1. CASE Return(p)
      BY <1>4, <3>1
    <3>2. CASE /\ ptr' = [ptr EXCEPT ![p] = live]
               /\ Goto(p, "publish")
               /\ task' = task
      <4>1. /\ FunctionOfProcs(pc') /\ pc'[p] = "publish"
            /\ \A q \in Procs \ {p} : pc'[q] = pc[q]
        BY <1>1, <3>2, GotoFacts
      <4>2. /\ FunctionOfProcs(ptr') /\ ptr'[p] = live
            /\ \A q \in Procs \ {p} : ptr'[q] = ptr[q]
        BY <1>1, <3>2, AssignFacts
      <4>3. RequestOK(p)'
        BY <1>1, <1>2, <1>7, <3>2, <4>1, <4>2 DEF RequestOK, HasLoaded
      <4>4. QED
        BY <1>1, <3>2, <4>1, <4>2, <4>3 DEF OnlyChanged, Shape
    <3>3. QED
      BY <2>1, <3>1, <3>2
  <2>7. \A q \in Procs : Denotes(h, ptr'[q])
    BY <1>1, <2>2, <2>4, <2>5, <2>6 DEF HeapOK, Denotes, OnlyChanged
  <2>8. Denotes(h, live')
    BY <2>1, <2>2, <2>4, <2>5 DEF Denotes
  <2>9. HeapOK'
    BY <2>1, <2>5, <2>7, <2>8, CollectOK
  <2>10. SavedOK'
    <3>1. Object(Left(p), 0).room = Left(p)
      BY DEF Object
    <3>2. QED
      BY <1>1, <2>1, <2>3, <3>1, RefreshOK
  <2>11. QED
    BY <2>6, <2>9, <2>10, OneRequest
<1>8. QED
  BY <1>5, <1>6, <1>7

(* A broadcast only reads; a join whose broadcast fails is undone next. *)
LEMMA BroadcastOK ==
    ASSUME HubInv, NEW p \in Procs, BroadcastToRoom(p) \/ BroadcastFails(p)
    PROVE  HubInv' /\ OnlyChanged(p)
<1>1. Shape /\ HeapOK /\ SavedOK /\ RequestOK(p)
  BY RequestFacts
<1>2. pc[p] = "publish" /\ live' = live /\ saved' = saved /\ Collect(heap)
  BY DEF BroadcastToRoom, BroadcastFails
<1>3. TaskOK(task[p])
  BY <1>1, <1>2 DEF RequestOK
<1>4. \/ Return(p)
      \/ /\ task' = [task EXCEPT ![p].kind = "rollback"]
         /\ Goto(p, "remove")
         /\ ptr' = [ptr EXCEPT ![p] = None]
  BY DEF BroadcastToRoom, BroadcastFails
<1>5. OnlyChanged(p) /\ ptr'[p] = None
  <2>1. CASE Return(p)
    BY <1>1, <1>2, <2>1, ReturnFacts
  <2>2. CASE /\ task' = [task EXCEPT ![p].kind = "rollback"]
             /\ Goto(p, "remove")
             /\ ptr' = [ptr EXCEPT ![p] = None]
    <3>1. /\ FunctionOfProcs(pc') /\ pc'[p] = "remove"
          /\ \A q \in Procs \ {p} : pc'[q] = pc[q]
      BY <1>1, <2>2, GotoFacts
    <3>2. /\ FunctionOfProcs(ptr') /\ ptr'[p] = None
          /\ \A q \in Procs \ {p} : ptr'[q] = ptr[q]
      BY <1>1, <2>2, AssignFacts
    <3>3. /\ FunctionOfProcs(task') /\ task'[p] = [task[p] EXCEPT !.kind = "rollback"]
          /\ \A q \in Procs \ {p} : task'[q] = task[q]
      BY <1>1, <2>2 DEF Shape, FunctionOfProcs
    <3>4. TaskOK(task'[p]) /\ task'[p].kind = "rollback"
      BY <1>3, <3>3 DEF TaskOK, Kinds, GuardedKinds
    <3>5. RequestOK(p)'
      BY <3>1, <3>2, <3>4 DEF RequestOK, HasLoaded
    <3>6. QED
      BY <1>1, <3>1, <3>2, <3>3, <3>5 DEF OnlyChanged, Shape
  <2>3. QED
    BY <1>4, <2>1, <2>2
<1>6. HeapOK' /\ SavedOK'
  BY <1>1, <1>2, <1>5, LetGoOK DEF SavedOK
<1>7. QED
  BY <1>5, <1>6, OneRequest

-----------------------------------------------------------------------------
(* Every room object is correct. *)

LEMMA HubStepOK == HubInv /\ [Next]_vars => HubInv'
<1> SUFFICES ASSUME HubInv, [Next]_vars PROVE HubInv'
  OBVIOUS
<1>1. CASE Next
  <2>1. PICK p \in Procs :
            \/ \E command \in Commands, expected \in 0 .. MaxCommands \cup {None} :
                  Begin(p, command, expected)
            \/ Step(p)
    BY <1>1 DEF Next
  <2>2. QED
    BY <2>1, BeginOK, LoadStepOK, CreateOK, JoinStepOK, ApplyOK, SaveStepOK,
       SaveStaleOK, RemoveOK, BroadcastOK DEF Step
<1>2. CASE UNCHANGED vars
  <2>1. /\ UNCHANGED <<heap, live, saved>> /\ UNCHANGED <<pc, task, ptr>>
    BY <1>2 DEF vars
  <2>2. QED
    BY <2>1 DEF HubInv, Shape, FunctionOfProcs, HeapOK, ObjectsOK, Denotes, Held,
                RequestOK
<1>3. QED
  BY <1>1, <1>2

LEMMA HubInitOK == Init => HubInv
<1> SUFFICES ASSUME Init PROVE HubInv
  OBVIOUS
<1>1. /\ pc   = [p \in Procs |-> "idle"]
      /\ task = [p \in Procs |-> NoTask]
      /\ ptr  = [p \in Procs |-> None]
  BY DEF Init
<1>2. Shape /\ \A p \in Procs : RequestOK(p)
  BY <1>1 DEF Shape, FunctionOfProcs, RequestOK, HasLoaded
<1>3. CASE live = None /\ saved = None /\ heap = [x \in Refs |-> None]
  BY <1>1, <1>2, <1>3 DEF HubInv, HeapOK, ObjectsOK, Denotes, Held
<1>4. CASE /\ live = 0
           /\ saved = Object(NewRoom, 0)
           /\ heap = [x \in Refs |-> IF x = 0 THEN saved ELSE None]
  <2>1. ObjectOK(saved)
    BY <1>4, NewRoomOK DEF ObjectOK, Objects, Object, RoomOK, RoomTypeOK
  <2>2. saved # None /\ saved \in Objects /\ 0 \in Refs
    BY <2>1, NoneIsNoObject DEF ObjectOK, Refs
  <2>3. HeapOK
    BY <1>1, <1>4, <2>1, <2>2 DEF HeapOK, ObjectsOK, Denotes, Held
  <2>4. QED
    BY <1>2, <2>1, <2>3 DEF HubInv
<1>5. QED
  BY <1>3, <1>4 DEF Init

(* Every room object, also one that update-name works on without the lock  *)
(* after another request has replaced it, and the saved room stay correct. *)
THEOREM RoomsAlwaysCorrect == Spec => []RoomsCorrect
<1>1. HubInv => RoomsCorrect
  BY DEF HubInv, HeapOK, ObjectsOK, ObjectOK, RoomsCorrect
<1>2. QED
  BY <1>1, HubInitOK, HubStepOK, PTL DEF Spec

-----------------------------------------------------------------------------
(* The lock: as long as no update-name has come, whoever is past it owns   *)
(* the mutex, and the live room differs from the saved one by what the     *)
(* owner has just done to it.                                              *)

InLock(p) == pc[p] \notin {"idle", "lock"}

\* The task of a request is a command, or what a join may turn into.
IsCommand(t) ==
    \/ t.kind \in {"rejoin", "rollback"}
    \/ \E command \in Commands :
          /\ command.kind = t.kind
          /\ command.sender = t.sender
          /\ command.arg = t.arg

savedClients == IF saved = None THEN {} ELSE Present(saved.room)

\* The live room is what the request has made of the saved one.
LiveIs(r) == live # None /\ saved # None /\ heap[live] = Object(r, saved.version)

LockedRequest(p) ==
    /\ pc[p] # "idle" => IsCommand(task[p]) /\ task[p].kind # "update-name"
    /\ InLock(p) => lock = p
    /\ ptr[p] # None => ptr[p] = live
    /\ pc[p] = "create" => live = None
    /\ pc[p] = "add" =>
            /\ ~FindClient(saved.room, task[p].sender)
            /\ LiveIs(NewClient(saved.room, task[p].sender))
    /\ pc[p] = "save" =>
            /\ task[p].kind \notin {"join", "leave", "rejoin", "rollback"}
            /\ OperationError(task[p], saved.room) = OK
            /\ LiveIs(Operation(task[p], saved.room))
    /\ pc[p] = "bus" => task[p].sender \in savedClients

\* Nobody has changed the live room without saving it.
Unchanged == \A p \in Procs : pc[p] \notin {"add", "save"}

SavedIsLive == saved = IF live = None THEN None ELSE heap[live]

ClientsKnown ==
    /\ Clients = savedClients
    /\ removedClients = savedClients
    /\ DOMAIN Buses \subseteq savedClients

LockedInv ==
    /\ HubInv
    /\ renamed \in BOOLEAN
    /\ ~renamed =>
        /\ \A p \in Procs : LockedRequest(p)
        /\ ClientsKnown
        /\ Unchanged => SavedIsLive

-----------------------------------------------------------------------------
(* What a request finds that holds the lock, and what it must leave behind *)

(* The others are before the lock: they hold no object, and the saved room *)
(* differs from the live one only while p is between a change and its save. *)
LEMMA OwnerFacts ==
    ASSUME LockedInv, ~renamed, NEW p \in Procs, InLock(p)
    PROVE  /\ HubInv /\ ClientsKnown /\ LockedRequest(p) /\ lock = p
           /\ RequestOK(p) /\ Shape /\ SavedOK /\ HeapOK
           /\ IsCommand(task[p]) /\ task[p].kind # "update-name"
           /\ task[p].sender \in ClientIDs /\ TaskOK(task[p])
           /\ ptr[p] # None => ptr[p] = live
           /\ \A q \in Procs \ {p} : ~InLock(q)
           /\ pc[p] \notin {"add", "save"} => SavedIsLive
<1>1. /\ HubInv /\ ClientsKnown /\ \A q \in Procs : LockedRequest(q)
      /\ Unchanged => SavedIsLive
  BY DEF LockedInv
<1>2. lock = p
  BY <1>1 DEF LockedRequest
<1>3. \A q \in Procs \ {p} : ~InLock(q)
  BY <1>1, <1>2 DEF LockedRequest
<1>4. pc[p] # "idle"
  BY DEF InLock
<1>5. pc[p] \notin {"add", "save"} => Unchanged
  BY <1>3 DEF Unchanged, InLock
<1>6. QED
  BY <1>1, <1>2, <1>3, <1>4, <1>5, RequestFacts DEF LockedRequest

(* It is enough to look at the request, the saved and the live room. *)
LEMMA OneOwner ==
    ASSUME LockedInv, ~renamed, NEW p \in Procs, InLock(p),
           HubInv' /\ OnlyChanged(p), renamed' = renamed,
           LockedRequest(p)', ClientsKnown',
           pc'[p] \notin {"add", "save"} => SavedIsLive'
    PROVE  LockedInv'
<1>1. /\ \A q \in Procs : LockedRequest(q)
      /\ \A q \in Procs \ {p} : ~InLock(q)
      /\ renamed \in BOOLEAN
  BY OwnerFacts DEF LockedInv
<1>2. ASSUME NEW q \in Procs \ {p} PROVE LockedRequest(q)'
  <2>1. pc'[q] = pc[q] /\ task'[q] = task[q] /\ ptr'[q] = ptr[q] /\ pc[q] \in {"idle", "lock"}
    BY <1>1 DEF OnlyChanged, InLock
  <2>2. ptr[q] = None
    BY <2>1 DEF LockedInv, HubInv, RequestOK, HasLoaded
  <2>3. QED
    BY <1>1, <2>1, <2>2 DEF LockedRequest, InLock
<1>3. (\A q \in Procs : LockedRequest(q))'
  BY <1>2
<1>4. Unchanged' => SavedIsLive'
  BY DEF Unchanged
<1>5. QED
  BY <1>1, <1>3, <1>4 DEF LockedInv

(* A request that returns still has to unlock. *)
LEMMA ReturnLocked ==
    ASSUME LockedInv, ~renamed, NEW p \in Procs, InLock(p), Return(p), lock' = lock
    PROVE  LockedRequest(p)' /\ pc'[p] = "unlock" /\ ptr'[p] = None
<1>1. /\ Shape /\ lock = p /\ IsCommand(task[p]) /\ task[p].kind # "update-name"
      /\ pc[p] # "idle" /\ RequestOK(p)
  BY OwnerFacts DEF InLock
<1>2. Goto(p, "unlock") /\ task' = task
  BY <1>1 DEF Return, Locks
<1>3. pc'[p] = "unlock"
  BY <1>1, <1>2, GotoFacts
<1>4. ptr'[p] = None
  BY <1>1, ReturnFacts
<1>5. IsCommand(task[p])'
  BY <1>1, <1>2 DEF IsCommand
<1>6. QED
  BY <1>1, <1>2, <1>3, <1>4, <1>5 DEF LockedRequest

(* A request that moves to a step where it has nothing to answer for. *)
LEMMA MoveLocked ==
    ASSUME LockedInv, ~renamed, NEW p \in Procs, InLock(p), NEW label, Goto(p, label),
           label \notin {"create", "add", "save"}, UNCHANGED <<task, ptr, live, lock>>,
           label = "bus" => task[p].sender \in savedClients'
    PROVE  LockedRequest(p)' /\ pc'[p] = label
<1>1. /\ Shape /\ lock = p /\ IsCommand(task[p]) /\ task[p].kind # "update-name"
      /\ ptr[p] # None => ptr[p] = live
  BY OwnerFacts
<1>2. pc'[p] = label
  BY <1>1, GotoFacts
<1>3. IsCommand(task[p])'
  BY <1>1 DEF IsCommand
<1>4. QED
  BY <1>1, <1>2, <1>3 DEF LockedRequest

(* What SavedIsLive says while it holds. *)
LEMMA SavedIsLiveFacts ==
    ASSUME LockedInv, SavedIsLive
    PROVE  /\ live = None <=> saved = None
           /\ live # None => saved = heap[live]
BY NoneIsNoObject DEF SavedIsLive, LockedInv, HubInv, HeapOK, Denotes, ObjectsOK

(* Nothing that the invariant is about is touched. *)
LEMMA StoreStays ==
    ASSUME UNCHANGED <<heap, live, saved>>
    PROVE  /\ SavedIsLive => SavedIsLive'
           /\ savedClients' = savedClients
BY DEF SavedIsLive, savedClients

(* The live object is not collected. *)
LEMMA LiveIsKept ==
    ASSUME NEW h, Collect(h), live' \in Refs
    PROVE  heap'[live'] = h[live']
BY DEF Collect

-----------------------------------------------------------------------------
(* The actions under the lock *)

LEMMA BeginLocked ==
    ASSUME LockedInv, NEW p \in Procs, NEW command \in Commands, NEW expected,
           Begin(p, command, expected)
    PROVE  LockedInv'
<1> DEFINE t == [kind |-> command.kind, sender |-> command.sender,
                 arg |-> command.arg, expected |-> expected]
<1>1. HubInv /\ HubInv' /\ OnlyChanged(p) /\ Shape /\ renamed \in BOOLEAN
  BY BeginOK DEF LockedInv, HubInv
<1>2. /\ task' = [task EXCEPT ![p] = t] /\ pc[p] = "idle"
      /\ Goto(p, IF command.kind = "update-name" THEN "load" ELSE "lock")
      /\ renamed' = (renamed \/ command.kind = "update-name")
      /\ UNCHANGED <<heap, live, saved, ptr, lock, Clients, removedClients, Buses>>
  BY DEF Begin, Idle, store, clients
<1>3. /\ t.kind = command.kind /\ t.sender = command.sender /\ t.arg = command.arg
  OBVIOUS
<1> HIDE DEF t
<1>4. SUFFICES ASSUME ~renamed' PROVE LockedInv'
  BY <1>1, <1>2, <1>4 DEF LockedInv
<1>5. ~renamed /\ t.kind # "update-name" /\ renamed' \in BOOLEAN
  BY <1>1, <1>2, <1>3, <1>4
<1>6. task'[p] = t /\ pc'[p] = "lock"
  BY <1>1, <1>2, <1>3, <1>5, AssignFacts, GotoFacts
<1>7. ptr'[p] = None
  BY <1>1, <1>2 DEF HubInv, RequestOK, HasLoaded
<1>8. \A q \in Procs : LockedRequest(q)
  BY <1>5 DEF LockedInv
<1>9. LockedRequest(p)'
  BY <1>3, <1>5, <1>6, <1>7 DEF LockedRequest, IsCommand, InLock
<1>10. ASSUME NEW q \in Procs \ {p} PROVE LockedRequest(q)'
  <2>1. pc'[q] = pc[q] /\ task'[q] = task[q] /\ ptr'[q] = ptr[q]
    BY <1>1 DEF OnlyChanged
  <2>2. QED
    BY <1>2, <1>8, <2>1 DEF LockedRequest, InLock, LiveIs, savedClients
<1>11. ClientsKnown' /\ (Unchanged' => SavedIsLive')
  <2>1. ClientsKnown /\ (Unchanged => SavedIsLive)
    BY <1>5 DEF LockedInv
  <2>2. Unchanged' => Unchanged
    BY <1>1, <1>2 DEF Unchanged, OnlyChanged
  <2>3. QED
    BY <1>2, <2>1, <2>2 DEF ClientsKnown, savedClients, SavedIsLive
<1>12. QED
  BY <1>1, <1>5, <1>9, <1>10, <1>11 DEF LockedInv

(* The mutex is free, so nobody is past it. *)
LEMMA LockLocked ==
    ASSUME LockedInv, ~renamed, NEW p \in Procs, Lock(p)
    PROVE  LockedInv'
<1>1. /\ HubInv /\ HubInv' /\ OnlyChanged(p) /\ Shape /\ renamed \in BOOLEAN
      /\ ClientsKnown /\ \A q \in Procs : LockedRequest(q)
      /\ Unchanged => SavedIsLive
  BY LoadStepOK DEF LockedInv, HubInv
<1>2. /\ pc[p] = "lock" /\ lock = None /\ lock' = p
      /\ Goto(p, IF task[p].kind = "leave" THEN "remove" ELSE "load")
      /\ UNCHANGED <<heap, live, saved, ptr, task, renamed, Clients, removedClients, Buses>>
  BY DEF Lock, store, clients, bounds, arrived
<1>3. \A q \in Procs : pc[q] \in {"idle", "lock"} /\ ptr[q] = None
  <2>1. \A q \in Procs : pc[q] \in {"idle", "lock"}
    BY <1>1, <1>2, HubAssumption DEF LockedRequest, InLock
  <2>2. QED
    BY <1>1, <2>1 DEF HubInv, RequestOK, HasLoaded
<1>4. pc'[p] \in {"remove", "load"}
  BY <1>1, <1>2, GotoFacts
<1>5. LockedRequest(p)'
  BY <1>1, <1>2, <1>3, <1>4 DEF LockedRequest, IsCommand
<1>6. ASSUME NEW q \in Procs \ {p} PROVE LockedRequest(q)'
  <2>1. pc'[q] = pc[q] /\ task'[q] = task[q] /\ ptr'[q] = ptr[q]
    BY <1>1 DEF OnlyChanged
  <2>2. QED
    BY <1>1, <1>3, <2>1 DEF LockedRequest, InLock
<1>7. Unchanged
  BY <1>3 DEF Unchanged
<1>8. QED
  BY <1>1, <1>2, <1>5, <1>6, <1>7 DEF LockedInv, ClientsKnown, savedClients, SavedIsLive

LEMMA UnlockLocked ==
    ASSUME LockedInv, ~renamed, NEW p \in Procs, Unlock(p)
    PROVE  LockedInv'
<1>1. /\ pc[p] = "unlock" /\ lock' = None /\ Goto(p, "idle")
      /\ UNCHANGED <<heap, live, saved, ptr, renamed, Clients, removedClients, Buses>>
  BY DEF Unlock, store, clients, bounds, arrived
<1>2. InLock(p)
  BY <1>1 DEF InLock
<1>3. /\ HubInv' /\ OnlyChanged(p) /\ Shape /\ ClientsKnown /\ SavedIsLive
      /\ ptr[p] = None
  BY <1>1, <1>2, OwnerFacts, LoadStepOK DEF RequestOK, HasLoaded
<1>4. pc'[p] = "idle"
  BY <1>1, <1>3, GotoFacts
<1>5. LockedRequest(p)'
  BY <1>1, <1>3, <1>4 DEF LockedRequest, InLock
<1>6. ClientsKnown' /\ SavedIsLive'
  BY <1>1, <1>3, StoreStays DEF ClientsKnown
<1>7. QED
  BY <1>1, <1>2, <1>3, <1>5, <1>6, OneOwner

LEMMA LoadLocked ==
    ASSUME LockedInv, ~renamed, NEW p \in Procs, LoadRoom(p) \/ LoadMissing(p)
    PROVE  LockedInv'
<1>1. /\ pc[p] = "load" /\ lock' = lock
      /\ UNCHANGED <<heap, live, saved, renamed, Clients, removedClients, Buses>>
  BY DEF LoadRoom, LoadMissing, store, clients, bounds, arrived
<1>2. InLock(p)
  BY <1>1 DEF InLock
<1>3. /\ HubInv' /\ OnlyChanged(p) /\ Shape /\ ClientsKnown /\ SavedIsLive /\ lock = p
      /\ ptr[p] = None /\ IsCommand(task[p]) /\ task[p].kind # "update-name"
  BY <1>1, <1>2, OwnerFacts, LoadStepOK DEF RequestOK, HasLoaded
<1>4. ClientsKnown' /\ SavedIsLive'
  BY <1>1, <1>3, StoreStays DEF ClientsKnown
<1>5. LockedRequest(p)'
  <2>1. CASE LoadRoom(p)
    <3>1. Goto(p, "apply") /\ task' = task /\ ptr' = [ptr EXCEPT ![p] = live]
      BY <2>1 DEF LoadRoom
    <3>2. pc'[p] = "apply" /\ ptr'[p] = live
      BY <1>3, <3>1, GotoFacts, AssignFacts
    <3>3. QED
      BY <1>1, <1>3, <3>1, <3>2 DEF LockedRequest, IsCommand
  <2>2. CASE LoadMissing(p) /\ task[p].kind = "join"
    <3>1. Goto(p, "create") /\ UNCHANGED <<task, ptr>> /\ live = None
      BY <2>2 DEF LoadMissing
    <3>2. pc'[p] = "create"
      BY <1>3, <3>1, GotoFacts
    <3>3. QED
      BY <1>1, <1>3, <3>1, <3>2 DEF LockedRequest, IsCommand
  <2>3. CASE LoadMissing(p) /\ task[p].kind # "join"
    BY <1>1, <1>2, <2>3, ReturnLocked DEF LoadMissing
  <2>4. QED
    BY <2>1, <2>2, <2>3
<1>6. QED
  BY <1>1, <1>2, <1>3, <1>4, <1>5, OneOwner

LEMMA CreateLocked ==
    ASSUME LockedInv, ~renamed, NEW p \in Procs, Create(p)
    PROVE  LockedInv'
<1> DEFINE o == Object(NewRoom, 0)
           h == [heap EXCEPT ![NewRef] = o]
<1>1. /\ pc[p] = "create" /\ live' = NewRef /\ saved' = o
      /\ ptr' = [ptr EXCEPT ![p] = NewRef] /\ Collect(h) /\ Goto(p, "apply")
      /\ UNCHANGED <<task, lock, renamed, Clients, removedClients, Buses>>
  BY DEF Create, clients, bounds, arrived
<1>2. InLock(p)
  BY <1>1 DEF InLock
<1>3. /\ HubInv' /\ OnlyChanged(p) /\ Shape /\ HeapOK /\ ClientsKnown /\ SavedIsLive
      /\ lock = p /\ IsCommand(task[p]) /\ task[p].kind # "update-name"
  BY <1>1, <1>2, OwnerFacts, CreateOK
<1>4. live = None /\ saved = None
  BY <1>1, <1>2, <1>3, OwnerFacts DEF LockedRequest, SavedIsLive
<1>5. NewRef \in Refs /\ NewRef # None
  BY <1>3, NewRefFree, NoneIsNoObject
<1>6. pc'[p] = "apply" /\ ptr'[p] = NewRef
  BY <1>1, <1>3, GotoFacts, AssignFacts
<1>7. SavedIsLive'
  <2>1. heap'[live'] = h[NewRef]
    BY <1>1, <1>5, LiveIsKept
  <2>2. h[NewRef] = o
    BY <1>3, <1>5 DEF HeapOK, ObjectsOK
  <2>3. QED
    BY <1>1, <1>5, <2>1, <2>2 DEF SavedIsLive
<1>8. ClientsKnown'
  <2>1. savedClients = {} /\ Present(NewRoom) = {}
    BY <1>4 DEF savedClients, Present, NewRoom, Range
  <2>2. savedClients' = {}
    BY <1>1, <2>1 DEF savedClients, Object
  <2>3. QED
    BY <1>1, <1>3, <2>1, <2>2 DEF ClientsKnown
<1>9. LockedRequest(p)'
  BY <1>1, <1>3, <1>6 DEF LockedRequest, IsCommand
<1>10. QED
  BY <1>1, <1>2, <1>3, <1>7, <1>8, <1>9, OneOwner

(* A request changes the object it has loaded, which is the live one. *)
LEMMA RewriteLive ==
    ASSUME LockedInv, ~renamed, NEW p \in Procs, InLock(p), pc[p] \in HasLoaded
    PROVE  /\ ptr[p] = live /\ live # None /\ live \in Refs /\ ObjectOK(heap[live])
           /\ Mine(p) = heap[live]
           /\ \A o : heap' = [heap EXCEPT ![ptr[p]] = o] => heap'[live] = o
           /\ \A r : [heap[live] EXCEPT !.room = r] = Object(r, heap[live].version)
<1>1. ptr[p] # None /\ ptr[p] = live /\ HeapOK /\ HubInv
  BY OwnerFacts DEF RequestOK
<1>2. live \in Refs /\ ObjectOK(heap[live]) /\ Mine(p) = heap[live]
  BY <1>1, RequestFacts DEF Mine
<1>3. \A o : heap' = [heap EXCEPT ![ptr[p]] = o] => heap'[live] = o
  BY <1>1, <1>2 DEF HeapOK, ObjectsOK
<1>4. \A r : [heap[live] EXCEPT !.room = r] = Object(r, heap[live].version)
  BY <1>2 DEF ObjectOK, Objects, Object
<1>5. QED
  BY <1>1, <1>2, <1>3, <1>4

LEMMA ApplyJoinLocked ==
    ASSUME LockedInv, ~renamed, NEW p \in Procs, ApplyJoin(p)
    PROVE  LockedInv'
<1>1. /\ pc[p] = "apply" /\ pc[p] \in HasLoaded
      /\ UNCHANGED <<live, saved, ptr, lock, renamed, Clients, removedClients, Buses>>
  BY DEF ApplyJoin, clients, bounds, arrived, HasLoaded
<1>2. InLock(p)
  BY <1>1 DEF InLock
<1>3. /\ HubInv' /\ OnlyChanged(p) /\ Shape /\ ClientsKnown /\ SavedIsLive /\ lock = p
      /\ IsCommand(task[p]) /\ task[p].kind # "update-name"
  BY <1>1, <1>2, OwnerFacts, JoinStepOK
<1>4. /\ ptr[p] = live /\ live # None /\ Mine(p) = heap[live]
      /\ saved = heap[live] /\ saved # None
  BY <1>1, <1>2, <1>3, RewriteLive, SavedIsLiveFacts
<1>5. savedClients' = savedClients /\ ClientsKnown'
  BY <1>1, <1>3 DEF ClientsKnown, savedClients
<1>6. CASE Reconnects(p)
  <2>1. task' = [task EXCEPT ![p].kind = "rejoin"] /\ Goto(p, "bus") /\ heap' = heap
    BY <1>6 DEF ApplyJoin
  <2>2. pc'[p] = "bus"
    BY <1>3, <2>1, GotoFacts
  <2>3. task'[p] = [task[p] EXCEPT !.kind = "rejoin"]
    BY <1>3, <2>1 DEF Shape, FunctionOfProcs
  <2>4. task'[p].kind = "rejoin" /\ task'[p].sender = task[p].sender
    BY <2>3
  <2>5. task[p].sender \in savedClients
    BY <1>4, <1>6 DEF Reconnects, FindClient, savedClients
  <2>6. LockedRequest(p)'
    BY <1>1, <1>3, <1>4, <1>5, <2>2, <2>4, <2>5 DEF LockedRequest, IsCommand
  <2>7. SavedIsLive'
    BY <1>1, <1>3, <2>1, StoreStays
  <2>8. QED
    BY <1>1, <1>2, <1>3, <1>5, <2>6, <2>7, OneOwner
<1>7. CASE ~Reconnects(p)
  <2> DEFINE r == NewClient(saved.room, task[p].sender)
  <2>1. /\ heap' = [heap EXCEPT ![ptr[p]] = [heap[live] EXCEPT !.room = r]]
        /\ Goto(p, "add") /\ task' = task
    BY <1>4, <1>7 DEF ApplyJoin, Mine
  <2>2. pc'[p] = "add"
    BY <1>3, <2>1, GotoFacts
  <2>3. heap'[live] = Object(r, saved.version)
    BY <1>1, <1>2, <1>4, <2>1, RewriteLive
  <2>4. ~FindClient(saved.room, task[p].sender)
    BY <1>4, <1>7 DEF Reconnects
  <2> HIDE DEF r
  <2>5. LockedRequest(p)'
    <3>1. r' = r
      BY <1>1, <2>1 DEF r
    <3>2. LiveIs(r)'
      BY <1>1, <1>4, <2>3, <3>1 DEF LiveIs
    <3>3. IsCommand(task[p])'
      BY <1>3, <2>1 DEF IsCommand
    <3>4. QED
      BY <1>1, <1>3, <1>4, <2>1, <2>2, <2>4, <3>2, <3>3 DEF LockedRequest, r
  <2>6. QED
    BY <1>1, <1>2, <1>3, <1>5, <2>2, <2>5, OneOwner
<1>8. QED
  BY <1>6, <1>7

(* The client has come into the room: now the hub knows it, and the saved  *)
(* room catches up with the live one.                                      *)
LEMMA AddClientLocked ==
    ASSUME LockedInv, ~renamed, NEW p \in Procs, AddClient(p)
    PROVE  LockedInv'
<1> DEFINE c == task[p].sender
           r == NewClient(saved.room, c)
<1>1. /\ pc[p] = "add" /\ pc[p] \in HasLoaded
      /\ Clients' = Clients \cup {c} /\ removedClients' = removedClients \cup {c}
      /\ refreshSavedRoom(Mine(p)) /\ Goto(p, "bus")
      /\ UNCHANGED <<heap, live, Buses, lock, task, ptr, renamed>>
  BY DEF AddClient, bounds, arrived, HasLoaded
<1>2. InLock(p)
  BY <1>1 DEF InLock
<1>3. /\ HubInv' /\ OnlyChanged(p) /\ Shape /\ SavedOK /\ ClientsKnown
      /\ LockedRequest(p) /\ c \in ClientIDs
  BY <1>2, OwnerFacts, JoinStepOK
<1>4. live # None /\ saved # None /\ heap[live] = Object(r, saved.version)
  BY <1>1, <1>3 DEF LockedRequest, LiveIs
<1>5. saved' = heap[live]
  <2>1. Mine(p) = heap[live]
    BY <1>1, <1>2, RewriteLive
  <2>2. QED
    BY <1>1, <1>4, <2>1 DEF refreshSavedRoom, Object
<1>6. saved'.room = r /\ saved' # None
  <2>1. ObjectOK(heap[live])
    BY <1>1, <1>2, RewriteLive
  <2>2. QED
    BY <1>4, <1>5, <2>1, NoneIsNoObject DEF Object
<1>7. savedClients' = savedClients \cup {c}
  BY <1>3, <1>4, <1>6, PresenceProperties DEF savedClients, SavedOK, ObjectOK
<1>8. ClientsKnown'
  BY <1>1, <1>3, <1>7 DEF ClientsKnown
<1>9. SavedIsLive'
  BY <1>1, <1>4, <1>5 DEF SavedIsLive
<1>10. LockedRequest(p)'
  BY <1>1, <1>2, <1>7, MoveLocked
<1>11. QED
  BY <1>1, <1>2, <1>3, <1>8, <1>9, <1>10, OneOwner

LEMMA AddBusLocked ==
    ASSUME LockedInv, ~renamed, NEW p \in Procs, AddBus(p)
    PROVE  LockedInv'
<1>1. /\ pc[p] = "bus" /\ Goto(p, "publish")
      /\ UNCHANGED <<heap, live, saved, Clients, removedClients, lock, task, ptr, renamed>>
  BY DEF AddBus, store, bounds, arrived
<1>2. InLock(p)
  BY <1>1 DEF InLock
<1>3. /\ HubInv' /\ OnlyChanged(p) /\ ClientsKnown /\ SavedIsLive /\ LockedRequest(p)
  BY <1>1, <1>2, OwnerFacts, JoinStepOK
<1>4. DOMAIN Buses' = DOMAIN Buses \cup {task[p].sender}
  BY DEF AddBus
<1>5. savedClients' = savedClients /\ SavedIsLive'
  BY <1>1, <1>3, StoreStays
<1>6. ClientsKnown'
  BY <1>1, <1>3, <1>4, <1>5 DEF ClientsKnown, LockedRequest
<1>7. LockedRequest(p)'
  BY <1>1, <1>2, MoveLocked
<1>8. QED
  BY <1>1, <1>2, <1>3, <1>5, <1>6, <1>7, OneOwner

(* The request lets go of the live object, and the saved one stays. *)
LEMMA LetGoLocked ==
    ASSUME LockedInv, ~renamed, NEW p \in Procs, InLock(p),
           Collect(heap), UNCHANGED <<live, saved>>
    PROVE  /\ SavedIsLive => SavedIsLive'
           /\ savedClients' = savedClients
<1>1. live # None => live \in Refs
  BY OwnerFacts, RequestFacts
<1>2. live # None => heap'[live] = heap[live]
  BY <1>1, LiveIsKept
<1>3. QED
  BY <1>2 DEF SavedIsLive, savedClients

LEMMA ApplyLocked ==
    ASSUME LockedInv, ~renamed, NEW p \in Procs, Apply(p)
    PROVE  LockedInv'
<1>1. /\ pc[p] = "apply" /\ pc[p] \in HasLoaded /\ task[p].kind # "join"
      /\ UNCHANGED <<live, saved, lock, renamed, Clients, removedClients, Buses>>
  BY DEF Apply, clients, bounds, arrived, HasLoaded
<1>2. InLock(p)
  BY <1>1 DEF InLock
<1>3. /\ HubInv' /\ OnlyChanged(p) /\ Shape /\ ClientsKnown /\ SavedIsLive /\ lock = p
      /\ RequestOK(p) /\ IsCommand(task[p]) /\ task[p].kind # "update-name"
  BY <1>1, <1>2, OwnerFacts, ApplyOK
<1>4. /\ ptr[p] = live /\ live # None /\ Mine(p) = heap[live]
      /\ saved = heap[live] /\ saved # None
  BY <1>1, <1>2, <1>3, RewriteLive, SavedIsLiveFacts
<1>5. savedClients' = savedClients /\ ClientsKnown'
  BY <1>1, <1>3 DEF ClientsKnown, savedClients
<1>6. CASE OperationError(task[p], Mine(p).room) = OK
  <2> DEFINE r == Operation(task[p], saved.room)
  <2>1. /\ heap' = [heap EXCEPT ![ptr[p]] = [heap[live] EXCEPT !.room = r]]
        /\ Goto(p, "save") /\ UNCHANGED <<task, ptr>>
    BY <1>4, <1>6 DEF Apply, Mine
  <2>2. pc'[p] = "save"
    BY <1>3, <2>1, GotoFacts
  <2>3. heap'[live] = Object(r, saved.version)
    BY <1>1, <1>2, <1>4, <2>1, RewriteLive
  <2>4. /\ OperationError(task[p], saved.room) = OK
        /\ task[p].kind \notin {"join", "leave", "rejoin", "rollback"}
    BY <1>1, <1>3, <1>4, <1>6 DEF RequestOK
  <2>5. LockedRequest(p)'
    <3>1. (Operation(task[p], saved.room))' = r
      BY <1>1, <2>1
    <3> HIDE DEF r
    <3>2. LiveIs(r)' /\ r' = r
      BY <1>1, <1>4, <2>1, <2>3, <3>1 DEF LiveIs, r
    <3>3. IsCommand(task[p])'
      BY <1>3, <2>1 DEF IsCommand
    <3>4. (OperationError(task[p], saved.room) = OK)'
      BY <1>1, <2>1, <2>4
    <3>5. QED
      BY <1>1, <1>3, <1>4, <2>1, <2>2, <2>4, <3>2, <3>3, <3>4 DEF LockedRequest, r
  <2>6. QED
    BY <1>1, <1>2, <1>3, <1>5, <2>2, <2>5, OneOwner
<1>7. CASE OperationError(task[p], Mine(p).room) # OK
  <2>1. Return(p) /\ Collect(heap)
    BY <1>7 DEF Apply
  <2>2. SavedIsLive' /\ LockedRequest(p)'
    BY <1>1, <1>2, <1>3, <2>1, ReturnLocked, LetGoLocked
  <2>3. QED
    BY <1>1, <1>2, <1>3, <1>5, <2>2, OneOwner
<1>8. QED
  BY <1>6, <1>7

(* A save makes the saved room the live one; it moves nobody in or out. *)
LEMMA SaveLocked ==
    ASSUME LockedInv, ~renamed, NEW p \in Procs, SaveRoom(p) \/ SaveRoomIfVersion(p)
    PROVE  LockedInv'
<1>1. /\ pc[p] = "save" /\ pc[p] \in HasLoaded
      /\ UNCHANGED <<lock, renamed, Clients, removedClients, Buses>>
      /\ \E v : SaveAs(p, v)
  BY DEF SaveRoom, SaveRoomIfVersion, clients, bounds, arrived, HasLoaded
<1>2. InLock(p)
  BY <1>1 DEF InLock
<1>3. /\ HubInv' /\ OnlyChanged(p) /\ HeapOK /\ SavedOK /\ ClientsKnown
      /\ LockedRequest(p) /\ TaskOK(task[p]) /\ task[p].kind # "update-name"
  BY <1>2, OwnerFacts, SaveStepOK
<1>4. PICK v : SaveAs(p, v)
  BY <1>1
<1>5. /\ saved' = Object(Mine(p).room, v)
      /\ heap' = [heap EXCEPT ![ptr[p]] = [Mine(p) EXCEPT !.version = v]]
      /\ Goto(p, "publish") /\ UNCHANGED <<live, task, ptr>>
  BY <1>4 DEF SaveAs, Mine
<1>6. /\ ptr[p] = live /\ live # None /\ Mine(p) = heap[live] /\ ObjectOK(heap[live])
  BY <1>1, <1>2, RewriteLive
<1>7. heap'[live] = [heap[live] EXCEPT !.version = v]
  BY <1>1, <1>2, <1>5, <1>6, RewriteLive
<1>8. heap'[live] = saved'
  BY <1>5, <1>6, <1>7 DEF ObjectOK, Objects, Object
<1>9. SavedIsLive'
  BY <1>5, <1>6, <1>8 DEF SavedIsLive
<1>10. savedClients' = savedClients
  <2>1. /\ saved # None /\ heap[live].room = Operation(task[p], saved.room)
        /\ task[p].kind \in Kinds \ {"join", "leave"}
    BY <1>1, <1>3 DEF LockedRequest, LiveIs, Object, TaskOK
  <2>2. Operation(task[p], saved.room).clients = saved.room.clients
    BY <1>3, <2>1, OperationKeepsClients DEF SavedOK, ObjectOK
  <2>3. saved'.room = Operation(task[p], saved.room) /\ saved' # None
    <3>1. saved' # None
      BY <1>3, <1>5, <1>6, <1>8 DEF HubInv, HeapOK, Denotes
    <3>2. QED
      BY <1>5, <1>6, <2>1, <3>1 DEF Object
  <2>4. QED
    BY <2>1, <2>2, <2>3 DEF savedClients, Present
<1>11. ClientsKnown'
  BY <1>1, <1>3, <1>10 DEF ClientsKnown
<1>12. LockedRequest(p)'
  BY <1>1, <1>2, <1>5, MoveLocked
<1>13. QED
  BY <1>1, <1>2, <1>3, <1>9, <1>11, <1>12, OneOwner

(* A stale guarded command: the live room becomes the saved one again. *)
LEMMA SaveStaleLocked ==
    ASSUME LockedInv, ~renamed, NEW p \in Procs, SaveStale(p)
    PROVE  LockedInv'
<1>1. /\ pc[p] = "save" /\ pc[p] \in HasLoaded /\ Return(p)
      /\ UNCHANGED <<saved, lock, renamed, Clients, removedClients, Buses>>
  BY DEF SaveStale, clients, bounds, arrived, HasLoaded
<1>2. InLock(p)
  BY <1>1 DEF InLock
<1>3. HubInv' /\ OnlyChanged(p) /\ HeapOK /\ ClientsKnown /\ LockedRequest(p)
  BY <1>2, OwnerFacts, SaveStaleOK
<1>4. live = ptr[p] /\ saved # None
  BY <1>1, <1>2, <1>3, RewriteLive DEF LockedRequest, LiveIs
<1>5. live' = NewRef /\ Collect([heap EXCEPT ![NewRef] = saved])
  BY <1>4 DEF SaveStale
<1>6. NewRef \in Refs /\ NewRef # None
  BY <1>3, NewRefFree, NoneIsNoObject
<1>7. [heap EXCEPT ![NewRef] = saved][NewRef] = saved
  BY <1>3, <1>6 DEF HeapOK, ObjectsOK
<1>8. heap'[live'] = saved
  <2> DEFINE h == [heap EXCEPT ![NewRef] = saved]
  <2>1. Collect(h) /\ h[NewRef] = saved
    BY <1>5, <1>7
  <2> HIDE DEF h
  <2>2. heap'[live'] = h[live']
    BY <1>5, <1>6, <2>1, LiveIsKept
  <2>3. QED
    BY <1>5, <2>1, <2>2
<1>9. SavedIsLive'
  BY <1>1, <1>5, <1>6, <1>8 DEF SavedIsLive
<1>10. ClientsKnown'
  BY <1>1, <1>3 DEF ClientsKnown, savedClients
<1>11. LockedRequest(p)'
  BY <1>1, <1>2, ReturnLocked
<1>12. QED
  BY <1>1, <1>2, <1>3, <1>9, <1>10, <1>11, OneOwner

(* What a removal does to the clients that the hub knows. *)
LEMMA RemovedFacts ==
    ASSUME LockedInv, ~renamed, NEW p \in Procs, RemoveRoomClient(p),
           savedClients' = savedClients \ {task[p].sender},
           live = None => savedClients = {}
    PROVE  ClientsKnown'
<1>1. /\ pc[p] = "remove" /\ Clients' = Clients \ {task[p].sender}
      /\ removedClients' = IF live = None THEN removedClients
                           ELSE removedClients \ {task[p].sender}
      /\ DOMAIN Buses' = DOMAIN Buses \ {task[p].sender}
  BY DEF RemoveRoomClient, ClientRemoved, RemoveBus, Restrict
<1>2. ClientsKnown
  BY <1>1, OwnerFacts DEF InLock
<1>3. QED
  BY <1>1, <1>2 DEF ClientsKnown

LEMMA RemoveLocked ==
    ASSUME LockedInv, ~renamed, NEW p \in Procs, RemoveRoomClient(p)
    PROVE  LockedInv'
<1> DEFINE c == task[p].sender
<1>1. pc[p] = "remove" /\ UNCHANGED <<lock, renamed>>
  BY DEF RemoveRoomClient, bounds, arrived
<1>2. InLock(p)
  BY <1>1 DEF InLock
<1>3. /\ HubInv' /\ OnlyChanged(p) /\ Shape /\ HeapOK /\ SavedOK /\ SavedIsLive
      /\ lock = p /\ IsCommand(task[p]) /\ task[p].kind # "update-name"
      /\ c \in ClientIDs
  BY <1>1, <1>2, OwnerFacts, RemoveOK
<1>4. /\ live = None <=> saved = None
      /\ live # None => saved = heap[live] /\ RoomOK(saved.room) /\ live \in Refs
  BY <1>2, <1>3, OwnerFacts, SavedIsLiveFacts, RequestFacts DEF SavedOK, ObjectOK
<1>5. live = None => savedClients = {}
  BY <1>4 DEF savedClients
<1>6. live # None => Present(Left(p)) = savedClients \ {c}
  BY <1>3, <1>4, PresenceProperties DEF Left, savedClients
<1>7. CASE live = None
  <2>1. Return(p) /\ UNCHANGED <<heap, live, saved>>
    BY <1>7 DEF RemoveRoomClient, store
  <2>2. SavedIsLive' /\ LockedRequest(p)'
    BY <1>1, <1>2, <1>3, <2>1, StoreStays, ReturnLocked
  <2>3. savedClients' = savedClients \ {c}
    BY <1>5, <1>7, <2>1, StoreStays
  <2>4. QED
    BY <1>1, <1>2, <1>3, <1>5, <2>2, <2>3, RemovedFacts, OneOwner
<1>8. CASE live # None /\ IsEmpty(Left(p))
  <2>1. Return(p) /\ live' = None /\ saved' = None
    BY <1>8 DEF RemoveRoomClient
  <2>2. SavedIsLive' /\ LockedRequest(p)'
    BY <1>1, <1>2, <2>1, ReturnLocked DEF SavedIsLive
  <2>3. Present(Left(p)) = {}
    BY <1>8 DEF IsEmpty, Present, Range
  <2>4. savedClients' = savedClients \ {c}
    BY <1>6, <1>8, <2>1, <2>3 DEF savedClients
  <2>5. QED
    BY <1>1, <1>2, <1>3, <1>5, <2>2, <2>4, RemovedFacts, OneOwner
<1>9. CASE live # None /\ ~IsEmpty(Left(p))
  <2> DEFINE h == [heap EXCEPT ![live] = [heap[live] EXCEPT !.room = Left(p)]]
  <2>1. /\ refreshSavedRoom(Object(Left(p), 0)) /\ live' = live /\ Collect(h)
        /\ \/ Return(p)
           \/ /\ ptr' = [ptr EXCEPT ![p] = live]
              /\ Goto(p, "publish")
              /\ task' = task
    BY <1>9 DEF RemoveRoomClient
  <2>2. saved' = Object(Left(p), saved.version) /\ saved # None
    BY <1>4, <1>9, <2>1 DEF refreshSavedRoom, Object
  <2>3. h[live] = Object(Left(p), saved.version)
    BY <1>3, <1>4, <1>9 DEF HeapOK, ObjectsOK, SavedOK, ObjectOK, Objects, Object
  <2> HIDE DEF h
  <2>4. heap'[live] = saved'
    BY <1>4, <1>9, <2>1, <2>2, <2>3, LiveIsKept
  <2>5. SavedIsLive'
    BY <1>9, <2>1, <2>4 DEF SavedIsLive
  <2>6. savedClients' = savedClients \ {c}
    <3>1. saved' # None
      BY <1>3, <1>9, <2>1, <2>4 DEF HubInv, HeapOK, Denotes
    <3>2. QED
      BY <1>6, <1>9, <2>2, <3>1 DEF savedClients, Object
  <2>7. LockedRequest(p)'
    <3>1. CASE Return(p)
      BY <1>1, <1>2, <3>1, ReturnLocked
    <3>2. CASE /\ ptr' = [ptr EXCEPT ![p] = live]
               /\ Goto(p, "publish")
               /\ task' = task
      <4>1. pc'[p] = "publish" /\ ptr'[p] = live
        BY <1>3, <3>2, GotoFacts, AssignFacts
      <4>2. QED
        BY <1>1, <1>3, <2>1, <3>2, <4>1 DEF LockedRequest, IsCommand
    <3>3. QED
      BY <2>1, <3>1, <3>2
  <2>8. QED
    BY <1>1, <1>2, <1>3, <1>5, <2>5, <2>6, <2>7, RemovedFacts, OneOwner
<1>10. QED
  BY <1>7, <1>8, <1>9

LEMMA BroadcastLocked ==
    ASSUME LockedInv, ~renamed, NEW p \in Procs, BroadcastToRoom(p) \/ BroadcastFails(p)
    PROVE  LockedInv'
<1>1. /\ pc[p] = "publish" /\ Collect(heap)
      /\ UNCHANGED <<live, saved, lock, renamed, Clients, removedClients>>
  BY DEF BroadcastToRoom, BroadcastFails, bounds, arrived
<1>2. InLock(p)
  BY <1>1 DEF InLock
<1>3. /\ HubInv' /\ OnlyChanged(p) /\ Shape /\ ClientsKnown /\ SavedIsLive
      /\ lock = p /\ IsCommand(task[p]) /\ task[p].kind # "update-name"
      /\ TaskOK(task[p])
  BY <1>1, <1>2, OwnerFacts, BroadcastOK
<1>4. SavedIsLive' /\ savedClients' = savedClients
  BY <1>1, <1>2, <1>3, LetGoLocked
<1>5. DOMAIN Buses' \subseteq DOMAIN Buses
  BY DEF BroadcastToRoom, BroadcastFails, SendTo
<1>6. ClientsKnown'
  BY <1>1, <1>3, <1>4, <1>5 DEF ClientsKnown
<1>7. \/ Return(p)
      \/ /\ task' = [task EXCEPT ![p].kind = "rollback"]
         /\ Goto(p, "remove")
         /\ ptr' = [ptr EXCEPT ![p] = None]
  BY DEF BroadcastToRoom, BroadcastFails
<1>8. LockedRequest(p)'
  <2>1. CASE Return(p)
    BY <1>1, <1>2, <2>1, ReturnLocked
  <2>2. CASE /\ task' = [task EXCEPT ![p].kind = "rollback"]
             /\ Goto(p, "remove")
             /\ ptr' = [ptr EXCEPT ![p] = None]
    <3>1. pc'[p] = "remove" /\ ptr'[p] = None
      BY <1>3, <2>2, GotoFacts, AssignFacts
    <3>2. task'[p] = [task[p] EXCEPT !.kind = "rollback"]
      BY <1>3, <2>2 DEF Shape, FunctionOfProcs
    <3>3. task'[p].kind = "rollback"
      BY <3>2
    <3>4. QED
      BY <1>1, <1>3, <3>1, <3>3 DEF LockedRequest, IsCommand
  <2>3. QED
    BY <1>7, <2>1, <2>2
<1>9. QED
  BY <1>1, <1>2, <1>3, <1>4, <1>6, <1>8, OneOwner

-----------------------------------------------------------------------------
(* Between requests that lock, the hub is settled. *)

LEMMA LockedInitOK == Init => LockedInv
<1> SUFFICES ASSUME Init PROVE LockedInv
  OBVIOUS
<1>1. /\ pc = [p \in Procs |-> "idle"] /\ ptr = [p \in Procs |-> None] /\ renamed = FALSE
      /\ Clients = {} /\ removedClients = {} /\ Buses = <<>> /\ HubInv
  BY HubInitOK DEF Init
<1>2. \A p \in Procs : LockedRequest(p)
  BY <1>1 DEF LockedRequest, InLock
<1>3. SavedIsLive /\ savedClients = {}
  <2>1. CASE live = None /\ saved = None
    BY <2>1 DEF SavedIsLive, savedClients
  <2>2. CASE /\ live = 0
             /\ saved = Object(NewRoom, 0)
             /\ heap = [x \in Refs |-> IF x = 0 THEN saved ELSE None]
    <3>1. 0 \in Refs /\ 0 # None
      BY NoneIsNoObject DEF Refs
    <3>2. Present(NewRoom) = {}
      BY DEF Present, NewRoom, Range
    <3>3. QED
      BY <2>2, <3>1, <3>2 DEF SavedIsLive, savedClients, Object
  <2>3. QED
    BY <2>1, <2>2 DEF Init
<1>4. ClientsKnown
  BY <1>1, <1>3 DEF ClientsKnown
<1>5. QED
  BY <1>1, <1>2, <1>3, <1>4 DEF LockedInv

LEMMA LockedStepOK == LockedInv /\ [Next]_vars => LockedInv'
<1> SUFFICES ASSUME LockedInv, [Next]_vars PROVE LockedInv'
  OBVIOUS
<1>0. HubInv' /\ renamed \in BOOLEAN
  BY HubStepOK DEF LockedInv
<1>1. ASSUME NEW p \in Procs, Step(p), ~renamed PROVE LockedInv'
  BY <1>1, LockLocked, UnlockLocked, LoadLocked, CreateLocked, ApplyJoinLocked,
     AddClientLocked, AddBusLocked, ApplyLocked, SaveLocked, SaveStaleLocked,
     RemoveLocked, BroadcastLocked DEF Step
<1>2. ASSUME NEW p \in Procs, Step(p), renamed PROVE LockedInv'
  <2>1. renamed' = renamed
    BY <1>2 DEF Step, Lock, Unlock, LoadRoom, LoadMissing, Create, ApplyJoin, AddClient,
       AddBus, Apply, SaveRoom, SaveRoomIfVersion, SaveStale, RemoveRoomClient,
       BroadcastToRoom, BroadcastFails, bounds, arrived
  <2>2. QED
    BY <1>0, <1>2, <2>1 DEF LockedInv
<1>3. CASE Next
  BY <1>0, <1>1, <1>2, <1>3, BeginLocked DEF Next
<1>4. CASE UNCHANGED vars
  <2>1. UNCHANGED <<heap, live, saved, Clients, removedClients, Buses, lock, pc, task,
                    ptr, renamed>>
    BY <1>4 DEF vars
  <2>2. (\A p \in Procs : LockedRequest(p)) => (\A p \in Procs : LockedRequest(p))'
    BY <2>1 DEF LockedRequest, InLock, IsCommand, LiveIs, savedClients
  <2>3. QED
    BY <1>0, <2>1, <2>2 DEF LockedInv, ClientsKnown, savedClients, Unchanged, SavedIsLive
<1>5. QED
  BY <1>3, <1>4

(* Between requests that lock, the live room is the saved one, and the hub *)
(* knows exactly the clients of the room: nothing of a stale command, of a *)
(* leave or of a join that was undone is left behind.                      *)
THEOREM HubAlwaysSettles == Spec => []HubIsSettled
<1>1. LockedInv => HubIsSettled
  <2> SUFFICES ASSUME LockedInv, Quiet PROVE HubIsSettled
    BY DEF HubIsSettled
  <2>1. /\ lock = None /\ ClientsKnown /\ (Unchanged => SavedIsLive)
        /\ \A p \in Procs : LockedRequest(p)
    BY DEF Quiet, LockedInv
  <2>2. Unchanged
    BY <2>1, HubAssumption DEF LockedRequest, InLock, Unchanged
  <2>3. SavedIsLive /\ savedClients = IF live = None THEN {} ELSE Present(heap[live].room)
    BY <2>1, <2>2, SavedIsLiveFacts DEF savedClients
  <2>4. QED
    BY <2>1, <2>3 DEF HubIsSettled, SavedIsLive, ClientsKnown
<1>2. QED
  BY <1>1, LockedInitOK, LockedStepOK, PTL DEF Spec

-----------------------------------------------------------------------------
(* The saved room changes by whole operations. *)

(* A command of a request is one of Commands, and has its operation. *)
LEMMA CommandOperation ==
    ASSUME NEW t, IsCommand(t), t.kind \notin {"join", "leave", "rejoin", "rollback"},
           NEW r, OperationError(t, r) = OK
    PROVE  OneOperation(r, Operation(t, r))
<1>1. PICK command \in Commands :
            /\ command.kind = t.kind
            /\ command.sender = t.sender
            /\ command.arg = t.arg
  BY DEF IsCommand
<1>2. OperationError(command, r) = OperationError(t, r)
  BY <1>1 DEF OperationError
<1>3. Operation(command, r) = Operation(t, r)
  BY <1>1 DEF Operation
<1>4. QED
  BY <1>1, <1>2, <1>3 DEF OneOperation

\* A room is told apart from its absence.
LEMMA RoomIsNotNone == \A r : RoomOK(r) => r # None
BY HubAssumption DEF RoomOK, RoomTypeOK

LEMMA SavedIsOperation ==
    ASSUME LockedInv, LockedInv', ~renamed, NEW p \in Procs, Step(p)
    PROVE  [Atomic!Next]_savedRoom
<1> DEFINE c == task[p].sender
<1>0. SavedOK /\ SavedOK'
  BY DEF LockedInv, HubInv, SavedOK
<1>1. CASE saved' = saved
  BY <1>1 DEF savedRoom
<1>2. CASE Create(p)
  <2>1. live = None /\ saved' = Object(NewRoom, 0) /\ SavedIsLive
    BY <1>2, OwnerFacts DEF Create, InLock, LockedRequest
  <2>2. saved = None /\ saved' # None
    BY <1>0, <2>1, NewRoomOK, RewriteObject, NoneIsNoObject DEF SavedIsLive, Object,
       ObjectOK, Objects, RoomOK, RoomTypeOK
  <2>3. savedRoom = None /\ savedRoom' = NewRoom
    BY <2>1, <2>2 DEF savedRoom, Object
  <2>4. QED
    BY <2>3 DEF Atomic!Next, Atomic!Create
<1>3. ASSUME saved # None, saved' # None, OneOperation(saved.room, saved'.room)
      PROVE  [Atomic!Next]_savedRoom
  <2>1. savedRoom = saved.room /\ savedRoom' = saved'.room
    BY <1>3 DEF savedRoom
  <2>2. savedRoom # None /\ savedRoom' # None
    BY <1>0, <1>3, <2>1, RoomIsNotNone DEF SavedOK, ObjectOK
  <2>3. QED
    BY <1>3, <2>1, <2>2 DEF Atomic!Next, Atomic!Change
<1>4. CASE AddClient(p)
  <2>1. /\ pc[p] = "add" /\ InLock(p) /\ pc[p] \in HasLoaded
        /\ refreshSavedRoom(Mine(p))
    BY <1>4 DEF AddClient, InLock, HasLoaded
  <2>2. /\ LockedRequest(p) /\ Mine(p) = heap[live] /\ ObjectOK(heap[live]) /\ c \in ClientIDs
    BY <2>1, OwnerFacts, RewriteLive
  <2>3. /\ saved # None /\ ~FindClient(saved.room, c)
        /\ heap[live].room = NewClient(saved.room, c)
    BY <2>1, <2>2 DEF LockedRequest, LiveIs, Object
  <2>4. saved' = Object(heap[live].room, saved.version)
    BY <2>1, <2>2, <2>3 DEF refreshSavedRoom
  <2>5. saved' # None /\ saved'.room = NewClient(saved.room, c)
    <3>1. ObjectOK(Object(heap[live].room, saved.version))
      BY <1>0, <2>2, <2>3, RewriteObject DEF SavedOK, ObjectOK, Objects
    <3>2. QED
      BY <2>3, <2>4, <3>1, NoneIsNoObject DEF Object
  <2>6. OneOperation(saved.room, saved'.room)
    BY <2>2, <2>3, <2>5 DEF OneOperation
  <2>7. QED
    BY <1>3, <2>3, <2>5, <2>6
<1>5. CASE SaveRoom(p) \/ SaveRoomIfVersion(p)
  <2>1. pc[p] = "save" /\ InLock(p) /\ pc[p] \in HasLoaded
    BY <1>5 DEF SaveRoom, SaveRoomIfVersion, InLock, HasLoaded
  <2>2. PICK v : saved' = Object(Mine(p).room, v) /\ live' = live
    BY <1>5 DEF SaveRoom, SaveRoomIfVersion, SaveAs
  <2>3. LockedRequest(p) /\ IsCommand(task[p]) /\ Mine(p) = heap[live] /\ live # None
    BY <2>1, OwnerFacts, RewriteLive
  <2>4. /\ saved # None /\ OperationError(task[p], saved.room) = OK
        /\ task[p].kind \notin {"join", "leave", "rejoin", "rollback"}
        /\ heap[live].room = Operation(task[p], saved.room)
    BY <2>1, <2>3 DEF LockedRequest, LiveIs, Object
  <2>5. saved'.room = Operation(task[p], saved.room)
    BY <2>2, <2>3, <2>4 DEF Object
  <2>6. saved' # None
    <3>1. LockedRequest(p)' /\ pc'[p] = "publish"
      <4>1. Goto(p, "publish") /\ UNCHANGED <<task, ptr, live, lock>>
        BY <1>5 DEF SaveRoom, SaveRoomIfVersion, SaveAs
      <4>2. QED
        BY <2>1, <4>1, MoveLocked
    <3>2. ~renamed' /\ InLock(p)'
      BY <1>5, <3>1 DEF SaveRoom, SaveRoomIfVersion, bounds, arrived, InLock
    <3>3. (Unchanged => SavedIsLive)' /\ (\A q \in Procs : LockedRequest(q))'
      BY <3>2 DEF LockedInv
    <3>4. \A q \in Procs \ {p} : ~InLock(q)'
      BY <3>2, <3>3 DEF LockedRequest
    <3>5. Unchanged'
      BY <3>1, <3>4 DEF Unchanged, InLock
    <3>6. live' # None /\ SavedIsLive' /\ HeapOK'
      BY <2>2, <2>3, <3>3, <3>5 DEF LockedInv, HubInv
    <3>7. QED
      BY <3>6 DEF SavedIsLive, HeapOK, Denotes
  <2>7. OneOperation(saved.room, saved'.room)
    BY <2>3, <2>4, <2>5, CommandOperation
  <2>8. QED
    BY <1>3, <2>4, <2>6, <2>7
<1>6. CASE RemoveRoomClient(p)
  <2>1. pc[p] = "remove" /\ InLock(p)
    BY <1>6 DEF RemoveRoomClient, InLock
  <2>2. SavedIsLive /\ c \in ClientIDs
    BY <2>1, OwnerFacts
  <2>3. CASE live = None
    BY <1>1, <1>6, <2>3 DEF RemoveRoomClient, store
  <2>4. CASE live # None /\ IsEmpty(Left(p))
    <3>1. saved = heap[live] /\ saved # None /\ saved' = None
      BY <1>6, <2>2, <2>4, SavedIsLiveFacts DEF RemoveRoomClient
    <3>2. savedRoom = saved.room /\ savedRoom' = None /\ savedRoom # None
      BY <1>0, <3>1, RoomIsNotNone DEF savedRoom, SavedOK, ObjectOK
    <3>3. LastLeaves(savedRoom)
      BY <2>2, <2>4, <3>1, <3>2 DEF LastLeaves, Left
    <3>4. QED
      BY <3>2, <3>3 DEF Atomic!Next, Atomic!Close
  <2>5. CASE live # None /\ ~IsEmpty(Left(p))
    <3>1. saved = heap[live] /\ saved # None
      BY <2>2, <2>5, SavedIsLiveFacts
    <3>2. saved' = Object(Left(p), saved.version)
      BY <1>6, <2>5, <3>1 DEF RemoveRoomClient, refreshSavedRoom, Object
    <3>3. saved'.room = RemoveClient(saved.room, c)
      BY <3>1, <3>2 DEF Object, Left
    <3>4. saved' # None
      <4>1. RoomOK(RemoveClient(saved.room, c)) /\ saved.version \in Nat
        BY <1>0, <2>2, <3>1, RemoveClientOK DEF SavedOK, ObjectOK, Objects
      <4>2. ObjectOK(Object(Left(p), saved.version))
        BY <3>1, <4>1 DEF Left, ObjectOK, Objects, Object, RoomOK, RoomTypeOK
      <4>3. QED
        BY <3>2, <4>2, NoneIsNoObject
    <3>5. OneOperation(saved.room, saved'.room)
      BY <2>2, <2>5, <3>1, <3>3 DEF OneOperation, Left
    <3>6. QED
      BY <1>3, <3>1, <3>4, <3>5
  <2>6. QED
    BY <2>3, <2>4, <2>5
<1>7. QED
  <2>1. \/ saved' = saved \/ Create(p) \/ AddClient(p)
        \/ SaveRoom(p) \/ SaveRoomIfVersion(p) \/ RemoveRoomClient(p)
    BY DEF Step, Lock, Unlock, LoadRoom, LoadMissing, ApplyJoin, AddBus, Apply, SaveStale,
           BroadcastToRoom, BroadcastFails, store
  <2>2. QED
    BY <1>1, <1>2, <1>4, <1>5, <1>6, <2>1

(* As long as everyone locks, the saved room changes by one whole          *)
(* operation at a time, although the live room is changed in place and in  *)
(* several steps: every step of it is one of AtomicRoom.                   *)
THEOREM SavedAlwaysChangesAtomically == Spec => SavedChangesAtomically
<1>1. LockedInv /\ LockedInv' /\ [Next]_vars => [~renamed' => [Atomic!Next]_savedRoom]_vars
  <2> SUFFICES ASSUME LockedInv, LockedInv', Next, ~renamed'
               PROVE  [Atomic!Next]_savedRoom
    OBVIOUS
  <2>1. PICK p \in Procs :
            \/ \E command \in Commands, expected \in 0 .. MaxCommands \cup {None} :
                  Begin(p, command, expected)
            \/ Step(p)
    BY DEF Next
  <2>2. CASE Step(p)
    <3>1. renamed' = renamed
      BY <2>2 DEF Step, Lock, Unlock, LoadRoom, LoadMissing, Create, ApplyJoin, AddClient,
         AddBus, Apply, SaveRoom, SaveRoomIfVersion, SaveStale, RemoveRoomClient,
         BroadcastToRoom, BroadcastFails, bounds, arrived
    <3>2. QED
      BY <2>2, <3>1, SavedIsOperation
  <2>3. CASE ~Step(p)
    <3>1. saved' = saved
      BY <2>1, <2>3 DEF Begin, store
    <3>2. QED
      BY <3>1 DEF savedRoom
  <2>4. QED
    BY <2>2, <2>3
<1>2. QED
  BY <1>1, LockedInitOK, LockedStepOK, PTL DEF Spec, SavedChangesAtomically

-----------------------------------------------------------------------------
(* What clients were shown, as long as no send has failed.                 *)

ShownRequest(p) ==
    /\ pc[p] # "idle" => task[p].kind # "rollback"
    /\ pc[p] = "bus" => savedClients \ {task[p].sender} \subseteq DOMAIN Buses
    /\ pc[p] = "publish" => savedClients \subseteq DOMAIN Buses

\* Nobody has still to tell the others.
Told == \A p \in Procs : pc[p] \notin {"bus", "publish"}

AllShown == \A c \in savedClients : c \in DOMAIN Buses /\ Buses[c] = saved.room

ShownInv ==
    /\ failures \in Nat
    /\ ~renamed /\ failures = 0 =>
        /\ \A p \in Procs : ShownRequest(p)
        /\ Told => AllShown

-----------------------------------------------------------------------------
(* What one request finds and must leave behind *)

LEMMA ShownFacts ==
    ASSUME LockedInv, ShownInv, ~renamed, failures = 0, NEW p \in Procs, InLock(p)
    PROVE  /\ ShownRequest(p) /\ task[p].kind # "rollback"
           /\ pc[p] \notin {"bus", "publish"} => AllShown
           /\ pc[p] \notin {"bus", "publish"} => savedClients \subseteq DOMAIN Buses
           /\ Clients = savedClients
<1>1. \A q \in Procs \ {p} : pc[q] \in {"idle", "lock"}
  BY OwnerFacts DEF InLock
<1>2. pc[p] \notin {"bus", "publish"} => Told
  BY <1>1 DEF Told
<1>3. Clients = savedClients
  BY OwnerFacts DEF ClientsKnown
<1>4. QED
  BY <1>2, <1>3 DEF ShownInv, ShownRequest, AllShown, InLock

LEMMA OneShown ==
    ASSUME LockedInv, ShownInv, ~renamed, failures = 0, NEW p \in Procs, InLock(p),
           OnlyChanged(p), failures' = failures, ShownRequest(p)',
           pc'[p] \notin {"bus", "publish"} => AllShown'
    PROVE  ShownInv'
<1>1. ASSUME NEW q \in Procs \ {p} PROVE ShownRequest(q)'
  <2>1. /\ pc'[q] = pc[q] /\ task'[q] = task[q] /\ pc[q] \in {"idle", "lock"}
        /\ ShownRequest(q)
    BY OwnerFacts DEF OnlyChanged, InLock, ShownInv
  <2>2. QED
    BY <2>1 DEF ShownRequest
<1>2. QED
  BY <1>1 DEF ShownInv, Told

(* A step after which the clients of the room, their buses and the saved   *)
(* room are what they were.                                                *)
LEMMA NothingShown ==
    ASSUME LockedInv, ShownInv, ~renamed, failures = 0, NEW p \in Procs, InLock(p),
           pc[p] \notin {"bus", "publish"},
           OnlyChanged(p), UNCHANGED <<Clients, Buses, failures>>,
           LockedInv', ~renamed',
           pc'[p] # "idle" => task'[p].kind # "rollback",
           pc'[p] \notin {"bus", "publish"} => saved' = saved
    PROVE  ShownInv'
<1>1. savedClients' = savedClients
  BY ShownFacts DEF LockedInv, ClientsKnown
<1>2. AllShown /\ savedClients \subseteq DOMAIN Buses
  BY ShownFacts
<1>3. ShownRequest(p)'
  BY <1>1, <1>2 DEF ShownRequest
<1>4. pc'[p] \notin {"bus", "publish"} => AllShown'
  BY <1>1, <1>2 DEF AllShown
<1>5. QED
  BY <1>3, <1>4, OneShown

-----------------------------------------------------------------------------
(* The actions *)

LEMMA StepChanges ==
    ASSUME HubInv, NEW p \in Procs, Step(p)
    PROVE  OnlyChanged(p)
BY LoadStepOK, CreateOK, JoinStepOK, ApplyOK, SaveStepOK, SaveStaleOK, RemoveOK,
   BroadcastOK DEF Step

(* The task of a request that moves on. *)
LEMMA TaskStays ==
    ASSUME LockedInv, ShownInv, ~renamed, failures = 0, NEW p \in Procs, InLock(p)
    PROVE  /\ task' = task => task'[p].kind # "rollback"
           /\ Return(p) => task'[p].kind # "rollback" /\ pc'[p] = "unlock"
<1>1. task[p].kind # "rollback" /\ task[p].kind # "update-name" /\ Shape
  BY ShownFacts, OwnerFacts
<1>2. Return(p) => task' = task /\ Goto(p, "unlock")
  BY <1>1 DEF Return, Locks
<1>3. QED
  BY <1>1, <1>2, GotoFacts

(* Before a request has changed the room, or when its change was refused.  *)
LEMMA QuietStepShown ==
    ASSUME LockedInv, LockedInv', ShownInv, ~renamed, failures = 0, NEW p \in Procs,
           \/ LoadRoom(p) \/ LoadMissing(p) \/ ApplyJoin(p) \/ Apply(p)
           \/ SaveRoom(p) \/ SaveRoomIfVersion(p) \/ SaveStale(p) \/ Unlock(p)
    PROVE  ShownInv'
<1>1. /\ InLock(p) /\ pc[p] \notin {"bus", "publish"}
      /\ UNCHANGED <<Clients, Buses, failures, renamed>>
  BY DEF LoadRoom, LoadMissing, ApplyJoin, Apply, SaveRoom, SaveRoomIfVersion, SaveStale,
         Unlock, InLock, clients, bounds, arrived
<1>2. OnlyChanged(p) /\ Shape
  BY StepChanges DEF LockedInv, HubInv, Step
<1>3. pc'[p] # "idle" => task'[p].kind # "rollback"
  <2>1. CASE Unlock(p)
    BY <1>2, <2>1, GotoFacts DEF Unlock
  <2>2. CASE ApplyJoin(p) /\ Reconnects(p)
    <3>1. task'[p] = [task[p] EXCEPT !.kind = "rejoin"]
      BY <1>2, <2>2 DEF ApplyJoin, Shape, FunctionOfProcs
    <3>2. QED
      BY <3>1
  <2>3. CASE task' = task \/ Return(p)
    BY <1>1, <2>3, TaskStays
  <2>4. QED
    BY <2>1, <2>2, <2>3 DEF LoadRoom, LoadMissing, ApplyJoin, Apply, SaveRoom,
       SaveRoomIfVersion, SaveStale, SaveAs
<1>4. pc'[p] \notin {"bus", "publish"} => saved' = saved
  <2>1. CASE SaveRoom(p) \/ SaveRoomIfVersion(p)
    <3>1. pc'[p] = "publish"
      BY <1>2, <2>1, GotoFacts DEF SaveRoom, SaveRoomIfVersion, SaveAs
    <3>2. QED
      BY <3>1
  <2>2. CASE ~(SaveRoom(p) \/ SaveRoomIfVersion(p))
    BY <2>2 DEF LoadRoom, LoadMissing, ApplyJoin, Apply, SaveStale, Unlock, store
  <2>3. QED
    BY <2>1, <2>2
<1>5. QED
  BY <1>1, <1>2, <1>3, <1>4, NothingShown

LEMMA CreateShown ==
    ASSUME LockedInv, ShownInv, ~renamed, failures = 0, NEW p \in Procs, Create(p)
    PROVE  ShownInv'
<1>1. /\ InLock(p) /\ task' = task /\ Goto(p, "apply") /\ saved' = Object(NewRoom, 0)
      /\ failures' = failures
  BY DEF Create, InLock, bounds
<1>2. OnlyChanged(p) /\ Shape
  BY CreateOK DEF LockedInv, HubInv
<1>3. pc'[p] = "apply" /\ task'[p].kind # "rollback"
  BY <1>1, <1>2, GotoFacts, TaskStays
<1>4. savedClients' = {}
  BY <1>1 DEF savedClients, Object, Present, NewRoom, Range
<1>5. ShownRequest(p)' /\ AllShown'
  BY <1>3, <1>4 DEF ShownRequest, AllShown
<1>6. QED
  BY <1>1, <1>2, <1>5, OneShown

(* The joining client has no bus yet, and then it has one. *)
LEMMA JoinShown ==
    ASSUME LockedInv, LockedInv', ShownInv, ~renamed, failures = 0, NEW p \in Procs,
           AddClient(p) \/ AddBus(p)
    PROVE  ShownInv'
<1>1. /\ InLock(p) /\ task' = task /\ UNCHANGED <<failures, renamed>>
  BY DEF AddClient, AddBus, InLock, bounds, arrived
<1>2. OnlyChanged(p) /\ Shape
  BY StepChanges DEF LockedInv, HubInv, Step
<1>3. /\ savedClients' = Clients' /\ Clients = savedClients /\ ShownRequest(p)
      /\ task'[p].kind # "rollback"
  BY <1>1, ShownFacts, TaskStays DEF LockedInv, ClientsKnown
<1>4. ASSUME AddClient(p) PROVE ShownRequest(p)' /\ pc'[p] = "bus"
  <2>1. pc[p] = "add" /\ Clients' = Clients \cup {task[p].sender} /\ Buses' = Buses
    BY <1>4 DEF AddClient
  <2>2. pc'[p] = "bus"
    BY <1>2, <1>4, GotoFacts DEF AddClient
  <2>3. savedClients \subseteq DOMAIN Buses
    BY <1>1, <2>1, ShownFacts
  <2>4. QED
    BY <1>1, <1>3, <2>1, <2>2, <2>3 DEF ShownRequest
<1>5. ASSUME AddBus(p) PROVE ShownRequest(p)' /\ pc'[p] = "publish"
  <2>1. /\ pc[p] = "bus" /\ Clients' = Clients
        /\ DOMAIN Buses' = DOMAIN Buses \cup {task[p].sender}
    BY <1>5 DEF AddBus
  <2>2. pc'[p] = "publish"
    BY <1>2, <1>5, GotoFacts DEF AddBus
  <2>3. QED
    BY <1>1, <1>3, <2>1, <2>2 DEF ShownRequest
<1>6. QED
  BY <1>1, <1>2, <1>4, <1>5, OneShown

(* Who is left has a bus, and is told next. *)
LEMMA RemoveShown ==
    ASSUME LockedInv, LockedInv', ShownInv, ~renamed, failures = 0, NEW p \in Procs,
           RemoveRoomClient(p)
    PROVE  ShownInv'
<1>1. /\ pc[p] = "remove" /\ InLock(p) /\ UNCHANGED <<failures, renamed>>
      /\ Clients' = Clients \ {task[p].sender}
      /\ DOMAIN Buses' = DOMAIN Buses \ {task[p].sender}
  BY DEF RemoveRoomClient, ClientRemoved, RemoveBus, Restrict, InLock, bounds, arrived
<1>2. OnlyChanged(p) /\ Shape
  BY RemoveOK DEF LockedInv, HubInv
<1>3. /\ savedClients' = Clients' /\ Clients = savedClients
      /\ savedClients \subseteq DOMAIN Buses /\ SavedIsLive
      /\ TaskOK(task[p]) /\ task[p].kind # "rollback"
  BY <1>1, ShownFacts, OwnerFacts DEF LockedInv, ClientsKnown
<1>4. savedClients' \subseteq DOMAIN Buses'
  BY <1>1, <1>3
<1>5. CASE live = None
  <2>1. Return(p) /\ saved' = saved
    BY <1>5 DEF RemoveRoomClient, store
  <2>2. savedClients' = {}
    BY <1>3, <1>5, <2>1 DEF savedClients, SavedIsLive
  <2>3. QED
    BY <1>1, <1>2, <2>1, <2>2, TaskStays, OneShown DEF ShownRequest, AllShown
<1>6. CASE live # None /\ IsEmpty(Left(p))
  <2>1. Return(p) /\ saved' = None
    BY <1>6 DEF RemoveRoomClient
  <2>2. savedClients' = {}
    BY <2>1 DEF savedClients
  <2>3. QED
    BY <1>1, <1>2, <2>1, <2>2, TaskStays, OneShown DEF ShownRequest, AllShown
<1>7. CASE live # None /\ ~IsEmpty(Left(p)) /\ task[p].kind = "leave"
  <2>1. Goto(p, "publish") /\ task' = task
    BY <1>7 DEF RemoveRoomClient
  <2>2. pc'[p] = "publish" /\ task'[p].kind # "rollback"
    BY <1>1, <1>2, <2>1, GotoFacts, TaskStays
  <2>3. QED
    BY <1>1, <1>2, <1>4, <2>2, OneShown DEF ShownRequest
<1>8. CASE task[p].kind # "leave"
  BY <1>1, <1>3, <1>8, OwnerFacts DEF RequestOK
<1>9. QED
  BY <1>5, <1>6, <1>7, <1>8

(* Everyone is sent the room that is live, which is the saved one. *)
LEMMA BroadcastShown ==
    ASSUME LockedInv, LockedInv', ShownInv, ~renamed, failures = 0, NEW p \in Procs,
           BroadcastToRoom(p)
    PROVE  ShownInv'
<1>1. /\ pc[p] = "publish" /\ InLock(p) /\ pc[p] \in HasLoaded /\ Return(p)
      /\ UNCHANGED <<saved, failures, renamed>>
      /\ SendTo(p, IF live = None THEN {} ELSE Present(heap[live].room))
  BY DEF BroadcastToRoom, InLock, HasLoaded, bounds, arrived
<1>2. OnlyChanged(p)
  BY BroadcastOK DEF LockedInv, HubInv
<1>3. live # None /\ Mine(p) = heap[live] /\ saved = heap[live] /\ saved # None
  BY <1>1, RewriteLive, OwnerFacts, SavedIsLiveFacts
<1>4. Present(heap[live].room) = savedClients /\ savedClients' = savedClients
  BY <1>1, <1>3 DEF savedClients
<1>5. savedClients \subseteq DOMAIN Buses
  BY <1>1, ShownFacts DEF ShownRequest
<1>6. Buses' = [c \in DOMAIN Buses |-> IF c \in savedClients THEN saved.room ELSE Buses[c]]
  BY <1>1, <1>3, <1>4 DEF SendTo
<1>7. AllShown'
  BY <1>1, <1>4, <1>5, <1>6 DEF AllShown
<1>8. ShownRequest(p)'
  BY <1>1, TaskStays DEF ShownRequest
<1>9. QED
  BY <1>1, <1>2, <1>7, <1>8, OneShown

(* Begin and Lock: nothing is shown, and nobody has to be told. *)
LEMMA ArriveShown ==
    ASSUME LockedInv, LockedInv', ShownInv, ~renamed, ~renamed', failures = 0, NEW p \in Procs,
           \/ Lock(p)
           \/ \E command \in Commands : \E expected : Begin(p, command, expected)
    PROVE  ShownInv'
<1>1. UNCHANGED <<heap, live, saved, Buses, failures>> /\ pc[p] \in {"idle", "lock"}
  BY DEF Lock, Begin, Idle, store, clients, bounds
<1>2. HubInv /\ Shape
  BY DEF LockedInv, HubInv
<1>3. OnlyChanged(p)
  BY <1>2, LoadStepOK, BeginOK
<1>4. pc'[p] \notin {"bus", "publish"} /\ task'[p].kind # "rollback"
  <2>1. CASE Lock(p)
    <3>1. Goto(p, IF task[p].kind = "leave" THEN "remove" ELSE "load") /\ task' = task
          /\ pc[p] = "lock"
      BY <2>1 DEF Lock
    <3>2. QED
      BY <1>2, <3>1, GotoFacts DEF HubInv, RequestOK
  <2>2. ASSUME NEW command \in Commands, NEW expected, Begin(p, command, expected)
        PROVE  pc'[p] \notin {"bus", "publish"} /\ task'[p].kind # "rollback"
    <3> DEFINE t == [kind |-> command.kind, sender |-> command.sender,
                     arg |-> command.arg, expected |-> expected]
    <3>1. /\ Goto(p, IF command.kind = "update-name" THEN "load" ELSE "lock")
          /\ task' = [task EXCEPT ![p] = t] /\ t.kind = command.kind
      BY <2>2 DEF Begin
    <3> HIDE DEF t
    <3>2. task'[p].kind = command.kind
      BY <1>2, <3>1, AssignFacts
    <3>3. QED
      BY <1>2, <3>1, <3>2, GotoFacts, CommandAssumption DEF Kinds, GuardedKinds
  <2>3. QED
    BY <2>1, <2>2
<1>5. savedClients' = savedClients
  BY <1>1 DEF savedClients
<1>6. \A q \in Procs : ShownRequest(q)'
  BY <1>1, <1>3, <1>4, <1>5 DEF ShownInv, ShownRequest, OnlyChanged
<1>7. Told' => Told
  BY <1>1, <1>3 DEF Told, OnlyChanged
<1>8. QED
  BY <1>1, <1>5, <1>6, <1>7 DEF ShownInv, AllShown

-----------------------------------------------------------------------------
(* Everyone is shown the room. *)

LEMMA ShownStepOK ==
    ASSUME LockedInv, LockedInv', ShownInv, [Next]_vars PROVE ShownInv'
<1>0. failures' \in Nat /\ (failures' = 0 => failures = 0)
  <2>1. failures' = failures \/ failures' = failures + 1
    BY DEF Next, Begin, Step, Lock, Unlock, LoadRoom, LoadMissing, Create, ApplyJoin,
           AddClient, AddBus, Apply, SaveRoom, SaveRoomIfVersion, SaveStale,
           RemoveRoomClient, BroadcastToRoom, BroadcastFails, bounds, vars
  <2>2. failures \in Nat
    BY DEF ShownInv
  <2>3. QED
    BY <2>1, <2>2
<1>1. SUFFICES ASSUME failures' = 0, ~renamed' PROVE ShownInv'
  BY <1>0, <1>1 DEF ShownInv
<1>2. failures = 0
  BY <1>0, <1>1
<1>3. ASSUME NEW p \in Procs, Step(p) PROVE ShownInv'
  <2>1. ~renamed
    BY <1>1, <1>3 DEF Step, Lock, Unlock, LoadRoom, LoadMissing, Create, ApplyJoin, AddClient,
       AddBus, Apply, SaveRoom, SaveRoomIfVersion, SaveStale, RemoveRoomClient,
       BroadcastToRoom, BroadcastFails, bounds, arrived
  <2>2. CASE BroadcastFails(p)
    BY <1>1, <1>2, <2>2 DEF BroadcastFails
  <2>3. CASE ~BroadcastFails(p)
    BY <1>1, <1>2, <1>3, <2>1, <2>3, QuietStepShown, CreateShown, JoinShown, RemoveShown,
       BroadcastShown, ArriveShown DEF Step
  <2>4. QED
    BY <2>2, <2>3
<1>4. ASSUME NEW p \in Procs, NEW command \in Commands, NEW expected,
             Begin(p, command, expected)
      PROVE  ShownInv'
  <2>1. ~renamed
    BY <1>1, <1>4 DEF Begin, LockedInv
  <2>2. QED
    BY <1>1, <1>2, <1>4, <2>1, ArriveShown
<1>5. CASE UNCHANGED vars
  BY <1>5 DEF vars, ShownInv, ShownRequest, Told, AllShown, savedClients
<1>6. QED
  BY <1>3, <1>4, <1>5 DEF Next

LEMMA ShownInitOK == Init => ShownInv
<1> SUFFICES ASSUME Init PROVE ShownInv
  OBVIOUS
<1>1. /\ pc = [p \in Procs |-> "idle"] /\ failures = 0 /\ LockedInv /\ renamed = FALSE
      /\ Clients = {}
  BY LockedInitOK DEF Init
<1>2. savedClients = {}
  BY <1>1 DEF LockedInv, ClientsKnown
<1>3. QED
  BY <1>1, <1>2 DEF ShownInv, ShownRequest, AllShown

(* As long as everyone locks and no send fails, every client of the room   *)
(* has last been sent the room as it now is: no broadcast of an older room *)
(* comes after that of a newer one, and none is missing.                   *)
THEOREM EveryoneAlwaysShown == Spec => []EveryoneIsShown
<1>1. LockedInv /\ ShownInv => EveryoneIsShown
  <2> SUFFICES ASSUME LockedInv, ShownInv, Quiet, failures = 0, live # None
               PROVE  \A c \in Present(heap[live].room) :
                            c \in DOMAIN Buses /\ Buses[c] = heap[live].room
    BY DEF EveryoneIsShown
  <2>1. \A p \in Procs : pc[p] \in {"idle", "lock"}
    BY HubAssumption DEF Quiet, LockedInv, LockedRequest, InLock
  <2>2. Unchanged /\ Told
    BY <2>1 DEF Unchanged, Told
  <2>3. SavedIsLive /\ AllShown
    BY <2>2 DEF LockedInv, ShownInv, Quiet
  <2>4. saved = heap[live] /\ saved # None
    BY <2>3, SavedIsLiveFacts
  <2>5. QED
    BY <2>3, <2>4 DEF AllShown, savedClients
<1>2. LockedInv /\ ShownInv /\ [Next]_vars => LockedInv' /\ ShownInv'
  BY LockedStepOK, ShownStepOK
<1>3. Init => LockedInv /\ ShownInv
  BY LockedInitOK, ShownInitOK
<1>4. QED
  BY <1>1, <1>2, <1>3, PTL DEF Spec

=============================================================================
