---------------------------- MODULE CommandLedger ----------------------------
(***************************************************************************)
(* One command that a client sends again and again with the same           *)
(* commandId: the claim, execution and completion of processCommand        *)
(* (internal/infra/bus/websocketbus.go) on the Redis command ledger        *)
(* (internal/infra/boundaries/commandledger/redis/ledger.go).              *)
(*                                                                         *)
(* An attempt is one delivery of the command.  A bus processes its         *)
(* messages one by one, but a client that reconnects has its retry         *)
(* processed while the old bus, perhaps of another instance, still works.  *)
(* Keys of different commands do not interact, so there is one key.        *)
(*                                                                         *)
(* Of the room there is the version that a guarded command is compared     *)
(* with.  The room is not deleted meanwhile (RoomService has that case).   *)
(***************************************************************************)
EXTENDS Integers

CONSTANTS
    Attempts,           \* deliveries of the command
    Guarded,            \* does it carry an expectedRoomVersion?
    None,
    MaxChanges,         \* bound: changes of the room by other commands
    MaxFailures,        \* bound: failed calls, crashes, early expiries
    ExecutionsMayStall  \* may a reservation expire while it is executed?

Pending == [kind |-> "pending"]

(* Answers that are outcomes. *)
Codes == {"stale_version", "refused", "internal"}

Frames ==
    [kind : {"ack"}, version : Nat \cup {None}]
    \cup [kind : {"error"}, code : Codes, version : Nat \cup {None}]

Ack(v) == [kind |-> "ack", version |-> v]
Error(code, v) == [kind |-> "error", code |-> code, version |-> v]

ASSUME LedgerAssumption ==
    /\ Guarded \in BOOLEAN
    /\ ExecutionsMayStall \in BOOLEAN
    /\ None \notin Nat \cup Frames \cup {Pending}

VARIABLES
    entry,     \* the command's key in Redis
    version,   \* the stored room's version
    pc, frame, \* where each attempt is, and the answer it has for the client
    told,      \* the outcomes that were sent to the client
    claims,    \* reservations so far
    lapses,    \* reservations and outcomes that have expired
    effects,   \* how often the command has changed the room
    effectAt,  \* the version its first change was saved under
    changes, failures

vars == <<entry, version, pc, frame, told, claims, lapses,
          effects, effectAt, changes, failures>>
room    == <<version, effects, effectAt>>
history == <<told, claims, lapses>>
bounds  == <<changes, failures>>

\* The version the client has seen.
Expected == 0

-----------------------------------------------------------------------------
Goto(a, label) == pc' = [pc EXCEPT ![a] = label]

Answer(a, f, label) ==
    /\ frame' = [frame EXCEPT ![a] = f]
    /\ Goto(a, label)

\* Mutant: SET instead of SetNX.
reserve_Blind(a, next) ==
    /\ entry' = Pending
    /\ claims' = claims + 1
    /\ Goto(a, "execute")

\* SetNX of the pending marker; the key is read when it is taken.
reserve(a, next) ==
    IF entry = None
    THEN entry' = Pending /\ claims' = claims + 1 /\ Goto(a, "execute")
    ELSE Goto(a, next) /\ UNCHANGED <<entry, claims>>

Claim(a) ==
    /\ pc[a] = "claim"
    /\ reserve(a, "get")
    /\ UNCHANGED <<frame, told, lapses, room, bounds>>

\* What was there may have expired, and be there again, since the SetNX.
ClaimAgain(a) ==
    /\ pc[a] = "claimAgain"
    /\ reserve(a, "getAgain")
    /\ UNCHANGED <<frame, told, lapses, room, bounds>>

\* Get: the outcome is replayed; ErrCommandInProgress, and a key that is
\* missing for the second time, are answered with an error that is no outcome.
Get(a) ==
    /\ pc[a] \in {"get", "getAgain"}
    /\ IF entry = None
       THEN Goto(a, IF pc[a] = "get" THEN "claimAgain" ELSE "done") /\ UNCHANGED frame
       ELSE IF entry = Pending
            THEN Goto(a, "done") /\ UNCHANGED frame
            ELSE Answer(a, entry, "send")
    /\ UNCHANGED <<entry, room, history, bounds>>

-----------------------------------------------------------------------------
(* The use case.  Its only effect is the save of the room. *)

\* Mutant: a newer room will do.
accepts_Newer == Guarded => version >= Expected

accepts == Guarded => version = Expected

Change ==
    /\ version' = version + 1
    /\ effects' = effects + 1
    /\ effectAt' = IF effectAt = None THEN version' ELSE effectAt

Execute(a) ==
    /\ pc[a] = "execute"
    /\ accepts
    /\ Change
    /\ Answer(a, Ack(None), "version")
    /\ UNCHANGED <<entry, history, bounds>>

ExecuteStale(a) ==
    /\ pc[a] = "execute"
    /\ ~accepts
    /\ Answer(a, Error("stale_version", None), "version")
    /\ UNCHANGED <<entry, room, history, bounds>>

\* The domain refuses the command, or its payload is invalid.
ExecuteRefused(a) ==
    /\ pc[a] = "execute"
    /\ Answer(a, Error("refused", None), "complete")
    /\ UNCHANGED <<entry, room, history, bounds>>

\* Mutant: the version is the one the client sent.
RoomVersion_Expected(a) ==
    /\ pc[a] = "version"
    /\ Answer(a, [frame[a] EXCEPT !.version = Expected], "complete")
    /\ UNCHANGED <<entry, room, history, bounds>>

\* finishAck and finishError load the room again for its version.
RoomVersion(a) ==
    /\ pc[a] = "version"
    /\ Answer(a, [frame[a] EXCEPT !.version = version], "complete")
    /\ UNCHANGED <<entry, room, history, bounds>>

\* Mutant: the outcome is stored without the version it is sent with.
Complete_Bare(a) ==
    /\ pc[a] = "complete"
    /\ entry' = [frame[a] EXCEPT !.version = None]
    /\ Goto(a, "send")
    /\ UNCHANGED <<frame, room, history, bounds>>

\* finishCommand stores the outcome, whatever has become of the reservation,
Complete(a) ==
    /\ pc[a] = "complete"
    /\ entry' = frame[a]
    /\ Goto(a, "send")
    /\ UNCHANGED <<frame, room, history, bounds>>

\* and sends it; the client may be gone.
Send(a) ==
    /\ pc[a] = "send"
    /\ told' = told \cup {frame[a]} \/ UNCHANGED told
    /\ Goto(a, "done")
    /\ UNCHANGED <<entry, frame, claims, lapses, room, bounds>>

-----------------------------------------------------------------------------
(* The environment *)

\* Another command changes the room.
OtherChange ==
    /\ changes < MaxChanges
    /\ changes' = changes + 1
    /\ version' = version + 1
    /\ UNCHANGED <<entry, pc, frame, history, effects, effectAt, failures>>

Fails == failures < MaxFailures /\ failures' = failures + 1 /\ UNCHANGED changes

\* Claim fails; its SetNX may have been executed all the same.
ClaimFails(a) ==
    /\ Fails
    /\ \/ pc[a] \in {"claim", "claimAgain"} /\ entry = None
          /\ entry' = Pending /\ claims' = claims + 1
       \/ pc[a] \in {"claim", "claimAgain", "get", "getAgain"}
          /\ UNCHANGED <<entry, claims>>
    /\ Goto(a, "done")
    /\ UNCHANGED <<frame, told, lapses, room>>

\* The use case fails, before or after it has saved the room.
ExecuteFails(a) ==
    /\ Fails
    /\ pc[a] = "execute"
    /\ (accepts /\ Change) \/ UNCHANGED room
    /\ Answer(a, Error("internal", None), "complete")
    /\ UNCHANGED <<entry, history>>

\* The answer goes without a version.
RoomVersionFails(a) ==
    /\ Fails
    /\ pc[a] = "version"
    /\ Goto(a, "complete")
    /\ UNCHANGED <<entry, frame, room, history>>

\* The answer is sent although it may not have been stored.
CompleteFails(a) ==
    /\ Fails
    /\ pc[a] = "complete"
    /\ entry' = frame[a] \/ UNCHANGED entry
    /\ Goto(a, "send")
    /\ UNCHANGED <<frame, room, history>>

Crash(a) ==
    /\ Fails
    /\ pc[a] \notin {"claim", "done"}
    /\ Goto(a, "done")
    /\ UNCHANGED <<entry, frame, room, history>>

\* Is the command being executed?
Executing == \E a \in Attempts : pc[a] \in {"execute", "version", "complete"}

Lapse ==
    /\ entry' = None
    /\ lapses' = lapses + 1
    /\ UNCHANGED <<pc, frame, told, claims, room>>

\* Mutant: reservations without a TTL.
PendingExpires_Never == FALSE /\ UNCHANGED vars

\* pendingTTL passes after the execution was cut short
PendingExpires ==
    /\ entry = Pending
    /\ ~Executing
    /\ Lapse
    /\ UNCHANGED bounds

\* or while it takes longer.
PendingExpiresEarly ==
    /\ ExecutionsMayStall
    /\ entry = Pending
    /\ Executing
    /\ Fails
    /\ Lapse

\* resultTTL passes.
ResultExpires ==
    /\ entry \notin {None, Pending}
    /\ Lapse
    /\ UNCHANGED bounds

-----------------------------------------------------------------------------
Init ==
    /\ entry = None
    /\ version = Expected
    /\ pc = [a \in Attempts |-> "claim"]
    /\ frame = [a \in Attempts |-> None]
    /\ told = {}
    /\ claims = 0
    /\ lapses = 0
    /\ effects = 0
    /\ effectAt = None
    /\ changes = 0
    /\ failures = 0

Step(a) ==
    \/ Get(a) \/ ClaimAgain(a)
    \/ Execute(a) \/ ExecuteStale(a) \/ ExecuteRefused(a)
    \/ RoomVersion(a) \/ Complete(a) \/ Send(a)

Failure(a) ==
    \/ ClaimFails(a) \/ ExecuteFails(a) \/ RoomVersionFails(a)
    \/ CompleteFails(a) \/ Crash(a)

Next ==
    \/ \E a \in Attempts : Claim(a) \/ Step(a) \/ Failure(a)
    \/ PendingExpires \/ PendingExpiresEarly \/ ResultExpires
    \/ OtherChange

Spec == Init /\ [][Next]_vars

\* An attempt that was delivered goes on, and Redis drops expired
\* reservations; nothing makes the client try again.
FairSpec ==
    Spec /\ (\A a \in Attempts : WF_vars(Step(a))) /\ WF_vars(PendingExpires)

-----------------------------------------------------------------------------
(* Every answer and every counter has its type; what Redis holds is a      *)
(* reservation or an answer.                                               *)
TypeOK ==
    /\ entry \in Frames \cup {None, Pending}
    /\ version \in Nat
    /\ pc \in [Attempts -> {"claim", "get", "claimAgain", "getAgain", "execute",
                            "version", "complete", "send", "done"}]
    /\ frame \in [Attempts -> Frames \cup {None}]
    /\ \A a \in Attempts : pc[a] \in {"version", "complete", "send"} => frame[a] # None
    /\ told \subseteq Frames
    /\ claims \in Nat /\ lapses \in Nat /\ effects \in Nat
    /\ effectAt \in Nat \cup {None}

(* A command is executed once for every time its key was vacant: however   *)
(* the two or four calls of concurrent claims interleave, no two attempts  *)
(* hold the same reservation, and none executes what has an outcome.       *)
OneExecutionPerReservation == claims <= lapses + 1

(* A guarded command changes the room at most once even when its           *)
(* reservation expired under a slow or dead execution or its outcome could *)
(* not be stored: a retry that is executed again finds the version moved   *)
(* on, by itself if by nobody else.                                        *)
GuardedTakesEffectOnce == Guarded => effects <= 1

(* Until the key expires, all outcomes the client is sent are the same,    *)
(* the first one and every replay.                                         *)
AnswersAgree == lapses = 0 => \A f, g \in told : f = g

(* What the client is told is true.  An acknowledged command has changed   *)
(* the room, and the version in the acknowledgement includes that change   *)
(* (it may be later).  Until the key expires, a command that is answered   *)
(* with a refusal or with a stale version has changed nothing.             *)
AnswersAreTrue ==
    \A f \in told :
        /\ f.kind = "ack" =>
            /\ effects > 0
            /\ f.version # None => f.version >= effectAt
        /\ f.kind = "error" /\ f.code # "internal" /\ lapses = 0 => effects = 0

(* A reservation ends, also when its execution dies: a client that goes on *)
(* retrying is not told for ever that its command is in progress.          *)
ReservationEnds == entry = Pending ~> entry # Pending

=============================================================================
