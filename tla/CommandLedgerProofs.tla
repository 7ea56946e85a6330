------------------------- MODULE CommandLedgerProofs -------------------------
(***************************************************************************)
(* Proofs about CommandLedger, for any number of deliveries, failures and  *)
(* expired keys.                                                           *)
(***************************************************************************)
EXTENDS CommandLedger, TLAPS

(* A vacant key has used up its reservations. *)
ReservationInv ==
    OneExecutionPerReservation /\ (entry = None => claims <= lapses)

(* A guarded command that took effect has moved the version on, and the    *)
(* version never comes back.                                               *)
GuardInv ==
    /\ Expected <= version
    /\ GuardedTakesEffectOnce
    /\ Guarded /\ effects = 1 => Expected < version

-----------------------------------------------------------------------------
Labels == {"claim", "get", "claimAgain", "getAgain", "execute",
           "version", "complete", "send", "done"}

(* The part of the type invariant that is about the attempts. *)
AttemptsOK ==
    /\ pc \in [Attempts -> Labels]
    /\ frame \in [Attempts -> Frames \cup {None}]
    /\ \A a \in Attempts : pc[a] \in {"version", "complete", "send"} => frame[a] # None

(* The answers of an execution are outcomes, with whichever version. *)
LEMMA FrameFacts ==
    ASSUME NEW v \in Nat \cup {None}
    PROVE  /\ Ack(v) \in Frames
           /\ \A code \in Codes : Error(code, v) \in Frames
           /\ \A f \in Frames : [f EXCEPT !.version = v] \in Frames
BY DEF Ack, Error, Frames

(* An attempt that goes on, with or without a new answer, keeps the types. *)
LEMMA GotoKeepsTypes ==
    ASSUME AttemptsOK, NEW a \in Attempts, NEW label \in Labels,
           Goto(a, label), UNCHANGED frame,
           label \in {"version", "complete", "send"} => frame[a] # None
    PROVE  AttemptsOK'
BY DEF AttemptsOK, Goto

LEMMA AnswerKeepsTypes ==
    ASSUME AttemptsOK, NEW a \in Attempts, NEW label \in Labels,
           NEW f \in Frames, Answer(a, f, label)
    PROVE  AttemptsOK'
BY LedgerAssumption DEF AttemptsOK, Answer, Goto

(* What an attempt answers with when it has an answer. *)
LEMMA AnswerIsFrame ==
    ASSUME AttemptsOK, NEW a \in Attempts,
           pc[a] \in {"version", "complete", "send"}
    PROVE  frame[a] \in Frames
BY DEF AttemptsOK

(* A change of the room counts up. *)
LEMMA ChangeKeepsTypes ==
    ASSUME version \in Nat, effects \in Nat, effectAt \in Nat \cup {None}, Change
    PROVE  version' \in Nat /\ effects' \in Nat /\ effectAt' \in Nat \cup {None}
BY DEF Change

LEMMA TypeSplit == TypeOK <=>
    /\ AttemptsOK
    /\ entry \in Frames \cup {None, Pending}
    /\ version \in Nat
    /\ told \subseteq Frames
    /\ claims \in Nat /\ lapses \in Nat /\ effects \in Nat
    /\ effectAt \in Nat \cup {None}
BY DEF TypeOK, AttemptsOK, Labels

LEMMA TypeSplitNext == TypeOK' <=>
    /\ AttemptsOK'
    /\ entry' \in Frames \cup {None, Pending}
    /\ version' \in Nat
    /\ told' \subseteq Frames
    /\ claims' \in Nat /\ lapses' \in Nat /\ effects' \in Nat
    /\ effectAt' \in Nat \cup {None}
BY DEF TypeOK, AttemptsOK, Labels

-----------------------------------------------------------------------------
LEMMA TypeInit == Init => TypeOK
<1> SUFFICES ASSUME Init PROVE TypeOK
  OBVIOUS
<1>1. AttemptsOK
  BY DEF Init, AttemptsOK, Labels
<1>2. told \subseteq Frames
  BY DEF Init
<1> QED BY <1>1, <1>2, TypeSplit DEF Init, Expected

LEMMA TypeStep == TypeOK /\ [Next]_vars => TypeOK'
<1> SUFFICES ASSUME TypeOK, [Next]_vars PROVE TypeOK'
  OBVIOUS
<1> USE TypeSplit, TypeSplitNext
<1>1. ASSUME NEW a \in Attempts, Claim(a) \/ ClaimAgain(a) PROVE TypeOK'
  <2>1. PICK label \in Labels : reserve(a, label)
    BY <1>1 DEF Claim, ClaimAgain, Labels
  <2>2. AttemptsOK'
    <3>1. CASE entry = None
      BY <1>1, <2>1, <3>1, GotoKeepsTypes DEF reserve, Claim, ClaimAgain, Labels
    <3>2. CASE entry # None /\ Claim(a)
      BY <3>2, GotoKeepsTypes DEF reserve, Claim, Labels
    <3>3. CASE entry # None /\ ClaimAgain(a)
      BY <3>3, GotoKeepsTypes DEF reserve, ClaimAgain, Labels
    <3> QED BY <1>1, <3>1, <3>2, <3>3
  <2> QED BY <1>1, <2>1, <2>2 DEF reserve, Claim, ClaimAgain, room, bounds
<1>2. ASSUME NEW a \in Attempts, Get(a) PROVE TypeOK'
  <2>1. AttemptsOK'
    <3>1. CASE entry = None
      BY <1>2, <3>1, GotoKeepsTypes DEF Get, Labels
    <3>2. CASE entry = Pending
      BY <1>2, <3>2, GotoKeepsTypes, LedgerAssumption DEF Get, Labels
    <3>3. CASE entry \notin {None, Pending}
      BY <1>2, <3>3, AnswerKeepsTypes DEF Get, Labels
    <3> QED BY <3>1, <3>2, <3>3
  <2> QED BY <1>2, <2>1 DEF Get, room, history, bounds
<1>3. ASSUME NEW a \in Attempts, Execute(a) PROVE TypeOK'
  <2>1. AttemptsOK'
    BY <1>3, FrameFacts, AnswerKeepsTypes DEF Execute, Labels
  <2> QED BY <1>3, <2>1, ChangeKeepsTypes DEF Execute, history, bounds
<1>4. ASSUME NEW a \in Attempts, ExecuteStale(a) \/ ExecuteRefused(a) PROVE TypeOK'
  <2>1. Error("stale_version", None) \in Frames /\ Error("refused", None) \in Frames
    BY FrameFacts DEF Codes
  <2>2. AttemptsOK'
    BY <1>4, <2>1, AnswerKeepsTypes DEF ExecuteStale, ExecuteRefused, Labels
  <2> QED BY <1>4, <2>2 DEF ExecuteStale, ExecuteRefused, room, history, bounds
<1>5. ASSUME NEW a \in Attempts, RoomVersion(a) PROVE TypeOK'
  <2>1. [frame[a] EXCEPT !.version = version] \in Frames
    BY <1>5, AnswerIsFrame, FrameFacts DEF RoomVersion
  <2>2. AttemptsOK'
    BY <1>5, <2>1, AnswerKeepsTypes DEF RoomVersion, Labels
  <2> QED BY <1>5, <2>2 DEF RoomVersion, room, history, bounds
<1>6. ASSUME NEW a \in Attempts, Complete(a) \/ CompleteFails(a) PROVE TypeOK'
  <2>1. frame[a] \in Frames
    BY <1>6, AnswerIsFrame DEF Complete, CompleteFails
  <2>2. AttemptsOK'
    BY <1>6, <2>1, GotoKeepsTypes, LedgerAssumption DEF Complete, CompleteFails, Labels
  <2> QED BY <1>6, <2>1, <2>2 DEF Complete, CompleteFails, Fails, room, history, bounds
<1>7. ASSUME NEW a \in Attempts, Send(a) PROVE TypeOK'
  <2>1. frame[a] \in Frames
    BY <1>7, AnswerIsFrame DEF Send
  <2>2. AttemptsOK'
    BY <1>7, GotoKeepsTypes DEF Send, Labels
  <2> QED BY <1>7, <2>1, <2>2 DEF Send, room, bounds
<1>8. ASSUME NEW a \in Attempts, ClaimFails(a) PROVE TypeOK'
  <2>1. AttemptsOK'
    BY <1>8, GotoKeepsTypes DEF ClaimFails, Labels
  <2> QED BY <1>8, <2>1 DEF ClaimFails, Fails, room
<1>9. ASSUME NEW a \in Attempts, ExecuteFails(a) PROVE TypeOK'
  <2>1. Error("internal", None) \in Frames
    BY FrameFacts DEF Codes
  <2>2. AttemptsOK'
    BY <1>9, <2>1, AnswerKeepsTypes DEF ExecuteFails, Labels
  <2> QED BY <1>9, <2>2, ChangeKeepsTypes DEF ExecuteFails, Fails, room, history
<1>10. ASSUME NEW a \in Attempts, RoomVersionFails(a) \/ Crash(a) PROVE TypeOK'
  <2>1. AttemptsOK'
    <3>1. CASE RoomVersionFails(a)
      BY <3>1, GotoKeepsTypes DEF RoomVersionFails, Labels, AttemptsOK
    <3>2. CASE Crash(a)
      BY <3>2, GotoKeepsTypes DEF Crash, Labels
    <3> QED BY <1>10, <3>1, <3>2
  <2> QED BY <1>10, <2>1 DEF RoomVersionFails, Crash, Fails, room, history
<1>11. CASE PendingExpires \/ PendingExpiresEarly \/ ResultExpires
  <2>1. AttemptsOK'
    BY <1>11 DEF PendingExpires, PendingExpiresEarly, ResultExpires, Lapse, AttemptsOK
  <2>2. entry' = None /\ lapses' = lapses + 1 /\ UNCHANGED <<told, claims, room>>
    BY <1>11 DEF PendingExpires, PendingExpiresEarly, ResultExpires, Lapse
  <2> QED BY <2>1, <2>2 DEF room
<1>12. CASE OtherChange
  BY <1>12 DEF OtherChange, history, AttemptsOK
<1>13. CASE UNCHANGED vars
  BY <1>13 DEF vars, AttemptsOK
<1> QED
  BY <1>1, <1>2, <1>3, <1>4, <1>5, <1>6, <1>7, <1>8, <1>9, <1>10, <1>11, <1>12, <1>13
     DEF Next, Step, Failure

(* Every answer in Redis, in an attempt and at the client is a well-formed *)
(* outcome, for any number of deliveries (TypeOK of CommandLedger).        *)
THEOREM TypeCorrect == Spec => []TypeOK
BY TypeInit, TypeStep, PTL DEF Spec

-----------------------------------------------------------------------------
LEMMA ReservationStep == TypeOK /\ ReservationInv /\ [Next]_vars => ReservationInv'
<1> SUFFICES ASSUME TypeOK, ReservationInv, [Next]_vars PROVE ReservationInv'
  OBVIOUS
<1> USE DEF ReservationInv, OneExecutionPerReservation
<1>t. claims \in Nat /\ lapses \in Nat
  BY DEF TypeOK
<1>n. None \notin Frames /\ Pending # None
  BY LedgerAssumption
<1>1. ASSUME NEW a \in Attempts, Claim(a) \/ ClaimAgain(a) PROVE ReservationInv'
  BY <1>1, <1>t, <1>n DEF Claim, ClaimAgain, reserve
<1>2. ASSUME NEW a \in Attempts, ClaimFails(a) PROVE ReservationInv'
  BY <1>2, <1>t, <1>n DEF ClaimFails
<1>3. ASSUME NEW a \in Attempts, Complete(a) \/ CompleteFails(a) PROVE ReservationInv'
  <2>1. frame[a] \in Frames
    BY <1>3, TypeSplit, AnswerIsFrame DEF Complete, CompleteFails
  <2> QED BY <1>3, <2>1, <1>t, <1>n DEF Complete, CompleteFails, history
<1>4. CASE PendingExpires \/ PendingExpiresEarly \/ ResultExpires
  BY <1>4, <1>t DEF PendingExpires, PendingExpiresEarly, ResultExpires, Lapse
<1>5. ASSUME UNCHANGED <<entry, claims, lapses>> PROVE ReservationInv'
  BY <1>5
<1>6. ASSUME NEW a \in Attempts,
             Get(a) \/ Execute(a) \/ ExecuteStale(a) \/ ExecuteRefused(a)
             \/ RoomVersion(a) \/ Send(a)
      PROVE  UNCHANGED <<entry, claims, lapses>>
  BY <1>6 DEF Get, Execute, ExecuteStale, ExecuteRefused, RoomVersion, Send, history
<1>7. ASSUME NEW a \in Attempts, ExecuteFails(a) \/ RoomVersionFails(a) \/ Crash(a)
      PROVE  UNCHANGED <<entry, claims, lapses>>
  BY <1>7 DEF ExecuteFails, RoomVersionFails, Crash, history
<1>8. ASSUME OtherChange \/ UNCHANGED vars PROVE UNCHANGED <<entry, claims, lapses>>
  BY <1>8 DEF OtherChange, vars, history
<1> QED
  BY <1>1, <1>2, <1>3, <1>4, <1>5, <1>6, <1>7, <1>8 DEF Next, Step, Failure

(* However many deliveries of a command interleave, no reservation is held *)
(* by two of them and no stored outcome is executed again: the SetNX of    *)
(* Claim decides.                                                          *)
THEOREM OneExecution == Spec => []OneExecutionPerReservation
<1>1. Init => ReservationInv
  BY DEF Init, ReservationInv, OneExecutionPerReservation
<1>2. ReservationInv => OneExecutionPerReservation
  BY DEF ReservationInv
<1> QED BY <1>1, <1>2, TypeInit, TypeStep, ReservationStep, PTL DEF Spec

-----------------------------------------------------------------------------
LEMMA GuardStep == TypeOK /\ GuardInv /\ [Next]_vars => GuardInv'
<1> SUFFICES ASSUME TypeOK, GuardInv, [Next]_vars PROVE GuardInv'
  OBVIOUS
<1> USE DEF GuardInv, GuardedTakesEffectOnce, Expected
<1>t. version \in Nat /\ effects \in Nat
  BY DEF TypeOK
<1>1. ASSUME accepts, Change PROVE GuardInv'
  BY <1>1, <1>t DEF accepts, Change
<1>2. ASSUME UNCHANGED room PROVE GuardInv'
  BY <1>2 DEF room
<1>3. CASE OtherChange
  BY <1>3, <1>t DEF OtherChange
<1>4. ASSUME NEW a \in Attempts, Execute(a) \/ ExecuteFails(a) PROVE GuardInv'
  BY <1>1, <1>2, <1>4 DEF Execute, ExecuteFails
<1>5. ASSUME NEW a \in Attempts,
             Claim(a) \/ ClaimAgain(a) \/ Get(a) \/ ExecuteStale(a) \/ ExecuteRefused(a)
             \/ RoomVersion(a) \/ Complete(a) \/ Send(a)
      PROVE  UNCHANGED room
  BY <1>5 DEF Claim, ClaimAgain, Get, ExecuteStale, ExecuteRefused, RoomVersion, Complete, Send
<1>6. ASSUME NEW a \in Attempts,
             ClaimFails(a) \/ RoomVersionFails(a) \/ CompleteFails(a) \/ Crash(a)
      PROVE  UNCHANGED room
  BY <1>6 DEF ClaimFails, RoomVersionFails, CompleteFails, Crash
<1>7. ASSUME PendingExpires \/ PendingExpiresEarly \/ ResultExpires \/ UNCHANGED vars
      PROVE  UNCHANGED room
  BY <1>7 DEF PendingExpires, PendingExpiresEarly, ResultExpires, Lapse, vars, room
<1> QED
  BY <1>2, <1>3, <1>4, <1>5, <1>6, <1>7 DEF Next, Step, Failure

(* A guarded command takes effect at most once, whatever expires, fails or *)
(* dies and however often it is delivered: the version check backs the     *)
(* ledger up.                                                              *)
THEOREM GuardedOnce == Spec => []GuardedTakesEffectOnce
<1>1. Init => GuardInv
  BY DEF Init, GuardInv, GuardedTakesEffectOnce, Expected
<1>2. GuardInv => GuardedTakesEffectOnce
  BY DEF GuardInv
<1> QED BY <1>1, <1>2, TypeInit, TypeStep, GuardStep, PTL DEF Spec

-----------------------------------------------------------------------------
(* Answers.  Until a key expires the reservation has one owner, and there  *)
(* is no answer before the owner is done.                                  *)

Busy(a) == pc[a] \in {"execute", "version", "complete"}

\* The answers that are sent or about to be.
Outgoing == told \cup {frame[a] : a \in {b \in Attempts : pc[b] = "send"}}

AgreeInv ==
    lapses = 0 =>
        /\ \A f, g \in Outgoing : f = g
        /\ entry \notin {None, Pending} => \A f \in Outgoing : f = entry
        /\ entry = None => Outgoing = {} /\ \A a \in Attempts : ~Busy(a)
        /\ \A a \in Attempts : Busy(a) =>
                /\ entry = Pending /\ Outgoing = {}
                /\ \A b \in Attempts : Busy(b) => b = a

(* An attempt that goes on without becoming busy or sending adds no answer. *)
LEMMA QuietStep ==
    ASSUME AgreeInv, pc \in [Attempts -> Labels], NEW a \in Attempts, NEW label,
           Goto(a, label), label # "send",
           label \in {"version", "complete"} => Busy(a), label # "execute",
           \A b \in Attempts : b # a => frame'[b] = frame[b],
           pc[a] = "send" => told' \subseteq told \cup {frame[a]},
           pc[a] # "send" => told' = told,
           lapses' = lapses,
           entry' = entry \/ (entry = None /\ entry' = Pending)
    PROVE  AgreeInv'
<1> SUFFICES ASSUME lapses' = 0 PROVE AgreeInv'
  BY DEF AgreeInv
<1>1. Outgoing' \subseteq Outgoing
  BY DEF Outgoing, Goto
<1>2. \A b \in Attempts : Busy(b)' => Busy(b)
  BY DEF Busy, Goto, Labels
<1>3. lapses = 0
  OBVIOUS
<1>4. /\ \A f, g \in Outgoing : f = g
      /\ entry \notin {None, Pending} => \A f \in Outgoing : f = entry
      /\ entry = None => Outgoing = {} /\ \A b \in Attempts : ~Busy(b)
      /\ \A b \in Attempts : Busy(b) =>
                /\ entry = Pending /\ Outgoing = {}
                /\ \A c \in Attempts : Busy(c) => c = b
  BY <1>3 DEF AgreeInv
<1>5. None # Pending
  BY LedgerAssumption
<1> QED BY <1>1, <1>2, <1>4, <1>5 DEF AgreeInv

(* A reservation that is taken has one owner and no answers yet. *)
LEMMA ReserveAgrees ==
    ASSUME AgreeInv, pc \in [Attempts -> Labels], NEW a \in Attempts,
           entry = None, entry' = Pending, Goto(a, "execute"),
           UNCHANGED <<frame, told, lapses>>, pc[a] # "send"
    PROVE  AgreeInv'
<1> SUFFICES ASSUME lapses = 0 PROVE AgreeInv'
  BY DEF AgreeInv
<1>1. Outgoing = {} /\ \A b \in Attempts : ~Busy(b)
  BY DEF AgreeInv
<1>2. Outgoing' = {}
  BY <1>1 DEF Outgoing, Goto
<1>3. \A b \in Attempts : Busy(b)' => b = a
  BY <1>1 DEF Busy, Goto
<1>4. None # Pending
  BY LedgerAssumption
<1> QED BY <1>2, <1>3, <1>4 DEF AgreeInv

(* A replay sends what is stored. *)
LEMMA ReplayAgrees ==
    ASSUME AgreeInv, pc \in [Attempts -> Labels],
           frame \in [Attempts -> Frames \cup {None}], NEW a \in Attempts,
           entry \notin {None, Pending}, Answer(a, entry, "send"),
           UNCHANGED <<entry, told, lapses>>
    PROVE  AgreeInv'
<1> SUFFICES ASSUME lapses = 0 PROVE AgreeInv'
  BY DEF AgreeInv
<1>1. /\ \A f \in Outgoing : f = entry
      /\ \A b \in Attempts : ~Busy(b)
  BY DEF AgreeInv
<1>2. Outgoing' \subseteq Outgoing \cup {entry}
  BY DEF Outgoing, Answer, Goto
<1>3. \A b \in Attempts : ~Busy(b)'
  BY <1>1 DEF Busy, Answer, Goto
<1> QED BY <1>1, <1>2, <1>3 DEF AgreeInv

(* The owner's answer is the first one. *)
LEMMA CompleteAgrees ==
    ASSUME AgreeInv, pc \in [Attempts -> Labels], NEW a \in Attempts,
           pc[a] = "complete", Goto(a, "send"), frame[a] \in Frames,
           entry' = frame[a] \/ entry' = entry,
           UNCHANGED <<frame, told, lapses>>
    PROVE  AgreeInv'
<1> SUFFICES ASSUME lapses = 0 PROVE AgreeInv'
  BY DEF AgreeInv
<1>1. /\ entry = Pending /\ Outgoing = {}
      /\ \A b \in Attempts : Busy(b) => b = a
  BY DEF AgreeInv, Busy
<1>2. Outgoing' \subseteq {frame[a]}
  BY <1>1 DEF Outgoing, Goto
<1>3. \A b \in Attempts : ~Busy(b)'
  BY <1>1 DEF Busy, Goto
<1>4. entry' \in {frame[a], Pending} /\ None \notin {frame[a], Pending}
  BY <1>1, LedgerAssumption
<1> QED BY <1>2, <1>3, <1>4 DEF AgreeInv

LEMMA AgreeStep == TypeOK /\ AgreeInv /\ [Next]_vars => AgreeInv'
<1> SUFFICES ASSUME TypeOK, AgreeInv, [Next]_vars PROVE AgreeInv'
  OBVIOUS
<1>t. /\ pc \in [Attempts -> Labels] /\ frame \in [Attempts -> Frames \cup {None}]
      /\ lapses \in Nat /\ entry \in Frames \cup {None, Pending}
  BY DEF TypeOK, Labels
<1>1. ASSUME NEW a \in Attempts, Claim(a) \/ ClaimAgain(a) PROVE AgreeInv'
  <2>1. PICK label : reserve(a, label) /\ label \in {"get", "getAgain"}
    BY <1>1 DEF Claim, ClaimAgain
  <2>2. UNCHANGED <<frame, told, lapses>> /\ pc[a] \in {"claim", "claimAgain"}
    BY <1>1 DEF Claim, ClaimAgain
  <2>3. CASE entry = None
    BY <1>t, <2>1, <2>2, <2>3, ReserveAgrees DEF reserve
  <2>4. CASE entry # None
    BY <1>t, <2>1, <2>2, <2>4, QuietStep DEF reserve
  <2> QED BY <2>3, <2>4
<1>2. ASSUME NEW a \in Attempts, Get(a) PROVE AgreeInv'
  <2>1. UNCHANGED <<entry, told, lapses>> /\ pc[a] \in {"get", "getAgain"}
    BY <1>2 DEF Get, history
  <2>2. CASE entry \in {None, Pending}
    <3>1. PICK label \in {"claimAgain", "done"} : Goto(a, label) /\ UNCHANGED frame
      BY <1>2, <2>2 DEF Get
    <3> QED BY <1>t, <2>1, <3>1, QuietStep
  <2>3. CASE entry \notin {None, Pending}
    <3>1. Answer(a, entry, "send")
      BY <1>2, <2>3 DEF Get
    <3> QED BY <1>t, <2>1, <2>3, <3>1, ReplayAgrees
  <2> QED BY <2>2, <2>3
<1>3. ASSUME NEW a \in Attempts,
             \/ Execute(a) \/ ExecuteStale(a) \/ ExecuteRefused(a)
             \/ RoomVersion(a) \/ ExecuteFails(a)
      PROVE  AgreeInv'
  <2>1. UNCHANGED <<entry, told, lapses>> /\ pc[a] \in {"execute", "version"}
    BY <1>3 DEF Execute, ExecuteStale, ExecuteRefused, RoomVersion, ExecuteFails, history
  <2>2. PICK label \in {"version", "complete"} : \E f : Answer(a, f, label)
    BY <1>3 DEF Execute, ExecuteStale, ExecuteRefused, RoomVersion, ExecuteFails
  <2>3. Goto(a, label) /\ \A b \in Attempts : b # a => frame'[b] = frame[b]
    BY <1>t, <2>2 DEF Answer
  <2> QED BY <1>t, <2>1, <2>2, <2>3, QuietStep DEF Busy
<1>4. ASSUME NEW a \in Attempts, RoomVersionFails(a) \/ Crash(a) PROVE AgreeInv'
  <2>1. UNCHANGED <<entry, frame, told, lapses>>
    BY <1>4 DEF RoomVersionFails, Crash, history
  <2>2. \/ Goto(a, "done")
        \/ pc[a] = "version" /\ Goto(a, "complete")
    BY <1>4 DEF RoomVersionFails, Crash
  <2> QED BY <1>t, <2>1, <2>2, QuietStep DEF Busy
<1>5. ASSUME NEW a \in Attempts, Complete(a) \/ CompleteFails(a) PROVE AgreeInv'
  <2>1. frame[a] \in Frames
    BY <1>5, TypeSplit, AnswerIsFrame DEF Complete, CompleteFails
  <2>2. /\ pc[a] = "complete" /\ Goto(a, "send")
        /\ entry' = frame[a] \/ entry' = entry
        /\ UNCHANGED <<frame, told, lapses>>
    BY <1>5 DEF Complete, CompleteFails, history
  <2> QED BY <1>t, <2>1, <2>2, CompleteAgrees
<1>6. ASSUME NEW a \in Attempts, Send(a) PROVE AgreeInv'
  <2>1. /\ pc[a] = "send" /\ Goto(a, "done") /\ told' \subseteq told \cup {frame[a]}
        /\ UNCHANGED <<entry, frame, lapses>>
    BY <1>6 DEF Send
  <2> QED BY <1>t, <2>1, QuietStep
<1>7. ASSUME NEW a \in Attempts, ClaimFails(a) PROVE AgreeInv'
  <2>1. /\ pc[a] # "send" /\ Goto(a, "done") /\ UNCHANGED <<frame, told, lapses>>
        /\ entry' = entry \/ (entry = None /\ entry' = Pending)
    BY <1>7 DEF ClaimFails
  <2> QED BY <1>t, <2>1, QuietStep
<1>8. CASE PendingExpires \/ PendingExpiresEarly \/ ResultExpires
  BY <1>8, <1>t DEF PendingExpires, PendingExpiresEarly, ResultExpires, Lapse, AgreeInv
<1>9. ASSUME UNCHANGED <<entry, pc, frame, told, lapses>> PROVE AgreeInv'
  BY <1>9 DEF AgreeInv, Outgoing, Busy
<1>10. OtherChange \/ UNCHANGED vars => UNCHANGED <<entry, pc, frame, told, lapses>>
  BY DEF OtherChange, vars, history
<1> QED
  BY <1>1, <1>2, <1>3, <1>4, <1>5, <1>6, <1>7, <1>8, <1>9, <1>10 DEF Next, Step, Failure

(* Until the key expires every answer the client gets is the same one,     *)
(* however many deliveries there are: the outcome is stored before it is   *)
(* sent (finishCommand), and nothing is sent before the owner is done.     *)
THEOREM AnswersAlwaysAgree == Spec => []AnswersAgree
<1>1. Init => AgreeInv
  BY DEF Init, AgreeInv, Outgoing, Busy
<1>2. AgreeInv => AnswersAgree
  BY DEF AgreeInv, AnswersAgree, Outgoing
<1> QED BY <1>1, <1>2, TypeInit, TypeStep, AgreeStep, PTL DEF Spec

-----------------------------------------------------------------------------
(* Truth.  What holds of an answer that was sent holds of every answer on  *)
(* its way, in an attempt or in Redis.                                     *)

Carried(f) ==
    \/ f \in told
    \/ f = entry
    \/ \E a \in Attempts : pc[a] \in {"version", "complete", "send"} /\ f = frame[a]

AckTrue(f) ==
    f.kind = "ack" => effects > 0 /\ (f.version # None => f.version >= effectAt)

RefusalTrue(f) == f.kind = "error" /\ f.code # "internal" => effects = 0

TruthInv ==
    /\ effects = 0 <=> effectAt = None
    /\ effects > 0 => effectAt <= version
    /\ \A f \in Frames : Carried(f) => AckTrue(f)
    /\ lapses = 0 =>
        /\ \A f \in Frames : Carried(f) => RefusalTrue(f)
        /\ entry = None => effects = 0
        /\ \A a \in Attempts : pc[a] = "execute" => effects = 0

(* A step of which the command's effect is no part is true to it if its    *)
(* new answers are and if only a vacant key is reserved.                   *)
LEMMA NoEffectKeepsTruth ==
    ASSUME TypeOK, TruthInv, UNCHANGED <<effects, effectAt>>,
           version' \in Nat, version' >= version,
           lapses' = 0 => lapses = 0,
           \A f \in Frames : Carried(f)' =>
                Carried(f) \/ (AckTrue(f) /\ (lapses = 0 => RefusalTrue(f))),
           lapses' = 0 /\ entry' = None => entry = None,
           \A a \in Attempts : pc'[a] = "execute" => pc[a] = "execute" \/ entry = None
    PROVE  TruthInv'
<1>1. /\ effects' = 0 <=> effectAt' = None
      /\ effects' > 0 => effectAt' <= version'
  <2>1. effects > 0 => effectAt \in Nat /\ effectAt <= version
    BY DEF TypeOK, TruthInv
  <2> QED BY <2>1 DEF TypeOK, TruthInv
<1>2. \A f \in Frames : Carried(f)' => AckTrue(f)'
  BY DEF TruthInv, AckTrue
<1>3. ASSUME lapses' = 0
      PROVE  /\ \A f \in Frames : Carried(f)' => RefusalTrue(f)'
             /\ entry' = None => effects' = 0
             /\ \A a \in Attempts : pc'[a] = "execute" => effects' = 0
  BY <1>3 DEF TruthInv, RefusalTrue
<1> QED BY <1>1, <1>2, <1>3 DEF TruthInv

(* The effect is counted before there is an answer.                        *)
LEMMA EffectKeepsTruth ==
    ASSUME TypeOK, AgreeInv, TruthInv, NEW a \in Attempts, pc[a] = "execute", Change,
           UNCHANGED <<entry, told, lapses>>,
           NEW f0 \in {Ack(None), Error("internal", None)}, NEW label,
           label \in {"version", "complete"}, Answer(a, f0, label)
    PROVE  TruthInv'
<1>t. /\ version \in Nat /\ effects \in Nat /\ effectAt \in Nat \cup {None}
      /\ None \notin Nat /\ pc \in [Attempts -> Labels]
      /\ frame \in [Attempts -> Frames \cup {None}]
  BY LedgerAssumption DEF TypeOK, Labels
<1>1. /\ effects' = effects + 1 /\ version' = version + 1
      /\ effectAt' = IF effectAt = None THEN version' ELSE effectAt
  BY DEF Change
<1>2. \A f : Carried(f)' => Carried(f) \/ f = f0
  BY <1>t DEF Carried, Answer, Goto
<1>3. effects' # 0 /\ effectAt' # None /\ effectAt' <= version'
  BY <1>t, <1>1 DEF TruthInv
<1>4. ASSUME NEW f \in Frames, Carried(f)' PROVE AckTrue(f)'
  <2>1. CASE f = f0
    BY <2>1, <1>t, <1>1 DEF AckTrue, Ack, Error
  <2>2. CASE Carried(f)
    <3>1. f.kind = "ack" => effects > 0 /\ (f.version # None => f.version >= effectAt)
      BY <2>2 DEF TruthInv, AckTrue
    <3>2. effects > 0 => effectAt' = effectAt
      BY <1>1, <1>t DEF TruthInv
    <3>3. effects > 0 => effects' > 0
      BY <1>1, <1>t
    <3> QED BY <3>1, <3>2, <3>3 DEF AckTrue
  <2> QED BY <1>2, <1>4, <2>1, <2>2
<1>5. ASSUME lapses' = 0
      PROVE  /\ \A f \in Frames : Carried(f)' => RefusalTrue(f)'
             /\ entry' = None => effects' = 0
             /\ \A b \in Attempts : pc'[b] = "execute" => effects' = 0
  <2>1. /\ entry = Pending /\ Outgoing = {}
        /\ \A b \in Attempts : Busy(b) => b = a
    BY <1>5 DEF AgreeInv, Busy
  <2>2. \A f \in Frames : f # Pending
    BY DEF Frames, Pending
  <2>3. \A f \in Frames : ~Carried(f)
    BY <2>1, <2>2 DEF Carried, Outgoing, Busy
  <2>4. \A f \in Frames : Carried(f)' => f = f0
    BY <1>2, <2>3
  <2>5. RefusalTrue(f0)'
    BY DEF RefusalTrue, Ack, Error
  <2>6. entry' # None
    BY <2>1, LedgerAssumption
  <2>7. \A b \in Attempts : pc'[b] # "execute"
    BY <1>t, <2>1 DEF Busy, Answer, Goto
  <2> QED BY <2>4, <2>5, <2>6, <2>7
<1> QED BY <1>3, <1>4, <1>5, <1>t, <1>1 DEF TruthInv

(* The version an answer is given is that of a room with the effect.       *)
LEMMA VersionedIsTrue ==
    ASSUME TypeOK, TruthInv, NEW f \in Frames, Carried(f)
    PROVE  LET g == [f EXCEPT !.version = version]
           IN  AckTrue(g) /\ (lapses = 0 => RefusalTrue(g))
<1> DEFINE g == [f EXCEPT !.version = version]
<1>1. /\ g.kind = f.kind /\ g.version = version
      /\ f.kind = "error" => g.code = f.code
  BY DEF Frames
<1> HIDE DEF g
<1>2. AckTrue(f) /\ (lapses = 0 => RefusalTrue(f))
  BY DEF TruthInv
<1>3. AckTrue(g)
  BY <1>1, <1>2 DEF AckTrue, TruthInv, TypeOK
<1>4. lapses = 0 => RefusalTrue(g)
  BY <1>1, <1>2 DEF RefusalTrue
<1> QED BY <1>3, <1>4 DEF g

LEMMA TruthStep == TypeOK /\ AgreeInv /\ TruthInv /\ [Next]_vars => TruthInv'
<1> SUFFICES ASSUME TypeOK, AgreeInv, TruthInv, [Next]_vars PROVE TruthInv'
  OBVIOUS
<1>t. /\ pc \in [Attempts -> Labels] /\ frame \in [Attempts -> Frames \cup {None}]
      /\ lapses \in Nat /\ entry \in Frames \cup {None, Pending} /\ version \in Nat
  BY DEF TypeOK, Labels
<1>n. Pending \notin Frames /\ None \notin Frames \cup {Pending}
  BY LedgerAssumption DEF Pending, Frames
<1>1. ASSUME NEW a \in Attempts,
             Claim(a) \/ ClaimAgain(a) \/ ClaimFails(a)
      PROVE  TruthInv'
  <2>1. /\ UNCHANGED <<frame, told, lapses, version, effects, effectAt>>
        /\ entry' = entry \/ entry' = Pending
        /\ \E label \in Labels :
              /\ Goto(a, label) /\ label \notin {"version", "complete", "send"}
              /\ label = "execute" => entry = None
    BY <1>1 DEF Claim, ClaimAgain, ClaimFails, reserve, room, Labels
  <2>2. \A f \in Frames : Carried(f)' => Carried(f)
    BY <1>t, <1>n, <2>1 DEF Carried, Goto
  <2>3. \A b \in Attempts : pc'[b] = "execute" => pc[b] = "execute" \/ entry = None
    BY <1>t, <2>1 DEF Goto
  <2> QED BY <1>t, <1>n, <2>1, <2>2, <2>3, NoEffectKeepsTruth
<1>2. ASSUME NEW a \in Attempts, Get(a) PROVE TruthInv'
  <2>1. /\ UNCHANGED <<entry, told, lapses, version, effects, effectAt>>
        /\ pc[a] \in {"get", "getAgain"}
    BY <1>2 DEF Get, room, history
  <2>2. CASE entry \in {None, Pending}
    <3>1. PICK label \in {"claimAgain", "done"} : Goto(a, label) /\ UNCHANGED frame
      BY <1>2, <2>2 DEF Get
    <3>2. \A f \in Frames : Carried(f)' => Carried(f)
      BY <1>t, <2>1, <3>1 DEF Carried, Goto
    <3>3. \A b \in Attempts : pc'[b] = "execute" => pc[b] = "execute"
      BY <1>t, <3>1 DEF Goto
    <3> QED BY <1>t, <2>1, <3>2, <3>3, NoEffectKeepsTruth
  <2>3. CASE entry \notin {None, Pending}
    <3>1. Answer(a, entry, "send")
      BY <1>2, <2>3 DEF Get
    <3>2. \A f \in Frames : Carried(f)' => Carried(f)
      BY <1>t, <2>1, <3>1 DEF Carried, Answer, Goto
    <3>3. \A b \in Attempts : pc'[b] = "execute" => pc[b] = "execute"
      BY <1>t, <3>1 DEF Answer, Goto
    <3> QED BY <1>t, <2>1, <3>2, <3>3, NoEffectKeepsTruth
  <2> QED BY <2>2, <2>3
<1>3. ASSUME NEW a \in Attempts, Execute(a) PROVE TruthInv'
  BY <1>3, EffectKeepsTruth DEF Execute, history
<1>4. ASSUME NEW a \in Attempts, ExecuteFails(a), Change PROVE TruthInv'
  BY <1>4, EffectKeepsTruth DEF ExecuteFails, history
<1>5. ASSUME NEW a \in Attempts,
             ExecuteStale(a) \/ ExecuteRefused(a) \/ (ExecuteFails(a) /\ UNCHANGED room)
      PROVE  TruthInv'
  <2>1. /\ UNCHANGED <<entry, told, lapses, version, effects, effectAt>>
        /\ pc[a] = "execute"
    BY <1>5 DEF ExecuteStale, ExecuteRefused, ExecuteFails, room, history
  <2>2. PICK code \in Codes, label \in {"version", "complete"} :
            Answer(a, Error(code, None), label)
    BY <1>5 DEF ExecuteStale, ExecuteRefused, ExecuteFails, Codes
  <2> DEFINE f0 == Error(code, None)
  <2>3. AckTrue(f0) /\ (lapses = 0 => RefusalTrue(f0))
    BY <2>1 DEF AckTrue, RefusalTrue, Error, TruthInv
  <2> HIDE DEF f0
  <2>4. \A f \in Frames : Carried(f)' => Carried(f) \/ f = f0
    BY <1>t, <2>1, <2>2 DEF Carried, Answer, Goto, f0
  <2>5. \A b \in Attempts : pc'[b] = "execute" => pc[b] = "execute"
    BY <1>t, <2>2 DEF Answer, Goto
  <2> QED BY <1>t, <2>1, <2>3, <2>4, <2>5, NoEffectKeepsTruth
<1>6. ASSUME NEW a \in Attempts, RoomVersion(a) PROVE TruthInv'
  <2>1. /\ UNCHANGED <<entry, told, lapses, version, effects, effectAt>>
        /\ pc[a] = "version"
    BY <1>6 DEF RoomVersion, room, history
  <2> DEFINE f0 == [frame[a] EXCEPT !.version = version]
  <2>2. Answer(a, f0, "complete")
    BY <1>6 DEF RoomVersion
  <2>3. frame[a] \in Frames /\ Carried(frame[a])
    BY <2>1, TypeSplit, AnswerIsFrame DEF Carried
  <2>4. AckTrue(f0) /\ (lapses = 0 => RefusalTrue(f0))
    BY <2>3, VersionedIsTrue
  <2> HIDE DEF f0
  <2>5. \A f \in Frames : Carried(f)' => Carried(f) \/ f = f0
    BY <1>t, <2>1, <2>2 DEF Carried, Answer, Goto
  <2>6. \A b \in Attempts : pc'[b] = "execute" => pc[b] = "execute"
    BY <1>t, <2>2 DEF Answer, Goto
  <2> QED BY <1>t, <2>1, <2>4, <2>5, <2>6, NoEffectKeepsTruth
<1>7. ASSUME NEW a \in Attempts,
             \/ Complete(a) \/ CompleteFails(a) \/ Send(a)
             \/ RoomVersionFails(a) \/ Crash(a)
      PROVE  TruthInv'
  <2>1. UNCHANGED <<frame, lapses, version, effects, effectAt>>
    BY <1>7 DEF Complete, CompleteFails, Send, RoomVersionFails, Crash, room, history
  <2>2. \/ /\ pc[a] \in {"version", "complete"} /\ told' = told
           /\ entry' \in {entry, frame[a]}
           /\ Goto(a, "complete") \/ Goto(a, "send")
        \/ /\ pc[a] = "send" /\ entry' = entry
           /\ told' \in {told, told \cup {frame[a]}} /\ Goto(a, "done")
        \/ told' = told /\ entry' = entry /\ Goto(a, "done")
    BY <1>7 DEF Complete, CompleteFails, Send, RoomVersionFails, Crash, history
  <2>3. \A f \in Frames : Carried(f)' => Carried(f)
    BY <1>t, <2>1, <2>2 DEF Carried, Goto
  <2>4. \A b \in Attempts : pc'[b] = "execute" => pc[b] = "execute"
    BY <1>t, <2>2 DEF Goto
  <2>5. entry' = None => entry = None
    <3>1. pc[a] \in {"version", "complete"} => frame[a] \in Frames
      BY TypeSplit, AnswerIsFrame
    <3> QED BY <1>n, <2>2, <3>1
  <2> QED BY <1>t, <2>1, <2>3, <2>4, <2>5, NoEffectKeepsTruth
<1>8. CASE PendingExpires \/ PendingExpiresEarly \/ ResultExpires
  <2>1. /\ UNCHANGED <<pc, frame, told, version, effects, effectAt>>
        /\ entry' = None /\ lapses' = lapses + 1
    BY <1>8 DEF PendingExpires, PendingExpiresEarly, ResultExpires, Lapse, room
  <2>2. \A f \in Frames : Carried(f)' => Carried(f)
    BY <1>n, <2>1 DEF Carried
  <2>3. lapses' # 0
    BY <1>t, <2>1
  <2> QED BY <1>t, <2>1, <2>2, <2>3, NoEffectKeepsTruth
<1>9. CASE OtherChange \/ UNCHANGED vars
  <2>1. /\ UNCHANGED <<entry, pc, frame, told, lapses, effects, effectAt>>
        /\ version' = version + 1 \/ version' = version
    BY <1>9 DEF OtherChange, vars, history
  <2>2. \A f \in Frames : Carried(f)' => Carried(f)
    BY <2>1 DEF Carried
  <2>3. version' \in Nat /\ version' >= version
    BY <1>t, <2>1
  <2> QED BY <2>1, <2>2, <2>3, NoEffectKeepsTruth
<1>10. ASSUME NEW a \in Attempts, ExecuteFails(a) PROVE Change \/ UNCHANGED room
  BY <1>10 DEF ExecuteFails
<1> QED
  BY <1>1, <1>2, <1>3, <1>4, <1>5, <1>6, <1>7, <1>8, <1>9, <1>10 DEF Next, Step, Failure

(* What the client is told is true for any number of deliveries: an        *)
(* acknowledgement comes after the effect and with a version that includes *)
(* it, a refusal, until the key expires, only without an effect.           *)
THEOREM AnswersAlwaysTrue == Spec => []AnswersAreTrue
<1>1. Init => AgreeInv /\ TruthInv
  BY LedgerAssumption DEF Init, AgreeInv, Outgoing, Busy, TruthInv, Carried
<1>2. TypeOK /\ TruthInv => AnswersAreTrue
  BY DEF TypeOK, TruthInv, AnswersAreTrue, Carried, AckTrue, RefusalTrue
<1> QED BY <1>1, <1>2, TypeInit, TypeStep, AgreeStep, TruthStep, PTL DEF Spec

=============================================================================
