-------------------------- MODULE UnvotedReminder --------------------------
(***************************************************************************)
(* The reminder of a participant the room is waiting for                   *)
(* (hooks/useUnvotedReminder.ts): refs written by every render, an effect  *)
(* that runs after the render and arms a timer, and the timer's callback,  *)
(* which may come between the two.                                         *)
(*                                                                         *)
(* What is rendered, [view, client, connected], has what logicalState is   *)
(* put together from; a view has the story, whether votes are revealed and *)
(* of every participant whether it spectates, waits or has voted.          *)
(* Generations tell a cancelled timer from a running one; here a cancelled *)
(* timer is None.                                                          *)
(***************************************************************************)
EXTENDS Naturals, FiniteSets

CONSTANT NoTimer

VARIABLES
    seen,     \* the refs: what was rendered last
    logical,  \* logicalStateRef: what the effect has run for
    armed,    \* the logical state of the timer that is running
    count     \* countsRef, of the current logical state

reminderVars == <<seen, logical, armed, count>>

MaxRepeats == 3

active(x)  == {p \in DOMAIN x.view.participants : x.view.participants[p] # "spectates"}
waiting(x) == {p \in active(x) : x.view.participants[p] = "waits"}

\* The client is among the last the others are waiting for.
AwaitedAmong(x) ==
    /\ Cardinality(waiting(x)) = 1 \/ Cardinality(active(x)) >= 3
    /\ x.client \in waiting(x)

Due(x) ==
    /\ x.connected
    /\ ~x.view.reveal
    /\ Cardinality(active(x)) >= 2
    /\ Cardinality(waiting(x)) <= 2
    /\ AwaitedAmong(x)

\* The effect of a render is run before the next render.
Render(x) ==
    /\ seen = logical
    /\ seen # x
    /\ seen' = x
    /\ UNCHANGED <<logical, armed, count>>

\* Mutant: a state that calls for no reminder returns before the old timer is
\* cancelled.
RunEffect_CancelsLate ==
    /\ seen # logical
    /\ logical' = seen
    /\ count' = 0
    /\ armed' = IF Due(seen) THEN seen ELSE armed
    /\ UNCHANGED seen

RunEffect ==
    /\ seen # logical
    /\ logical' = seen
    /\ count' = 0
    /\ armed' = IF Due(seen) THEN seen ELSE NoTimer
    /\ UNCHANGED seen

\* What the callback asks of the refs, which may be newer than its own state.
StillDue ==
    /\ logical = armed
    /\ seen.connected
    /\ ~seen.view.reveal
    /\ seen.view.story = armed.view.story
    /\ AwaitedAmong(seen)
    /\ count < MaxRepeats

\* Mutant: the repeated reminder is forgotten.
notify_Once ==
    /\ armed # NoTimer
    /\ count' = IF StillDue THEN count + 1 ELSE count
    /\ armed' = NoTimer
    /\ UNCHANGED <<seen, logical>>

\* The timer's callback.
notify ==
    /\ armed # NoTimer
    /\ IF StillDue
       THEN /\ count' = count + 1
            /\ armed' = IF count' < MaxRepeats THEN armed ELSE NoTimer
       ELSE count' = count /\ armed' = NoTimer
    /\ UNCHANGED <<seen, logical>>

\* A new page, of which x was rendered.
Fresh(x) == seen = x /\ logical = NoTimer /\ armed = NoTimer /\ count = 0

\* Unmounting cancels; the next page starts anew.
Unmounted(x) == seen' = x /\ logical' = NoTimer /\ armed' = NoTimer /\ count' = 0

-----------------------------------------------------------------------------
(* A timer runs only for the state the effect has last run for, one in     *)
(* which the client is due and has not had all its reminders; whatever     *)
(* ended that state has cancelled it.                                      *)
TimersAreDue ==
    armed # NoTimer => armed = logical /\ Due(armed) /\ count < MaxRepeats

(* A client that is due, and stays so, gets all three reminders.           *)
WaitersAreReminded ==
    (logical # NoTimer /\ Due(logical)) ~> (count = MaxRepeats \/ seen # logical)
=============================================================================
