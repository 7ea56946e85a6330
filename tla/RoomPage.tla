------------------------------ MODULE RoomPage ------------------------------
(***************************************************************************)
(* The room page: the reminder renders what the connection shows.          *)
(***************************************************************************)
EXTENDS RoomConnection, UnvotedReminder

CONSTANT NoView  \* emptySnapshot

vars == <<connectionVars, reminderVars>>

\* What a render passes to the reminder.
Page == [view |-> IF snapshot = None THEN NoView ELSE snapshot.view,
         client |-> clientId, connected |-> isConnected]

NewPage == [view |-> NoView, client |-> None, connected |-> TRUE]

Init == ConnectionInit /\ Fresh(NewPage)

\* The page component is there.
Shown == route # None \/ mounted # None

RenderPage == Shown /\ Render(Page) /\ UNCHANGED connectionVars

Effect == Shown /\ RunEffect /\ UNCHANGED connectionVars

Notify == notify /\ UNCHANGED connectionVars

\* From one room to another the component stays.
MoveOn == route # None /\ Cleanup /\ UNCHANGED reminderVars

EndPage == route = None /\ Cleanup /\ Unmounted(NewPage)

Restart == Reload /\ Unmounted(NewPage)

Next ==
    \/ PageStep /\ UNCHANGED reminderVars
    \/ RenderPage \/ Effect \/ Notify
    \/ MoveOn \/ EndPage \/ Restart

Spec == Init /\ [][Next]_vars

FairSpec ==
    /\ Spec
    /\ ConnectionFairness
    /\ WF_vars(RenderPage) /\ WF_vars(Effect) /\ WF_vars(Notify)

=============================================================================
