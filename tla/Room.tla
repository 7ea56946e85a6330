-------------------------------- MODULE Room --------------------------------
(***************************************************************************)
(* One room with every operation applied atomically: what the domain model *)
(* promises to the use cases when their locks, loads and saves work.       *)
(*                                                                         *)
(* NewRoom stands for a room that was just created and for one that is     *)
(* gone: the hub deletes a room when its last client leaves, and the next  *)
(* join by link creates it anew.                                           *)
(***************************************************************************)
EXTENDS RoomAggregate

VARIABLE room

Init == room = NewRoom

-----------------------------------------------------------------------------
(* Presence *)

\* JoinRoom calls NewClient only for an id that is not in the room.
Join(c) ==
    /\ ~FindClient(room, c)
    /\ room' = NewClient(room, c)

\* LeaveRoom, the admin's kick and removal: Hub.RemoveClient.  It deletes an
\* empty room.  Late calls for a client that has left already happen.
Leave(c) ==
    LET left == RemoveClient(room, c)
    IN  /\ ~IsEmpty(room)
        /\ room' = IF IsEmpty(left) THEN NewRoom ELSE left

ToggleSpectatorCmd(c, target) ==
    /\ ToggleSpectatorError(room, c, target) = OK
    /\ room' = ToggleSpectator(room, target)

ToggleOwnerCmd(c, target) ==
    /\ ToggleOwnerError(room, c, target) = OK
    /\ room' = ToggleOwner(room, target)

AdminToggleOwnerCmd(target) ==
    /\ AdminToggleOwnerError(room, target) = OK
    /\ room' = AdminToggleOwner(room, target)

UpdateNameCmd(c, name) ==
    /\ ClientError(room, c) = OK
    /\ room' = UpdateClientName(room, c, name)

-----------------------------------------------------------------------------
(* Voting *)

VoteCmd(c, vote) ==
    /\ VoteError(room, c, vote) = OK
    /\ room' = Vote(room, c, vote)

RevealCmd(c) ==
    /\ OwnerError(room, c) = OK
    /\ room' = ToggleReveal(room)

\* reset and vote-again both call ResetVoting.
ResetCmd(c) ==
    /\ OwnerError(room, c) = OK
    /\ room' = ResetVoting(room)

-----------------------------------------------------------------------------
(* Backlog *)

ToggleBacklogModeCmd(c, id) ==
    /\ OwnerError(room, c) = OK
    /\ FreshStoryID(room, id)
    /\ room' = ToggleBacklogMode(room, id)

AddStoryCmd(c, name, id) ==
    /\ OwnerError(room, c) = OK
    /\ FreshStoryID(room, id)
    /\ room' = AddStory(room, name, id)

RemoveStoryCmd(c, id) ==
    /\ RemoveStoryError(room, c, id) = OK
    /\ room' = RemoveStory(room, id)

SelectStoryCmd(c, id) ==
    /\ SelectStoryError(room, c, id) = OK
    /\ room' = SelectStory(room, id)

ReorderStoryCmd(c, id, targetIndex) ==
    /\ ReorderStoryError(room, c, id, targetIndex) = OK
    /\ room' = ReorderStory(room, id, targetIndex)

NextStoryCmd(c) ==
    /\ OwnerError(room, c) = OK
    /\ room' = AdvanceToNextStory(room)

PrevStoryCmd(c) ==
    /\ OwnerError(room, c) = OK
    /\ room' = PrevStory(room)

UpdateStoryCmd(c, text) ==
    /\ OwnerError(room, c) = OK
    /\ room' = SetCurrentStory(room, text)

-----------------------------------------------------------------------------
PresenceStep ==
    \E c \in ClientIDs :
        \/ Join(c)
        \/ Leave(c)
        \/ \E target \in ClientIDs :
                ToggleSpectatorCmd(c, target) \/ ToggleOwnerCmd(c, target)
        \/ AdminToggleOwnerCmd(c)
        \/ \E name \in ClientNames \cup {None} : UpdateNameCmd(c, name)

VotingStep ==
    \E c \in ClientIDs :
        \/ \E vote \in Cards \cup {None} : VoteCmd(c, vote)
        \/ RevealCmd(c)
        \/ ResetCmd(c)

BacklogStep ==
    \E c \in ClientIDs :
        \/ \E id \in StoryIDs :
              \/ ToggleBacklogModeCmd(c, id)
              \/ \E name \in StoryNames \cup {None} : AddStoryCmd(c, name, id)
              \/ RemoveStoryCmd(c, id)
              \/ SelectStoryCmd(c, id)
              \/ \E targetIndex \in 0 .. Len(room.stories) :
                    ReorderStoryCmd(c, id, targetIndex)
        \/ NextStoryCmd(c)
        \/ PrevStoryCmd(c)
        \/ \E text \in StoryNames \cup {None} : UpdateStoryCmd(c, text)

Next == PresenceStep \/ VotingStep \/ BacklogStep

Spec == Init /\ [][Next]_room

-----------------------------------------------------------------------------
(* The conjuncts are defined, and explained, in RoomAggregate. *)

(* Every field of the room has its type, no client is listed twice, no two *)
(* stories share an id, and a client that is not in the room has no state. *)
TypeOK == RoomTypeOK(room)

(* A room with clients has an owner: whoever leaves or is demoted, by an   *)
(* owner or by the admin, somebody can still run the session               *)
(* (RemoveClient's promotion, the last-owner guards).                      *)
RoomHasOwner == HasOwner(room)

(* The index of the current story denotes a story of the backlog, or is 0  *)
(* when there is none: RemoveStory, ReorderStory, next and previous keep   *)
(* it within bounds in every combination.                                  *)
StoryIndexValid == StoryIndexInRange(room)

(* Results are shown only while the room is revealed, a story that was     *)
(* never revealed carries none, and what a revealed room shows is what its *)
(* estimated current story has recorded.                                   *)
ResultsCoherent == ResultsAgree(room)

(* Whatever completes the ballot (the last vote, the leave of the last     *)
(* undecided client, a client made spectator) reveals it in the same step: *)
(* no room waits for a vote that nobody owes.                              *)
CompletedBallotReveals == [][CompletionReveals(room, room')]_room

(* While a room stays revealed nothing changes the votes or the results it *)
(* shows: not late votes, leaves, joins or spectator changes, and no       *)
(* second reveal recomputes them.                                          *)
RevealedIsFrozen == [][Frozen(room, room')]_room

(* A step that makes another story current starts a round without votes    *)
(* and results, and a step that only moves stories around the current one  *)
(* keeps it current.                                                       *)
AnotherStoryStartsFreshRound == [][FreshRound(room, room')]_room

(* An estimated story stays estimated, and only a reveal while it is       *)
(* current changes its estimate: no index shift writes a result to another *)
(* story.                                                                  *)
EstimatesKept == [][KeepsEstimates(room, room')]_room

=============================================================================
