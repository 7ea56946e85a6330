---------------------------- MODULE RoomCommands ----------------------------
(***************************************************************************)
(* The commands that reach a room and the operation of the aggregate each  *)
(* of them applies: what the use cases do between loading a room and       *)
(* saving it, for every hub they may run on (RoomService: Redis;           *)
(* InMemoryHub).                                                           *)
(***************************************************************************)
EXTENDS RoomAggregate

CONSTANT Commands  \* commands that may arrive

GuardedKinds ==
    {"reveal-votes", "reset", "toggle-spectator", "toggle-owner",
     "toggle-backlog-mode", "remove-story", "select-story", "reorder-story",
     "advance-story", "prev-story", "update-story"}

\* reset stands for vote-again too: both use cases call ResetVoting.
Kinds == GuardedKinds \cup
    {"join", "leave", "vote", "add-story", "admin-toggle-owner", "update-name"}

\* The payload of a command.
Args(kind) ==
    CASE kind = "vote" -> Cards \cup {None}
      [] kind \in {"toggle-spectator", "toggle-owner", "admin-toggle-owner"} -> ClientIDs
      [] kind \in {"remove-story", "select-story"} -> StoryIDs
      [] kind = "reorder-story" -> StoryIDs \X Nat
      [] kind \in {"add-story", "update-story"} -> StoryNames \cup {None}
      [] kind = "update-name" -> ClientNames \cup {None}
      [] OTHER -> {None}

ASSUME CommandAssumption ==
    \A command \in Commands :
        /\ command.kind \in Kinds
        /\ command.sender \in ClientIDs
        /\ command.arg \in Args(command.kind)

-----------------------------------------------------------------------------
(* The operation of a command on a loaded room.  A new story takes some    *)
(* unused id; commands that find none are refused, which bounds the        *)
(* backlog and is not in the code.                                         *)

unusedID(r) == CHOOSE id \in StoryIDs : FreshStoryID(r, id)

OperationError(command, r) ==
    LET c == command.sender
        a == command.arg
    IN  CASE command.kind = "vote" -> VoteError(r, c, a)
          [] command.kind = "update-name" -> ClientError(r, c)
          [] command.kind = "admin-toggle-owner" -> AdminToggleOwnerError(r, a)
          [] command.kind \in {"toggle-spectator", "toggle-owner"} -> TargetError(r, c, a)
          [] command.kind = "remove-story" -> RemoveStoryError(r, c, a)
          [] command.kind = "select-story" -> SelectStoryError(r, c, a)
          [] command.kind = "reorder-story" -> ReorderStoryError(r, c, a[1], a[2])
          [] command.kind \in {"add-story", "toggle-backlog-mode"} ->
                IF \E id \in StoryIDs : FreshStoryID(r, id)
                THEN OwnerError(r, c) ELSE "backlog_full"
          [] OTHER -> OwnerError(r, c)

Operation(command, r) ==
    LET a == command.arg
    IN  CASE command.kind = "vote" -> Vote(r, command.sender, a)
          [] command.kind = "update-name" -> UpdateClientName(r, command.sender, a)
          [] command.kind = "admin-toggle-owner" -> AdminToggleOwner(r, a)
          [] command.kind = "toggle-spectator" -> ToggleSpectator(r, a)
          [] command.kind = "toggle-owner" -> ToggleOwner(r, a)
          [] command.kind = "reveal-votes" -> ToggleReveal(r)
          [] command.kind = "reset" -> ResetVoting(r)
          [] command.kind = "toggle-backlog-mode" -> ToggleBacklogMode(r, unusedID(r))
          [] command.kind = "add-story" -> AddStory(r, a, unusedID(r))
          [] command.kind = "remove-story" -> RemoveStory(r, a)
          [] command.kind = "select-story" -> SelectStory(r, a)
          [] command.kind = "reorder-story" -> ReorderStory(r, a[1], a[2])
          [] command.kind = "advance-story" -> AdvanceToNextStory(r)
          [] command.kind = "prev-story" -> PrevStory(r)
          [] command.kind = "update-story" -> SetCurrentStory(r, a)

-----------------------------------------------------------------------------
(* One whole operation: what AtomicRoom lets happen to a room in a step.   *)

\* A command other than the admin's comes from a client that joined, but may
\* have left; a leave never empties the room here, see LastLeaves.
OneOperation(r, s) ==
    \/ \E c \in ClientIDs :
          \/ ~FindClient(r, c) /\ s = NewClient(r, c)
          \/ s = RemoveClient(r, c) /\ ~IsEmpty(s)
    \/ \E command \in Commands :
          /\ command.kind \notin {"join", "leave"}
          /\ OperationError(command, r) = OK
          /\ s = Operation(command, r)

LastLeaves(r) == \E c \in ClientIDs : IsEmpty(RemoveClient(r, c))

=============================================================================
