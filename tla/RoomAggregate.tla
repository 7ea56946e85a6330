---------------------------- MODULE RoomAggregate ----------------------------
(***************************************************************************)
(* The Room aggregate (internal/domain/entity) as a value and its          *)
(* operations as operators on that value, so that the state machines that  *)
(* hold a room (Room.tla: the aggregate alone; RoomService.tla: the copies *)
(* that use cases load, change and save) share one translation.            *)
(*                                                                         *)
(* An operation Op(r, ...) has a companion OpError(r, ...): the error code *)
(* the method returns, or OK.  Every method checks before it changes       *)
(* anything, so a failed operation leaves the room as it was and Op is     *)
(* only used when OpError is OK.                                           *)
(*                                                                         *)
(* Domain events are buffered in the room and read by tests only; they are *)
(* left out, and so are VotedAt and the room's start time.                 *)
(***************************************************************************)
EXTENDS Voting, SequencesExt

CONSTANTS
    ClientIDs,   \* clients that may ever join
    ClientNames, \* names a client may take, besides the empty one
    StoryIDs,    \* story identifiers: bounds the stories a room holds at once
    StoryNames   \* story texts, besides the empty one

ASSUME RoomAssumption == None \notin StoryIDs

OK == "ok"
ErrorCodes == {"validation", "forbidden", "not_found", "conflict"}

-----------------------------------------------------------------------------
(* A room.  The fields of the clients are functions on all ClientIDs with  *)
(* the zero value for those that are not in the room.                      *)

Summaries ==
    {NoSummary} \cup {summarize(b) : b \in [ClientIDs -> Cards \cup {None}]}

\* What a story keeps of the summary of its reveal.
StoryResult(summary) == [result |-> summary.result,
                         mostAppearingVotes |-> summary.mostAppearingVotes]

Stories ==
    [id    : StoryIDs, name : StoryNames \cup {None}, voted : BOOLEAN,
     value : {StoryResult(summary) : summary \in Summaries}]

Rooms ==
    [clients           : Seq(ClientIDs),
     name              : [ClientIDs -> ClientNames \cup {None}],
     isOwner           : [ClientIDs -> BOOLEAN],
     isSpectator       : [ClientIDs -> BOOLEAN],
     vote              : [ClientIDs -> Cards \cup {None}],
     currentStory      : StoryNames \cup {None},
     reveal            : BOOLEAN,
     summary           : Summaries,
     backlogMode       : BOOLEAN,
     stories           : Seq(Stories),
     currentStoryIndex : Int]

NewRoom ==
    [clients           |-> <<>>,
     name              |-> [c \in ClientIDs |-> None],
     isOwner           |-> [c \in ClientIDs |-> FALSE],
     isSpectator       |-> [c \in ClientIDs |-> FALSE],
     vote              |-> [c \in ClientIDs |-> None],
     currentStory      |-> None,
     reveal            |-> FALSE,
     summary           |-> NoSummary,
     backlogMode       |-> TRUE,
     stories           |-> <<>>,
     currentStoryIndex |-> 0]

NewStory(id, name) ==
    [id |-> id, name |-> name, voted |-> FALSE, value |-> StoryResult(NoSummary)]

-----------------------------------------------------------------------------
(* Lookups *)

Present(r) == Range(r.clients)

FindClient(r, c) == c \in Present(r)

Owners(r) == {c \in Present(r) : r.isOwner[c]}

IsEmpty(r) == r.clients = <<>>

hasVoted(r, c) == r.vote[c] # None

\* The guard of reveal and SetCurrentStory: the index denotes a story.
hasCurrentStory(r) ==
    /\ r.backlogMode
    /\ r.currentStoryIndex >= 0
    /\ r.currentStoryIndex < Len(r.stories)

\* The current story; the code's index starts at 0.
CurrentStory(r) == r.stories[r.currentStoryIndex + 1]

\* ... and its identifier, None without one.
currentStoryID(r) ==
    IF r.currentStoryIndex >= 0 /\ r.currentStoryIndex < Len(r.stories)
    THEN CurrentStory(r).id ELSE None

HasStory(r, id) == \E i \in DOMAIN r.stories : r.stories[i].id = id

storyIndexByID(r, id) ==
    IF HasStory(r, id)
    THEN (CHOOSE i \in DOMAIN r.stories : r.stories[i].id = id) - 1
    ELSE -1

\* A command is for clients of the room, most of them for its owners only.
ClientError(r, c) == IF FindClient(r, c) THEN OK ELSE "not_found"

OwnerError(r, c) ==
    IF FindClient(r, c) /\ ~r.isOwner[c] THEN "forbidden" ELSE ClientError(r, c)

-----------------------------------------------------------------------------
(* Voting (room_voting.go) *)

\* Mutant: also while the room is revealed.
applyVote_Always(r, c, vote) == [r EXCEPT !.vote[c] = vote]

\* Votes are frozen while the room is revealed.
applyVote(r, c, vote) ==
    IF r.reveal THEN r ELSE [r EXCEPT !.vote[c] = vote]

clearVotes(r) ==
    IF r.reveal THEN r ELSE [r EXCEPT !.vote = [c \in ClientIDs |-> None]]

ballot(r) ==
    [c \in ClientIDs |-> IF c \in Present(r) /\ ~r.isSpectator[c]
                         THEN r.vote[c] ELSE None]

Estimated(story, summary) ==
    [story EXCEPT !.voted = TRUE, !.value = StoryResult(summary)]

replaceCurrent(r, story) ==
    [r EXCEPT !.stories = [r.stories EXCEPT ![r.currentStoryIndex + 1] = story]]

stampStory(r) ==
    IF hasCurrentStory(r)
    THEN replaceCurrent(r, Estimated(CurrentStory(r), r.summary))
    ELSE r

\* Mutant: a revealed room is revealed again.
show_Again(r) ==
    stampStory([r EXCEPT !.reveal = TRUE, !.summary = summarize(ballot(r))])

show(r) ==
    IF r.reveal THEN r
    ELSE stampStory([r EXCEPT !.reveal = TRUE, !.summary = summarize(ballot(r))])

\* Mutant: the results stay.
hide_KeepsSummary(r) == [r EXCEPT !.reveal = FALSE]

hide(r) == [r EXCEPT !.reveal = FALSE, !.summary = NoSummary]

everyoneVoted(r) == \A c \in Present(r) : r.isSpectator[c] \/ hasVoted(r, c)

checkReveal(r) == IF everyoneVoted(r) THEN show(r) ELSE r

\* Mutant: the other order.
startRound_Swapped(r) == hide(clearVotes(r))

\* reveal(false) and then a nil vote for every client: in this order, because
\* applyVote is a no-op while the room is revealed.
startRound(r) == clearVotes(hide(r))

VoteError(r, c, vote) ==
    IF FindClient(r, c) /\ vote # None /\ ~HasCard(vote)
    THEN "validation" ELSE ClientError(r, c)
Vote(r, c, vote) == checkReveal(applyVote(r, c, vote))

ToggleReveal(r) == IF r.reveal THEN hide(r) ELSE show(r)

ResetVoting(r) == startRound(r)

-----------------------------------------------------------------------------
(* Presence (room_presence.go) *)

NewClient(r, c) ==
    LET joined == [r EXCEPT !.clients = Append(@, c)]
    IN  IF Len(joined.clients) = 1
        THEN [joined EXCEPT !.isOwner[c] = TRUE]
        ELSE joined

\* ClientCollection.Remove; the client's own fields go with it.
dropClient(r, c) ==
    [r EXCEPT !.clients        = RemoveFirst(@, c),
              !.name[c]        = None,
              !.isOwner[c]     = FALSE,
              !.isSpectator[c] = FALSE,
              !.vote[c]        = None]

\* Mutant: only a client left alone is promoted.
promoteFirst_LastOnly(r) ==
    IF Len(r.clients) = 1 THEN [r EXCEPT !.isOwner[r.clients[1]] = TRUE] ELSE r

promoteFirst(r) ==
    IF Owners(r) = {} /\ ~IsEmpty(r)
    THEN [r EXCEPT !.isOwner[r.clients[1]] = TRUE]
    ELSE r

\* Mutant: a leave that completes the ballot goes unnoticed.
RemoveClient_NoReveal(r, c) == promoteFirst(dropClient(r, c))

\* Also called for a client that has left already: nothing is removed then,
\* but the room is still checked for a reveal.
RemoveClient(r, c) == checkReveal(promoteFirst(dropClient(r, c)))

TargetError(r, c, target) ==
    IF OwnerError(r, c) = OK THEN ClientError(r, target) ELSE OwnerError(r, c)

ToggleSpectatorError(r, c, target) == TargetError(r, c, target)
ToggleSpectator(r, target) ==
    checkReveal(applyVote(
        [r EXCEPT !.isSpectator[target] = ~@], target, None))

isLastOwner(r, target) == Owners(r) = {target}

\* The last owner's request is accepted and ignored.
ToggleOwnerError(r, c, target) == TargetError(r, c, target)
ToggleOwner(r, target) ==
    IF isLastOwner(r, target) THEN r
    ELSE [r EXCEPT !.isOwner[target] = ~@]

\* Mutant: the admin may demote anybody.
AdminToggleOwnerError_Unchecked(r, target) == ClientError(r, target)

\* The admin's is refused.
AdminToggleOwnerError(r, target) ==
    IF isLastOwner(r, target) THEN "conflict" ELSE ClientError(r, target)
AdminToggleOwner(r, target) ==
    [r EXCEPT !.isOwner[target] = ~@]

UpdateClientName(r, c, name) == [r EXCEPT !.name[c] = name]

-----------------------------------------------------------------------------
(* Backlog (room_backlog.go).  uuid.NewString is an id that no story of    *)
(* the room has.                                                           *)

FreshStoryID(r, id) == id \in StoryIDs /\ ~HasStory(r, id)

getCurrentStoryName(r) ==
    IF r.stories # <<>> /\ r.currentStoryIndex < Len(r.stories)
    THEN CurrentStory(r).name ELSE None

ToggleBacklogMode(r, id) ==
    IF r.backlogMode
    THEN [r EXCEPT !.backlogMode  = FALSE,
                   !.currentStory = IF getCurrentStoryName(r) # None
                                    THEN getCurrentStoryName(r) ELSE @,
                   !.stories      = <<>>,
                   !.currentStoryIndex = 0]
    ELSE IF r.currentStory # None
         THEN [r EXCEPT !.backlogMode = TRUE,
                        !.stories     = <<NewStory(id, r.currentStory)>>,
                        !.currentStoryIndex = 0]
         ELSE [r EXCEPT !.backlogMode = TRUE]

AddStory(r, name, id) ==
    [r EXCEPT !.backlogMode = TRUE,
              !.stories     = Append(@, NewStory(id, name)),
              !.currentStoryIndex = IF r.stories = <<>> THEN 0 ELSE @]

StoryError(r, c, id) ==
    IF OwnerError(r, c) # OK THEN OwnerError(r, c)
    ELSE IF id = None THEN "validation"
    ELSE IF HasStory(r, id) THEN OK ELSE "not_found"

RemoveStoryError(r, c, id) == StoryError(r, c, id)
RemoveStory(r, id) ==
    LET index   == storyIndexByID(r, id)
        current == r.currentStoryIndex
        without == [r EXCEPT !.stories = RemoveAt(@, index + 1)]
        before  == [without EXCEPT !.currentStoryIndex = current - 1]
    IN  IF index = current
        THEN startRound(IF current > 0 /\ index = Len(r.stories) - 1
                        THEN before ELSE without)
        ELSE IF index < current THEN before ELSE without

SelectStoryError(r, c, id) ==
    IF /\ StoryError(r, c, id) = OK
       /\ \/ storyIndexByID(r, id) = r.currentStoryIndex
          \/ r.stories[storyIndexByID(r, id) + 1].voted
    THEN "conflict" ELSE StoryError(r, c, id)
SelectStory(r, id) ==
    startRound([r EXCEPT !.currentStoryIndex = storyIndexByID(r, id)])

ReorderStoryError(r, c, id, targetIndex) ==
    IF /\ OwnerError(r, c) = OK
       /\ id # None
       /\ targetIndex \notin 0 .. Len(r.stories) - 1
    THEN "validation" ELSE StoryError(r, c, id)

\* The current story keeps its id; without one the index follows the move.
updateCurrentStoryIndex(r, storyIndex, targetIndex, currentID) ==
    LET index == r.currentStoryIndex
        left  == IF storyIndex < index THEN index - 1 ELSE index
    IN  [r EXCEPT !.currentStoryIndex =
            IF currentID # None THEN storyIndexByID(r, currentID)
            ELSE IF index = storyIndex THEN targetIndex
            ELSE IF targetIndex <= left THEN left + 1 ELSE left]

ReorderStory(r, id, targetIndex) ==
    LET storyIndex == storyIndexByID(r, id)
        story      == r.stories[storyIndex + 1]
        moved      == [r EXCEPT !.stories =
                        InsertAt(RemoveAt(@, storyIndex + 1), targetIndex + 1, story)]
    IN  IF storyIndex = targetIndex THEN r
        ELSE updateCurrentStoryIndex(moved, storyIndex, targetIndex, currentStoryID(r))

\* Mutant: off by one at the end of the backlog.
AdvanceToNextStory_PastEnd(r) ==
    IF r.currentStoryIndex <= Len(r.stories) - 1
    THEN startRound([r EXCEPT !.currentStoryIndex = @ + 1]) ELSE r

AdvanceToNextStory(r) ==
    IF r.currentStoryIndex < Len(r.stories) - 1
    THEN startRound([r EXCEPT !.currentStoryIndex = @ + 1]) ELSE r

PrevStory(r) ==
    IF r.currentStoryIndex > 0
    THEN startRound([r EXCEPT !.currentStoryIndex = @ - 1]) ELSE r

SetCurrentStory(r, text) ==
    IF hasCurrentStory(r)
    THEN replaceCurrent(r, [CurrentStory(r) EXCEPT !.name = text])
    ELSE [r EXCEPT !.currentStory = text]

-----------------------------------------------------------------------------
(* What makes a room, and a change of a room, correct.  Stated of values,  *)
(* for every module that holds rooms.                                      *)

RoomTypeOK(r) ==
    /\ r \in Rooms
    /\ \A i, j \in DOMAIN r.clients : r.clients[i] = r.clients[j] => i = j
    /\ \A i, j \in DOMAIN r.stories : r.stories[i].id = r.stories[j].id => i = j
    /\ \A c \in ClientIDs \ Present(r) :
            /\ r.name[c] = None /\ r.vote[c] = None
            /\ ~r.isOwner[c] /\ ~r.isSpectator[c]

HasOwner(r) == ~IsEmpty(r) => Owners(r) # {}

StoryIndexInRange(r) ==
    IF r.stories = <<>>
    THEN r.currentStoryIndex = 0
    ELSE r.backlogMode /\ r.currentStoryIndex \in 0 .. Len(r.stories) - 1

ResultsAgree(r) ==
    /\ ~r.reveal => r.summary = NoSummary
    /\ \A i \in DOMAIN r.stories :
            ~r.stories[i].voted => r.stories[i].value = StoryResult(NoSummary)
    /\ r.reveal /\ hasCurrentStory(r) /\ CurrentStory(r).voted
            => CurrentStory(r).value = StoryResult(r.summary)

RoomOK(r) ==
    RoomTypeOK(r) /\ HasOwner(r) /\ StoryIndexInRange(r) /\ ResultsAgree(r)

\* A room that loses its last client is deleted, not revealed.
CompletionReveals(r, s) ==
    ~everyoneVoted(r) /\ everyoneVoted(s) /\ ~IsEmpty(s) => s.reveal

Frozen(r, s) ==
    r.reveal /\ s.reveal =>
        /\ s.summary = r.summary
        /\ \A c \in Present(r) \cap Present(s) : s.vote[c] = r.vote[c]

FreshRound(r, s) ==
    /\ currentStoryID(r) # None
    /\ currentStoryID(s) \notin {None, currentStoryID(r)}
    => ~s.reveal /\ \A c \in Present(s) : ~hasVoted(s, c)

KeepsEstimates(r, s) ==
    \A i \in DOMAIN r.stories, j \in DOMAIN s.stories :
        r.stories[i].id = s.stories[j].id =>
            /\ r.stories[i].voted => s.stories[j].voted
            /\ s.stories[j].value # r.stories[i].value =>
                    /\ currentStoryID(s) = s.stories[j].id
                    /\ ~r.reveal /\ s.reveal

=============================================================================
