----------------------------- MODULE RoomProofs -----------------------------
(***************************************************************************)
(* Every reachable state of Room is correct, for every set of clients,     *)
(* cards and stories: its actions are the operations that                  *)
(* RoomAggregateProofs shows to preserve RoomOK.                           *)
(*                                                                         *)
(* And what no step of Room may do: its four action properties.  A step is *)
(* looked at in two parts, the round (clients, votes, reveal and summary)  *)
(* and the backlog (stories and index), since every operation leaves one   *)
(* of them alone, begins a new round, or ends in checkReveal.              *)
(*                                                                         *)
(* Last, what a reveal computes (VotingRound), for any number of voters    *)
(* and any deck: the consensus is graded as its reference grades it, is    *)
(* never lowered by agreeing, and its summary is coherent.                 *)
(***************************************************************************)
EXTENDS Room, VotingRound, RoomAggregateProofs, FiniteSetTheorems, WellFoundedInduction

(* Presence, voting and backlog commands keep the room correct. *)
LEMMA PresenceStepOK ==
    ASSUME RoomOK(room), PresenceStep
    PROVE  RoomOK(room')
<1>1. ASSUME NEW c \in ClientIDs, Join(c) PROVE RoomOK(room')
  BY <1>1, NewClientOK DEF Join
<1>2. ASSUME NEW c \in ClientIDs, Leave(c) PROVE RoomOK(room')
  BY <1>2, RemoveClientOK, NewRoomOK DEF Leave
<1>3. ASSUME NEW c \in ClientIDs, NEW target \in ClientIDs,
             ToggleSpectatorCmd(c, target)
      PROVE  RoomOK(room')
  BY <1>3, GuardFacts, ToggleSpectatorOK DEF ToggleSpectatorCmd, ToggleSpectatorError
<1>4. ASSUME NEW c \in ClientIDs, NEW target \in ClientIDs, ToggleOwnerCmd(c, target)
      PROVE  RoomOK(room')
  BY <1>4, GuardFacts, ToggleOwnerOK DEF ToggleOwnerCmd, ToggleOwnerError
<1>5. ASSUME NEW c \in ClientIDs, AdminToggleOwnerCmd(c) PROVE RoomOK(room')
  BY <1>5, GuardFacts, ToggleOwnerOK DEF AdminToggleOwnerCmd
<1>6. ASSUME NEW c \in ClientIDs, NEW name \in ClientNames \cup {None}, UpdateNameCmd(c, name)
      PROVE  RoomOK(room')
  BY <1>6, GuardFacts, UpdateClientNameOK DEF UpdateNameCmd
<1>7. QED
  BY <1>1, <1>2, <1>3, <1>4, <1>5, <1>6 DEF PresenceStep

LEMMA VotingStepOK ==
    ASSUME RoomOK(room), VotingStep
    PROVE  RoomOK(room')
<1>1. ASSUME NEW c \in ClientIDs, NEW vote \in Cards \cup {None}, VoteCmd(c, vote)
      PROVE  RoomOK(room')
  BY <1>1, GuardFacts, ApplyVoteOK, CheckRevealOK DEF VoteCmd, Vote
<1>2. ASSUME NEW c \in ClientIDs, RevealCmd(c) PROVE RoomOK(room')
  BY <1>2, RevealResetOK DEF RevealCmd
<1>3. ASSUME NEW c \in ClientIDs, ResetCmd(c) PROVE RoomOK(room')
  BY <1>3, RevealResetOK DEF ResetCmd
<1>4. QED
  BY <1>1, <1>2, <1>3 DEF VotingStep

LEMMA BacklogStepOK ==
    ASSUME RoomOK(room), BacklogStep
    PROVE  RoomOK(room')
<1>1. ASSUME NEW c \in ClientIDs, NEW id \in StoryIDs, ToggleBacklogModeCmd(c, id)
      PROVE  RoomOK(room')
  BY <1>1, ToggleBacklogModeOK DEF ToggleBacklogModeCmd
<1>2. ASSUME NEW c \in ClientIDs, NEW id \in StoryIDs,
             NEW name \in StoryNames \cup {None}, AddStoryCmd(c, name, id)
      PROVE  RoomOK(room')
  BY <1>2, AddStoryOK DEF AddStoryCmd
<1>3. ASSUME NEW c \in ClientIDs, NEW id \in StoryIDs, RemoveStoryCmd(c, id)
      PROVE  RoomOK(room')
  BY <1>3, GuardFacts, RemoveStoryOK DEF RemoveStoryCmd, RemoveStoryError
<1>4. ASSUME NEW c \in ClientIDs, NEW id \in StoryIDs, SelectStoryCmd(c, id)
      PROVE  RoomOK(room')
  BY <1>4, GuardFacts, ChangeStoryOK DEF SelectStoryCmd
<1>5. ASSUME NEW c \in ClientIDs, NEW id \in StoryIDs, NEW i,
             ReorderStoryCmd(c, id, i)
      PROVE  RoomOK(room')
  <2>1. HasStory(room, id) /\ i \in 0 .. Len(room.stories) - 1
    BY <1>5, GuardFacts DEF ReorderStoryCmd
  <2>2. QED
    BY <1>5, <2>1, RoomAssumption, ReorderStoryOK DEF ReorderStoryCmd
<1>6. ASSUME NEW c \in ClientIDs, NextStoryCmd(c) \/ PrevStoryCmd(c)
      PROVE  RoomOK(room')
  BY <1>6, ChangeStoryOK DEF NextStoryCmd, PrevStoryCmd
<1>7. ASSUME NEW c \in ClientIDs, NEW text \in StoryNames \cup {None},
             UpdateStoryCmd(c, text)
      PROVE  RoomOK(room')
  BY <1>7, SetCurrentStoryOK DEF UpdateStoryCmd
<1>8. QED
  BY <1>1, <1>2, <1>3, <1>4, <1>5, <1>6, <1>7 DEF BacklogStep

(* The inductive invariant: the four parts together, since none is         *)
(* preserved on its own.                                                   *)
Correct == RoomOK(room)

(* Every reachable room is correct. *)
THEOREM RoomCorrect == Spec => []Correct
<1>1. Init => Correct
  BY NewRoomOK DEF Init, Correct
<1>2. Correct /\ [Next]_room => Correct'
  <2>1. ASSUME RoomOK(room), Next PROVE RoomOK(room')
    BY <2>1, PresenceStepOK, VotingStepOK, BacklogStepOK DEF Next
  <2>2. ASSUME RoomOK(room), UNCHANGED room PROVE RoomOK(room')
    BY <2>2
  <2>3. QED
    BY <2>1, <2>2 DEF Correct
<1>3. QED
  BY <1>1, <1>2, PTL DEF Spec

(* Every field of every reachable room has its type, clients and story ids *)
(* are distinct and absent clients have no state.                          *)
THEOREM TypeCorrect == Spec => []TypeOK
<1>1. Correct => TypeOK
  BY DEF Correct, RoomOK, TypeOK
<1>2. QED
  BY <1>1, RoomCorrect, PTL

(* A room with clients always has an owner, however leaves, demotions and  *)
(* admin changes combine (RemoveClient, ToggleOwner, AdminToggleOwner).    *)
THEOREM OwnerAlways == Spec => []RoomHasOwner
<1>1. Correct => RoomHasOwner
  BY DEF Correct, RoomOK, RoomHasOwner
<1>2. QED
  BY <1>1, RoomCorrect, PTL

(* The current story index never leaves the backlog. *)
THEOREM IndexAlwaysValid == Spec => []StoryIndexValid
<1>1. Correct => StoryIndexValid
  BY DEF Correct, RoomOK, StoryIndexValid
<1>2. QED
  BY <1>1, RoomCorrect, PTL

(* What a room shows and what its stories record always agree. *)
THEOREM ResultsAlwaysCoherent == Spec => []ResultsCoherent
<1>1. Correct => ResultsCoherent
  BY DEF Correct, RoomOK, ResultsCoherent
<1>2. QED
  BY <1>1, RoomCorrect, PTL

-----------------------------------------------------------------------------
(* The kinds of steps *)

SameRound(r, s) ==
    /\ s.clients = r.clients /\ s.isSpectator = r.isSpectator
    /\ s.vote = r.vote /\ s.reveal = r.reveal /\ s.summary = r.summary

NewRound(r, s) ==
    /\ s.clients = r.clients /\ s.isSpectator = r.isSpectator
    /\ s.vote = [c \in ClientIDs |-> None] /\ ~s.reveal

SameStories(r, s) ==
    s.stories = r.stories /\ s.currentStoryIndex = r.currentStoryIndex

\* Stories may come, go and move, but what is known of each stays.
SameEstimates(r, s) ==
    \A i \in DOMAIN r.stories, j \in DOMAIN s.stories :
        r.stories[i].id = s.stories[j].id =>
            /\ s.stories[j].voted = r.stories[i].voted
            /\ s.stories[j].value = r.stories[i].value

\* What a step may do: the properties of Room, of values.
RoundStep(r, s) == CompletionReveals(r, s) /\ Frozen(r, s)
StoryStep(r, s) == FreshRound(r, s) /\ KeepsEstimates(r, s)

(* A step that leaves clients, votes and results alone completes no ballot *)
(* and thaws nothing.                                                      *)
LEMMA SameRoundStep ==
    ASSUME NEW r, NEW s, SameRound(r, s)
    PROVE  RoundStep(r, s)
BY DEF SameRound, RoundStep, CompletionReveals, Frozen, everyoneVoted, hasVoted,
       Present

(* A new round has no votes: it completes no ballot, except one that was   *)
(* complete because only spectators are left.                              *)
LEMMA NewRoundStep ==
    ASSUME NEW r, RoomOK(r), NEW s, NewRound(r, s)
    PROVE  RoundStep(r, s) /\ FreshRound(r, s)
<1>1. \A c \in Present(s) : c \in Present(r) /\ ~hasVoted(s, c)
  BY DEF NewRound, Present, hasVoted, RoomOK, RoomTypeOK, Rooms, Range
<1>2. Present(s) = Present(r) /\ s.isSpectator = r.isSpectator /\ ~s.reveal
  BY DEF NewRound, Present
<1>3. everyoneVoted(s) => everyoneVoted(r)
  BY <1>1, <1>2 DEF everyoneVoted
<1>4. QED
  BY <1>1, <1>2, <1>3 DEF RoundStep, CompletionReveals, Frozen, FreshRound

(* A step that leaves the backlog alone changes no estimate. *)
LEMMA SameStoriesStep ==
    ASSUME NEW r, RoomOK(r), NEW s, SameStories(r, s)
    PROVE  StoryStep(r, s) /\ SameEstimates(r, s)
<1>1. currentStoryID(s) = currentStoryID(r)
  BY DEF SameStories, currentStoryID, CurrentStory
<1>2. SameEstimates(r, s)
  BY DEF SameStories, SameEstimates, RoomOK, RoomTypeOK
<1>3. QED
  BY <1>1, <1>2 DEF StoryStep, FreshRound, KeepsEstimates, SameEstimates

LEMMA SameEstimatesStep ==
    ASSUME NEW r, NEW s, SameEstimates(r, s)
    PROVE  KeepsEstimates(r, s)
BY DEF SameEstimates, KeepsEstimates

-----------------------------------------------------------------------------
(* The steps operations are made of *)

(* startRound hides the results and withdraws all votes. *)
LEMMA StartRoundProperties ==
    ASSUME NEW r \in Rooms
    PROVE  NewRound(r, startRound(r)) /\ SameStories(r, startRound(r))
<1> DEFINE h == hide(r)
           s == [h EXCEPT !.vote = [c \in ClientIDs |-> None]]
<1>1. /\ h.clients = r.clients /\ h.isSpectator = r.isSpectator /\ ~h.reveal
      /\ h.stories = r.stories /\ h.currentStoryIndex = r.currentStoryIndex
      /\ h \in Rooms
  BY SummaryTypes DEF hide, Rooms
<1> HIDE DEF h
<1>2. startRound(r) = s
  BY <1>1 DEF startRound, clearVotes, h
<1>3. /\ s.clients = h.clients /\ s.isSpectator = h.isSpectator
      /\ s.vote = [c \in ClientIDs |-> None] /\ s.reveal = h.reveal
      /\ s.stories = h.stories /\ s.currentStoryIndex = h.currentStoryIndex
  BY <1>1 DEF Rooms
<1> HIDE DEF s
<1>4. QED
  BY <1>1, <1>2, <1>3 DEF NewRound, SameStories

(* A reveal records its results in the current story and nowhere else. *)
LEMMA ShowProperties ==
    ASSUME NEW r \in Rooms, ~r.reveal, DistinctStoryIDs(r.stories)
    PROVE  /\ show(r).reveal /\ currentStoryID(show(r)) = currentStoryID(r)
           /\ KeepsEstimates(r, show(r))
<1> DEFINE result == summarize(ballot(r))
           s == [r EXCEPT !.reveal = TRUE, !.summary = result]
<1>1. result \in Summaries
  BY SummaryTypes
<1> HIDE DEF result
<1>2. /\ s \in Rooms /\ s.reveal /\ s.summary = result
      /\ s.stories = r.stories /\ s.currentStoryIndex = r.currentStoryIndex
  BY <1>1 DEF Rooms
<1> HIDE DEF s
<1>3. show(r) = stampStory(s)
  BY DEF show, s, result
<1>4. CASE ~hasCurrentStory(s)
  <2>1. show(r) = s
    BY <1>3, <1>4 DEF stampStory
  <2>2. SameEstimates(r, s)
    BY <1>2 DEF SameEstimates, DistinctStoryIDs
  <2>3. currentStoryID(s) = currentStoryID(r)
    BY <1>2 DEF currentStoryID, CurrentStory
  <2>4. QED
    BY <1>2, <2>1, <2>2, <2>3, SameEstimatesStep
<1>5. CASE hasCurrentStory(s)
  <2> DEFINE k     == r.currentStoryIndex + 1
             old   == CurrentStory(s)
             story == Estimated(old, result)
             list  == [r.stories EXCEPT ![k] = story]
             t     == [s EXCEPT !.stories = list]
  <2>1. /\ k \in DOMAIN r.stories /\ old = r.stories[k] /\ old \in Stories
        /\ r.stories \in Seq(Stories) /\ r.currentStoryIndex \in Int
        /\ r.currentStoryIndex >= 0 /\ r.currentStoryIndex < Len(r.stories)
    BY <1>2, <1>5 DEF hasCurrentStory, CurrentStory, Rooms
  <2> HIDE DEF old
  <2>2. story \in Stories /\ story.id = old.id /\ story.voted
    BY <1>1, <2>1 DEF Estimated, Stories
  <2>3. show(r) = t
    BY <1>2, <1>3, <1>5 DEF stampStory, replaceCurrent, old
  <2> HIDE DEF story, k
  <2>4. /\ DOMAIN list = DOMAIN r.stories /\ list[k] = story
        /\ Len(list) = Len(r.stories)
        /\ \A i \in DOMAIN r.stories : i # k => list[i] = r.stories[i]
    BY <2>1, <2>2
  <2> HIDE DEF list
  <2>5. /\ t.reveal /\ t.stories = list
        /\ t.currentStoryIndex = r.currentStoryIndex
    BY <1>2 DEF Rooms
  <2> HIDE DEF t
  <2>6. currentStoryID(t) = old.id /\ currentStoryID(r) = old.id
    BY <2>1, <2>2, <2>4, <2>5 DEF currentStoryID, CurrentStory, k
  <2>7. ASSUME NEW i \in DOMAIN r.stories, NEW j \in DOMAIN t.stories,
               r.stories[i].id = t.stories[j].id
        PROVE  /\ r.stories[i].voted => t.stories[j].voted
               /\ t.stories[j].value # r.stories[i].value =>
                    currentStoryID(t) = t.stories[j].id
    <3>1. CASE j = k
      BY <2>2, <2>4, <2>5, <2>6, <3>1
    <3>2. CASE j # k
      <4>1. t.stories[j] = r.stories[j] /\ j \in DOMAIN r.stories
        BY <2>4, <2>5, <3>2
      <4>2. i = j
        BY <2>7, <4>1 DEF DistinctStoryIDs
      <4>3. QED
        BY <4>1, <4>2
    <3>3. QED
      BY <3>1, <3>2
  <2>8. KeepsEstimates(r, t)
    BY <2>5, <2>7 DEF KeepsEstimates
  <2>9. QED
    BY <2>3, <2>5, <2>6, <2>8
<1>6. QED
  BY <1>4, <1>5

(* An operation that ends in checkReveal leaves no completed ballot        *)
(* unrevealed, and only checkReveal touches the backlog.                   *)
LEMMA CheckRevealStep ==
    ASSUME NEW r, RoomOK(r), NEW x \in Rooms, x.reveal = r.reveal,
           SameStories(r, x), Frozen(r, x)
    PROVE  RoundStep(r, checkReveal(x)) /\ StoryStep(r, checkReveal(x))
<1>1. CASE everyoneVoted(x) /\ ~x.reveal
  <2>1. DistinctStoryIDs(x.stories)
    BY BacklogFacts DEF SameStories
  <2> DEFINE s == show(x)
  <2>2. s.reveal /\ currentStoryID(s) = currentStoryID(x) /\ KeepsEstimates(x, s)
    BY <1>1, <2>1, ShowProperties
  <2>3. checkReveal(x) = s
    BY <1>1 DEF checkReveal
  <2> HIDE DEF s
  <2>4. currentStoryID(x) = currentStoryID(r)
    BY DEF SameStories, currentStoryID, CurrentStory
  <2>5. RoundStep(r, s)
    BY <1>1, <2>2 DEF RoundStep, CompletionReveals, Frozen
  <2>6. FreshRound(r, s)
    BY <2>2, <2>4 DEF FreshRound
  <2>7. KeepsEstimates(r, s)
    BY <2>2 DEF KeepsEstimates, SameStories
  <2>8. QED
    BY <2>3, <2>5, <2>6, <2>7 DEF StoryStep
<1>2. CASE ~everyoneVoted(x) \/ x.reveal
  <2>1. checkReveal(x) = x
    BY <1>2 DEF checkReveal, show
  <2>2. RoundStep(r, x)
    BY <1>2 DEF RoundStep, CompletionReveals
  <2>3. QED
    BY <2>1, <2>2, SameStoriesStep
<1>3. QED
  BY <1>1, <1>2

-----------------------------------------------------------------------------
(* Presence and voting *)

LEMMA ToggleRevealStep ==
    ASSUME NEW r, RoomOK(r)
    PROVE  RoundStep(r, ToggleReveal(r)) /\ StoryStep(r, ToggleReveal(r))
<1>1. r \in Rooms /\ DistinctStoryIDs(r.stories)
  BY BacklogFacts
<1>2. CASE r.reveal
  <2> DEFINE s == hide(r)
  <2>1. /\ s.clients = r.clients /\ s.isSpectator = r.isSpectator
        /\ s.vote = r.vote /\ ~s.reveal /\ SameStories(r, s)
    BY <1>1 DEF hide, Rooms, SameStories
  <2>2. ToggleReveal(r) = s
    BY <1>2 DEF ToggleReveal
  <2> HIDE DEF s
  <2>3. RoundStep(r, s)
    BY <2>1 DEF RoundStep, CompletionReveals, Frozen, everyoneVoted, hasVoted, Present
  <2>4. QED
    BY <2>1, <2>2, <2>3, SameStoriesStep
<1>3. CASE ~r.reveal
  <2> DEFINE s == show(r)
  <2>1. s.reveal /\ currentStoryID(s) = currentStoryID(r) /\ KeepsEstimates(r, s)
    BY <1>1, <1>3, ShowProperties
  <2>2. ToggleReveal(r) = s
    BY <1>3 DEF ToggleReveal
  <2> HIDE DEF s
  <2>3. QED
    BY <1>3, <2>1, <2>2
       DEF RoundStep, StoryStep, CompletionReveals, Frozen, FreshRound
<1>4. QED
  BY <1>2, <1>3

LEMMA ResetStep ==
    ASSUME NEW r, RoomOK(r)
    PROVE  RoundStep(r, ResetVoting(r)) /\ StoryStep(r, ResetVoting(r))
<1>1. NewRound(r, startRound(r)) /\ SameStories(r, startRound(r))
  BY BacklogFacts, StartRoundProperties
<1>2. QED
  BY <1>1, NewRoundStep, SameStoriesStep DEF ResetVoting

(* A vote is recorded only while the room is hidden. *)
LEMMA VoteStep ==
    ASSUME NEW r, RoomOK(r), NEW c \in ClientIDs, NEW vote \in Cards \cup {None}
    PROVE  RoundStep(r, Vote(r, c, vote)) /\ StoryStep(r, Vote(r, c, vote))
<1> DEFINE x == applyVote(r, c, vote)
<1>1. r \in Rooms
  BY BacklogFacts
<1>2. x \in Rooms /\ x.reveal = r.reveal /\ SameStories(r, x)
  BY <1>1 DEF applyVote, SameStories, Rooms
<1>3. r.reveal => x = r
  BY DEF applyVote
<1> HIDE DEF x
<1>4. Frozen(r, x)
  BY <1>3 DEF Frozen
<1>5. QED
  BY <1>2, <1>4, CheckRevealStep DEF Vote, x

LEMMA ToggleSpectatorStep ==
    ASSUME NEW r, RoomOK(r), NEW target \in ClientIDs
    PROVE  /\ RoundStep(r, ToggleSpectator(r, target))
           /\ StoryStep(r, ToggleSpectator(r, target))
<1> DEFINE y == [r EXCEPT !.isSpectator[target] = ~@]
           x == applyVote(y, target, None)
<1>1. r \in Rooms
  BY BacklogFacts
<1>2. /\ y \in Rooms /\ y.reveal = r.reveal /\ SameStories(r, y)
      /\ y.summary = r.summary /\ y.vote = r.vote
  BY <1>1 DEF SameStories, Rooms
<1> HIDE DEF y
<1>3. x \in Rooms /\ x.reveal = y.reveal /\ SameStories(y, x)
  BY <1>2 DEF applyVote, SameStories, Rooms
<1>4. y.reveal => x = y
  BY DEF applyVote
<1> HIDE DEF x
<1>5. Frozen(r, x)
  BY <1>2, <1>4 DEF Frozen
<1>6. SameStories(r, x)
  BY <1>2, <1>3 DEF SameStories
<1>7. QED
  BY <1>2, <1>3, <1>5, <1>6, CheckRevealStep DEF ToggleSpectator, x, y

(* Changing names and owners touches neither round nor backlog. *)
LEMMA NameAndOwnerSteps ==
    ASSUME NEW r, RoomOK(r), NEW c, NEW name
    PROVE  /\ RoundStep(r, UpdateClientName(r, c, name))
           /\ StoryStep(r, UpdateClientName(r, c, name))
           /\ RoundStep(r, ToggleOwner(r, c)) /\ StoryStep(r, ToggleOwner(r, c))
           /\ RoundStep(r, AdminToggleOwner(r, c))
           /\ StoryStep(r, AdminToggleOwner(r, c))
<1>1. r \in Rooms
  BY BacklogFacts
<1>2. /\ SameRound(r, UpdateClientName(r, c, name))
      /\ SameStories(r, UpdateClientName(r, c, name))
  BY <1>1 DEF SameRound, SameStories, UpdateClientName, Rooms
<1>3. SameRound(r, AdminToggleOwner(r, c)) /\ SameStories(r, AdminToggleOwner(r, c))
  BY <1>1 DEF SameRound, SameStories, AdminToggleOwner, Rooms
<1>4. SameRound(r, ToggleOwner(r, c)) /\ SameStories(r, ToggleOwner(r, c))
  BY <1>1 DEF SameRound, SameStories, ToggleOwner, Rooms
<1>5. QED
  BY <1>2, <1>3, <1>4, SameRoundStep, SameStoriesStep

(* A client that joins owes a vote: its arrival completes no ballot. *)
LEMMA NewClientStep ==
    ASSUME NEW r, RoomOK(r), NEW c \in ClientIDs, ~FindClient(r, c)
    PROVE  RoundStep(r, NewClient(r, c)) /\ StoryStep(r, NewClient(r, c))
<1> DEFINE list == Append(r.clients, c)
           s == NewClient(r, c)
<1>1. r \in Rooms /\ r.clients \in Seq(ClientIDs)
  BY BacklogFacts DEF Rooms
<1>2. list \in Seq(ClientIDs) /\ list[Len(r.clients) + 1] = c
      /\ Len(r.clients) + 1 \in DOMAIN list
  BY <1>1
<1> HIDE DEF list
<1>3. /\ s.clients = list /\ s.isSpectator = r.isSpectator /\ s.vote = r.vote
      /\ s.reveal = r.reveal /\ s.summary = r.summary /\ SameStories(r, s)
  BY <1>1 DEF NewClient, list, SameStories, Rooms
<1> HIDE DEF s
<1>4. c \in Present(s)
  BY <1>2, <1>3 DEF Present, Range
<1>5. ~r.isSpectator[c] /\ r.vote[c] = None
  BY DEF RoomOK, RoomTypeOK, FindClient
<1>6. ~everyoneVoted(s)
  BY <1>3, <1>4, <1>5 DEF everyoneVoted, hasVoted
<1>7. RoundStep(r, s)
  BY <1>3, <1>6 DEF RoundStep, CompletionReveals, Frozen
<1>8. QED
  BY <1>3, <1>7, SameStoriesStep DEF s

(* The leave of the last undecided client reveals; a room that is emptied  *)
(* is deleted.                                                             *)
LEMMA RemoveClientStep ==
    ASSUME NEW r, RoomOK(r), NEW c \in ClientIDs
    PROVE  /\ RoundStep(r, RemoveClient(r, c)) /\ StoryStep(r, RemoveClient(r, c))
           /\ RoundStep(r, NewRoom) /\ StoryStep(r, NewRoom)
<1> DEFINE y == dropClient(r, c)
           x == promoteFirst(y)
<1>1. r \in Rooms /\ r.clients \in Seq(ClientIDs)
  BY BacklogFacts DEF Rooms
<1>2. y \in Rooms /\ StoryIndexInRange(y) /\ ResultsAgree(y)
  BY DropClientProperties DEF RoomTypeOK
<1>3. /\ y.clients = RemoveFirst(r.clients, c)
      /\ y.vote = [r.vote EXCEPT ![c] = None] /\ y.reveal = r.reveal
      /\ y.summary = r.summary /\ SameStories(r, y)
  BY <1>1 DEF dropClient, SameStories, Rooms
<1> HIDE DEF y
<1>4. Range(y.clients) = Range(r.clients) \ {c}
  BY <1>1, <1>3, RemoveFirstProperties DEF RoomOK, RoomTypeOK
<1>5. /\ x \in Rooms /\ x.clients = y.clients /\ x.vote = y.vote
      /\ x.reveal = y.reveal /\ x.summary = y.summary /\ SameStories(y, x)
  BY <1>2 DEF promoteFirst, SameStories, Rooms
<1> HIDE DEF x
<1>6. Frozen(r, x)
  <2>1. \A d \in Present(r) \cap Present(x) : d \in ClientIDs /\ d # c
    BY <1>1, <1>4, <1>5 DEF Present, Range
  <2>2. r.vote \in [ClientIDs -> Cards \cup {None}]
    BY <1>1 DEF Rooms
  <2>3. QED
    BY <1>3, <1>5, <2>1, <2>2 DEF Frozen
<1>7. SameStories(r, x)
  BY <1>3, <1>5 DEF SameStories
<1>8. RoundStep(r, checkReveal(x)) /\ StoryStep(r, checkReveal(x))
  BY <1>3, <1>5, <1>6, <1>7, CheckRevealStep
<1>9. RemoveClient(r, c) = checkReveal(x)
  BY DEF RemoveClient, x, y
<1>10. /\ IsEmpty(NewRoom) /\ ~NewRoom.reveal /\ NewRoom.stories = <<>>
       /\ NewRoom.currentStoryIndex = 0
  BY DEF NewRoom, IsEmpty
<1>11. RoundStep(r, NewRoom) /\ StoryStep(r, NewRoom)
  BY <1>10 DEF RoundStep, StoryStep, CompletionReveals, Frozen, FreshRound,
               KeepsEstimates, currentStoryID
<1>12. QED
  BY <1>8, <1>9, <1>11

-----------------------------------------------------------------------------
(* Backlog *)

(* A change of the backlog alone is no step of the round. *)
LEMMA BacklogRound ==
    ASSUME NEW r, NEW s, OnlyBacklogDiffers(r, s)
    PROVE  RoundStep(r, s)
BY SameRoundStep DEF OnlyBacklogDiffers, SameRound

(* A change of the backlog that begins a new round, and keeps what is known *)
(* of the stories.                                                         *)
LEMMA BacklogNewRound ==
    ASSUME NEW r, RoomOK(r), NEW s, OnlyBacklogDiffers(r, s), SameEstimates(r, s)
    PROVE  RoundStep(r, startRound(s)) /\ StoryStep(r, startRound(s))
<1> DEFINE t == startRound(s)
<1>1. NewRound(s, t) /\ SameStories(s, t)
  BY StartRoundProperties DEF OnlyBacklogDiffers
<1> HIDE DEF t
<1>2. NewRound(r, t)
  BY <1>1 DEF NewRound, OnlyBacklogDiffers
<1>3. SameEstimates(r, t)
  BY <1>1 DEF SameStories, SameEstimates
<1>4. RoundStep(r, t) /\ FreshRound(r, t)
  BY <1>2, NewRoundStep
<1>5. KeepsEstimates(r, t)
  BY <1>3, SameEstimatesStep
<1>6. QED
  BY <1>4, <1>5 DEF StoryStep, t

(* Selecting a story, and going to the next or the previous one. *)
LEMMA ChangeStoryStep ==
    ASSUME NEW r, RoomOK(r)
    PROVE  /\ \A id : HasStory(r, id) =>
                RoundStep(r, SelectStory(r, id)) /\ StoryStep(r, SelectStory(r, id))
           /\ RoundStep(r, AdvanceToNextStory(r)) /\ StoryStep(r, AdvanceToNextStory(r))
           /\ RoundStep(r, PrevStory(r)) /\ StoryStep(r, PrevStory(r))
<1>1. /\ r \in Rooms /\ r.stories \in Seq(Stories) /\ r.currentStoryIndex \in Int
      /\ DistinctStoryIDs(r.stories)
  BY BacklogFacts
<1>2. ASSUME NEW index \in Int
      PROVE  LET t == startRound([r EXCEPT !.currentStoryIndex = index])
             IN  RoundStep(r, t) /\ StoryStep(r, t)
  <2> DEFINE s == [r EXCEPT !.currentStoryIndex = index]
  <2>1. OnlyBacklogDiffers(r, s) /\ s.stories = r.stories
    BY <1>1 DEF OnlyBacklogDiffers, Rooms
  <2> HIDE DEF s
  <2>2. SameEstimates(r, s)
    BY <1>1, <2>1 DEF SameEstimates, DistinctStoryIDs
  <2>3. QED
    BY <2>1, <2>2, BacklogNewRound DEF s
<1>3. RoundStep(r, r) /\ StoryStep(r, r)
  BY SameRoundStep, SameStoriesStep DEF SameRound, SameStories
<1>4. ASSUME NEW id, HasStory(r, id)
      PROVE  RoundStep(r, SelectStory(r, id)) /\ StoryStep(r, SelectStory(r, id))
  <2>1. storyIndexByID(r, id) \in Int
    BY <1>1, <1>4, StoryIndexProperties
  <2>2. QED
    BY <1>2, <2>1 DEF SelectStory
<1>5. RoundStep(r, AdvanceToNextStory(r)) /\ StoryStep(r, AdvanceToNextStory(r))
  <2>1. r.currentStoryIndex + 1 \in Int
    BY <1>1
  <2>2. QED
    BY <1>2, <1>3, <2>1 DEF AdvanceToNextStory
<1>6. RoundStep(r, PrevStory(r)) /\ StoryStep(r, PrevStory(r))
  <2>1. r.currentStoryIndex - 1 \in Int
    BY <1>1
  <2>2. QED
    BY <1>2, <1>3, <2>1 DEF PrevStory
<1>7. QED
  BY <1>4, <1>5, <1>6

(* Naming the current story keeps its id and its estimate. *)
LEMMA SetCurrentStoryStep ==
    ASSUME NEW r, RoomOK(r), NEW text \in StoryNames \cup {None}
    PROVE  RoundStep(r, SetCurrentStory(r, text)) /\ StoryStep(r, SetCurrentStory(r, text))
<1>1. /\ r \in Rooms /\ r.stories \in Seq(Stories) /\ DistinctStoryIDs(r.stories)
      /\ r.currentStoryIndex \in Int
  BY BacklogFacts
<1>2. CASE hasCurrentStory(r)
  <2> DEFINE k     == r.currentStoryIndex + 1
             old   == CurrentStory(r)
             story == [old EXCEPT !.name = text]
             list  == [r.stories EXCEPT ![k] = story]
             t     == [r EXCEPT !.stories = list]
  <2>1. /\ k \in DOMAIN r.stories /\ old = r.stories[k] /\ old \in Stories
        /\ r.currentStoryIndex >= 0 /\ r.currentStoryIndex < Len(r.stories)
    BY <1>1, <1>2 DEF hasCurrentStory, CurrentStory
  <2>2. SetCurrentStory(r, text) = t
    BY <1>2 DEF SetCurrentStory, replaceCurrent
  <2> HIDE DEF old
  <2>3. /\ story \in Stories /\ story.id = old.id
        /\ story.voted = old.voted /\ story.value = old.value
    BY <2>1 DEF Stories
  <2> HIDE DEF story, k
  <2>4. /\ DOMAIN list = DOMAIN r.stories /\ list[k] = story
        /\ Len(list) = Len(r.stories) /\ list \in Seq(Stories)
        /\ \A i \in DOMAIN r.stories : i # k => list[i] = r.stories[i]
    BY <1>1, <2>1, <2>3
  <2> HIDE DEF list
  <2>5. /\ OnlyBacklogDiffers(r, t) /\ t.stories = list
        /\ t.currentStoryIndex = r.currentStoryIndex
    BY <1>1, <2>4 DEF OnlyBacklogDiffers, Rooms
  <2> HIDE DEF t
  <2>6. currentStoryID(t) = currentStoryID(r)
    BY <2>1, <2>3, <2>4, <2>5 DEF currentStoryID, CurrentStory, k
  <2>7. ASSUME NEW i \in DOMAIN r.stories, NEW j \in DOMAIN t.stories,
               r.stories[i].id = t.stories[j].id
        PROVE  /\ t.stories[j].voted = r.stories[i].voted
               /\ t.stories[j].value = r.stories[i].value
    <3>1. /\ j \in DOMAIN r.stories /\ t.stories[j].id = r.stories[j].id
          /\ t.stories[j].voted = r.stories[j].voted
          /\ t.stories[j].value = r.stories[j].value
      BY <2>1, <2>3, <2>4, <2>5
    <3>2. i = j
      BY <1>1, <2>7, <3>1 DEF DistinctStoryIDs
    <3>3. QED
      BY <3>1, <3>2
  <2>8. SameEstimates(r, t)
    BY <2>7 DEF SameEstimates
  <2>9. QED
    BY <2>2, <2>5, <2>6, <2>8, BacklogRound, SameEstimatesStep
       DEF StoryStep, FreshRound
<1>3. CASE ~hasCurrentStory(r)
  <2> DEFINE s == [r EXCEPT !.currentStory = text]
  <2>1. SameRound(r, s) /\ SameStories(r, s)
    BY <1>1 DEF SameRound, SameStories, Rooms
  <2>2. SetCurrentStory(r, text) = s
    BY <1>3 DEF SetCurrentStory
  <2> HIDE DEF s
  <2>3. QED
    BY <2>1, <2>2, SameRoundStep, SameStoriesStep
<1>4. QED
  BY <1>2, <1>3

LEMMA EmptyBacklogHasNoCurrent ==
    ASSUME NEW r, r.stories = <<>>, r.currentStoryIndex = 0
    PROVE  currentStoryID(r) = None
<1>1. Len(r.stories) = 0
  OBVIOUS
<1>2. QED
  BY <1>1 DEF currentStoryID

(* A backlog that is switched off is emptied, one that is switched on was   *)
(* empty: no current story is replaced by another.                         *)
LEMMA ToggleBacklogModeStep ==
    ASSUME NEW r, RoomOK(r), NEW id
    PROVE  /\ RoundStep(r, ToggleBacklogMode(r, id))
           /\ StoryStep(r, ToggleBacklogMode(r, id))
<1> DEFINE s == ToggleBacklogMode(r, id)
<1>1. /\ r \in Rooms
      /\ r.stories # <<>> => r.backlogMode
      /\ r.stories = <<>> => r.currentStoryIndex = 0
  BY BacklogFacts
<1>2. SameRound(r, s)
  BY <1>1 DEF ToggleBacklogMode, SameRound, Rooms
<1>3. r.backlogMode => s.stories = <<>> /\ s.currentStoryIndex = 0
  BY <1>1 DEF ToggleBacklogMode, Rooms
<1> HIDE DEF s
<1>4. \/ r.stories = <<>>
      \/ s.stories = <<>> /\ s.currentStoryIndex = 0
  BY <1>1, <1>3
<1>5. r.stories = <<>> => currentStoryID(r) = None
  BY <1>1, EmptyBacklogHasNoCurrent
<1>6. ASSUME r.stories = <<>> PROVE StoryStep(r, s)
  BY <1>5, <1>6 DEF StoryStep, FreshRound, KeepsEstimates
<1>7. ASSUME s.stories = <<>>, s.currentStoryIndex = 0 PROVE StoryStep(r, s)
  <2>1. KeepsEstimates(r, s)
    BY <1>7 DEF KeepsEstimates
  <2>2. currentStoryID(s) = None
    BY <1>7, EmptyBacklogHasNoCurrent
  <2>3. QED
    BY <2>1, <2>2 DEF StoryStep, FreshRound
<1>8. QED
  BY <1>2, <1>4, <1>6, <1>7, SameRoundStep DEF s

(* A story that is added becomes current only if there was none. *)
LEMMA AddStoryStep ==
    ASSUME NEW r, RoomOK(r), NEW id \in StoryIDs, FreshStoryID(r, id),
           NEW name \in StoryNames \cup {None}
    PROVE  RoundStep(r, AddStory(r, name, id)) /\ StoryStep(r, AddStory(r, name, id))
<1> DEFINE new     == NewStory(id, name)
           stories == Append(r.stories, new)
           s       == AddStory(r, name, id)
<1>1. /\ r \in Rooms /\ r.stories \in Seq(Stories)
      /\ r.currentStoryIndex \in Int /\ DistinctStoryIDs(r.stories)
      /\ r.stories = <<>> => r.currentStoryIndex = 0
      /\ r.stories # <<>> => r.currentStoryIndex \in 0 .. Len(r.stories) - 1
  BY BacklogFacts
<1>2. new \in Stories /\ new.id = id
  BY SummaryTypes DEF NewStory
<1> HIDE DEF new
<1>3. /\ stories \in Seq(Stories) /\ Len(stories) = Len(r.stories) + 1
      /\ \A i \in 1 .. Len(r.stories) : stories[i] = r.stories[i]
      /\ stories[Len(r.stories) + 1] = new
  BY <1>1, <1>2
<1> HIDE DEF stories
<1>4. /\ OnlyBacklogDiffers(r, s)
      /\ s.stories = stories /\ s.currentStoryIndex = r.currentStoryIndex
  BY <1>1, <1>3 DEF AddStory, OnlyBacklogDiffers, Rooms, new, stories
<1> HIDE DEF s
<1>5. ASSUME NEW i \in DOMAIN r.stories, NEW j \in DOMAIN stories,
             r.stories[i].id = stories[j].id
      PROVE  stories[j] = r.stories[i]
  <2>1. r.stories[i].id # id
    BY DEF FreshStoryID, HasStory
  <2>2. j \in DOMAIN r.stories
    BY <1>1, <1>2, <1>3, <1>5, <2>1
  <2>3. stories[j] = r.stories[j]
    BY <1>1, <1>3, <2>2
  <2>4. i = j
    BY <1>1, <1>5, <2>2, <2>3 DEF DistinctStoryIDs
  <2>5. QED
    BY <2>3, <2>4
<1>6. SameEstimates(r, s)
  BY <1>4, <1>5 DEF SameEstimates
<1>7. currentStoryID(r) = None \/ currentStoryID(s) = currentStoryID(r)
  <2>1. CASE r.stories = <<>>
    BY <1>1, <2>1, EmptyBacklogHasNoCurrent
  <2>2. CASE r.stories # <<>>
    <3>1. /\ r.currentStoryIndex + 1 \in 1 .. Len(r.stories)
          /\ s.currentStoryIndex = r.currentStoryIndex /\ s.stories = stories
          /\ r.currentStoryIndex \in 0 .. Len(r.stories) - 1
      BY <1>1, <1>4, <2>2
    <3>2. stories[r.currentStoryIndex + 1] = r.stories[r.currentStoryIndex + 1]
      BY <1>3, <3>1
    <3>3. /\ r.currentStoryIndex >= 0 /\ r.currentStoryIndex < Len(r.stories)
          /\ r.currentStoryIndex < Len(stories)
      BY <1>1, <1>3, <3>1
    <3>4. QED
      BY <3>1, <3>2, <3>3 DEF currentStoryID, CurrentStory
  <2>3. QED
    BY <2>1, <2>2
<1>8. QED
  BY <1>4, <1>6, <1>7, BacklogRound, SameEstimatesStep DEF StoryStep, FreshRound, s

(* A backlog made of stories of the old one keeps their estimates. *)
LEMMA StoriesKept ==
    ASSUME NEW r, NEW s, DistinctStoryIDs(r.stories),
           \A j \in DOMAIN s.stories : \E m \in DOMAIN r.stories :
                s.stories[j] = r.stories[m]
    PROVE  SameEstimates(r, s)
<1> SUFFICES ASSUME NEW i \in DOMAIN r.stories, NEW j \in DOMAIN s.stories,
                    r.stories[i].id = s.stories[j].id
             PROVE  s.stories[j] = r.stories[i]
  BY DEF SameEstimates
<1>1. PICK m \in DOMAIN r.stories : s.stories[j] = r.stories[m]
  OBVIOUS
<1>2. m = i
  BY <1>1 DEF DistinctStoryIDs
<1>3. QED
  BY <1>1, <1>2

LEMMA SameCurrentStep ==
    ASSUME NEW r, NEW s, OnlyBacklogDiffers(r, s), SameEstimates(r, s),
           currentStoryID(s) = currentStoryID(r)
    PROVE  RoundStep(r, s) /\ StoryStep(r, s)
BY BacklogRound, SameEstimatesStep DEF StoryStep, FreshRound

(* Removing a story begins a new round if it was the current one; removing *)
(* another one keeps the current one, whose index may change.              *)
LEMMA RemoveStoryStep ==
    ASSUME NEW r, RoomOK(r), NEW id, HasStory(r, id)
    PROVE  RoundStep(r, RemoveStory(r, id)) /\ StoryStep(r, RemoveStory(r, id))
<1> DEFINE index   == storyIndexByID(r, id)
           current == r.currentStoryIndex
           k       == index + 1
           stories == RemoveAt(r.stories, k)
           prev    == current - 1
           without == [r EXCEPT !.stories = stories]
           before  == [without EXCEPT !.currentStoryIndex = prev]
<1>1. /\ r \in Rooms /\ r.stories \in Seq(Stories) /\ current \in Int
      /\ DistinctStoryIDs(r.stories)
  BY BacklogFacts
<1>2. /\ k \in 1 .. Len(r.stories) /\ index = k - 1 /\ index \in Int
      /\ r.stories # <<>>
  BY <1>1, StoryIndexProperties
<1>3. current \in 0 .. Len(r.stories) - 1
  BY <1>2, BacklogFacts
<1>4. RemoveStory(r, id) =
        IF index = current
        THEN startRound(IF current > 0 /\ index = Len(r.stories) - 1
                        THEN before ELSE without)
        ELSE IF index < current THEN before ELSE without
  BY DEF RemoveStory
<1> HIDE DEF k, index
<1>5. /\ stories \in Seq(Stories) /\ Len(stories) = Len(r.stories) - 1
      /\ \A j \in 1 .. Len(r.stories) - 1 :
            stories[j] = IF j < k THEN r.stories[j] ELSE r.stories[j + 1]
  BY <1>1, <1>2, RemoveAtProperties
<1> HIDE DEF stories
<1>6. \A j \in DOMAIN stories : \E m \in DOMAIN r.stories : stories[j] = r.stories[m]
  <2> SUFFICES ASSUME NEW j \in DOMAIN stories
               PROVE  \E m \in DOMAIN r.stories : stories[j] = r.stories[m]
    OBVIOUS
  <2>1. /\ j \in DOMAIN r.stories /\ j + 1 \in DOMAIN r.stories
        /\ stories[j] = r.stories[j] \/ stories[j] = r.stories[j + 1]
    BY <1>1, <1>5
  <2>2. QED
    BY <2>1
<1>7. prev \in Int
  BY <1>1
<1> HIDE DEF prev
<1>8. /\ OnlyBacklogDiffers(r, without) /\ without.stories = stories
      /\ without.currentStoryIndex = current
  BY <1>1, <1>5 DEF OnlyBacklogDiffers, Rooms
<1>9. /\ OnlyBacklogDiffers(r, before) /\ before.stories = stories
      /\ before.currentStoryIndex = prev
  BY <1>1, <1>5, <1>7 DEF OnlyBacklogDiffers, Rooms
<1> HIDE DEF without, before
<1>10. SameEstimates(r, without) /\ SameEstimates(r, before)
  BY <1>1, <1>6, <1>8, <1>9, StoriesKept
<1>11. currentStoryID(r) = r.stories[current + 1].id
  BY <1>1, <1>3 DEF currentStoryID, CurrentStory
<1>12. CASE index = current
  BY <1>4, <1>8, <1>9, <1>10, <1>12, BacklogNewRound
<1>13. CASE index < current
  <2>1. /\ prev >= 0 /\ prev < Len(stories)
        /\ stories[prev + 1] = r.stories[current + 1]
    <3>1. /\ prev \in 0 .. Len(r.stories) - 2 /\ ~(prev + 1 < k)
          /\ prev + 1 \in 1 .. Len(r.stories) - 1 /\ prev + 1 + 1 = current + 1
      BY <1>1, <1>2, <1>3, <1>13 DEF prev
    <3>2. stories[prev + 1] = r.stories[prev + 1 + 1]
      BY <1>5, <3>1
    <3>3. prev >= 0 /\ prev < Len(stories)
      BY <1>1, <1>5, <3>1
    <3>4. QED
      BY <3>1, <3>2, <3>3
  <2>2. currentStoryID(before) = currentStoryID(r)
    BY <1>9, <1>11, <2>1 DEF currentStoryID, CurrentStory
  <2>3. RemoveStory(r, id) = before
    BY <1>1, <1>2, <1>4, <1>13
  <2>4. QED
    BY <1>9, <1>10, <2>2, <2>3, SameCurrentStep
<1>14. CASE index > current
  <2>1. /\ current >= 0 /\ current < Len(stories)
        /\ stories[current + 1] = r.stories[current + 1]
    <3>1. current + 1 < k /\ current + 1 \in 1 .. Len(r.stories) - 1
      BY <1>1, <1>2, <1>3, <1>14
    <3>2. stories[current + 1] = r.stories[current + 1]
      BY <1>5, <3>1
    <3>3. current >= 0 /\ current < Len(stories)
      BY <1>1, <1>3, <1>5, <3>1
    <3>4. QED
      BY <3>2, <3>3
  <2>2. currentStoryID(without) = currentStoryID(r)
    BY <1>8, <1>11, <2>1 DEF currentStoryID, CurrentStory
  <2>3. RemoveStory(r, id) = without
    BY <1>1, <1>2, <1>4, <1>14
  <2>4. QED
    BY <1>8, <1>10, <2>2, <2>3, SameCurrentStep
<1>15. QED
  BY <1>1, <1>2, <1>12, <1>13, <1>14

(* A move keeps the current story current, wherever it ends up. *)
LEMMA ReorderStoryStep ==
    ASSUME NEW r, RoomOK(r), NEW id, HasStory(r, id),
           NEW targetIndex \in 0 .. Len(r.stories) - 1, None \notin StoryIDs
    PROVE  /\ RoundStep(r, ReorderStory(r, id, targetIndex))
           /\ StoryStep(r, ReorderStory(r, id, targetIndex))
<1> DEFINE index   == storyIndexByID(r, id)
           k       == index + 1
           t       == targetIndex + 1
           old     == r.stories
           stories == InsertAt(RemoveAt(old, k), t, old[k])
           moved   == [r EXCEPT !.stories = stories]
           c       == r.currentStoryIndex + 1
           curID   == currentStoryID(r)
           j       == storyIndexByID(moved, curID)
           s       == [moved EXCEPT !.currentStoryIndex = j]
<1>1. /\ r \in Rooms /\ old \in Seq(Stories) /\ r.currentStoryIndex \in Int
      /\ DistinctStoryIDs(old)
  BY BacklogFacts
<1>2. k \in 1 .. Len(old) /\ t \in 1 .. Len(old) /\ old # <<>>
  BY <1>1, StoryIndexProperties
<1>3. r.currentStoryIndex \in 0 .. Len(old) - 1
  BY <1>2, BacklogFacts
<1>4. c \in 1 .. Len(old) /\ old[c] \in Stories
  BY <1>1, <1>3
<1>5. curID = old[c].id
  BY <1>1, <1>3 DEF currentStoryID, CurrentStory
<1>6. curID # None
  BY <1>4, <1>5 DEF Stories
<1>7. ReorderStory(r, id, targetIndex) = IF index = targetIndex THEN r ELSE s
  BY <1>6 DEF ReorderStory, updateCurrentStoryIndex
<1> HIDE DEF k, index, t, c, curID, old
<1>8. /\ stories \in Seq(Stories) /\ Len(stories) = Len(old)
      /\ Permutes(stories, old)
  BY <1>1, <1>2, MoveProperties
<1>9. PICK f \in [1 .. Len(old) -> 1 .. Len(old)] :
            /\ \A i \in 1 .. Len(old) : stories[i] = old[f[i]]
            /\ \A m \in 1 .. Len(old) : \E i \in 1 .. Len(old) : f[i] = m
  BY <1>8 DEF Permutes
<1> HIDE DEF stories
<1>10. OnlyBacklogDiffers(r, moved) /\ moved.stories = stories
  BY <1>1, <1>8 DEF OnlyBacklogDiffers, Rooms
<1> HIDE DEF moved
<1>11. DOMAIN stories = 1 .. Len(old) /\ DOMAIN old = 1 .. Len(old)
  BY <1>1, <1>8
<1>12. HasStory(moved, curID)
  <2>1. PICK i \in 1 .. Len(old) : f[i] = c
    BY <1>4, <1>9
  <2>2. stories[i].id = curID
    BY <1>5, <1>9, <2>1
  <2>3. QED
    BY <1>10, <1>11, <2>1, <2>2 DEF HasStory
<1>13. /\ j \in 0 .. Len(stories) - 1 /\ stories[j + 1].id = curID
  BY <1>8, <1>10, <1>12, StoryIndexProperties
<1> HIDE DEF j
<1>14. OnlyBacklogDiffers(r, s) /\ s.stories = stories /\ s.currentStoryIndex = j
  <2>1. j \in Int
    BY <1>13
  <2>2. QED
    BY <1>10, <2>1 DEF OnlyBacklogDiffers, Rooms
<1> HIDE DEF s
<1>15. SameEstimates(r, s)
  <2>1. \A i \in DOMAIN stories : f[i] \in DOMAIN old /\ stories[i] = old[f[i]]
    BY <1>9, <1>11
  <2>2. \A i \in DOMAIN stories : \E m \in DOMAIN old : stories[i] = old[m]
    BY <2>1
  <2>3. DistinctStoryIDs(r.stories)
    BY <1>1 DEF old
  <2>4. \A i \in DOMAIN s.stories : \E m \in DOMAIN r.stories :
            s.stories[i] = r.stories[m]
    BY <1>14, <2>2 DEF old
  <2>5. QED
    BY <2>3, <2>4, StoriesKept
<1>16. currentStoryID(s) = currentStoryID(r)
  <2>1. j >= 0 /\ j < Len(stories)
    BY <1>8, <1>13
  <2>2. QED
    BY <1>13, <1>14, <2>1 DEF currentStoryID, CurrentStory, curID
<1>17. RoundStep(r, s) /\ StoryStep(r, s)
  BY <1>14, <1>15, <1>16, SameCurrentStep
<1>18. RoundStep(r, r) /\ StoryStep(r, r)
  BY SameRoundStep, SameStoriesStep DEF SameRound, SameStories
<1>19. QED
  BY <1>7, <1>17, <1>18

-----------------------------------------------------------------------------
(* Every step of the room *)

LEMMA PresenceStepAllowed ==
    ASSUME RoomOK(room), PresenceStep
    PROVE  RoundStep(room, room') /\ StoryStep(room, room')
<1>1. ASSUME NEW c \in ClientIDs, Join(c)
      PROVE  RoundStep(room, room') /\ StoryStep(room, room')
  BY <1>1, NewClientStep DEF Join
<1>2. ASSUME NEW c \in ClientIDs, Leave(c)
      PROVE  RoundStep(room, room') /\ StoryStep(room, room')
  BY <1>2, RemoveClientStep DEF Leave
<1>3. ASSUME NEW c \in ClientIDs, NEW target \in ClientIDs,
             ToggleSpectatorCmd(c, target)
      PROVE  RoundStep(room, room') /\ StoryStep(room, room')
  BY <1>3, ToggleSpectatorStep DEF ToggleSpectatorCmd
<1>4. ASSUME NEW c \in ClientIDs, NEW target \in ClientIDs, ToggleOwnerCmd(c, target)
      PROVE  RoundStep(room, room') /\ StoryStep(room, room')
  BY <1>4, NameAndOwnerSteps DEF ToggleOwnerCmd
<1>5. ASSUME NEW c \in ClientIDs, AdminToggleOwnerCmd(c)
      PROVE  RoundStep(room, room') /\ StoryStep(room, room')
  BY <1>5, NameAndOwnerSteps DEF AdminToggleOwnerCmd
<1>6. ASSUME NEW c \in ClientIDs, NEW name \in ClientNames \cup {None},
             UpdateNameCmd(c, name)
      PROVE  RoundStep(room, room') /\ StoryStep(room, room')
  BY <1>6, NameAndOwnerSteps DEF UpdateNameCmd
<1>7. QED
  BY <1>1, <1>2, <1>3, <1>4, <1>5, <1>6 DEF PresenceStep

LEMMA VotingStepAllowed ==
    ASSUME RoomOK(room), VotingStep
    PROVE  RoundStep(room, room') /\ StoryStep(room, room')
<1>1. ASSUME NEW c \in ClientIDs, NEW vote \in Cards \cup {None}, VoteCmd(c, vote)
      PROVE  RoundStep(room, room') /\ StoryStep(room, room')
  BY <1>1, VoteStep DEF VoteCmd
<1>2. ASSUME NEW c \in ClientIDs, RevealCmd(c) \/ ResetCmd(c)
      PROVE  RoundStep(room, room') /\ StoryStep(room, room')
  BY <1>2, ToggleRevealStep, ResetStep DEF RevealCmd, ResetCmd
<1>3. QED
  BY <1>1, <1>2 DEF VotingStep

LEMMA BacklogStepAllowed ==
    ASSUME RoomOK(room), BacklogStep
    PROVE  RoundStep(room, room') /\ StoryStep(room, room')
<1>1. ASSUME NEW c \in ClientIDs, NEW id \in StoryIDs, ToggleBacklogModeCmd(c, id)
      PROVE  RoundStep(room, room') /\ StoryStep(room, room')
  BY <1>1, ToggleBacklogModeStep DEF ToggleBacklogModeCmd
<1>2. ASSUME NEW c \in ClientIDs, NEW id \in StoryIDs,
             NEW name \in StoryNames \cup {None}, AddStoryCmd(c, name, id)
      PROVE  RoundStep(room, room') /\ StoryStep(room, room')
  BY <1>2, AddStoryStep DEF AddStoryCmd
<1>3. ASSUME NEW c \in ClientIDs, NEW id \in StoryIDs, RemoveStoryCmd(c, id)
      PROVE  RoundStep(room, room') /\ StoryStep(room, room')
  BY <1>3, GuardFacts, RemoveStoryStep DEF RemoveStoryCmd, RemoveStoryError
<1>4. ASSUME NEW c \in ClientIDs, NEW id \in StoryIDs, SelectStoryCmd(c, id)
      PROVE  RoundStep(room, room') /\ StoryStep(room, room')
  BY <1>4, GuardFacts, ChangeStoryStep DEF SelectStoryCmd
<1>5. ASSUME NEW c \in ClientIDs, NEW id \in StoryIDs, NEW i,
             ReorderStoryCmd(c, id, i)
      PROVE  RoundStep(room, room') /\ StoryStep(room, room')
  <2>1. HasStory(room, id) /\ i \in 0 .. Len(room.stories) - 1
    BY <1>5, GuardFacts DEF ReorderStoryCmd
  <2>2. QED
    BY <1>5, <2>1, RoomAssumption, ReorderStoryStep DEF ReorderStoryCmd
<1>6. ASSUME NEW c \in ClientIDs, NextStoryCmd(c) \/ PrevStoryCmd(c)
      PROVE  RoundStep(room, room') /\ StoryStep(room, room')
  BY <1>6, ChangeStoryStep DEF NextStoryCmd, PrevStoryCmd
<1>7. ASSUME NEW c \in ClientIDs, NEW text \in StoryNames \cup {None},
             UpdateStoryCmd(c, text)
      PROVE  RoundStep(room, room') /\ StoryStep(room, room')
  BY <1>7, SetCurrentStoryStep DEF UpdateStoryCmd
<1>8. QED
  BY <1>1, <1>2, <1>3, <1>4, <1>5, <1>6, <1>7 DEF BacklogStep

(* The four properties of a step, of any correct room. *)
LEMMA StepAllowed ==
    Correct /\ [Next]_room =>
        /\ [CompletionReveals(room, room')]_room /\ [Frozen(room, room')]_room
        /\ [FreshRound(room, room')]_room /\ [KeepsEstimates(room, room')]_room
BY PresenceStepAllowed, VotingStepAllowed, BacklogStepAllowed
   DEF Correct, Next, RoundStep, StoryStep

(* Whatever completes the ballot reveals it in the same step: the last     *)
(* vote, the leave of the last undecided client, a client that becomes a   *)
(* spectator (checkReveal).                                                *)
THEOREM CompletedBallotIsRevealed == Spec => CompletedBallotReveals
BY RoomCorrect, StepAllowed, PTL DEF Spec, CompletedBallotReveals

(* While a room stays revealed its votes and results stay as they are.     *)
THEOREM RevealedStaysFrozen == Spec => RevealedIsFrozen
BY RoomCorrect, StepAllowed, PTL DEF Spec, RevealedIsFrozen

(* Another current story means a round without votes and results. *)
THEOREM AnotherStoryIsFresh == Spec => AnotherStoryStartsFreshRound
BY RoomCorrect, StepAllowed, PTL DEF Spec, AnotherStoryStartsFreshRound

(* Only a reveal changes an estimate, and only that of the current story.  *)
THEOREM EstimatesAreKept == Spec => EstimatesKept
BY RoomCorrect, StepAllowed, PTL DEF Spec, EstimatesKept


-----------------------------------------------------------------------------
(* The consensus that a reveal computes, for every ballot.                 *)

\* A non-empty set of numbers has a least one: what takes the place of induction.
LEMMA LeastOf ==
    ASSUME NEW T, T \subseteq Nat, T # {}
    PROVE  \E x \in T : \A y \in T : x <= y
<1> DEFINE R == OpToRel(<, Nat)
<1>1. IsWellFoundedOn(R, Nat)
  BY NatLessThanWellFounded
<1>2. R = {ss \in Nat \X Nat : ss[1] < ss[2]}
  BY Zenon DEF OpToRel
<1> HIDE DEF R
<1>3. ASSUME NEW x \in Nat, NEW y \in Nat, y < x PROVE <<y, x>> \in R
  <2>1. <<y, x>> \in Nat \X Nat /\ <<y, x>>[1] = y /\ <<y, x>>[2] = x
    OBVIOUS
  <2>2. QED
    BY <1>2, <1>3, <2>1
<1>4. PICK x \in T : \A y \in T : ~(<<y, x>> \in R)
  BY <1>1, WFMin
<1>5. x \in Nat /\ \A y \in T : y \in Nat
  OBVIOUS
<1>6. ASSUME NEW y \in T PROVE x <= y
  <2>1. y \in Nat /\ ~(y < x)
    BY <1>3, <1>4, <1>5
  <2>2. QED
    BY <1>5, <2>1
<1>7. QED
  BY <1>6

LEMMA LimitsOf ==
    ASSUME NEW n \in Nat, NEW S, S \subseteq 0 .. n, S # {}
    PROVE  /\ Min(S) \in S /\ \A y \in S : Min(S) <= y
           /\ Max(S) \in S /\ \A y \in S : y <= Max(S)
<1>1. \E x \in S : \A y \in S : x <= y
  <2>1. S \subseteq Nat
    OBVIOUS
  <2>2. QED
    BY <2>1, LeastOf
<1>2. \E x \in S : \A y \in S : x >= y
  <2> DEFINE T == {k \in Nat : \A y \in S : y <= k}
  <2>1. n \in T
    OBVIOUS
  <2>2. T \subseteq Nat /\ T # {}
    BY <2>1
  <2>3. PICK m \in T : \A k \in T : m <= k
    BY <2>2, LeastOf
  <2>4. m \in Nat /\ \A y \in S : y <= m
    OBVIOUS
  <2>5. ASSUME m \notin S PROVE FALSE
    <3>1. PICK z \in S : TRUE
      OBVIOUS
    <3>2. \A y \in S : y \in Nat /\ y <= m - 1
      BY <2>4, <2>5
    <3>3. m - 1 \in Nat
      BY <2>4, <3>1, <3>2
    <3>4. m - 1 \in T
      BY <3>2, <3>3
    <3>5. QED
      BY <2>3, <2>4, <3>4
  <2>6. QED
    BY <2>4, <2>5
<1>3. Min(S) \in S /\ \A y \in S : Min(S) <= y
  BY <1>1 DEF Min
<1>4. Max(S) \in S /\ \A y \in S : Max(S) >= y
  BY <1>2 DEF Max
<1>5. QED
  BY <1>3, <1>4


\* Two thirds of n, rounded up, is a threshold for two thirds.
LEMMA TwoThirdsThreshold ==
    ASSUME NEW m \in Nat, NEW n \in Nat
    PROVE  m >= (2 * n + 2) \div 3 <=> 3 * m >= 2 * n
OBVIOUS

LEMMA PositionOf ==
    ASSUME NEW card \in Estimates
    PROVE  Position(card) \in 0 .. Len(EstimateCards)
<1>1. PICK i \in DOMAIN EstimateCards : EstimateCards[i] = card
  BY DEF Estimates
<1>2. (CHOOSE j \in DOMAIN EstimateCards : EstimateCards[j] = card)
        \in DOMAIN EstimateCards
  BY <1>1
<1>3. DOMAIN EstimateCards = 1 .. Len(EstimateCards) /\ Len(EstimateCards) \in Nat
  BY DeckAssumption
<1>4. QED
  BY <1>2, <1>3 DEF Position

\* Some voters chose the most chosen card, and no card was chosen by more.
LEMMA MostVotesOf ==
    ASSUME NEW b, IsFiniteSet(DOMAIN b), Positioned(b) # {}
    PROVE  LET with(card) == Cardinality({v \in Positioned(b) : b[v] = card})
               most       == getMostVoteCount(counts(b))
           IN  /\ most \in Nat
               /\ \E v \in Positioned(b) : most = with(b[v])
               /\ \A v \in Positioned(b) : with(b[v]) <= most
<1> DEFINE P == Positioned(b)
           with(card) == Cardinality({v \in P : b[v] = card})
           S == {with(card) : card \in {b[v] : v \in P}}
           most == getMostVoteCount(counts(b))
<1>1. IsFiniteSet(P) /\ Cardinality(P) \in Nat
  <2>1. P \subseteq DOMAIN b
    BY DEF Positioned
  <2>2. QED
    BY <2>1, FS_Subset, FS_CardinalityType
<1>2. \A card : with(card) \in 0 .. Cardinality(P)
  <2>1. ASSUME NEW card PROVE with(card) \in 0 .. Cardinality(P)
    <3> DEFINE C == {v \in P : b[v] = card}
    <3>1. C \subseteq P
      OBVIOUS
    <3>2. IsFiniteSet(C) /\ Cardinality(C) <= Cardinality(P)
      BY <1>1, <3>1, FS_Subset
    <3>3. Cardinality(C) \in Nat
      BY <3>2, FS_CardinalityType
    <3>4. QED
      BY <1>1, <3>2, <3>3
  <2>2. QED
    BY <2>1
<1> HIDE DEF with
<1>3. S \subseteq 0 .. Cardinality(P) /\ S # {}
  BY <1>2
<1>4. most = Max(S)
  <2>1. DOMAIN counts(b) = {b[v] : v \in P} /\ DOMAIN counts(b) # {}
    BY DEF counts
  <2>2. {counts(b)[card] : card \in DOMAIN counts(b)} = S
    BY <2>1 DEF counts, with
  <2>3. QED
    BY <2>1, <2>2 DEF getMostVoteCount
<1> HIDE DEF S
<1>5. Max(S) \in S /\ \A y \in S : y <= Max(S)
  BY <1>1, <1>3, LimitsOf
<1> HIDE DEF most
<1>6. most \in Nat
  <2>1. Max(S) \in 0 .. Cardinality(P)
    BY <1>3, <1>5
  <2>2. QED
    BY <1>1, <1>4, <2>1
<1>7. \E v \in P : most = with(b[v])
  BY <1>4, <1>5 DEF S
<1>8. ASSUME NEW v \in P PROVE with(b[v]) <= most
  <2>1. with(b[v]) \in S
    BY DEF S
  <2>2. QED
    BY <1>4, <1>5, <2>1
<1>9. QED
  BY <1>6, <1>7, <1>8 DEF most, with

\* Minimum and maximum of the positions bound every distance, and are reached.
LEMMA SpreadOf ==
    ASSUME NEW b, Positioned(b) # {}
    PROVE  LET positions == {Position(card) : card \in {b[v] : v \in Positioned(b)}}
               spread    == Max(positions) - Min(positions)
           IN  /\ spread \in Nat
               /\ \A d \in Nat :
                    spread <= d <=> \A v, w \in Positioned(b) :
                                        Position(b[v]) - Position(b[w]) <= d
<1> DEFINE P == Positioned(b)
           S == {Position(card) : card \in {b[v] : v \in P}}
<1>1. Len(EstimateCards) \in Nat
  BY DeckAssumption
<1>2. S \subseteq 0 .. Len(EstimateCards) /\ S # {}
  BY PositionOf DEF Positioned
<1>3. \A v \in P : Position(b[v]) \in S
  OBVIOUS
<1>4. \A y \in S : \E v \in P : y = Position(b[v])
  OBVIOUS
<1> HIDE DEF S
<1>5. /\ Min(S) \in S /\ \A y \in S : Min(S) <= y
      /\ Max(S) \in S /\ \A y \in S : y <= Max(S)
  BY <1>1, <1>2, LimitsOf
<1>6. \A y \in S : y \in Nat
  BY <1>1, <1>2
<1>7. Max(S) - Min(S) \in Nat
  BY <1>5, <1>6
<1>8. ASSUME NEW d \in Nat, Max(S) - Min(S) <= d, NEW v \in P, NEW w \in P
      PROVE  Position(b[v]) - Position(b[w]) <= d
  <2> DEFINE x == Position(b[v])
             y == Position(b[w])
  <2>1. x \in Nat /\ y \in Nat /\ x <= Max(S) /\ Min(S) <= y
    BY <1>3, <1>5, <1>6
  <2>2. Max(S) \in Nat /\ Min(S) \in Nat
    BY <1>5, <1>6
  <2> HIDE DEF x, y
  <2>3. x - y <= d
    BY <1>8, <2>1, <2>2
  <2>4. QED
    BY <2>3 DEF x, y
<1>9. ASSUME NEW d \in Nat,
             \A v, w \in P : Position(b[v]) - Position(b[w]) <= d
      PROVE  Max(S) - Min(S) <= d
  <2>1. PICK v \in P : Max(S) = Position(b[v])
    BY <1>4, <1>5
  <2>2. PICK w \in P : Min(S) = Position(b[w])
    BY <1>4, <1>5
  <2>3. QED
    BY <1>9, <2>1, <2>2
<1>10. QED
  BY <1>7, <1>8, <1>9 DEF S

\* The reference's two thirds: of the estimates of ballot b, for one card.
LEMMA TwoThirdsOf ==
    ASSUME NEW b, IsFiniteSet(DOMAIN b), Positioned(b) # {}
    PROVE  strongMajority(getMostVoteCount(counts(b)), Cardinality(Positioned(b)))
             <=> \E card \in Estimates :
                    3 * Cardinality({v \in DOMAIN b : b[v] = card})
                        >= 2 * Cardinality(Positioned(b))
<1> DEFINE P == Positioned(b)
           n == Cardinality(P)
           with(card) == Cardinality({v \in P : b[v] = card})
           most == getMostVoteCount(counts(b))
<1>1. /\ most \in Nat
      /\ \E v \in P : most = with(b[v])
      /\ \A v \in P : with(b[v]) <= most
  BY MostVotesOf
<1>2. IsFiniteSet(P) /\ n \in Nat /\ n # 0
  <2>1. P \subseteq DOMAIN b
    BY DEF Positioned
  <2>2. QED
    BY <2>1, FS_Subset, FS_CardinalityType, FS_EmptySet
<1>3. \A card \in Estimates : {v \in DOMAIN b : b[v] = card} = {v \in P : b[v] = card}
  BY DEF Positioned
<1>4. strongMajority(most, n) <=> 3 * most >= 2 * n
  BY <1>1, <1>2, TwoThirdsThreshold DEF strongMajority
<1>5. ASSUME 3 * most >= 2 * n
      PROVE  \E card \in Estimates :
                3 * Cardinality({v \in DOMAIN b : b[v] = card}) >= 2 * n
  <2>1. PICK v \in P : most = with(b[v])
    BY <1>1
  <2>2. b[v] \in Estimates
    BY DEF Positioned
  <2>3. Cardinality({w \in DOMAIN b : b[w] = b[v]}) = most
    BY <1>3, <2>1, <2>2
  <2>4. 3 * Cardinality({w \in DOMAIN b : b[w] = b[v]}) >= 2 * n
    BY <1>5, <2>3
  <2>5. QED
    BY <2>2, <2>4
<1>6. ASSUME NEW card \in Estimates,
             3 * Cardinality({v \in DOMAIN b : b[v] = card}) >= 2 * n
      PROVE  3 * most >= 2 * n
  <2>1. 3 * with(card) >= 2 * n
    BY <1>3, <1>6
  <2>2. CASE {v \in P : b[v] = card} = {}
    <3>1. with(card) = 0
      BY <2>2, FS_EmptySet
    <3>2. QED
      BY <1>2, <2>1, <3>1
  <2>3. CASE {v \in P : b[v] = card} # {}
    <3>1. PICK v \in P : b[v] = card
      BY <2>3
    <3>2. with(card) <= most
      BY <1>1, <3>1
    <3>3. with(card) \in Nat
      <4>1. {w \in P : b[w] = card} \subseteq P
        OBVIOUS
      <4>2. QED
        BY <1>2, <4>1, FS_Subset, FS_CardinalityType
    <3> HIDE DEF with, most, n
    <3>4. QED
      BY <1>1, <1>2, <2>1, <3>2, <3>3
  <2>4. QED
    BY <2>2, <2>3
<1>7. QED
  BY <1>4, <1>5, <1>6

\* The summary takes the consensus from calculateConsensus.
LEMMA SummaryConsensus == summary.consensus = calculateConsensus(votes).consensus
BY DEF summary, summarize

(* In every round, of whatever voters, deck and votes, the consensus that  *)
(* calculateConsensus reveals is the one that the distances between every  *)
(* two estimates and an exact two thirds majority call for.                *)
THEOREM ConsensusIsGraded == RoundSpec => []ConsensusMatchesReference
<1>1. RoundInit => RoundTypeOK
  BY DEF RoundInit, RoundTypeOK
<1>2. RoundTypeOK /\ [RoundNext]_votes => RoundTypeOK'
  BY DEF RoundTypeOK, RoundNext, Cast
<1>3. RoundTypeOK => ConsensusMatchesReference
  <2> SUFFICES ASSUME RoundTypeOK PROVE ConsensusMatchesReference
    OBVIOUS
  <2> DEFINE P == Positioned(votes)
             positions == {Position(card) : card \in {votes[v] : v \in P}}
             spread == Max(positions) - Min(positions)
             most == getMostVoteCount(counts(votes))
             strong == strongMajority(most, Cardinality(P))
  <2>1. DOMAIN votes = Voters /\ IsFiniteSet(DOMAIN votes)
    BY VotersAssumption DEF RoundTypeOK
  <2>2. CASE P = {}
    <3>1. calculateConsensus(votes).consensus = "Unavailable"
      BY <2>2 DEF calculateConsensus
    <3>2. summary.consensus = "Unavailable"
      BY <2>2, <3>1, SummaryConsensus
    <3>3. Within(0) /\ Within(2)
      BY <2>2 DEF Within
    <3>4. QED
      BY <2>2, <3>2, <3>3 DEF ConsensusMatchesReference
  <2>3. CASE P # {}
    <3>1. calculateConsensus(votes).consensus
            = consensusOf(most, Cardinality(P), spread)
      BY <2>3 DEF calculateConsensus
    <3>2. /\ spread \in Nat
          /\ \A d \in Nat : spread <= d <=> \A v, w \in P :
                                Position(votes[v]) - Position(votes[w]) <= d
      BY <2>3, SpreadOf
    <3>3. strong <=> TwoThirdsAgree
      BY <2>1, <2>3, TwoThirdsOf DEF TwoThirdsAgree
    <3> HIDE DEF spread, strong
    <3>4. ASSUME NEW d \in Nat PROVE Within(d) <=> spread <= d
      BY <3>2 DEF Within, Apart
    <3>5. /\ Within(0) <=> spread = 0
          /\ Within(1) <=> spread <= 1
          /\ Within(2) <=> spread <= 2
      BY <3>2, <3>4
    <3>6. summary.consensus =
            IF spread = 0 \/ (strong /\ spread <= 1) THEN "High"
            ELSE IF spread <= 2 THEN "Medium" ELSE "Low"
      BY <3>1, SummaryConsensus DEF consensusOf, strong
    <3>7. QED
      BY <2>3, <3>2, <3>3, <3>5, <3>6 DEF ConsensusMatchesReference
  <2>4. QED
    BY <2>2, <2>3
<1>4. QED
  BY <1>1, <1>2, <1>3, PTL DEF RoundSpec

-----------------------------------------------------------------------------
(* What agreeing does to the consensus.                                    *)

\* Voters who chose a card, the votes of the most chosen card, the indices
\* of the cards that have as many, and the distance of the extremes.
Chose(b, card) == {v \in Positioned(b) : b[v] = card}
Top(b) == getMostVoteCount(counts(b))
Winners(b) ==
    {i \in DOMAIN EstimateCards : /\ EstimateCards[i] \in DOMAIN counts(b)
                                  /\ counts(b)[EstimateCards[i]] = Top(b)}
Spread(b) ==
    LET positions == {Position(card) : card \in {b[v] : v \in Positioned(b)}}
    IN  Max(positions) - Min(positions)

LEMMA ChoseOf ==
    ASSUME NEW b, IsFiniteSet(DOMAIN b)
    PROVE  /\ IsFiniteSet(Positioned(b)) /\ Cardinality(Positioned(b)) \in Nat
           /\ \A card : /\ IsFiniteSet(Chose(b, card))
                        /\ Cardinality(Chose(b, card)) \in Nat
                        /\ Cardinality(Chose(b, card)) <= Cardinality(Positioned(b))
<1>1. IsFiniteSet(Positioned(b)) /\ Cardinality(Positioned(b)) \in Nat
  <2>1. Positioned(b) \subseteq DOMAIN b
    BY DEF Positioned
  <2>2. QED
    BY <2>1, FS_Subset, FS_CardinalityType
<1>2. ASSUME NEW card
      PROVE  /\ IsFiniteSet(Chose(b, card))
             /\ Cardinality(Chose(b, card)) \in Nat
             /\ Cardinality(Chose(b, card)) <= Cardinality(Positioned(b))
  <2>1. Chose(b, card) \subseteq Positioned(b)
    BY DEF Chose
  <2>2. QED
    BY <1>1, <2>1, FS_Subset, FS_CardinalityType
<1>3. QED
  BY <1>1, <1>2

LEMMA TopOf ==
    ASSUME NEW b, IsFiniteSet(DOMAIN b), Positioned(b) # {}
    PROVE  /\ Top(b) \in Nat
           /\ \E v \in Positioned(b) : Top(b) = Cardinality(Chose(b, b[v]))
           /\ \A v \in Positioned(b) : Cardinality(Chose(b, b[v])) <= Top(b)
BY MostVotesOf DEF Top, Chose

LEMMA WinnersOf ==
    ASSUME NEW b, IsFiniteSet(DOMAIN b)
    PROVE  /\ Winners(b) \subseteq 1 .. Len(EstimateCards)
           /\ Len(EstimateCards) \in Nat
           /\ IsFiniteSet(Winners(b)) /\ Cardinality(Winners(b)) \in Nat
           /\ \A i \in Winners(b) :
                /\ EstimateCards[i] \in Estimates
                /\ Cardinality(Chose(b, EstimateCards[i])) = Top(b)
                /\ \E v \in Positioned(b) : b[v] = EstimateCards[i]
           /\ Winners(b) = {} <=> Positioned(b) = {}
<1>1. DOMAIN EstimateCards = 1 .. Len(EstimateCards) /\ Len(EstimateCards) \in Nat
  BY DeckAssumption
<1>2. Winners(b) \subseteq 1 .. Len(EstimateCards)
  BY <1>1 DEF Winners
<1>3. IsFiniteSet(1 .. Len(EstimateCards))
  BY <1>1, FS_Interval
<1>4. IsFiniteSet(Winners(b)) /\ Cardinality(Winners(b)) \in Nat
  BY <1>2, <1>3, FS_Subset, FS_CardinalityType
<1>5. \A card \in DOMAIN counts(b) :
        /\ \E v \in Positioned(b) : b[v] = card
        /\ counts(b)[card] = Cardinality(Chose(b, card))
  BY DEF counts, Chose
<1>6. ASSUME NEW i \in Winners(b)
      PROVE  /\ EstimateCards[i] \in Estimates
             /\ Cardinality(Chose(b, EstimateCards[i])) = Top(b)
             /\ \E v \in Positioned(b) : b[v] = EstimateCards[i]
  BY <1>5 DEF Winners, Estimates
<1>7. ASSUME Positioned(b) # {} PROVE Winners(b) # {}
  <2>1. PICK v \in Positioned(b) : Top(b) = Cardinality(Chose(b, b[v]))
    BY <1>7, TopOf
  <2>2. PICK i \in DOMAIN EstimateCards : EstimateCards[i] = b[v]
    BY DEF Positioned, Estimates
  <2>3. EstimateCards[i] \in DOMAIN counts(b)
    BY <2>2 DEF counts
  <2>4. i \in Winners(b)
    BY <1>5, <2>1, <2>2, <2>3 DEF Winners
  <2>5. QED
    BY <2>4
<1>8. QED
  BY <1>1, <1>2, <1>4, <1>6, <1>7

\* The winners are shown in the order of the deck.
LEMMA SummaryWinners ==
    ASSUME NEW b
    PROVE  summarize(b).mostAppearingVotes =
            [k \in 1 .. Cardinality(Winners(b)) |->
                EstimateCards[CHOOSE i \in Winners(b) :
                    Cardinality({j \in Winners(b) : j <= i}) = k]]
BY DEF summarize, collectVotes, mostAppearingVotes, Winners, Top

LEMMA SummaryGrade ==
    ASSUME NEW b
    PROVE  summarize(b).consensus =
            IF Positioned(b) = {} THEN "Unavailable"
            ELSE consensusOf(Top(b), Cardinality(Positioned(b)), Spread(b))
BY DEF summarize, calculateConsensus, Top, Spread

\* A summary that shows one winner only: it is a card some voter chose, and
\* as many voters chose it as any.
LEMMA OneWinner ==
    ASSUME NEW b, IsFiniteSet(DOMAIN b), NEW card,
           summarize(b).mostAppearingVotes = <<card>>
    PROVE  /\ card \in Estimates
           /\ Cardinality(Chose(b, card)) = Top(b)
           /\ \E v \in Positioned(b) : b[v] = card
<1> DEFINE n == Cardinality(Winners(b))
           shown == [k \in 1 .. n |->
                EstimateCards[CHOOSE i \in Winners(b) :
                    Cardinality({j \in Winners(b) : j <= i}) = k]]
<1>1. shown = <<card>>
  BY SummaryWinners
<1>2. n \in Nat /\ IsFiniteSet(Winners(b))
  BY WinnersOf
<1>3. DOMAIN shown = {1} /\ shown[1] = card
  <2>1. DOMAIN <<card>> = {1} /\ <<card>>[1] = card
    OBVIOUS
  <2> HIDE DEF shown
  <2>2. QED
    BY <1>1, <2>1
<1>4. n = 1
  <2>1. 1 .. n = {1}
    BY <1>3
  <2> HIDE DEF n
  <2>2. QED
    BY <1>2, <2>1
<1>5. PICK i : Winners(b) = {i}
  BY <1>2, <1>4, FS_Singleton
<1>6. {j \in Winners(b) : j <= i} = {i}
  BY <1>5, WinnersOf
<1>7. Cardinality({i}) = 1
  BY FS_Singleton
<1>8. (CHOOSE j \in Winners(b) : Cardinality({h \in Winners(b) : h <= j}) = 1) = i
  BY <1>5, <1>6, <1>7
<1>9. card = EstimateCards[i]
  BY <1>3, <1>4, <1>8
<1>10. QED
  BY <1>5, <1>9, WinnersOf

\* Voter v moves to the card c that w holds and no card beats.
LEMMA AgreeingStep ==
    ASSUME NEW b, IsFiniteSet(DOMAIN b), NEW v \in DOMAIN b, NEW c \in Estimates,
           b[v] # c, Cardinality(Chose(b, c)) = Top(b),
           NEW w \in Positioned(b), b[w] = c
    PROVE  LET d == [b EXCEPT ![v] = c]
           IN  /\ Positioned(d) # {}
               /\ Spread(b) \in Nat /\ Spread(d) \in Nat
               /\ Spread(d) <= Spread(b)
               /\ strongMajority(Top(b), Cardinality(Positioned(b)))
                    => strongMajority(Top(d), Cardinality(Positioned(d)))
<1> DEFINE d == [b EXCEPT ![v] = c]
           P == Positioned(b)
           Q == Positioned(d)
           n == Cardinality(P)
           m == Cardinality(Chose(b, c))
<1>1. DOMAIN d = DOMAIN b /\ d[v] = c /\ \A x \in DOMAIN b : x # v => d[x] = b[x]
  OBVIOUS
<1>2. P \subseteq DOMAIN b /\ Q = P \cup {v}
  BY <1>1 DEF Positioned
<1>3. Chose(d, c) = Chose(b, c) \cup {v} /\ v \notin Chose(b, c)
  BY <1>1, <1>2 DEF Chose
<1>4. w # v
  OBVIOUS
<1> HIDE DEF d
<1>5. IsFiniteSet(P) /\ n \in Nat /\ IsFiniteSet(Chose(b, c)) /\ m \in Nat
  BY ChoseOf
<1>6. Cardinality(Q) \in Nat /\ Cardinality(Q) <= n + 1
  <2>1. Cardinality(P \cup {v}) = IF v \in P THEN n ELSE n + 1
    BY <1>5, FS_AddElement
  <2>2. Cardinality(P \cup {v}) \in Nat /\ Cardinality(P \cup {v}) <= n + 1
    BY <1>5, <2>1
  <2>3. QED
    BY <1>2, <2>2
<1>7. Cardinality(Chose(d, c)) = m + 1
  <2>1. Cardinality(Chose(b, c) \cup {v}) = m + 1
    BY <1>3, <1>5, FS_AddElement
  <2>2. QED
    BY <1>3, <2>1
<1>8. IsFiniteSet(DOMAIN d) /\ Q # {}
  BY <1>1, <1>2
<1>9. Top(d) \in Nat /\ m + 1 <= Top(d)
  <2>1. Top(d) \in Nat /\ \A x \in Q : Cardinality(Chose(d, d[x])) <= Top(d)
    BY <1>8, TopOf
  <2>2. v \in Q
    BY <1>2
  <2>3. QED
    BY <1>1, <1>7, <2>1, <2>2
<1>10. strongMajority(Top(b), n) => strongMajority(Top(d), Cardinality(Q))
  <2>1. Top(b) = m
    OBVIOUS
  <2>2. strongMajority(Top(b), n) <=> 3 * m >= 2 * n
    BY <1>5, <2>1, TwoThirdsThreshold DEF strongMajority
  <2>3. strongMajority(Top(d), Cardinality(Q)) <=> 3 * Top(d) >= 2 * Cardinality(Q)
    BY <1>6, <1>9, TwoThirdsThreshold DEF strongMajority
  <2> HIDE DEF n, m, Q
  <2>4. 3 * m >= 2 * n => 3 * Top(d) >= 2 * Cardinality(Q)
    BY <1>5, <1>6, <1>9
  <2>5. QED
    BY <2>2, <2>3, <2>4
<1>11. Spread(b) \in Nat /\ \A x, y \in P : Position(b[x]) - Position(b[y]) <= Spread(b)
  BY SpreadOf DEF Spread
<1>12. ASSUME NEW x \in Q, NEW y \in Q
       PROVE  Position(d[x]) - Position(d[y]) <= Spread(b)
  <2>1. ASSUME NEW z \in Q PROVE \E u \in P : d[z] = b[u]
    BY <1>1, <1>2
  <2>2. PICK s \in P : d[x] = b[s]
    BY <2>1
  <2>3. PICK t \in P : d[y] = b[t]
    BY <2>1
  <2>4. QED
    BY <1>11, <2>2, <2>3
<1>13. /\ Spread(d) \in Nat
       /\ Spread(d) <= Spread(b) <=>
            \A x, y \in Q : Position(d[x]) - Position(d[y]) <= Spread(b)
  BY <1>8, <1>11, SpreadOf DEF Spread
<1>14. Spread(d) <= Spread(b)
  BY <1>12, <1>13
<1>15. QED
  BY <1>8, <1>10, <1>11, <1>13, <1>14 DEF d

\* A smaller spread and a majority kept are graded no lower.
LEMMA LevelIsMonotone ==
    ASSUME NEW m, NEW n, NEW s \in Nat, NEW m1, NEW n1, NEW s1 \in Nat,
           s1 <= s, strongMajority(m, n) => strongMajority(m1, n1)
    PROVE  Level[consensusOf(m1, n1, s1)] >= Level[consensusOf(m, n, s)]
<1>1. /\ Level["Low"] = 1 /\ Level["Medium"] = 2 /\ Level["High"] = 3
  BY DEF Level
<1> DEFINE strong == strongMajority(m, n)
           strong1 == strongMajority(m1, n1)
<1>2. strong => strong1
  OBVIOUS
<1> HIDE DEF strong, strong1
<1>3. /\ consensusOf(m, n, s) = IF s = 0 \/ (strong /\ s <= 1) THEN "High"
                                ELSE IF s <= 2 THEN "Medium" ELSE "Low"
      /\ consensusOf(m1, n1, s1) = IF s1 = 0 \/ (strong1 /\ s1 <= 1) THEN "High"
                                   ELSE IF s1 <= 2 THEN "Medium" ELSE "Low"
  BY DEF consensusOf, strong, strong1
<1>4. CASE consensusOf(m, n, s) = "High"
  BY <1>1, <1>2, <1>3, <1>4
<1>5. CASE consensusOf(m, n, s) = "Medium"
  BY <1>1, <1>2, <1>3, <1>5
<1>6. CASE consensusOf(m, n, s) = "Low"
  BY <1>1, <1>2, <1>3, <1>6
<1>7. QED
  BY <1>3, <1>4, <1>5, <1>6

(* A voter who moves to the one card most others chose never lowers the    *)
(* consensus, in a round of whatever voters and deck: the spread does not  *)
(* grow, since another voter holds that card already, and the majority has *)
(* one vote more of at most one estimate more.                             *)
THEOREM AgreeingIsSafe == RoundSpec => AgreeingNeverLowersConsensus
<1>1. RoundInit => RoundTypeOK
  BY DEF RoundInit, RoundTypeOK
<1>2. RoundTypeOK /\ [RoundNext]_votes => RoundTypeOK'
  BY DEF RoundTypeOK, RoundNext, Cast
<1> DEFINE Kept == \A v \in Voters :
                      /\ votes'[v] # votes[v]
                      /\ summary.mostAppearingVotes = <<votes'[v]>>
                      => Level[summary'.consensus] >= Level[summary.consensus]
<1>3. RoundTypeOK /\ [RoundNext]_votes => [Kept]_votes
  <2> SUFFICES ASSUME RoundTypeOK, RoundNext, NEW v \in Voters,
                      votes'[v] # votes[v],
                      summary.mostAppearingVotes = <<votes'[v]>>
               PROVE  Level[summary'.consensus] >= Level[summary.consensus]
    OBVIOUS
  <2>1. DOMAIN votes = Voters /\ IsFiniteSet(DOMAIN votes)
    BY VotersAssumption DEF RoundTypeOK
  <2>2. PICK u \in Voters, vote \in Cards \cup {None} :
            votes' = [votes EXCEPT ![u] = vote]
    BY DEF RoundNext, Cast
  <2>3. u = v /\ vote = votes'[v]
    BY <2>1, <2>2
  <2> DEFINE c == votes'[v]
  <2>4. votes' = [votes EXCEPT ![v] = c]
    BY <2>2, <2>3
  <2>5. /\ c \in Estimates
        /\ Cardinality(Chose(votes, c)) = Top(votes)
        /\ \E w \in Positioned(votes) : votes[w] = c
    BY <2>1, OneWinner DEF summary
  <2> HIDE DEF c
  <2>6. PICK w \in Positioned(votes) : votes[w] = c
    BY <2>5
  <2>7. votes[v] # c
    BY DEF c
  <2> DEFINE d == [votes EXCEPT ![v] = c]
  <2>8. /\ Positioned(d) # {}
        /\ Spread(votes) \in Nat /\ Spread(d) \in Nat
        /\ Spread(d) <= Spread(votes)
        /\ strongMajority(Top(votes), Cardinality(Positioned(votes)))
                => strongMajority(Top(d), Cardinality(Positioned(d)))
    BY <2>1, <2>5, <2>6, <2>7, AgreeingStep
  <2>9. Positioned(votes) # {}
    BY <2>6
  <2>10. summary.consensus
            = consensusOf(Top(votes), Cardinality(Positioned(votes)), Spread(votes))
    BY <2>9, SummaryGrade DEF summary
  <2>11. summary'.consensus = summarize(d).consensus
    BY <2>4 DEF summary
  <2> HIDE DEF d
  <2>12. summarize(d).consensus
            = consensusOf(Top(d), Cardinality(Positioned(d)), Spread(d))
    BY <2>8, SummaryGrade
  <2>13. QED
    BY <2>8, <2>10, <2>11, <2>12, LevelIsMonotone
<1>4. QED
  BY <1>1, <1>2, <1>3, PTL DEF RoundSpec, AgreeingNeverLowersConsensus

-----------------------------------------------------------------------------
(* The parts of a summary fit together.  First the sum of the numeric      *)
(* votes: collectVotes folds it over a set of voters, and the fold meets   *)
(* its recursive equation because the set is finite.                       *)

Value(b, v) == Atoi[b[v]]
SumOf(b, S) == MapThenSumSet(LAMBDA v : Value(b, v), S)
AnyOf(s) == CHOOSE x \in s : TRUE
SumsUp(b, D, iter) ==
    iter = [s \in D |-> IF s = {} THEN 0
                        ELSE Value(b, AnyOf(s)) + iter[s \ {AnyOf(s)}]]

LEMMA AnyOfIn == \A s : s # {} => AnyOf(s) \in s
BY DEF AnyOf

LEMMA SumOfIter ==
    ASSUME NEW b, NEW S
    PROVE  SumOf(b, S) = (CHOOSE iter : SumsUp(b, SUBSET S, iter))[S]
BY DEF SumOf, MapThenSumSet, MapThenFoldSet, SumsUp, AnyOf

LEMMA SumExists ==
    ASSUME NEW b, NEW S, IsFiniteSet(S)
    PROVE  \E iter : SumsUp(b, SUBSET S, iter)
<1> DEFINE Small(n) == {s \in SUBSET S : Cardinality(s) <= n}
           Bad == {n \in Nat : ~ \E iter : SumsUp(b, Small(n), iter)}
<1>1. \A s \in SUBSET S : IsFiniteSet(s) /\ Cardinality(s) \in Nat
                          /\ Cardinality(s) <= Cardinality(S)
  BY FS_Subset, FS_CardinalityType
<1>2. Cardinality(S) \in Nat
  BY FS_CardinalityType
<1>3. Small(Cardinality(S)) = SUBSET S
  BY <1>1
<1>4. 0 \notin Bad
  <2>1. \A s \in Small(0) : s = {}
    BY <1>1, FS_EmptySet
  <2> DEFINE g == [s \in Small(0) |-> 0]
  <2> HIDE DEF Small
  <2>2. SumsUp(b, Small(0), g)
    BY <2>1 DEF SumsUp
  <2>3. QED
    BY <2>2
<1>5. ASSUME NEW n \in Nat, n # 0, n - 1 \notin Bad PROVE n \notin Bad
  <2>1. n - 1 \in Nat
    BY <1>5
  <2>2. PICK g : SumsUp(b, Small(n - 1), g)
    BY <1>5, <2>1
  <2> DEFINE h == [s \in Small(n) |-> IF s = {} THEN 0
                        ELSE Value(b, AnyOf(s)) + g[s \ {AnyOf(s)}]]
  <2>3. Small(n - 1) \subseteq Small(n)
    BY <1>1, <2>1
  <2>4. ASSUME NEW s \in Small(n), s # {} PROVE s \ {AnyOf(s)} \in Small(n - 1)
    <3>1. AnyOf(s) \in s /\ IsFiniteSet(s) /\ Cardinality(s) \in Nat
      BY <1>1, <2>4, AnyOfIn
    <3>2. Cardinality(s \ {AnyOf(s)}) = Cardinality(s) - 1
      BY <3>1, FS_RemoveElement
    <3>3. QED
      BY <2>1, <3>1, <3>2
  <2> HIDE DEF Small
  <2>5. ASSUME NEW t \in Small(n - 1) PROVE h[t] = g[t]
    <3>1. g[t] = IF t = {} THEN 0 ELSE Value(b, AnyOf(t)) + g[t \ {AnyOf(t)}]
      BY <2>2 DEF SumsUp
    <3>2. t \in Small(n)
      BY <2>3
    <3>3. QED
      BY <3>1, <3>2
  <2>6. h = [s \in Small(n) |-> IF s = {} THEN 0
                        ELSE Value(b, AnyOf(s)) + h[s \ {AnyOf(s)}]]
    <3>1. \A s \in Small(n) : s # {} => h[s \ {AnyOf(s)}] = g[s \ {AnyOf(s)}]
      BY <2>4, <2>5
    <3>2. \A s \in Small(n) :
            h[s] = IF s = {} THEN 0 ELSE Value(b, AnyOf(s)) + g[s \ {AnyOf(s)}]
      OBVIOUS
    <3>3. h = [s \in Small(n) |-> h[s]]
      OBVIOUS
    <3> HIDE DEF h
    <3>4. \A s \in Small(n) :
            h[s] = IF s = {} THEN 0 ELSE Value(b, AnyOf(s)) + h[s \ {AnyOf(s)}]
      BY <3>1, <3>2
    <3>5. QED
      BY <3>3, <3>4
  <2> HIDE DEF h
  <2>7. QED
    BY <2>6 DEF SumsUp
<1>6. Bad = {}
  <2>1. Bad \subseteq Nat
    OBVIOUS
  <2> SUFFICES ASSUME Bad # {} PROVE FALSE
    OBVIOUS
  <2> HIDE DEF Bad
  <2>2. PICK n \in Bad : \A k \in Bad : n <= k
    BY <2>1, LeastOf
  <2>3. n \in Nat /\ n # 0 /\ n - 1 \notin Bad
    BY <1>4, <2>1, <2>2
  <2>4. QED
    BY <1>5, <2>2, <2>3
<1>7. QED
  BY <1>2, <1>3, <1>6

\* The sum of integers between lo and hi, their number times.
LEMMA SumBounds ==
    ASSUME NEW b, NEW S, IsFiniteSet(S), NEW lo \in Int, NEW hi \in Int,
           \A v \in S : Value(b, v) \in Int /\ lo <= Value(b, v) /\ Value(b, v) <= hi
    PROVE  /\ SumOf(b, S) \in Int
           /\ lo * Cardinality(S) <= SumOf(b, S)
           /\ SumOf(b, S) <= hi * Cardinality(S)
<1> DEFINE iter == CHOOSE iter : SumsUp(b, SUBSET S, iter)
<1>1. SumsUp(b, SUBSET S, iter)
  BY SumExists
<1>2. SumOf(b, S) = iter[S]
  BY SumOfIter
<1> HIDE DEF iter
<1>3. \A s \in SUBSET S :
        iter[s] = IF s = {} THEN 0 ELSE Value(b, AnyOf(s)) + iter[s \ {AnyOf(s)}]
  BY <1>1 DEF SumsUp
<1>4. \A s \in SUBSET S : IsFiniteSet(s) /\ Cardinality(s) \in Nat
  BY FS_Subset, FS_CardinalityType
<1> DEFINE Good(s) == /\ iter[s] \in Int
                      /\ lo * Cardinality(s) <= iter[s]
                      /\ iter[s] <= hi * Cardinality(s)
           Bad == {n \in Nat : \E s \in SUBSET S : Cardinality(s) = n /\ ~Good(s)}
<1>5. Good({})
  <2>1. iter[{}] = 0 /\ Cardinality({}) = 0
    BY <1>3, FS_EmptySet
  <2>2. QED
    BY <2>1
<1>6. ASSUME NEW s \in SUBSET S, s # {}, Good(s \ {AnyOf(s)}) PROVE Good(s)
  <2> DEFINE x == AnyOf(s)
             t == s \ {x}
             k == Cardinality(t)
             a == Value(b, x)
  <2>1. x \in s /\ x \in S
    BY <1>6, AnyOfIn
  <2>2. k = Cardinality(s) - 1 /\ k \in Nat /\ Cardinality(s) \in Nat
    <3>1. t \in SUBSET S
      OBVIOUS
    <3>2. QED
      BY <1>4, <2>1, <3>1, FS_RemoveElement
  <2>3. iter[s] = a + iter[t]
    BY <1>3, <1>6
  <2>4. a \in Int /\ lo <= a /\ a <= hi
    BY <2>1
  <2>5. iter[t] \in Int /\ lo * k <= iter[t] /\ iter[t] <= hi * k
    BY <1>6
  <2> HIDE DEF k, a, t
  <2>6. Cardinality(s) = k + 1
    BY <2>2
  <2>7. lo * (k + 1) = lo * k + lo /\ hi * (k + 1) = hi * k + hi
    BY <2>2
  <2>8. lo * k \in Int /\ hi * k \in Int
    BY <2>2
  <2> DEFINE l == lo * k
             u == hi * k
  <2>9. /\ l \in Int /\ u \in Int /\ l <= iter[t] /\ iter[t] <= u
        /\ lo * (k + 1) = l + lo /\ hi * (k + 1) = u + hi
    BY <2>5, <2>7, <2>8
  <2> HIDE DEF l, u
  <2>10. a + iter[t] \in Int /\ l + lo <= a + iter[t] /\ a + iter[t] <= u + hi
    BY <2>4, <2>5, <2>9
  <2>11. QED
    BY <2>3, <2>6, <2>9, <2>10
<1>7. Bad = {}
  <2>1. Bad \subseteq Nat
    OBVIOUS
  <2> SUFFICES ASSUME Bad # {} PROVE FALSE
    OBVIOUS
  <2>2. PICK n \in Bad : \A k \in Bad : n <= k
    <3> HIDE DEF Bad
    <3>1. QED
      BY <2>1, LeastOf
  <2>3. PICK s \in SUBSET S : Cardinality(s) = n /\ ~Good(s)
    BY <2>2
  <2>4. s # {}
    BY <1>5, <2>3
  <2> DEFINE t == s \ {AnyOf(s)}
  <2>5. t \in SUBSET S
    OBVIOUS
  <2>6. Cardinality(t) = n - 1 /\ Cardinality(t) \in Nat /\ n \in Nat
    BY <1>4, <2>3, <2>4, <2>5, AnyOfIn, FS_RemoveElement
  <2>7. Good(t)
    <3> HIDE DEF Good, t
    <3>1. Cardinality(t) \notin Bad
      <4> HIDE DEF Bad
      <4>1. QED
        BY <2>1, <2>2, <2>6
    <3>2. QED
      BY <2>5, <2>6, <3>1
  <2>8. QED
    BY <1>6, <2>3, <2>4, <2>7
<1>8. QED
  <2>1. Good(S)
    <3>1. S \in SUBSET S /\ Cardinality(S) \in Nat
      BY FS_CardinalityType
    <3> HIDE DEF Good
    <3>2. QED
      BY <1>7, <3>1
  <2>2. QED
    BY <1>2, <2>1

\* The sum looks at the votes of its voters only.
LEMMA SameSum ==
    ASSUME NEW a, NEW b, NEW S, IsFiniteSet(S), \A v \in S : a[v] = b[v]
    PROVE  SumOf(a, S) = SumOf(b, S)
<1>1. \A s \in SUBSET S : s # {} => Value(a, AnyOf(s)) = Value(b, AnyOf(s))
  BY AnyOfIn DEF Value
<1>2. ASSUME NEW iter PROVE SumsUp(a, SUBSET S, iter) <=> SumsUp(b, SUBSET S, iter)
  <2>1. [s \in SUBSET S |-> IF s = {} THEN 0
                            ELSE Value(a, AnyOf(s)) + iter[s \ {AnyOf(s)}]]
        = [s \in SUBSET S |-> IF s = {} THEN 0
                            ELSE Value(b, AnyOf(s)) + iter[s \ {AnyOf(s)}]]
    BY <1>1
  <2>2. QED
    BY <2>1 DEF SumsUp
<1>3. (CHOOSE iter : SumsUp(a, SUBSET S, iter))
        = (CHOOSE iter : SumsUp(b, SUBSET S, iter))
  BY <1>2
<1>4. QED
  BY <1>3, SumOfIter

-----------------------------------------------------------------------------
(* Then the order in which the winners are shown: the k-th of them is the  *)
(* one of rank k.                                                          *)

Rank(C, i) == Cardinality({j \in C : j <= i})

LEMMA RankOf ==
    ASSUME NEW n \in Nat, NEW C, C \subseteq 1 .. n, NEW i
    PROVE  IsFiniteSet({j \in C : j <= i}) /\ Rank(C, i) \in Nat
<1>1. IsFiniteSet(1 .. n)
  BY FS_Interval
<1>2. {j \in C : j <= i} \subseteq 1 .. n
  OBVIOUS
<1>3. QED
  BY <1>1, <1>2, FS_Subset, FS_CardinalityType DEF Rank

LEMMA RankGrows ==
    ASSUME NEW n \in Nat, NEW C, C \subseteq 1 .. n, NEW i \in C, NEW j \in C, i < j
    PROVE  Rank(C, i) < Rank(C, j)
<1> DEFINE A == {h \in C : h <= i}
           B == {h \in C : h <= j}
<1>1. IsFiniteSet(A) /\ IsFiniteSet(B) /\ Cardinality(A) \in Nat /\ Cardinality(B) \in Nat
  BY RankOf DEF Rank
<1>2. A \subseteq B /\ j \in B /\ j \notin A
  <2>1. \A h \in C : h \in Nat
    OBVIOUS
  <2>2. j \in Nat /\ i \in Nat /\ i <= j /\ ~(j <= i) /\ j <= j
    BY <2>1
  <2>3. \A h \in C : h <= i => h <= j
    BY <2>1, <2>2
  <2>4. QED
    BY <2>2, <2>3
<1>3. Cardinality(A) <= Cardinality(B) /\ Cardinality(A) # Cardinality(B)
  <2>1. A \in SUBSET B /\ A # B
    BY <1>2
  <2> HIDE DEF A, B
  <2>2. QED
    BY <1>1, <2>1, FS_Subset
<1>4. QED
  BY <1>1, <1>3 DEF Rank

LEMMA RankReached ==
    ASSUME NEW n \in Nat, NEW C, C \subseteq 1 .. n, NEW k \in 1 .. Cardinality(C)
    PROVE  \E i \in C : Rank(C, i) = k
<1>1. /\ IsFiniteSet(C) /\ Cardinality(C) \in Nat
      /\ \A j \in C : j \in Nat /\ 1 <= j /\ j <= n
  <2>1. IsFiniteSet(1 .. n)
    BY FS_Interval
  <2>2. IsFiniteSet(C) /\ Cardinality(C) \in Nat
    BY <2>1, FS_Subset, FS_CardinalityType
  <2>3. \A j \in C : j \in Nat /\ 1 <= j /\ j <= n
    OBVIOUS
  <2>4. QED
    BY <2>2, <2>3
<1> DEFINE M == {m \in Nat : k <= Rank(C, m)}
<1>2. M \subseteq Nat /\ M # {}
  <2>1. {j \in C : j <= n} = C
    BY <1>1
  <2>2. n \in M
    BY <1>1, <2>1 DEF Rank
  <2>3. QED
    BY <2>2
<1>3. PICK m \in M : \A y \in M : m <= y
  <2> HIDE DEF M
  <2>1. QED
    BY <1>2, LeastOf
<1>4. m \in Nat /\ k <= Rank(C, m) /\ Rank(C, m) \in Nat /\ k \in Nat /\ k >= 1
  <2>1. Rank(C, m) \in Nat
    BY RankOf
  <2>2. QED
    BY <1>1, <2>1
<1>5. m # 0
  <2>1. {j \in C : j <= 0} = {}
    <3>1. \A j \in C : ~(j <= 0)
      BY <1>1
    <3>2. QED
      BY <3>1
  <2>2. Rank(C, 0) = 0
    BY <2>1, FS_EmptySet DEF Rank
  <2>3. QED
    BY <1>4, <2>2
<1>6. m - 1 \in Nat /\ m - 1 \notin M
  BY <1>3, <1>4, <1>5
<1>7. Rank(C, m - 1) \in Nat /\ Rank(C, m - 1) < k
  <2>1. Rank(C, m - 1) \in Nat
    BY RankOf
  <2>2. QED
    BY <1>4, <1>6, <2>1
<1>8. m \in C
  <2> SUFFICES ASSUME m \notin C PROVE FALSE
    OBVIOUS
  <2>1. \A j \in C : j <= m <=> j <= m - 1
    BY <1>1, <1>4
  <2>2. {j \in C : j <= m} = {j \in C : j <= m - 1}
    BY <2>1
  <2>3. Rank(C, m) = Rank(C, m - 1)
    BY <2>2 DEF Rank
  <2>4. QED
    BY <1>4, <1>7, <2>3
<1>9. Rank(C, m) = Rank(C, m - 1) + 1
  <2> DEFINE B == {j \in C : j <= m - 1}
  <2>1. {j \in C : j <= m} = B \cup {m} /\ m \notin B
    <3>1. \A j \in C : j <= m <=> j <= m - 1 \/ j = m
      BY <1>1, <1>4
    <3>2. ~(m <= m - 1) /\ m <= m
      BY <1>4
    <3>3. QED
      BY <1>8, <3>1, <3>2
  <2>2. IsFiniteSet(B)
    BY RankOf
  <2> HIDE DEF B
  <2>3. Cardinality(B \cup {m}) = Cardinality(B) + 1
    BY <2>1, <2>2, FS_AddElement
  <2>4. QED
    BY <2>1, <2>3 DEF Rank, B
<1>10. QED
  BY <1>4, <1>7, <1>8, <1>9

\* Every shown card is a winner, and each comes before the next in the deck.
LEMMA ShownOf ==
    ASSUME NEW b, IsFiniteSet(DOMAIN b)
    PROVE  LET most == summarize(b).mostAppearingVotes
           IN  /\ DOMAIN most = 1 .. Cardinality(Winners(b))
               /\ most = <<>> <=> Positioned(b) = {}
               /\ \A k \in DOMAIN most :
                    /\ \E i \in Winners(b) : most[k] = EstimateCards[i]
                    /\ k > 1 => \E i, j \in Winners(b) :
                                    /\ most[k - 1] = EstimateCards[i]
                                    /\ most[k] = EstimateCards[j]
                                    /\ i < j
<1> DEFINE C == Winners(b)
           n == Cardinality(C)
           at(k) == CHOOSE i \in C : Rank(C, i) = k
           most == summarize(b).mostAppearingVotes
<1>1. most = [k \in 1 .. n |-> EstimateCards[at(k)]]
  BY SummaryWinners DEF Rank
<1>2. /\ Len(EstimateCards) \in Nat /\ C \subseteq 1 .. Len(EstimateCards)
      /\ IsFiniteSet(C) /\ n \in Nat
      /\ C = {} <=> Positioned(b) = {}
  BY WinnersOf
<1> HIDE DEF most, C
<1>3. DOMAIN most = 1 .. n /\ \A k \in 1 .. n : most[k] = EstimateCards[at(k)]
  BY <1>1
<1>4. \A k \in 1 .. n : at(k) \in C /\ Rank(C, at(k)) = k
  BY <1>2, RankReached
<1>5. most = <<>> <=> C = {}
  <2>1. n = 0 <=> C = {}
    BY <1>2, FS_EmptySet
  <2> HIDE DEF n
  <2>2. n = 0 => most = <<>>
    BY <1>1
  <2>3. most = <<>> => n = 0
    <3> SUFFICES ASSUME most = <<>>, n # 0 PROVE FALSE
      OBVIOUS
    <3>1. 1 \in DOMAIN most
      BY <1>2, <1>3
    <3>2. QED
      BY <3>1
  <2>4. QED
    BY <2>1, <2>2, <2>3
<1> HIDE DEF at, n
<1>6. ASSUME NEW k \in 1 .. n, k > 1
      PROVE  \E i, j \in C : /\ most[k - 1] = EstimateCards[i]
                             /\ most[k] = EstimateCards[j]
                             /\ i < j
  <2>1. k - 1 \in 1 .. n /\ k \in Nat
    BY <1>2, <1>6
  <2>2. /\ at(k - 1) \in C /\ Rank(C, at(k - 1)) = k - 1
        /\ at(k) \in C /\ Rank(C, at(k)) = k
    BY <1>4, <2>1
  <2> DEFINE i == at(k - 1)
             j == at(k)
  <2>3. most[k - 1] = EstimateCards[i] /\ most[k] = EstimateCards[j]
    BY <1>3, <2>1
  <2> HIDE DEF i, j
  <2>4. /\ i \in C /\ Rank(C, i) = k - 1 /\ i \in Nat
        /\ j \in C /\ Rank(C, j) = k /\ j \in Nat
    <3>1. \A h \in C : h \in Nat
      BY <1>2
    <3>2. QED
      BY <2>2, <3>1 DEF i, j
  <2>5. ~(j < i)
    <3>1. j < i => Rank(C, j) < Rank(C, i)
      BY <1>2, <2>4, RankGrows
    <3>2. ~(k < k - 1)
      BY <2>1
    <3>3. QED
      BY <2>4, <3>1, <3>2
  <2>6. j # i
    BY <2>1, <2>4
  <2>7. QED
    BY <2>3, <2>4, <2>5, <2>6
<1>7. QED
  BY <1>2, <1>3, <1>4, <1>5, <1>6 DEF n, C, most

\* A card knows its place, and the limits shown are the extreme places.
LEMMA PlaceOf ==
    ASSUME NEW i \in DOMAIN EstimateCards
    PROVE  Position(EstimateCards[i]) = i - 1 /\ i \in Nat /\ i >= 1
<1>1. i \in Nat /\ i >= 1
  <2>1. DOMAIN EstimateCards = 1 .. Len(EstimateCards) /\ Len(EstimateCards) \in Nat
    BY DeckAssumption
  <2>2. QED
    BY <2>1
<1>2. (CHOOSE j \in DOMAIN EstimateCards : EstimateCards[j] = EstimateCards[i]) = i
  BY DeckAssumption
<1>3. Position(EstimateCards[i]) = i - 1
  BY <1>2 DEF Position
<1>4. QED
  BY <1>1, <1>3

LEMMA LimitsShown ==
    ASSUME NEW b, Positioned(b) # {}
    PROVE  LET low  == summarize(b).lowestVote
               high == summarize(b).highestVote
           IN  /\ low \in Estimates /\ high \in Estimates
               /\ \E v \in Positioned(b) : b[v] = low
               /\ \A v \in Positioned(b) :
                    /\ Position(low) <= Position(b[v])
                    /\ Position(b[v]) <= Position(high)
<1> DEFINE P == Positioned(b)
           S == {Position(card) : card \in {b[v] : v \in P}}
           low == summarize(b).lowestVote
           high == summarize(b).highestVote
<1>1. Len(EstimateCards) \in Nat
  BY DeckAssumption
<1>2. \A v \in P : b[v] \in Estimates
  BY DEF Positioned
<1>3. S \subseteq 0 .. Len(EstimateCards) /\ S # {}
  BY <1>2, PositionOf
<1>4. \A v \in P : Position(b[v]) \in S
  OBVIOUS
<1>5. \A y \in S : \E v \in P : y = Position(b[v])
  OBVIOUS
<1>6. /\ low = EstimateCards[Min(S) + 1]
      /\ high = EstimateCards[Max(S) + 1]
  BY DEF summarize, calculateConsensus
<1> HIDE DEF S, low, high
<1>7. /\ Min(S) \in S /\ \A y \in S : Min(S) <= y
      /\ Max(S) \in S /\ \A y \in S : y <= Max(S)
  BY <1>1, <1>3, LimitsOf
<1>8. ASSUME NEW y \in S
      PROVE  \E v \in P : EstimateCards[y + 1] = b[v] /\ Position(b[v]) = y
  <2>1. PICK v \in P : y = Position(b[v])
    BY <1>5
  <2>2. PICK i \in DOMAIN EstimateCards : EstimateCards[i] = b[v]
    BY <1>2 DEF Estimates
  <2>3. y = i - 1 /\ i \in Nat
    BY <2>1, <2>2, PlaceOf
  <2>4. y + 1 = i
    BY <2>3
  <2>5. QED
    BY <2>1, <2>2, <2>4
<1>9. PICK v \in P : low = b[v] /\ Position(b[v]) = Min(S)
  BY <1>6, <1>7, <1>8
<1>10. PICK w \in P : high = b[w] /\ Position(b[w]) = Max(S)
  BY <1>6, <1>7, <1>8
<1>11. QED
  BY <1>2, <1>4, <1>7, <1>9, <1>10 DEF low, high

\* A High consensus: two winners would be more than all estimates.
LEMMA HighHasOneWinner ==
    ASSUME NEW b, IsFiniteSet(DOMAIN b), summarize(b).consensus = "High"
    PROVE  Len(summarize(b).mostAppearingVotes) = 1
<1> DEFINE P == Positioned(b)
           n == Cardinality(P)
           m == Top(b)
<1>1. /\ P # {}
      /\ Spread(b) = 0 \/ (strongMajority(m, n) /\ Spread(b) <= 1)
  BY SummaryGrade DEF consensusOf
<1>2. m \in Nat /\ n \in Nat
  BY <1>1, TopOf, ChoseOf
<1>3. ASSUME NEW i \in Winners(b), NEW j \in Winners(b) PROVE i = j
  <2> SUFFICES ASSUME i # j PROVE FALSE
    OBVIOUS
  <2>1. PICK v \in P : b[v] = EstimateCards[i]
    BY WinnersOf
  <2>2. PICK w \in P : b[w] = EstimateCards[j]
    BY WinnersOf
  <2>3. i \in DOMAIN EstimateCards /\ j \in DOMAIN EstimateCards
    BY DEF Winners
  <2>4. CASE Spread(b) = 0
    <3>1. \A x, y \in P : Position(b[x]) - Position(b[y]) <= 0
      BY <1>1, <2>4, SpreadOf DEF Spread
    <3>2. /\ Position(b[v]) - Position(b[w]) <= 0
          /\ Position(b[w]) - Position(b[v]) <= 0
      BY <3>1
    <3>3. /\ Position(b[v]) = i - 1 /\ Position(b[w]) = j - 1
          /\ i \in Nat /\ j \in Nat
      BY <2>1, <2>2, <2>3, PlaceOf
    <3>4. QED
      BY <3>2, <3>3
  <2>5. CASE strongMajority(m, n)
    <3> DEFINE A == Chose(b, EstimateCards[i])
               B == Chose(b, EstimateCards[j])
    <3>1. /\ IsFiniteSet(A) /\ IsFiniteSet(B)
          /\ Cardinality(A) = m /\ Cardinality(B) = m
      BY ChoseOf, WinnersOf
    <3>2. EstimateCards[i] # EstimateCards[j]
      BY <2>3, DeckAssumption
    <3>3. A \cap B = {} /\ A \cup B \in SUBSET P /\ v \in A
      BY <2>1, <3>2 DEF Chose
    <3>4. m # 0
      BY <3>1, <3>3, FS_EmptySet
    <3> HIDE DEF A, B
    <3>5. Cardinality(A \cup B) = m + m
      <4>1. Cardinality(A \cup B) = Cardinality(A) + Cardinality(B) - Cardinality({})
        BY <3>1, <3>3, FS_Union
      <4>2. QED
        BY <1>2, <3>1, <4>1, FS_EmptySet
    <3>6. m + m <= n
      BY <3>3, <3>5, ChoseOf, FS_Subset
    <3>7. 3 * m >= 2 * n
      BY <1>2, <2>5, TwoThirdsThreshold DEF strongMajority
    <3> HIDE DEF m, n
    <3>8. QED
      BY <1>2, <3>4, <3>6, <3>7
  <2>6. QED
    BY <1>1, <2>4, <2>5
<1>4. PICK i : Winners(b) = {i}
  BY <1>1, <1>3, WinnersOf
<1>5. Cardinality(Winners(b)) = 1
  BY <1>4, FS_Singleton
<1>6. summarize(b).mostAppearingVotes =
        [k \in 1 .. 1 |-> EstimateCards[CHOOSE h \in Winners(b) :
                            Cardinality({j \in Winners(b) : j <= h}) = k]]
  BY <1>5, SummaryWinners
<1>7. QED
  BY <1>6

\* The sum of a numeric deck stays within the limits shown with it.
LEMMA AverageWithinLimits ==
    ASSUME NEW b, IsFiniteSet(DOMAIN b), summarize(b).result # None
    PROVE  LET s == summarize(b)
           IN  /\ s.lowestVote # None
               /\ Atoi[s.lowestVote] * s.result.count <= s.result.sum
               /\ s.result.sum <= Atoi[s.highestVote] * s.result.count
<1> DEFINE P == Positioned(b)
           N == {v \in P : b[v] \in DOMAIN Atoi}
           low == summarize(b).lowestVote
           high == summarize(b).highestVote
           result == summarize(b).result
<1>1. /\ Cardinality(N) > 0
      /\ result = [sum |-> SumOf(b, N), count |-> Cardinality(N)]
  BY DEF summarize, collectVotes, SumOf, Value
<1>2. IsFiniteSet(P)
  BY ChoseOf
<1>3. IsFiniteSet(N) /\ Cardinality(N) \in Nat /\ N # {}
  BY <1>1, <1>2, FS_Subset, FS_CardinalityType, FS_EmptySet
<1>4. P # {} /\ \A v \in P : b[v] \in Estimates
  BY <1>3 DEF Positioned
<1>5. Estimates \subseteq DOMAIN Atoi /\ \A card \in Estimates : Atoi[card] \in Int
  BY <1>3, <1>4, LabelAssumption
<1>6. /\ low \in Estimates /\ high \in Estimates
      /\ \A v \in P : /\ Position(low) <= Position(b[v])
                      /\ Position(b[v]) <= Position(high)
  BY <1>4, LimitsShown
<1> HIDE DEF low, high, result
<1>7. ASSUME NEW x \in Estimates, NEW y \in Estimates, Position(x) <= Position(y)
      PROVE  Atoi[x] <= Atoi[y]
  <2>1. PICK i \in DOMAIN EstimateCards : EstimateCards[i] = x
    BY DEF Estimates
  <2>2. PICK j \in DOMAIN EstimateCards : EstimateCards[j] = y
    BY DEF Estimates
  <2>3. Position(x) = i - 1 /\ Position(y) = j - 1 /\ i \in Nat /\ j \in Nat
    BY <2>1, <2>2, PlaceOf
  <2>4. i <= j
    BY <1>7, <2>3
  <2>5. QED
    BY <1>5, <2>1, <2>2, <2>4, LabelAssumption
<1>8. \A v \in N : /\ Value(b, v) \in Int
                   /\ Atoi[low] <= Value(b, v) /\ Value(b, v) <= Atoi[high]
  BY <1>4, <1>5, <1>6, <1>7 DEF Value
<1>9. Atoi[low] \in Int /\ Atoi[high] \in Int
  BY <1>5, <1>6
<1> HIDE DEF N
<1>10. /\ Atoi[low] * Cardinality(N) <= SumOf(b, N)
       /\ SumOf(b, N) <= Atoi[high] * Cardinality(N)
  BY <1>3, <1>8, <1>9, SumBounds
<1>11. result.sum = SumOf(b, N) /\ result.count = Cardinality(N)
  BY <1>1
<1>12. low # None
  BY <1>6, DeckAssumption DEF Cards
<1>13. QED
  BY <1>10, <1>11, <1>12 DEF low, high, result

\* Shown winners lie within the limits shown, in the order of the deck.
LEMMA WinnersWithinLimits ==
    ASSUME NEW b, IsFiniteSet(DOMAIN b)
    PROVE  LET s    == summarize(b)
               most == s.mostAppearingVotes
           IN  /\ (most = <<>>) <=> (s.lowestVote = None)
               /\ \A i \in DOMAIN most :
                    /\ Position(s.lowestVote) <= Position(most[i])
                    /\ Position(most[i]) <= Position(s.highestVote)
                    /\ i > 1 => Position(most[i - 1]) < Position(most[i])
<1> DEFINE most == summarize(b).mostAppearingVotes
           low == summarize(b).lowestVote
           high == summarize(b).highestVote
<1>1. /\ most = <<>> <=> Positioned(b) = {}
      /\ \A k \in DOMAIN most :
            /\ \E i \in Winners(b) : most[k] = EstimateCards[i]
            /\ k > 1 => \E i, j \in Winners(b) :
                            /\ most[k - 1] = EstimateCards[i]
                            /\ most[k] = EstimateCards[j]
                            /\ i < j
  BY ShownOf
<1>2. Positioned(b) = {} => low = None
  BY DEF summarize, calculateConsensus
<1>3. ASSUME Positioned(b) # {}
      PROVE  /\ low \in Estimates
             /\ \A v \in Positioned(b) : /\ Position(low) <= Position(b[v])
                                         /\ Position(b[v]) <= Position(high)
  BY <1>3, LimitsShown
<1> HIDE DEF most, low, high
<1>4. None \notin Estimates
  BY DeckAssumption DEF Cards
<1>5. most = <<>> <=> low = None
  BY <1>1, <1>2, <1>3, <1>4
<1>6. ASSUME NEW k \in DOMAIN most
      PROVE  /\ Position(low) <= Position(most[k])
             /\ Position(most[k]) <= Position(high)
  <2>1. PICK i \in Winners(b) : most[k] = EstimateCards[i]
    BY <1>1
  <2>2. PICK v \in Positioned(b) : b[v] = EstimateCards[i]
    BY WinnersOf
  <2>3. QED
    BY <1>3, <2>1, <2>2
<1>7. ASSUME NEW k \in DOMAIN most, k > 1
      PROVE  Position(most[k - 1]) < Position(most[k])
  <2>1. PICK i \in Winners(b), j \in Winners(b) :
            most[k - 1] = EstimateCards[i] /\ most[k] = EstimateCards[j] /\ i < j
    BY <1>1, <1>7
  <2>2. i \in DOMAIN EstimateCards /\ j \in DOMAIN EstimateCards
    BY DEF Winners
  <2>3. /\ Position(EstimateCards[i]) = i - 1 /\ i \in Nat
        /\ Position(EstimateCards[j]) = j - 1 /\ j \in Nat
    BY <2>2, PlaceOf
  <2>4. QED
    BY <2>1, <2>3
<1>8. QED
  BY <1>5, <1>6, <1>7 DEF most, low, high

\* Two ballots with the same estimates give the same summary, but for the
\* number of their special votes.
LEMMA SameSummary ==
    ASSUME NEW a, NEW b, IsFiniteSet(DOMAIN a), IsFiniteSet(DOMAIN b),
           Positioned(a) = Positioned(b), \A v \in Positioned(b) : a[v] = b[v]
    PROVE  [summarize(a) EXCEPT !.specialVoteCount = 0]
            = [summarize(b) EXCEPT !.specialVoteCount = 0]
<1> DEFINE P == Positioned(b)
           N == {v \in P : b[v] \in DOMAIN Atoi}
<1>1. {v \in Positioned(a) : a[v] \in DOMAIN Atoi} = N
  OBVIOUS
<1>2. IsFiniteSet(N)
  BY ChoseOf, FS_Subset
<1>3. {a[v] : v \in Positioned(a)} = {b[v] : v \in P}
  OBVIOUS
<1>4. counts(a) = counts(b)
  <2>1. \A card : {v \in Positioned(a) : a[v] = card} = {v \in P : b[v] = card}
    OBVIOUS
  <2>2. QED
    BY <1>3, <2>1 DEF counts
<1>5. calculateConsensus(a) = calculateConsensus(b)
  BY <1>3, <1>4 DEF calculateConsensus
<1>6. SumOf(a, N) = SumOf(b, N)
  BY <1>2, SameSum
<1>7. /\ collectVotes(a).sum = collectVotes(b).sum
      /\ collectVotes(a).count = collectVotes(b).count
      /\ collectVotes(a).counts = collectVotes(b).counts
  <2>1. /\ collectVotes(a).sum = SumOf(a, N)
        /\ collectVotes(a).count = Cardinality(N)
        /\ collectVotes(a).counts = counts(a)
    BY <1>1 DEF collectVotes, SumOf, Value
  <2>2. /\ collectVotes(b).sum = SumOf(b, N)
        /\ collectVotes(b).count = Cardinality(N)
        /\ collectVotes(b).counts = counts(b)
    BY DEF collectVotes, SumOf, Value
  <2>3. QED
    BY <1>4, <1>6, <2>1, <2>2
<1>8. QED
  BY <1>5, <1>7 DEF summarize

(* The parts of a summary fit together, in a round of whatever voters and  *)
(* deck: a High consensus has one winner, the average and the winners lie  *)
(* within the limits shown, the winners come in deck order, and special    *)
(* votes change nothing but their own count.                               *)
THEOREM SummaryAlwaysCoherent == RoundSpec => []SummaryIsCoherent
<1>1. RoundInit => RoundTypeOK
  BY DEF RoundInit, RoundTypeOK
<1>2. RoundTypeOK /\ [RoundNext]_votes => RoundTypeOK'
  BY DEF RoundTypeOK, RoundNext, Cast
<1>3. RoundTypeOK => SummaryIsCoherent
  <2> SUFFICES ASSUME RoundTypeOK PROVE SummaryIsCoherent
    OBVIOUS
  <2>1. DOMAIN votes = Voters /\ IsFiniteSet(DOMAIN votes)
    BY VotersAssumption DEF RoundTypeOK
  <2>2. summary.consensus = "High" => Len(summary.mostAppearingVotes) = 1
    BY <2>1, HighHasOneWinner DEF summary
  <2>3. summary.result # None =>
          /\ summary.lowestVote # None
          /\ Atoi[summary.lowestVote] * summary.result.count <= summary.result.sum
          /\ summary.result.sum <= Atoi[summary.highestVote] * summary.result.count
    BY <2>1, AverageWithinLimits DEF summary
  <2>4. LET most == summary.mostAppearingVotes
        IN  /\ (most = <<>>) <=> (summary.lowestVote = None)
            /\ \A i \in DOMAIN most :
                /\ Position(summary.lowestVote) <= Position(most[i])
                /\ Position(most[i]) <= Position(summary.highestVote)
                /\ i > 1 => Position(most[i - 1]) < Position(most[i])
    BY <2>1, WinnersWithinLimits DEF summary
  <2> DEFINE abstained == [v \in Voters |-> IF votes[v] \in SpecialDeckCards
                                            THEN None ELSE votes[v]]
  <2>5. [summary EXCEPT !.specialVoteCount = 0] = summarize(abstained)
    <3>1. None \notin Estimates /\ None \notin SpecialDeckCards
          /\ Estimates \cap SpecialDeckCards = {}
      BY DeckAssumption DEF Cards
    <3>2. DOMAIN abstained = Voters /\ IsFiniteSet(DOMAIN abstained)
      BY VotersAssumption
    <3>3. \A v \in Voters :
            abstained[v] = IF votes[v] \in SpecialDeckCards THEN None ELSE votes[v]
      OBVIOUS
    <3> HIDE DEF abstained
    <3>4. /\ Positioned(abstained) = Positioned(votes)
          /\ \A v \in Positioned(votes) : abstained[v] = votes[v]
      BY <2>1, <3>1, <3>2, <3>3 DEF Positioned
    <3>5. [summarize(abstained) EXCEPT !.specialVoteCount = 0]
            = [summarize(votes) EXCEPT !.specialVoteCount = 0]
      BY <2>1, <3>2, <3>4, SameSummary
    <3>6. summarize(abstained).specialVoteCount = 0
      <4>1. {v \in DOMAIN abstained : abstained[v] \in SpecialDeckCards} = {}
        BY <3>1, <3>2, <3>3
      <4>2. collectVotes(abstained).specialCount = 0
        BY <4>1, FS_EmptySet DEF collectVotes
      <4>3. QED
        BY <4>2 DEF summarize
    <3>7. [summarize(abstained) EXCEPT !.specialVoteCount = 0] = summarize(abstained)
      BY <3>6 DEF summarize
    <3>8. QED
      BY <3>5, <3>7 DEF summary
  <2>6. QED
    BY <2>2, <2>3, <2>4, <2>5 DEF SummaryIsCoherent
<1>4. QED
  BY <1>1, <1>2, <1>3, PTL DEF RoundSpec

\* What any summary promises, that of a round or the one a room shows.
SummaryFits(s) ==
    /\ s.consensus = "High" => Len(s.mostAppearingVotes) = 1
    /\ s.result # None =>
        /\ s.lowestVote # None
        /\ Atoi[s.lowestVote] * s.result.count <= s.result.sum
        /\ s.result.sum <= Atoi[s.highestVote] * s.result.count
    /\ (s.mostAppearingVotes = <<>>) <=> (s.lowestVote = None)
    /\ \A i \in DOMAIN s.mostAppearingVotes :
        /\ Position(s.lowestVote) <= Position(s.mostAppearingVotes[i])
        /\ Position(s.mostAppearingVotes[i]) <= Position(s.highestVote)
        /\ i > 1 => Position(s.mostAppearingVotes[i - 1])
                        < Position(s.mostAppearingVotes[i])

LEMMA SummariesFit ==
    ASSUME NEW b, IsFiniteSet(DOMAIN b)
    PROVE  SummaryFits(summarize(b))
<1>1. summarize(b).consensus = "High" => Len(summarize(b).mostAppearingVotes) = 1
  BY HighHasOneWinner
<1>2. summarize(b).result # None =>
        /\ summarize(b).lowestVote # None
        /\ Atoi[summarize(b).lowestVote] * summarize(b).result.count
              <= summarize(b).result.sum
        /\ summarize(b).result.sum
              <= Atoi[summarize(b).highestVote] * summarize(b).result.count
  BY AverageWithinLimits
<1>3. /\ (summarize(b).mostAppearingVotes = <<>>) <=> (summarize(b).lowestVote = None)
      /\ \A i \in DOMAIN summarize(b).mostAppearingVotes :
            /\ Position(summarize(b).lowestVote)
                  <= Position(summarize(b).mostAppearingVotes[i])
            /\ Position(summarize(b).mostAppearingVotes[i])
                  <= Position(summarize(b).highestVote)
            /\ i > 1 => Position(summarize(b).mostAppearingVotes[i - 1])
                            < Position(summarize(b).mostAppearingVotes[i])
  BY WinnersWithinLimits
<1>4. QED
  BY <1>1, <1>2, <1>3 DEF SummaryFits

(* What holds of a round holds of every room: whatever sequence of joins,  *)
(* leaves, votes, reveals and backlog commands led to it, the summary that *)
(* a room shows fits together.                                             *)
THEOREM ShownSummaryFits ==
    ASSUME IsFiniteSet(ClientIDs)
    PROVE  Spec => [](SummaryFits(room.summary))
<1>1. Correct => SummaryFits(room.summary)
  <2> SUFFICES ASSUME Correct PROVE SummaryFits(room.summary)
    OBVIOUS
  <2>1. room.summary \in Summaries
    BY DEF Correct, RoomOK, RoomTypeOK, Rooms
  <2>2. CASE room.summary = NoSummary
    <3>1. /\ NoSummary.consensus = "" /\ NoSummary.result = None
          /\ NoSummary.mostAppearingVotes = <<>> /\ NoSummary.lowestVote = None
      BY DEF NoSummary
    <3>2. DOMAIN NoSummary.mostAppearingVotes = {}
      <4>1. \A x : x = <<>> => DOMAIN x = {}
        OBVIOUS
      <4>2. QED
        BY <3>1, <4>1
    <3>3. QED
      BY <2>2, <3>1, <3>2 DEF SummaryFits
  <2>3. CASE \E b \in [ClientIDs -> Cards \cup {None}] : room.summary = summarize(b)
    <3>1. PICK b \in [ClientIDs -> Cards \cup {None}] : room.summary = summarize(b)
      BY <2>3
    <3>2. IsFiniteSet(DOMAIN b)
      OBVIOUS
    <3>3. QED
      BY <3>1, <3>2, SummariesFit
  <2>4. QED
    BY <2>1, <2>2, <2>3 DEF Summaries
<1>2. QED
  BY <1>1, RoomCorrect, PTL

=============================================================================
