------------------------ MODULE RoomAggregateProofs ------------------------
(***************************************************************************)
(* Lemmas about the room aggregate and the commands, for every set of      *)
(* clients, cards and stories: each operation takes a correct room to a    *)
(* correct room.                                                           *)
(***************************************************************************)
EXTENDS RoomCommands, SequenceTheorems, TLAPS

-----------------------------------------------------------------------------
(* Sequences *)

(* Removing the i-th element shifts the later ones down by one. *)
LEMMA RemoveAtProperties ==
    ASSUME NEW S, NEW s \in Seq(S), NEW i \in 1 .. Len(s)
    PROVE  /\ RemoveAt(s, i) \in Seq(S)
           /\ Len(RemoveAt(s, i)) = Len(s) - 1
           /\ \A j \in 1 .. Len(s) - 1 :
                RemoveAt(s, i)[j] = IF j < i THEN s[j] ELSE s[j + 1]
<1> DEFINE a == SubSeq(s, 1, i - 1)
           b == SubSeq(s, i + 1, Len(s))
<1>1. /\ a \in Seq(S) /\ Len(a) = i - 1
      /\ \A j \in 1 .. i - 1 : a[j] = s[j]
  BY SubSeqProperties
<1>2. /\ b \in Seq(S) /\ Len(b) = Len(s) - i
      /\ \A j \in 1 .. Len(s) - i : b[j] = s[i + j]
  BY SubSeqProperties
<1>3. /\ a \o b \in Seq(S) /\ Len(a \o b) = Len(a) + Len(b)
      /\ \A j \in 1 .. Len(a) + Len(b) :
            (a \o b)[j] = IF j <= Len(a) THEN a[j] ELSE b[j - Len(a)]
  BY <1>1, <1>2, ConcatProperties
<1> HIDE DEF a, b
<1>4. \A j \in 1 .. Len(s) - 1 : (a \o b)[j] = IF j < i THEN s[j] ELSE s[j + 1]
  BY <1>1, <1>2, <1>3
<1>5. RemoveAt(s, i) = a \o b
  BY DEF RemoveAt, a, b
<1>6. Len(a \o b) = Len(s) - 1
  BY <1>1, <1>2, <1>3
<1>7. QED
  BY <1>3, <1>4, <1>5, <1>6, Zenon

(* Inserting before the i-th element shifts it and the later ones up. *)
LEMMA InsertAtProperties ==
    ASSUME NEW S, NEW s \in Seq(S), NEW i \in 1 .. Len(s) + 1, NEW e \in S
    PROVE  /\ InsertAt(s, i, e) \in Seq(S)
           /\ Len(InsertAt(s, i, e)) = Len(s) + 1
           /\ \A j \in 1 .. Len(s) + 1 :
                InsertAt(s, i, e)[j] = IF j < i THEN s[j]
                                       ELSE IF j = i THEN e ELSE s[j - 1]
<1> DEFINE a == SubSeq(s, 1, i - 1)
           b == SubSeq(s, i, Len(s))
           ae == a \o <<e>>
<1>1. /\ a \in Seq(S) /\ Len(a) = i - 1
      /\ \A j \in 1 .. i - 1 : a[j] = s[j]
  BY SubSeqProperties
<1>2. /\ b \in Seq(S) /\ Len(b) = Len(s) - i + 1
      /\ \A j \in 1 .. Len(s) - i + 1 : b[j] = s[i + j - 1]
  BY SubSeqProperties
<1> HIDE DEF a, b
<1>3. /\ ae \in Seq(S) /\ Len(ae) = i
      /\ \A j \in 1 .. i : ae[j] = IF j < i THEN s[j] ELSE e
  BY <1>1
<1> HIDE DEF ae
<1>4. /\ ae \o b \in Seq(S) /\ Len(ae \o b) = Len(ae) + Len(b)
      /\ \A j \in 1 .. Len(ae) + Len(b) :
            (ae \o b)[j] = IF j <= Len(ae) THEN ae[j] ELSE b[j - Len(ae)]
  BY <1>2, <1>3, ConcatProperties
<1>5. \A j \in 1 .. Len(s) + 1 :
        (ae \o b)[j] = IF j < i THEN s[j] ELSE IF j = i THEN e ELSE s[j - 1]
  BY <1>2, <1>3, <1>4
<1>6. InsertAt(s, i, e) = ae \o b
  BY DEF InsertAt, a, b, ae
<1>7. QED
  BY <1>2, <1>3, <1>4, <1>5, <1>6

\* m holds the elements of s, each once, in some order.
Permutes(m, s) ==
    \E f \in [1 .. Len(s) -> 1 .. Len(s)] :
        /\ \A i \in 1 .. Len(s) : m[i] = s[f[i]]
        /\ \A i, j \in 1 .. Len(s) : f[i] = f[j] => i = j
        /\ \A j \in 1 .. Len(s) : \E i \in 1 .. Len(s) : f[i] = j

(* Moving the k-th element to position t permutes the sequence. *)
LEMMA MoveProperties ==
    ASSUME NEW S, NEW s \in Seq(S), NEW k \in 1 .. Len(s), NEW t \in 1 .. Len(s)
    PROVE  /\ InsertAt(RemoveAt(s, k), t, s[k]) \in Seq(S)
           /\ Len(InsertAt(RemoveAt(s, k), t, s[k])) = Len(s)
           /\ Permutes(InsertAt(RemoveAt(s, k), t, s[k]), s)
<1> DEFINE n == Len(s)
           rest == RemoveAt(s, k)
           e == s[k]
           m == InsertAt(rest, t, e)
           f == [i \in 1 .. n |->
                    IF i = t THEN k
                    ELSE IF i < t THEN (IF i < k THEN i ELSE i + 1)
                    ELSE (IF i - 1 < k THEN i - 1 ELSE i)]
<1>1. n \in Nat /\ k \in 1 .. n /\ t \in 1 .. n /\ e \in S
  OBVIOUS
<1>2. /\ rest \in Seq(S) /\ Len(rest) = n - 1
      /\ \A i \in 1 .. n - 1 : rest[i] = IF i < k THEN s[i] ELSE s[i + 1]
  BY RemoveAtProperties
<1> HIDE DEF rest, e
<1>3. t \in 1 .. Len(rest) + 1
  BY <1>1, <1>2
<1>4. /\ m \in Seq(S) /\ Len(m) = Len(rest) + 1
      /\ \A i \in 1 .. Len(rest) + 1 :
            m[i] = IF i < t THEN rest[i] ELSE IF i = t THEN e ELSE rest[i - 1]
  <2>1. rest \in Seq(S)
    BY <1>2
  <2>2. e \in S
    BY <1>1
  <2> HIDE DEF f, n
  <2>3. m \in Seq(S)
    BY <1>3, <2>1, <2>2, InsertAtProperties
  <2>4. Len(m) = Len(rest) + 1
    BY <1>3, <2>1, <2>2, InsertAtProperties
  <2>5. \A i \in 1 .. Len(rest) + 1 :
            m[i] = IF i < t THEN rest[i] ELSE IF i = t THEN e ELSE rest[i - 1]
    BY <1>3, <2>1, <2>2, InsertAtProperties
  <2>6. QED
    BY <2>3, <2>4, <2>5
<1> HIDE DEF m, n
<1>5. Len(m) = n /\ Len(rest) + 1 = n
  BY <1>1, <1>2, <1>4
<1>6. f \in [1 .. n -> 1 .. n]
  BY <1>1
<1>7. ASSUME NEW i \in 1 .. n PROVE m[i] = s[f[i]]
  <2>1. CASE i = t
    BY <1>1, <1>4, <1>5, <2>1 DEF e
  <2>2. CASE i < t
    <3>1. m[i] = rest[i] /\ i \in 1 .. n - 1
      BY <1>1, <1>4, <1>5, <2>2
    <3>2. rest[i] = IF i < k THEN s[i] ELSE s[i + 1]
      BY <1>2, <3>1
    <3>3. f[i] = IF i < k THEN i ELSE i + 1
      BY <1>1, <2>2
    <3>4. QED
      BY <3>1, <3>2, <3>3
  <2>3. CASE i > t
    <3>1. m[i] = rest[i - 1] /\ i - 1 \in 1 .. n - 1
      BY <1>1, <1>4, <1>5, <2>3
    <3>2. rest[i - 1] = IF i - 1 < k THEN s[i - 1] ELSE s[i]
      BY <1>2, <3>1
    <3>3. f[i] = IF i - 1 < k THEN i - 1 ELSE i
      BY <1>1, <2>3
    <3>4. QED
      BY <3>1, <3>2, <3>3
  <2>4. QED
    BY <1>1, <2>1, <2>2, <2>3
<1>8. \A i, j \in 1 .. n : f[i] = f[j] => i = j
  BY <1>1
<1>9. ASSUME NEW j \in 1 .. n PROVE \E i \in 1 .. n : f[i] = j
  <2>1. CASE j = k
    BY <1>1, <2>1
  <2>2. CASE j < k
    <3>1. j + 1 \in 1 .. n /\ (f[j] = j \/ f[j + 1] = j)
      BY <1>1, <2>2
    <3>2. QED
      BY <3>1
  <2>3. CASE j > k
    <3>1. j - 1 \in 1 .. n /\ (f[j] = j \/ f[j - 1] = j)
      BY <1>1, <2>3
    <3>2. QED
      BY <3>1
  <2>4. QED
    BY <1>1, <2>1, <2>2, <2>3
<1> HIDE DEF f
<1>10. Permutes(m, s)
  BY <1>6, <1>7, <1>8, <1>9 DEF Permutes, n
<1>11. QED
  BY <1>4, <1>5, <1>10 DEF m, n, rest, e

(* Removing an element of a sequence without duplicates removes it and     *)
(* nothing else; removing anything else changes nothing.                   *)
LEMMA RemoveFirstProperties ==
    ASSUME NEW S, NEW s \in Seq(S), NEW e,
           \A i, j \in DOMAIN s : s[i] = s[j] => i = j
    PROVE  /\ RemoveFirst(s, e) \in Seq(S)
           /\ \A i, j \in DOMAIN RemoveFirst(s, e) :
                RemoveFirst(s, e)[i] = RemoveFirst(s, e)[j] => i = j
           /\ Range(RemoveFirst(s, e)) = Range(s) \ {e}
<1>1. CASE ~ \E i \in 1 .. Len(s) : s[i] = e
  BY <1>1 DEF RemoveFirst, Range
<1>2. CASE \E i \in 1 .. Len(s) : s[i] = e
  <2>1. PICK k \in 1 .. Len(s) : s[k] = e
    BY <1>2
  <2> DEFINE I == {i \in 1 .. Len(s) : s[i] = e}
             t == RemoveAt(s, k)
  <2>2. I = {k}
    BY <2>1
  <2>3. Min(I) = k
    BY <2>1, <2>2 DEF Min
  <2>4. RemoveFirst(s, e) = RemoveAt(s, Min(I))
    BY <1>2, <2>1, <2>2 DEF RemoveFirst, SelectInSeq
  <2>5. RemoveFirst(s, e) = t
    BY <2>3, <2>4
  <2>6. /\ t \in Seq(S) /\ Len(t) = Len(s) - 1
        /\ \A j \in 1 .. Len(s) - 1 : t[j] = IF j < k THEN s[j] ELSE s[j + 1]
    BY RemoveAtProperties
  <2> HIDE DEF t
  <2>7. \A i, j \in DOMAIN t : t[i] = t[j] => i = j
    BY <2>6, SMTT(30)
  <2>8. Range(t) = Range(s) \ {e}
    <3>1. ASSUME NEW j \in DOMAIN t PROVE t[j] \in Range(s) \ {e}
      BY <2>1, <2>6 DEF Range
    <3>2. ASSUME NEW j \in DOMAIN s, s[j] # e PROVE s[j] \in Range(t)
      <4>1. CASE j < k
        BY <2>6, <4>1 DEF Range
      <4>2. CASE j > k
        <5>1. j - 1 \in DOMAIN t /\ t[j - 1] = s[j]
          BY <2>6, <4>2
        <5>2. QED
          BY <5>1 DEF Range
      <4>3. QED
        BY <2>1, <3>2, <4>1, <4>2
    <3>3. QED
      BY <3>1, <3>2 DEF Range
  <2>9. QED
    BY <2>5, <2>6, <2>7, <2>8
<1>3. QED
  BY <1>1, <1>2

-----------------------------------------------------------------------------
(* Voting *)

(* The results of a reveal, and what a story keeps of them, have the type  *)
(* of results.                                                             *)
LEMMA SummaryTypes ==
    /\ NoSummary \in Summaries
    /\ \A r \in Rooms : summarize(ballot(r)) \in Summaries
    /\ \A id \in StoryIDs, name \in StoryNames \cup {None} :
            NewStory(id, name) \in Stories
<1>1. NoSummary \in Summaries
  BY DEF Summaries
<1>2. ASSUME NEW r \in Rooms PROVE summarize(ballot(r)) \in Summaries
  <2>1. ballot(r) \in [ClientIDs -> Cards \cup {None}]
    BY DEF ballot, Rooms
  <2>2. QED
    BY <2>1 DEF Summaries
<1>3. ASSUME NEW id \in StoryIDs, NEW name \in StoryNames \cup {None}
      PROVE NewStory(id, name) \in Stories
  BY <1>1 DEF NewStory, Stories
<1>4. QED
  BY <1>1, <1>2, <1>3

(* Recording a vote or withdrawing one keeps a room correct. *)
LEMMA ApplyVoteOK ==
    ASSUME NEW r, RoomOK(r), NEW c \in Present(r), NEW vote \in Cards \cup {None}
    PROVE  RoomOK(applyVote(r, c, vote))
<1>1. CASE r.reveal
  BY <1>1 DEF applyVote
<1>2. CASE ~r.reveal
  <2> DEFINE s == [r EXCEPT !.vote[c] = vote]
  <2>1. /\ s \in Rooms
        /\ s.clients = r.clients /\ s.name = r.name /\ s.isOwner = r.isOwner
        /\ s.isSpectator = r.isSpectator /\ s.reveal = r.reveal
        /\ s.summary = r.summary /\ s.backlogMode = r.backlogMode
        /\ s.stories = r.stories /\ s.currentStoryIndex = r.currentStoryIndex
        /\ \A d \in ClientIDs : d # c => s.vote[d] = r.vote[d]
    BY DEF RoomOK, RoomTypeOK, Rooms
  <2> HIDE DEF s
  <2>2. RoomTypeOK(s)
    BY <2>1 DEF RoomOK, RoomTypeOK, Present
  <2>3. HasOwner(s) /\ StoryIndexInRange(s) /\ ResultsAgree(s)
    BY <2>1 DEF RoomOK, HasOwner, StoryIndexInRange, ResultsAgree, IsEmpty,
                Owners, Present, hasCurrentStory, CurrentStory
  <2>4. applyVote(r, c, vote) = s
    BY <1>2 DEF applyVote, s
  <2>5. QED
    BY <2>2, <2>3, <2>4 DEF RoomOK
<1>3. QED
  BY <1>1, <1>2 DEF RoomOK, RoomTypeOK, Rooms

(* Replacing the current story by one with the same id changes no other    *)
(* field and keeps the type and the index.                                 *)
LEMMA ReplaceCurrentProperties ==
    ASSUME NEW r, RoomTypeOK(r), HasOwner(r), StoryIndexInRange(r),
           hasCurrentStory(r),
           NEW story \in Stories, story.id = CurrentStory(r).id
    PROVE  LET t == replaceCurrent(r, story)
               k == r.currentStoryIndex + 1
           IN  /\ RoomTypeOK(t) /\ HasOwner(t) /\ StoryIndexInRange(t)
               /\ t.reveal = r.reveal /\ t.summary = r.summary
               /\ t.backlogMode = r.backlogMode
               /\ t.currentStoryIndex = r.currentStoryIndex
               /\ k \in DOMAIN r.stories /\ Len(t.stories) = Len(r.stories)
               /\ DOMAIN t.stories = DOMAIN r.stories /\ t.stories[k] = story
               /\ \A i \in DOMAIN r.stories : i # k => t.stories[i] = r.stories[i]
<1> DEFINE k == r.currentStoryIndex + 1
           stories == [r.stories EXCEPT ![k] = story]
           t == [r EXCEPT !.stories = stories]
<1>1. k \in DOMAIN r.stories /\ r.stories \in Seq(Stories) /\ r \in Rooms
  BY DEF hasCurrentStory, RoomTypeOK, Rooms
<1>2. story.id = r.stories[k].id
  BY DEF CurrentStory
<1> HIDE DEF k
<1>3. /\ stories \in Seq(Stories) /\ Len(stories) = Len(r.stories)
      /\ DOMAIN stories = DOMAIN r.stories /\ stories[k] = story
      /\ \A i \in DOMAIN stories : i # k => stories[i] = r.stories[i]
  BY <1>1
<1> HIDE DEF stories
<1>4. /\ t \in Rooms
      /\ t.clients = r.clients /\ t.name = r.name /\ t.isOwner = r.isOwner
      /\ t.isSpectator = r.isSpectator /\ t.vote = r.vote
      /\ t.summary = r.summary /\ t.backlogMode = r.backlogMode
      /\ t.stories = stories /\ t.currentStoryIndex = r.currentStoryIndex
      /\ t.reveal = r.reveal
  BY <1>1, <1>3 DEF Rooms
<1> HIDE DEF t
<1>5. RoomTypeOK(t)
  BY <1>1, <1>2, <1>3, <1>4 DEF RoomTypeOK, Present
<1>6. HasOwner(t) /\ StoryIndexInRange(t)
  BY <1>1, <1>3, <1>4 DEF HasOwner, StoryIndexInRange, IsEmpty, Owners, Present
<1>7. replaceCurrent(r, story) = t
  BY DEF replaceCurrent, t, stories, k
<1>8. QED
  BY <1>1, <1>3, <1>4, <1>5, <1>6, <1>7 DEF k

(* A reveal of a correct room is correct: the summary it computes is       *)
(* recorded in the current story, and only there.                          *)
LEMMA ShowOK ==
    ASSUME NEW r, RoomOK(r)
    PROVE  RoomOK(show(r))
<1>1. CASE r.reveal
  BY <1>1 DEF show
<1>2. CASE ~r.reveal
  <2> DEFINE summary == summarize(ballot(r))
             s == [r EXCEPT !.reveal = TRUE, !.summary = summary]
  <2>1. r \in Rooms /\ summary \in Summaries
    BY SummaryTypes DEF RoomOK, RoomTypeOK
  <2> HIDE DEF summary
  <2>2. /\ s \in Rooms
        /\ s.clients = r.clients /\ s.name = r.name /\ s.isOwner = r.isOwner
        /\ s.isSpectator = r.isSpectator /\ s.vote = r.vote /\ s.reveal
        /\ s.summary = summary /\ s.backlogMode = r.backlogMode
        /\ s.stories = r.stories /\ s.currentStoryIndex = r.currentStoryIndex
    BY <2>1 DEF Rooms
  <2> HIDE DEF s
  <2>3. show(r) = stampStory(s)
    BY <1>2 DEF show, s, summary
  <2>4. RoomTypeOK(s) /\ HasOwner(s) /\ StoryIndexInRange(s)
    BY <2>2 DEF RoomOK, RoomTypeOK, HasOwner, StoryIndexInRange, IsEmpty,
                Owners, Present
  <2>5. CASE ~hasCurrentStory(s)
    BY <2>2, <2>3, <2>4, <2>5 DEF stampStory, RoomOK, ResultsAgree
  <2>6. CASE hasCurrentStory(s)
    <3> DEFINE old   == CurrentStory(s)
               story == Estimated(old, summary)
               t     == replaceCurrent(s, story)
               k     == s.currentStoryIndex + 1
    <3>1. old \in Stories
      BY <2>2, <2>6 DEF hasCurrentStory, CurrentStory, Rooms
    <3> HIDE DEF old
    <3>2. /\ story \in Stories /\ story.id = old.id
          /\ story.voted /\ story.value = StoryResult(summary)
      BY <2>1, <3>1 DEF Stories, Estimated
    <3>3. show(r) = t
      BY <2>2, <2>3, <2>6 DEF stampStory, old
    <3> HIDE DEF story, t
    <3>4. /\ RoomTypeOK(t) /\ HasOwner(t) /\ StoryIndexInRange(t)
          /\ t.reveal /\ t.summary = summary /\ t.backlogMode = s.backlogMode
          /\ t.currentStoryIndex = s.currentStoryIndex
          /\ k \in DOMAIN s.stories /\ DOMAIN t.stories = DOMAIN s.stories
          /\ t.stories[k] = story
          /\ \A i \in DOMAIN s.stories : i # k => t.stories[i] = s.stories[i]
      BY <2>2, <2>4, <2>6, <3>2, ReplaceCurrentProperties DEF old, t
    <3>5. ResultsAgree(t)
      BY <2>2, <3>2, <3>4 DEF RoomOK, ResultsAgree, CurrentStory
    <3>6. QED
      BY <3>3, <3>4, <3>5 DEF RoomOK
  <2>7. QED
    BY <2>5, <2>6
<1>3. QED
  BY <1>1, <1>2 DEF RoomOK, RoomTypeOK, Rooms

(* Revealing when everyone has voted keeps a room correct. *)
LEMMA CheckRevealOK ==
    ASSUME NEW r, RoomOK(r)
    PROVE  RoomOK(checkReveal(r))
BY ShowOK DEF checkReveal

(* What is left of RoomOK when the current story changes under a reveal.   *)
StoriesSettled(r) ==
    \A i \in DOMAIN r.stories :
        ~r.stories[i].voted => r.stories[i].value = StoryResult(NoSummary)

(* Hiding the results makes a room correct again whatever they showed. *)
LEMMA HideOK ==
    ASSUME NEW r, RoomTypeOK(r), HasOwner(r), StoryIndexInRange(r), StoriesSettled(r)
    PROVE  RoomOK(hide(r)) /\ ~hide(r).reveal
<1> DEFINE s == [r EXCEPT !.reveal = FALSE, !.summary = NoSummary]
<1>1. r \in Rooms /\ NoSummary \in Summaries
  BY SummaryTypes DEF RoomTypeOK
<1>2. /\ s \in Rooms
      /\ s.clients = r.clients /\ s.name = r.name /\ s.isOwner = r.isOwner
      /\ s.isSpectator = r.isSpectator /\ s.vote = r.vote /\ ~s.reveal
      /\ s.summary = NoSummary /\ s.backlogMode = r.backlogMode
      /\ s.stories = r.stories /\ s.currentStoryIndex = r.currentStoryIndex
  BY <1>1 DEF Rooms
<1> HIDE DEF s
<1>3. RoomOK(s)
  BY <1>2 DEF RoomOK, RoomTypeOK, HasOwner, StoryIndexInRange, ResultsAgree,
              StoriesSettled, IsEmpty, Owners, Present
<1>4. hide(r) = s
  BY DEF hide, s
<1>5. QED
  BY <1>2, <1>3, <1>4

(* A new round of a room with a valid index is correct. *)
LEMMA StartRoundOK ==
    ASSUME NEW r, RoomTypeOK(r), HasOwner(r), StoryIndexInRange(r), StoriesSettled(r)
    PROVE  RoomOK(startRound(r))
<1> DEFINE h == hide(r)
           s == [h EXCEPT !.vote = [c \in ClientIDs |-> None]]
<1>1. RoomOK(h) /\ ~h.reveal
  BY HideOK
<1> HIDE DEF h
<1>2. /\ s \in Rooms
      /\ s.clients = h.clients /\ s.name = h.name /\ s.isOwner = h.isOwner
      /\ s.isSpectator = h.isSpectator /\ s.vote = [c \in ClientIDs |-> None]
      /\ s.reveal = h.reveal
      /\ s.summary = h.summary /\ s.backlogMode = h.backlogMode
      /\ s.stories = h.stories /\ s.currentStoryIndex = h.currentStoryIndex
  BY <1>1 DEF Rooms, RoomOK, RoomTypeOK
<1> HIDE DEF s
<1>3. RoomOK(s)
  BY <1>1, <1>2
     DEF RoomOK, RoomTypeOK, HasOwner, StoryIndexInRange, ResultsAgree,
         IsEmpty, Owners, Present
<1>4. startRound(r) = s
  BY <1>1 DEF startRound, clearVotes, s, h
<1>5. QED
  BY <1>3, <1>4

(* ToggleReveal and ResetVoting keep a room correct. *)
LEMMA RevealResetOK ==
    ASSUME NEW r, RoomOK(r)
    PROVE  RoomOK(ToggleReveal(r)) /\ RoomOK(ResetVoting(r))
<1>1. StoriesSettled(r)
  BY DEF RoomOK, ResultsAgree, StoriesSettled
<1>2. RoomOK(hide(r)) /\ RoomOK(startRound(r)) /\ RoomOK(show(r))
  BY <1>1, HideOK, StartRoundOK, ShowOK DEF RoomOK
<1>3. QED
  BY <1>2 DEF ToggleReveal, ResetVoting

-----------------------------------------------------------------------------
(* Presence *)

(* A client that joins becomes the owner of an empty room and an ordinary  *)
(* member of any other.                                                    *)
LEMMA NewClientOK ==
    ASSUME NEW r, RoomOK(r), NEW c \in ClientIDs, ~FindClient(r, c)
    PROVE  RoomOK(NewClient(r, c))
<1> DEFINE list == Append(r.clients, c)
           owns == IF Len(list) = 1 THEN [r.isOwner EXCEPT ![c] = TRUE]
                                    ELSE r.isOwner
           s == [r EXCEPT !.clients = list, !.isOwner = owns]
<1>1. r \in Rooms /\ r.clients \in Seq(ClientIDs) /\ r.isOwner \in [ClientIDs -> BOOLEAN]
  BY DEF RoomOK, RoomTypeOK, Rooms
<1>2. /\ list \in Seq(ClientIDs) /\ Len(list) = Len(r.clients) + 1
      /\ \A i \in 1 .. Len(r.clients) : list[i] = r.clients[i]
      /\ list[Len(r.clients) + 1] = c
  BY <1>1
<1> HIDE DEF list
<1>3. /\ owns \in [ClientIDs -> BOOLEAN]
      /\ Len(list) = 1 => owns[c]
      /\ \A d \in ClientIDs : d # c \/ Len(list) # 1 => owns[d] = r.isOwner[d]
  BY <1>1
<1> HIDE DEF owns
<1>4. /\ s \in Rooms
      /\ s.clients = list /\ s.name = r.name /\ s.isOwner = owns
      /\ s.isSpectator = r.isSpectator /\ s.vote = r.vote /\ s.reveal = r.reveal
      /\ s.summary = r.summary /\ s.backlogMode = r.backlogMode
      /\ s.stories = r.stories /\ s.currentStoryIndex = r.currentStoryIndex
  BY <1>1, <1>2, <1>3 DEF Rooms
<1> HIDE DEF s
<1>5. Range(list) = Range(r.clients) \cup {c}
  BY <1>1, <1>2, SMTT(30) DEF Range
<1>6. NewClient(r, c) = s
  BY <1>1 DEF NewClient, s, list, owns, Rooms
<1>7. RoomTypeOK(s)
  <2>1. \A i, j \in DOMAIN list : list[i] = list[j] => i = j
    BY <1>1, <1>2 DEF RoomOK, RoomTypeOK, FindClient, Present, Range
  <2>2. QED
    BY <1>3, <1>4, <1>5, <2>1 DEF RoomOK, RoomTypeOK, Present
<1>8. HasOwner(s)
  <2>1. CASE Len(list) = 1
    BY <1>3, <1>4, <1>5, <2>1 DEF HasOwner, Owners, Present
  <2>2. CASE Len(list) # 1
    <3>1. ~IsEmpty(r)
      BY <1>1, <1>2, <2>2 DEF IsEmpty
    <3>2. PICK d \in Present(r) : r.isOwner[d]
      BY <3>1 DEF RoomOK, HasOwner, Owners
    <3>3. d \in ClientIDs
      BY <1>1, <3>2 DEF Present, Range
    <3>4. d \in Owners(s)
      BY <1>3, <1>4, <1>5, <2>2, <3>2, <3>3 DEF Owners, Present
    <3>5. QED
      BY <3>4 DEF HasOwner
  <2>3. QED
    BY <2>1, <2>2
<1>9. StoryIndexInRange(s) /\ ResultsAgree(s)
  BY <1>4 DEF RoomOK, StoryIndexInRange, ResultsAgree, hasCurrentStory, CurrentStory
<1>10. QED
  BY <1>6, <1>7, <1>8, <1>9 DEF RoomOK

(* Changing who owns the room keeps it correct as long as the owners are   *)
(* clients of the room and one is left.                                    *)
LEMMA OwnersOK ==
    ASSUME NEW r, RoomTypeOK(r), StoryIndexInRange(r), ResultsAgree(r),
           NEW owns \in [ClientIDs -> BOOLEAN],
           \A c \in ClientIDs \ Present(r) : ~owns[c],
           ~IsEmpty(r) => \E c \in Present(r) : owns[c]
    PROVE  RoomOK([r EXCEPT !.isOwner = owns])
<1> DEFINE s == [r EXCEPT !.isOwner = owns]
<1>1. /\ s \in Rooms
      /\ s.clients = r.clients /\ s.name = r.name /\ s.isOwner = owns
      /\ s.isSpectator = r.isSpectator /\ s.vote = r.vote /\ s.reveal = r.reveal
      /\ s.summary = r.summary /\ s.backlogMode = r.backlogMode
      /\ s.stories = r.stories /\ s.currentStoryIndex = r.currentStoryIndex
  BY DEF RoomTypeOK, Rooms
<1> HIDE DEF s
<1>2. RoomTypeOK(s)
  BY <1>1 DEF RoomTypeOK, Present
<1>3. HasOwner(s)
  BY <1>1 DEF HasOwner, Owners, Present, IsEmpty
<1>4. StoryIndexInRange(s) /\ ResultsAgree(s)
  BY <1>1 DEF StoryIndexInRange, ResultsAgree, hasCurrentStory, CurrentStory
<1>5. RoomOK(s)
  BY <1>2, <1>3, <1>4 DEF RoomOK
<1>6. QED
  BY <1>5 DEF s

(* Without the client that left, a room is correct but for its owner, who  *)
(* may be the one that left.                                               *)
LEMMA DropClientProperties ==
    ASSUME NEW r, RoomOK(r), NEW c \in ClientIDs
    PROVE  /\ RoomTypeOK(dropClient(r, c))
           /\ StoryIndexInRange(dropClient(r, c))
           /\ ResultsAgree(dropClient(r, c))
<1> DEFINE list == RemoveFirst(r.clients, c)
           s == dropClient(r, c)
<1>1. r \in Rooms /\ r.clients \in Seq(ClientIDs)
  BY DEF RoomOK, RoomTypeOK, Rooms
<1>2. /\ list \in Seq(ClientIDs)
      /\ \A i, j \in DOMAIN list : list[i] = list[j] => i = j
      /\ Range(list) = Range(r.clients) \ {c}
  BY <1>1, RemoveFirstProperties DEF RoomOK, RoomTypeOK
<1> HIDE DEF list
<1>3. /\ s \in Rooms /\ s.clients = list
      /\ s.reveal = r.reveal /\ s.summary = r.summary
      /\ s.backlogMode = r.backlogMode /\ s.stories = r.stories
      /\ s.currentStoryIndex = r.currentStoryIndex
      /\ s.name = [r.name EXCEPT ![c] = None]
      /\ s.isOwner = [r.isOwner EXCEPT ![c] = FALSE]
      /\ s.isSpectator = [r.isSpectator EXCEPT ![c] = FALSE]
      /\ s.vote = [r.vote EXCEPT ![c] = None]
  BY <1>1, <1>2 DEF Rooms, dropClient, list
<1> HIDE DEF s
<1>4. \A d \in ClientIDs \ Present(s) :
         /\ s.name[d] = None /\ s.vote[d] = None
         /\ ~s.isOwner[d] /\ ~s.isSpectator[d]
  BY <1>1, <1>2, <1>3 DEF RoomOK, RoomTypeOK, Rooms, Present
<1>5. RoomTypeOK(s)
  BY <1>2, <1>3, <1>4 DEF RoomOK, RoomTypeOK
<1>6. StoryIndexInRange(s) /\ ResultsAgree(s)
  BY <1>3 DEF RoomOK, StoryIndexInRange, ResultsAgree, hasCurrentStory, CurrentStory
<1>7. QED
  BY <1>5, <1>6 DEF s

(* A leave, also a repeated one, keeps a room correct: an owner is left or *)
(* the longest present client becomes one.                                 *)
LEMMA RemoveClientOK ==
    ASSUME NEW r, RoomOK(r), NEW c \in ClientIDs
    PROVE  RoomOK(RemoveClient(r, c))
<1> DEFINE s == dropClient(r, c)
<1>1. RoomTypeOK(s) /\ StoryIndexInRange(s) /\ ResultsAgree(s)
  BY DropClientProperties
<1> HIDE DEF s
<1>2. RoomOK(promoteFirst(s))
  <2>1. CASE Owners(s) = {} /\ ~IsEmpty(s)
    <3> DEFINE first == s.clients[1]
               owns  == [s.isOwner EXCEPT ![first] = TRUE]
    <3>1. first \in Present(s) /\ first \in ClientIDs
      BY <1>1, <2>1 DEF RoomTypeOK, Rooms, Present, Range, IsEmpty
    <3>2. s.isOwner \in [ClientIDs -> BOOLEAN] /\ s \in Rooms
      BY <1>1 DEF RoomTypeOK, Rooms
    <3> HIDE DEF first
    <3>3. /\ owns \in [ClientIDs -> BOOLEAN] /\ owns[first]
          /\ \A d \in ClientIDs \ Present(s) : ~owns[d]
      BY <1>1, <3>1, <3>2 DEF RoomTypeOK
    <3>4. promoteFirst(s) = [s EXCEPT !.isOwner = owns]
      BY <2>1, <3>2 DEF promoteFirst, first, Rooms
    <3> HIDE DEF owns
    <3>5. QED
      BY <1>1, <3>1, <3>3, <3>4, OwnersOK
  <2>2. CASE ~(Owners(s) = {} /\ ~IsEmpty(s))
    BY <1>1, <2>2 DEF promoteFirst, RoomOK, HasOwner
  <2>3. QED
    BY <2>1, <2>2
<1>3. QED
  BY <1>2, CheckRevealOK DEF RemoveClient, s

(* ToggleOwner and AdminToggleOwner keep a room correct: neither demotes   *)
(* the last owner.                                                         *)
LEMMA ToggleOwnerOK ==
    ASSUME NEW r, RoomOK(r), NEW target \in Present(r)
    PROVE  /\ RoomOK(ToggleOwner(r, target))
           /\ AdminToggleOwnerError(r, target) = OK
                => RoomOK(AdminToggleOwner(r, target))
<1> DEFINE owns == [r.isOwner EXCEPT ![target] = ~r.isOwner[target]]
           s    == [r EXCEPT !.isOwner = owns]
<1>1. /\ r.isOwner \in [ClientIDs -> BOOLEAN] /\ r \in Rooms
      /\ Present(r) \subseteq ClientIDs
  BY DEF RoomOK, RoomTypeOK, Rooms, Present, Range
<1>2. CASE ~isLastOwner(r, target)
  <2>1. /\ owns \in [ClientIDs -> BOOLEAN]
        /\ \A c \in ClientIDs \ Present(r) : ~owns[c]
    BY <1>1 DEF RoomOK, RoomTypeOK
  <2>2. \E c \in Present(r) : owns[c]
    <3>1. CASE r.isOwner[target]
      <4>1. PICK c \in Owners(r) : c # target
        BY <1>2, <3>1 DEF isLastOwner, Owners
      <4>2. QED
        BY <1>1, <4>1 DEF Owners
    <3>2. CASE ~r.isOwner[target]
      BY <1>1, <3>2
    <3>3. QED
      BY <3>1, <3>2
  <2>3. AdminToggleOwner(r, target) = s /\ ToggleOwner(r, target) = s
    BY <1>1, <1>2 DEF AdminToggleOwner, ToggleOwner, Rooms
  <2> HIDE DEF owns
  <2>4. RoomOK(s)
    BY <2>1, <2>2, OwnersOK DEF RoomOK
  <2>5. QED
    BY <2>3, <2>4
<1>3. CASE isLastOwner(r, target)
  BY <1>3 DEF ToggleOwner, AdminToggleOwnerError, OK
<1>4. QED
  BY <1>2, <1>3

(* Making a client a spectator or a voter again keeps a room correct. *)
LEMMA ToggleSpectatorOK ==
    ASSUME NEW r, RoomOK(r), NEW target \in Present(r)
    PROVE  RoomOK(ToggleSpectator(r, target))
<1> DEFINE s == [r EXCEPT !.isSpectator[target] = ~@]
<1>1. r \in Rooms /\ target \in ClientIDs
  BY DEF RoomOK, RoomTypeOK, Rooms, Present, Range
<1>2. /\ s \in Rooms
      /\ s.clients = r.clients /\ s.name = r.name /\ s.isOwner = r.isOwner
      /\ s.vote = r.vote /\ s.reveal = r.reveal
      /\ s.summary = r.summary /\ s.backlogMode = r.backlogMode
      /\ s.stories = r.stories /\ s.currentStoryIndex = r.currentStoryIndex
      /\ \A c \in ClientIDs : c # target => s.isSpectator[c] = r.isSpectator[c]
  BY <1>1 DEF Rooms
<1> HIDE DEF s
<1>3. RoomTypeOK(s)
  BY <1>2 DEF RoomOK, RoomTypeOK, Present
<1>4. HasOwner(s) /\ StoryIndexInRange(s) /\ ResultsAgree(s)
  BY <1>2 DEF RoomOK, HasOwner, StoryIndexInRange, ResultsAgree, IsEmpty,
              Owners, Present, hasCurrentStory, CurrentStory
<1>5. RoomOK(applyVote(s, target, None))
  <2>1. RoomOK(s) /\ target \in Present(s)
    BY <1>2, <1>3, <1>4 DEF RoomOK, Present
  <2>2. QED
    BY <2>1, ApplyVoteOK
<1>6. QED
  BY <1>5, CheckRevealOK DEF ToggleSpectator, s

(* A new name keeps a room correct. *)
LEMMA UpdateClientNameOK ==
    ASSUME NEW r, RoomOK(r), NEW c \in Present(r),
           NEW name \in ClientNames \cup {None}
    PROVE  RoomOK(UpdateClientName(r, c, name))
<1> DEFINE s == [r EXCEPT !.name[c] = name]
<1>1. r \in Rooms /\ c \in ClientIDs
  BY DEF RoomOK, RoomTypeOK, Rooms, Present, Range
<1>2. /\ s \in Rooms
      /\ s.clients = r.clients /\ s.isSpectator = r.isSpectator
      /\ s.isOwner = r.isOwner /\ s.vote = r.vote /\ s.reveal = r.reveal
      /\ s.summary = r.summary /\ s.backlogMode = r.backlogMode
      /\ s.stories = r.stories /\ s.currentStoryIndex = r.currentStoryIndex
      /\ \A d \in ClientIDs : d # c => s.name[d] = r.name[d]
  BY <1>1 DEF Rooms
<1> HIDE DEF s
<1>3. RoomTypeOK(s)
  BY <1>2 DEF RoomOK, RoomTypeOK, Present
<1>4. HasOwner(s) /\ StoryIndexInRange(s) /\ ResultsAgree(s)
  BY <1>2 DEF RoomOK, HasOwner, StoryIndexInRange, ResultsAgree, IsEmpty,
              Owners, Present, hasCurrentStory, CurrentStory
<1>5. QED
  BY <1>3, <1>4 DEF RoomOK, UpdateClientName, s

-----------------------------------------------------------------------------
(* Backlog *)

DistinctStoryIDs(stories) ==
    \A i, j \in DOMAIN stories : stories[i].id = stories[j].id => i = j

UnvotedHaveNoResult(stories) ==
    \A i \in DOMAIN stories :
        ~stories[i].voted => stories[i].value = StoryResult(NoSummary)

\* s is r with another backlog.
OnlyBacklogDiffers(r, s) ==
    /\ s \in Rooms
    /\ s.clients = r.clients /\ s.name = r.name /\ s.isOwner = r.isOwner
    /\ s.isSpectator = r.isSpectator /\ s.vote = r.vote
    /\ s.reveal = r.reveal /\ s.summary = r.summary

(* Whatever happens to the backlog alone touches neither clients nor       *)
(* results.                                                                *)
LEMMA BacklogChange ==
    ASSUME NEW r, RoomOK(r), NEW s, OnlyBacklogDiffers(r, s),
           DistinctStoryIDs(s.stories), UnvotedHaveNoResult(s.stories),
           StoryIndexInRange(s)
    PROVE  /\ RoomOK(startRound(s))
           /\ ResultsAgree(s) => RoomOK(s)
<1>1. RoomTypeOK(s)
  BY DEF RoomOK, RoomTypeOK, Present, DistinctStoryIDs, OnlyBacklogDiffers
<1>2. HasOwner(s)
  BY DEF RoomOK, HasOwner, IsEmpty, Owners, Present, OnlyBacklogDiffers
<1>3. StoriesSettled(s)
  BY DEF StoriesSettled, UnvotedHaveNoResult
<1>4. RoomOK(startRound(s))
  BY <1>1, <1>2, <1>3, StartRoundOK
<1>5. QED
  BY <1>1, <1>2, <1>4 DEF RoomOK

(* The facts about a correct room's backlog that its operations rest on. *)
LEMMA BacklogFacts ==
    ASSUME NEW r, RoomOK(r)
    PROVE  /\ r \in Rooms /\ r.stories \in Seq(Stories)
           /\ r.currentStoryIndex \in Int
           /\ DistinctStoryIDs(r.stories) /\ UnvotedHaveNoResult(r.stories)
           /\ r.stories = <<>> => r.currentStoryIndex = 0
           /\ r.stories # <<>> =>
                /\ r.backlogMode /\ hasCurrentStory(r)
                /\ r.currentStoryIndex \in 0 .. Len(r.stories) - 1
<1>1. /\ r \in Rooms /\ r.stories \in Seq(Stories)
      /\ r.currentStoryIndex \in Int
  BY DEF RoomOK, RoomTypeOK, Rooms
<1>2. DistinctStoryIDs(r.stories) /\ UnvotedHaveNoResult(r.stories)
  BY DEF RoomOK, RoomTypeOK, ResultsAgree, DistinctStoryIDs, UnvotedHaveNoResult
<1>3. /\ r.stories = <<>> => r.currentStoryIndex = 0
      /\ r.stories # <<>> =>
            r.backlogMode /\ r.currentStoryIndex \in 0 .. Len(r.stories) - 1
  BY Zenon DEF RoomOK, StoryIndexInRange
<1>4. r.stories # <<>> => hasCurrentStory(r)
  BY <1>1, <1>3 DEF hasCurrentStory
<1>5. QED
  BY <1>1, <1>2, <1>3, <1>4

(* Switching the backlog off and on again keeps a room correct. *)
LEMMA ToggleBacklogModeOK ==
    ASSUME NEW r, RoomOK(r), NEW id \in StoryIDs
    PROVE  RoomOK(ToggleBacklogMode(r, id))
<1> DEFINE s == ToggleBacklogMode(r, id)
<1>0. r \in Rooms
  BY BacklogFacts
<1>1. /\ r \in Rooms /\ r.stories \in Seq(Stories)
      /\ r.currentStoryIndex \in Int
      /\ r.stories = <<>> => r.currentStoryIndex = 0
      /\ r.stories # <<>> =>
            r.backlogMode /\ r.currentStoryIndex \in 0 .. Len(r.stories) - 1
  BY BacklogFacts
<1>2. CASE r.backlogMode
  <2>1. getCurrentStoryName(r) \in StoryNames \cup {None}
    <3>1. CASE r.stories = <<>>
      BY <3>1 DEF getCurrentStoryName
    <3>2. CASE r.stories # <<>>
      <4>1. r.currentStoryIndex + 1 \in DOMAIN r.stories
        BY <1>1, <3>2
      <4>2. CurrentStory(r) \in Stories
        BY <1>1, <4>1 DEF CurrentStory
      <4>3. QED
        BY <3>2, <4>2 DEF getCurrentStoryName, Stories
    <3>3. QED
      BY <3>1, <3>2
  <2>2. OnlyBacklogDiffers(r, s) /\ s.stories = <<>> /\ s.currentStoryIndex = 0
    <3> DEFINE text == IF getCurrentStoryName(r) # None
                       THEN getCurrentStoryName(r) ELSE r.currentStory
               empty == <<>>
               zero == 0
               t == [r EXCEPT !.backlogMode = FALSE, !.currentStory = text,
                              !.stories = empty, !.currentStoryIndex = zero]
    <3>1. text \in StoryNames \cup {None} /\ empty \in Seq(Stories) /\ zero \in Int
      BY <1>0, <2>1 DEF Rooms
    <3>2. s = t
      BY <1>2 DEF ToggleBacklogMode
    <3> HIDE DEF text, s, empty, zero
    <3>3. OnlyBacklogDiffers(r, t) /\ t.stories = empty /\ t.currentStoryIndex = zero
      BY <1>0, <3>1 DEF OnlyBacklogDiffers, Rooms
    <3>4. QED
      BY <3>2, <3>3 DEF empty, zero
  <2> HIDE DEF s
  <2>3. /\ DistinctStoryIDs(s.stories) /\ UnvotedHaveNoResult(s.stories)
        /\ StoryIndexInRange(s)
    BY <2>2 DEF DistinctStoryIDs, UnvotedHaveNoResult, StoryIndexInRange
  <2>4. ResultsAgree(s)
    BY <2>2 DEF OnlyBacklogDiffers, RoomOK, ResultsAgree, hasCurrentStory
  <2>5. QED
    BY <2>2, <2>3, <2>4, BacklogChange DEF s
<1>3. CASE ~r.backlogMode
  <2> DEFINE new == NewStory(id, r.currentStory)
  <2>1. r.stories = <<>> /\ r.currentStoryIndex = 0
    BY <1>1, <1>3
  <2>2. new \in Stories /\ ~new.voted /\ new.value = StoryResult(NoSummary)
    BY <1>1, SummaryTypes DEF NewStory, Rooms
  <2> HIDE DEF new
  <2>3. /\ OnlyBacklogDiffers(r, s) /\ s.backlogMode /\ s.currentStoryIndex = 0
        /\ s.stories = <<new>> \/ s.stories = <<>>
    <3> DEFINE one == <<new>>
               zero == 0
               t == [r EXCEPT !.backlogMode = TRUE, !.stories = one,
                              !.currentStoryIndex = zero]
               u == [r EXCEPT !.backlogMode = TRUE]
    <3>1. s = t \/ s = u
      BY <1>3 DEF ToggleBacklogMode, new
    <3>2. one \in Seq(Stories) /\ zero \in Int
      BY <2>2
    <3> HIDE DEF s, one, zero
    <3>3. /\ OnlyBacklogDiffers(r, t) /\ t.backlogMode
          /\ t.stories = one /\ t.currentStoryIndex = zero
      BY <1>0, <3>2 DEF OnlyBacklogDiffers, Rooms
    <3>4. /\ OnlyBacklogDiffers(r, u) /\ u.backlogMode
          /\ u.stories = <<>> /\ u.currentStoryIndex = 0
      BY <1>0, <2>1 DEF OnlyBacklogDiffers, Rooms
    <3> HIDE DEF t, u
    <3>5. QED
      BY <3>1, <3>3, <3>4 DEF one, zero
  <2> HIDE DEF s
  <2>4. /\ DistinctStoryIDs(s.stories) /\ UnvotedHaveNoResult(s.stories)
        /\ StoryIndexInRange(s)
    BY <2>2, <2>3 DEF DistinctStoryIDs, UnvotedHaveNoResult, StoryIndexInRange
  <2>5. ResultsAgree(s)
    BY <2>2, <2>3, <2>4 DEF OnlyBacklogDiffers, RoomOK, ResultsAgree, hasCurrentStory,
        CurrentStory, UnvotedHaveNoResult
  <2>6. QED
    BY <2>3, <2>4, <2>5, BacklogChange DEF s
<1>4. QED
  BY <1>2, <1>3

(* A story added at the end keeps a room correct; the first one becomes    *)
(* current and is not estimated.                                           *)
LEMMA AddStoryOK ==
    ASSUME NEW r, RoomOK(r), NEW id \in StoryIDs, FreshStoryID(r, id),
           NEW name \in StoryNames \cup {None}
    PROVE  RoomOK(AddStory(r, name, id))
<1> DEFINE new     == NewStory(id, name)
           stories == Append(r.stories, new)
           s       == AddStory(r, name, id)
<1>1. /\ r \in Rooms /\ r.stories \in Seq(Stories)
      /\ r.currentStoryIndex \in Int
      /\ DistinctStoryIDs(r.stories) /\ UnvotedHaveNoResult(r.stories)
      /\ r.stories = <<>> => r.currentStoryIndex = 0
      /\ r.stories # <<>> =>
            hasCurrentStory(r) /\ r.currentStoryIndex \in 0 .. Len(r.stories) - 1
  BY BacklogFacts
<1>2. /\ new \in Stories /\ new.id = id /\ ~new.voted
      /\ new.value = StoryResult(NoSummary)
  BY SummaryTypes DEF NewStory
<1> HIDE DEF new
<1>3. /\ stories \in Seq(Stories) /\ Len(stories) = Len(r.stories) + 1
      /\ \A i \in 1 .. Len(r.stories) : stories[i] = r.stories[i]
      /\ stories[Len(r.stories) + 1] = new
  BY <1>1, <1>2
<1> HIDE DEF stories
<1>4. /\ OnlyBacklogDiffers(r, s) /\ s.backlogMode
      /\ s.stories = stories /\ s.currentStoryIndex = r.currentStoryIndex
  BY <1>1, <1>3 DEF AddStory, OnlyBacklogDiffers, Rooms, new, stories
<1> HIDE DEF s
<1>5. DistinctStoryIDs(stories)
  BY <1>1, <1>2, <1>3 DEF DistinctStoryIDs, FreshStoryID, HasStory
<1>6. UnvotedHaveNoResult(stories)
  BY <1>1, <1>2, <1>3 DEF UnvotedHaveNoResult
<1>7. StoryIndexInRange(s)
  <2>1. s.currentStoryIndex \in 0 .. Len(s.stories) - 1 /\ s.stories # <<>>
    BY <1>1, <1>3, <1>4
  <2>2. QED
    BY <1>4, <2>1 DEF StoryIndexInRange
<1>8. ResultsAgree(s)
  <2>1. CASE r.stories = <<>>
    BY <1>1, <1>2, <1>3, <1>4, <1>6, <2>1
       DEF OnlyBacklogDiffers, RoomOK, ResultsAgree, CurrentStory, UnvotedHaveNoResult
  <2>2. CASE r.stories # <<>>
    <3>1. CurrentStory(s) = CurrentStory(r) /\ hasCurrentStory(r)
      BY <1>1, <1>3, <1>4, <2>2, SMTT(30) DEF CurrentStory
    <3>2. QED
      BY <1>4, <1>6, <3>1
         DEF OnlyBacklogDiffers, RoomOK, ResultsAgree, UnvotedHaveNoResult
  <2>3. QED
    BY <2>1, <2>2
<1>9. QED
  BY <1>4, <1>5, <1>6, <1>7, <1>8, BacklogChange DEF s

(* The index of a story of the room denotes that story. *)
LEMMA StoryIndexProperties ==
    ASSUME NEW r, r.stories \in Seq(Stories), NEW id, HasStory(r, id)
    PROVE  /\ storyIndexByID(r, id) \in 0 .. Len(r.stories) - 1
           /\ storyIndexByID(r, id) + 1 \in DOMAIN r.stories
           /\ r.stories[storyIndexByID(r, id) + 1].id = id
<1> DEFINE k == CHOOSE i \in DOMAIN r.stories : r.stories[i].id = id
<1>1. k \in DOMAIN r.stories /\ r.stories[k].id = id
  BY DEF HasStory
<1> HIDE DEF k
<1>2. storyIndexByID(r, id) = k - 1
  BY DEF storyIndexByID, k
<1>3. k - 1 + 1 = k /\ k - 1 \in 0 .. Len(r.stories) - 1
  BY <1>1
<1>4. QED
  BY <1>1, <1>2, <1>3

(* A new round on another story keeps a room correct: select, next and     *)
(* previous story.                                                         *)
LEMMA MoveToStoryOK ==
    ASSUME NEW r, RoomOK(r), NEW index \in 0 .. Len(r.stories) - 1
    PROVE  RoomOK(startRound([r EXCEPT !.currentStoryIndex = index]))
<1> DEFINE s == [r EXCEPT !.currentStoryIndex = index]
<1>1. /\ r \in Rooms /\ r.stories \in Seq(Stories)
      /\ DistinctStoryIDs(r.stories) /\ UnvotedHaveNoResult(r.stories)
      /\ r.stories # <<>> => r.backlogMode
  BY BacklogFacts
<1>2. index \in Int /\ r.stories # <<>>
  BY <1>1
<1>3. /\ OnlyBacklogDiffers(r, s) /\ s.stories = r.stories
      /\ s.currentStoryIndex = index /\ s.backlogMode = r.backlogMode
  BY <1>1, <1>2 DEF OnlyBacklogDiffers, Rooms
<1> HIDE DEF s
<1>4. StoryIndexInRange(s)
  BY <1>1, <1>2, <1>3 DEF StoryIndexInRange
<1>5. RoomOK(startRound(s))
  BY <1>1, <1>3, <1>4, BacklogChange
<1>6. QED
  BY <1>5 DEF s

(* SelectStory, AdvanceToNextStory and PrevStory keep a room correct. *)
LEMMA ChangeStoryOK ==
    ASSUME NEW r, RoomOK(r)
    PROVE  /\ \A id : HasStory(r, id) => RoomOK(SelectStory(r, id))
           /\ RoomOK(AdvanceToNextStory(r))
           /\ RoomOK(PrevStory(r))
<1>1. /\ r.stories \in Seq(Stories) /\ r.currentStoryIndex \in Int
      /\ r.stories = <<>> => r.currentStoryIndex = 0
      /\ r.stories # <<>> => r.currentStoryIndex \in 0 .. Len(r.stories) - 1
  BY BacklogFacts
<1>2. ASSUME NEW id, HasStory(r, id) PROVE RoomOK(SelectStory(r, id))
  BY <1>1, <1>2, StoryIndexProperties, MoveToStoryOK DEF SelectStory
<1>3. RoomOK(AdvanceToNextStory(r))
  <2>1. CASE r.currentStoryIndex < Len(r.stories) - 1
    <3>1. r.currentStoryIndex + 1 \in 0 .. Len(r.stories) - 1
      BY <1>1, <2>1
    <3>2. QED
      BY <2>1, <3>1, MoveToStoryOK DEF AdvanceToNextStory
  <2>2. CASE ~(r.currentStoryIndex < Len(r.stories) - 1)
    BY <2>2 DEF AdvanceToNextStory
  <2>3. QED
    BY <2>1, <2>2
<1>4. RoomOK(PrevStory(r))
  <2>1. CASE r.currentStoryIndex > 0
    <3>1. r.currentStoryIndex - 1 \in 0 .. Len(r.stories) - 1
      BY <1>1, <2>1
    <3>2. QED
      BY <2>1, <3>1, MoveToStoryOK DEF PrevStory
  <2>2. CASE ~(r.currentStoryIndex > 0)
    BY <2>2 DEF PrevStory
  <2>3. QED
    BY <2>1, <2>2
<1>5. QED
  BY <1>2, <1>3, <1>4

(* Renaming what is discussed keeps a room correct. *)
LEMMA SetCurrentStoryOK ==
    ASSUME NEW r, RoomOK(r), NEW text \in StoryNames \cup {None}
    PROVE  RoomOK(SetCurrentStory(r, text))
<1>1. CASE hasCurrentStory(r)
  <2> DEFINE old   == CurrentStory(r)
             story == [old EXCEPT !.name = text]
             t     == replaceCurrent(r, story)
             k     == r.currentStoryIndex + 1
  <2>1. old \in Stories
    BY <1>1 DEF hasCurrentStory, CurrentStory, RoomOK, RoomTypeOK, Rooms
  <2>2. k \in DOMAIN r.stories /\ old = r.stories[k]
    BY <1>1 DEF hasCurrentStory, CurrentStory, RoomOK, RoomTypeOK, Rooms
  <2> HIDE DEF old
  <2>3. /\ story \in Stories /\ story.id = old.id
        /\ story.voted = old.voted /\ story.value = old.value
    BY <2>1 DEF Stories
  <2> HIDE DEF story
  <2>4. /\ RoomTypeOK(t) /\ HasOwner(t) /\ StoryIndexInRange(t)
        /\ t.reveal = r.reveal /\ t.summary = r.summary
        /\ t.currentStoryIndex = r.currentStoryIndex
        /\ DOMAIN t.stories = DOMAIN r.stories /\ t.stories[k] = story
        /\ \A i \in DOMAIN r.stories : i # k => t.stories[i] = r.stories[i]
    BY <1>1, <2>3, ReplaceCurrentProperties DEF RoomOK, old
  <2>5. SetCurrentStory(r, text) = t
    BY <1>1 DEF SetCurrentStory, story, old
  <2> HIDE DEF t, k
  <2>6. CurrentStory(t) = story /\ CurrentStory(r) = old
    BY <2>4 DEF CurrentStory, old, k
  <2>7. \A i \in DOMAIN t.stories :
           ~t.stories[i].voted => t.stories[i].value = StoryResult(NoSummary)
    BY <2>2, <2>3, <2>4 DEF RoomOK, ResultsAgree
  <2>8. ResultsAgree(t)
    BY <1>1, <2>3, <2>4, <2>6, <2>7 DEF RoomOK, ResultsAgree
  <2>9. QED
    BY <2>4, <2>5, <2>8 DEF RoomOK
<1>2. CASE ~hasCurrentStory(r)
  <2> DEFINE s == [r EXCEPT !.currentStory = text]
  <2>1. /\ r \in Rooms
        /\ DistinctStoryIDs(r.stories) /\ UnvotedHaveNoResult(r.stories)
    BY BacklogFacts
  <2>2. /\ OnlyBacklogDiffers(r, s) /\ s.stories = r.stories
        /\ s.currentStoryIndex = r.currentStoryIndex /\ s.backlogMode = r.backlogMode
    BY <2>1 DEF OnlyBacklogDiffers, Rooms
  <2>3. SetCurrentStory(r, text) = s
    BY <1>2 DEF SetCurrentStory
  <2> HIDE DEF s
  <2>4. StoryIndexInRange(s) /\ ResultsAgree(s)
    BY <1>2, <2>2 DEF OnlyBacklogDiffers, RoomOK, StoryIndexInRange,
        ResultsAgree, hasCurrentStory
  <2>5. QED
    BY <2>1, <2>2, <2>3, <2>4, BacklogChange
<1>3. QED
  BY <1>1, <1>2

(* A list of stories without its k-th has no story id twice, either.        *)
LEMMA RemovalKeepsDistinct ==
    ASSUME NEW s \in Seq(Stories), NEW t \in Seq(Stories), NEW k \in 1 .. Len(s),
           DistinctStoryIDs(s), Len(t) = Len(s) - 1,
           \A j \in 1 .. Len(s) - 1 : t[j] = IF j < k THEN s[j] ELSE s[j + 1]
    PROVE  DistinctStoryIDs(t)
<1> SUFFICES ASSUME NEW i \in 1 .. Len(t), NEW j \in 1 .. Len(t), t[i].id = t[j].id
             PROVE  i = j
  BY DEF DistinctStoryIDs
<1> DEFINE from(m) == IF m < k THEN m ELSE m + 1
<1>1. from(i) \in DOMAIN s /\ from(j) \in DOMAIN s
  OBVIOUS
<1>2. t[i] = s[from(i)] /\ t[j] = s[from(j)]
  OBVIOUS
<1>3. from(i) = from(j)
  <2> HIDE DEF from
  <2> QED BY <1>1, <1>2 DEF DistinctStoryIDs
<1> QED BY <1>3

(* Removing a story keeps a room correct: the index follows the current    *)
(* story, and when that is the one removed a new round starts.             *)
LEMMA RemoveStoryOK ==
    ASSUME NEW r, RoomOK(r), NEW id, HasStory(r, id)
    PROVE  RoomOK(RemoveStory(r, id))
<1> DEFINE index   == storyIndexByID(r, id)
           current == r.currentStoryIndex
           k       == index + 1
           stories == RemoveAt(r.stories, k)
           prev    == current - 1
           without == [r EXCEPT !.stories = stories]
           before  == [without EXCEPT !.currentStoryIndex = prev]
<1>1. /\ r \in Rooms /\ r.stories \in Seq(Stories) /\ current \in Int
      /\ DistinctStoryIDs(r.stories) /\ UnvotedHaveNoResult(r.stories)
  BY BacklogFacts
<1>2. /\ k \in 1 .. Len(r.stories) /\ index = k - 1 /\ index \in Int
      /\ r.stories # <<>>
  BY <1>1, StoryIndexProperties
<1>3. r.backlogMode /\ hasCurrentStory(r) /\ current \in 0 .. Len(r.stories) - 1
  BY <1>2, BacklogFacts
<1>4. RemoveStory(r, id) =
        IF index = current
        THEN startRound(IF current > 0 /\ index = Len(r.stories) - 1
                        THEN before ELSE without)
        ELSE IF index < current THEN before ELSE without
  BY DEF RemoveStory
<1> HIDE DEF k, index
<1>5. /\ stories \in Seq(Stories) /\ Len(stories) = Len(r.stories) - 1
      /\ \A j \in 1 .. Len(r.stories) - 1 :
            stories[j] = IF j < k THEN r.stories[j] ELSE r.stories[j + 1]
  BY <1>1, <1>2, RemoveAtProperties
<1> HIDE DEF stories
<1>6. DistinctStoryIDs(stories)
  BY <1>1, <1>2, <1>5, RemovalKeepsDistinct
<1>7. UnvotedHaveNoResult(stories)
  BY <1>1, <1>2, <1>5 DEF UnvotedHaveNoResult
<1>8. prev \in Int
  BY <1>1
<1> HIDE DEF prev
<1>9. /\ OnlyBacklogDiffers(r, without) /\ without.stories = stories
      /\ without.currentStoryIndex = current
      /\ without.backlogMode = r.backlogMode
  BY <1>1, <1>5 DEF OnlyBacklogDiffers, Rooms
<1>10. /\ OnlyBacklogDiffers(r, before) /\ before.stories = stories
       /\ before.currentStoryIndex = prev
       /\ before.backlogMode = r.backlogMode
  BY <1>1, <1>5, <1>8 DEF OnlyBacklogDiffers, Rooms
<1> HIDE DEF without, before
<1>11. ASSUME NEW s, OnlyBacklogDiffers(r, s), s.stories = stories,
              s.backlogMode = r.backlogMode,
              IF stories = <<>> THEN s.currentStoryIndex = 0
              ELSE s.currentStoryIndex \in 0 .. Len(stories) - 1
       PROVE  RoomOK(startRound(s)) /\ (ResultsAgree(s) => RoomOK(s))
  <2>1. StoryIndexInRange(s)
    BY <1>3, <1>11 DEF StoryIndexInRange
  <2>2. QED
    BY <1>6, <1>7, <1>11, <2>1, BacklogChange
<1>12. ASSUME NEW s, OnlyBacklogDiffers(r, s), s.stories = stories,
              CurrentStory(s) = CurrentStory(r)
       PROVE  ResultsAgree(s)
  BY <1>3, <1>7, <1>12
     DEF OnlyBacklogDiffers, RoomOK, ResultsAgree, UnvotedHaveNoResult
<1>13. CASE index = current
  <2>1. CASE current > 0 /\ index = Len(r.stories) - 1
    <3>1. stories # <<>> /\ prev \in 0 .. Len(stories) - 1
      BY <1>1, <1>3, <1>5, <2>1 DEF prev
    <3>2. QED
      BY <1>4, <1>10, <1>11, <1>13, <2>1, <3>1
  <2>2. CASE ~(current > 0 /\ index = Len(r.stories) - 1)
    <3>1. IF stories = <<>> THEN current = 0 ELSE current \in 0 .. Len(stories) - 1
      BY <1>1, <1>2, <1>3, <1>5, <1>13, <2>2
    <3>2. QED
      BY <1>4, <1>9, <1>11, <1>13, <2>2, <3>1
  <2>3. QED
    BY <2>1, <2>2
<1>14. CASE index < current
  <2>1. /\ stories # <<>> /\ prev \in 0 .. Len(stories) - 1
        /\ stories[prev + 1] = r.stories[current + 1]
    <3>1. /\ prev \in 0 .. Len(r.stories) - 2 /\ ~(prev + 1 < k)
          /\ prev + 1 \in 1 .. Len(r.stories) - 1 /\ prev + 1 + 1 = current + 1
      BY <1>1, <1>2, <1>3, <1>14 DEF prev
    <3>2. stories[prev + 1] = r.stories[prev + 1 + 1]
      BY <1>5, <3>1
    <3>3. stories # <<>>
      BY <1>5, <3>1
    <3>4. QED
      BY <1>5, <3>1, <3>2, <3>3
  <2>2. CurrentStory(before) = CurrentStory(r)
    BY <1>10, <2>1 DEF CurrentStory
  <2>3. RemoveStory(r, id) = before
    BY <1>1, <1>2, <1>4, <1>14
  <2>4. QED
    BY <1>10, <1>11, <1>12, <2>1, <2>2, <2>3
<1>15. CASE index > current
  <2>1. /\ stories # <<>> /\ current \in 0 .. Len(stories) - 1
        /\ stories[current + 1] = r.stories[current + 1]
    <3>1. current + 1 < k /\ current + 1 \in 1 .. Len(r.stories) - 1
      BY <1>1, <1>2, <1>3, <1>15
    <3>2. stories[current + 1] = r.stories[current + 1]
      BY <1>5, <3>1
    <3>3. stories # <<>>
      BY <1>5, <3>1
    <3>4. QED
      BY <1>3, <1>5, <3>1, <3>2, <3>3
  <2>2. CurrentStory(without) = CurrentStory(r)
    BY <1>9, <2>1 DEF CurrentStory
  <2>3. RemoveStory(r, id) = without
    BY <1>1, <1>2, <1>4, <1>15
  <2>4. QED
    BY <1>9, <1>11, <1>12, <2>1, <2>2, <2>3
<1>16. QED
  BY <1>1, <1>2, <1>13, <1>14, <1>15

(* Moving a story keeps a room correct: the same story stays current. *)
LEMMA ReorderStoryOK ==
    ASSUME NEW r, RoomOK(r), NEW id, HasStory(r, id),
           NEW targetIndex \in 0 .. Len(r.stories) - 1, None \notin StoryIDs
    PROVE  RoomOK(ReorderStory(r, id, targetIndex))
<1> DEFINE index   == storyIndexByID(r, id)
           k       == index + 1
           t       == targetIndex + 1
           old     == r.stories
           stories == InsertAt(RemoveAt(old, k), t, old[k])
           moved   == [r EXCEPT !.stories = stories]
           c       == r.currentStoryIndex + 1
           curID   == currentStoryID(r)
           j       == storyIndexByID(moved, curID)
           s       == [moved EXCEPT !.currentStoryIndex = j]
<1>1. /\ r \in Rooms /\ old \in Seq(Stories) /\ r.currentStoryIndex \in Int
      /\ DistinctStoryIDs(old) /\ UnvotedHaveNoResult(old)
  BY BacklogFacts
<1>2. k \in 1 .. Len(old) /\ t \in 1 .. Len(old) /\ old # <<>>
  BY <1>1, StoryIndexProperties
<1>3. /\ r.backlogMode /\ hasCurrentStory(r)
      /\ r.currentStoryIndex \in 0 .. Len(old) - 1
  BY <1>2, BacklogFacts
<1>4. c \in 1 .. Len(old) /\ old[c] \in Stories
  BY <1>1, <1>3
<1>5. curID = old[c].id
  BY <1>1, <1>3 DEF currentStoryID, CurrentStory
<1>6. curID # None
  BY <1>4, <1>5 DEF Stories
<1>7. ReorderStory(r, id, targetIndex) = IF index = targetIndex THEN r ELSE s
  BY <1>6 DEF ReorderStory, updateCurrentStoryIndex
<1> HIDE DEF k, index, t, c, curID, old
<1>8. /\ stories \in Seq(Stories) /\ Len(stories) = Len(old)
      /\ Permutes(stories, old)
  BY <1>1, <1>2, MoveProperties
\* where each story of the new backlog was before
<1>9. PICK f \in [1 .. Len(old) -> 1 .. Len(old)] :
            /\ \A i \in 1 .. Len(old) : stories[i] = old[f[i]]
            /\ \A i, m \in 1 .. Len(old) : f[i] = f[m] => i = m
            /\ \A m \in 1 .. Len(old) : \E i \in 1 .. Len(old) : f[i] = m
  BY <1>8 DEF Permutes
<1> HIDE DEF stories
<1>10. OnlyBacklogDiffers(r, moved) /\ moved.stories = stories
       /\ moved.backlogMode = r.backlogMode
  BY <1>1, <1>8 DEF OnlyBacklogDiffers, Rooms
<1> HIDE DEF moved
<1>11. DOMAIN stories = 1 .. Len(old) /\ DOMAIN old = 1 .. Len(old)
  BY <1>1, <1>8
<1>12. DistinctStoryIDs(stories)
  <2>1. ASSUME NEW i \in 1 .. Len(old), NEW m \in 1 .. Len(old),
               stories[i].id = stories[m].id
        PROVE  i = m
    <3>1. old[f[i]].id = old[f[m]].id /\ f[i] \in DOMAIN old /\ f[m] \in DOMAIN old
      BY <1>9, <1>11, <2>1
    <3>2. f[i] = f[m]
      BY <1>1, <3>1 DEF DistinctStoryIDs
    <3>3. QED
      BY <1>9, <3>2
  <2>2. QED
    BY <1>11, <2>1 DEF DistinctStoryIDs
<1>13. UnvotedHaveNoResult(stories)
  BY <1>1, <1>9, <1>11 DEF UnvotedHaveNoResult
<1>14. HasStory(moved, curID)
  <2>1. PICK i \in 1 .. Len(old) : f[i] = c
    BY <1>4, <1>9
  <2>2. stories[i].id = curID
    BY <1>5, <1>9, <2>1
  <2>3. QED
    BY <1>10, <1>11, <2>1, <2>2 DEF HasStory
<1>15. /\ j \in 0 .. Len(stories) - 1 /\ j + 1 \in DOMAIN stories
       /\ stories[j + 1].id = curID
  BY <1>8, <1>10, <1>14, StoryIndexProperties
<1> HIDE DEF j
<1>16. stories[j + 1] = old[c]
  <2>1. stories[j + 1] = old[f[j + 1]] /\ f[j + 1] \in 1 .. Len(old)
    BY <1>9, <1>11, <1>15
  <2>2. f[j + 1] = c
    BY <1>1, <1>4, <1>5, <1>11, <1>15, <2>1 DEF DistinctStoryIDs
  <2>3. QED
    BY <2>1, <2>2
<1>17. OnlyBacklogDiffers(r, s) /\ s.stories = stories
       /\ s.backlogMode = r.backlogMode /\ s.currentStoryIndex = j
  <2>1. j \in Int
    BY <1>15
  <2>2. QED
    BY <1>10, <2>1 DEF OnlyBacklogDiffers, Rooms
<1> HIDE DEF s
<1>18. StoryIndexInRange(s)
  <2>1. stories # <<>>
    BY <1>8, <1>15
  <2>2. QED
    BY <1>3, <1>15, <1>17, <2>1 DEF StoryIndexInRange
<1>19. CurrentStory(s) = CurrentStory(r)
  BY <1>16, <1>17 DEF CurrentStory, c, old
<1>20. ResultsAgree(s)
  BY <1>3, <1>13, <1>17, <1>19
     DEF OnlyBacklogDiffers, RoomOK, ResultsAgree, UnvotedHaveNoResult
<1>21. RoomOK(s)
  BY <1>12, <1>13, <1>17, <1>18, <1>20, BacklogChange
<1>22. QED
  BY <1>7, <1>21

-----------------------------------------------------------------------------
(* The new room, and what the guards of the commands establish *)

(* A new room is correct. *)
LEMMA NewRoomOK == RoomOK(NewRoom)
<1> DEFINE r == NewRoom
<1>1. /\ r.clients = <<>> /\ r.stories = <<>> /\ r.currentStoryIndex = 0
      /\ r.summary = NoSummary /\ ~r.reveal
      /\ r.name = [c \in ClientIDs |-> None] /\ r.vote = [c \in ClientIDs |-> None]
      /\ r.isOwner = [c \in ClientIDs |-> FALSE]
      /\ r.isSpectator = [c \in ClientIDs |-> FALSE]
  BY DEF NewRoom
<1>2. r \in Rooms
  BY SummaryTypes DEF NewRoom, Rooms
<1> HIDE DEF r
<1>3. RoomTypeOK(r) /\ HasOwner(r)
  BY <1>1, <1>2 DEF RoomTypeOK, HasOwner, IsEmpty
<1>4. StoryIndexInRange(r) /\ ResultsAgree(r)
  BY <1>1, <1>2 DEF StoryIndexInRange, ResultsAgree, hasCurrentStory
<1>5. QED
  BY <1>3, <1>4 DEF RoomOK, r

(* Error code OK means that the caller, and the target, are in the room. *)
LEMMA GuardFacts ==
    ASSUME NEW r, NEW c
    PROVE  /\ ClientError(r, c) = OK => c \in Present(r)
           /\ \A target : TargetError(r, c, target) = OK => target \in Present(r)
           /\ \A vote : VoteError(r, c, vote) = OK =>
                c \in Present(r) /\ vote \in Cards \cup {None}
           /\ AdminToggleOwnerError(r, c) = OK => c \in Present(r)
           /\ \A id : StoryError(r, c, id) = OK => HasStory(r, id)
           /\ \A id : SelectStoryError(r, c, id) = OK => HasStory(r, id)
           /\ \A id, i : ReorderStoryError(r, c, id, i) = OK =>
                HasStory(r, id) /\ i \in 0 .. Len(r.stories) - 1
<1>1. /\ ClientError(r, c) = OK => c \in Present(r)
      /\ \A target : TargetError(r, c, target) = OK => target \in Present(r)
      /\ AdminToggleOwnerError(r, c) = OK => c \in Present(r)
  BY DEF ClientError, OwnerError, TargetError, AdminToggleOwnerError, FindClient, OK
<1>2. \A vote : VoteError(r, c, vote) = OK =>
        c \in Present(r) /\ vote \in Cards \cup {None}
  BY DEF VoteError, ClientError, FindClient, HasCard, OK
<1>3. \A id : StoryError(r, c, id) = OK =>
        HasStory(r, id) /\ OwnerError(r, c) = OK /\ id # None
  BY DEF StoryError, OK
<1>4. \A id : SelectStoryError(r, c, id) = OK => HasStory(r, id)
  BY <1>3 DEF SelectStoryError, OK
<1>5. \A id, i : ReorderStoryError(r, c, id, i) = OK =>
        HasStory(r, id) /\ i \in 0 .. Len(r.stories) - 1
  BY <1>3 DEF ReorderStoryError, OK
<1>6. QED
  BY <1>1, <1>2, <1>3, <1>4, <1>5

-----------------------------------------------------------------------------
(* Commands *)

\* A command, or what a join may have turned into.
TaskOK(t) ==
    /\ t.sender \in ClientIDs
    /\ t.kind \in Kinds \cup {"rejoin", "rollback"}
    /\ t.kind \in Kinds => t.arg \in Args(t.kind)

(* The operation of an accepted command on a correct room gives a correct  *)
(* room.                                                                   *)
LEMMA OperationOK ==
    ASSUME NEW r, RoomOK(r), NEW t, TaskOK(t),
           t.kind \in Kinds \ {"join", "leave"},
           OperationError(t, r) = OK
    PROVE  RoomOK(Operation(t, r))
<1> DEFINE c == t.sender
           a == t.arg
<1>0. c \in ClientIDs /\ a \in Args(t.kind)
  BY DEF TaskOK
<1>1. CASE t.kind = "vote"
  <2>1. VoteError(r, c, a) = OK /\ Operation(t, r) = Vote(r, c, a)
    BY <1>1 DEF OperationError, Operation
  <2>2. c \in Present(r) /\ a \in Cards \cup {None}
    BY <2>1, GuardFacts
  <2>3. QED
    BY <2>1, <2>2, ApplyVoteOK, CheckRevealOK DEF Vote
<1>2. CASE t.kind = "update-name"
  <2>1. ClientError(r, c) = OK /\ Operation(t, r) = UpdateClientName(r, c, a)
    BY <1>2 DEF OperationError, Operation
  <2>2. a \in ClientNames \cup {None}
    BY <1>0, <1>2 DEF Args
  <2>3. QED
    BY <2>1, <2>2, GuardFacts, UpdateClientNameOK
<1>3. CASE t.kind = "admin-toggle-owner"
  <2>1. AdminToggleOwnerError(r, a) = OK /\ Operation(t, r) = AdminToggleOwner(r, a)
    BY <1>3 DEF OperationError, Operation
  <2>2. QED
    BY <2>1, GuardFacts, ToggleOwnerOK
<1>4. CASE t.kind \in {"toggle-spectator", "toggle-owner"}
  <2>1. TargetError(r, c, a) = OK
    BY <1>4 DEF OperationError
  <2>2. Operation(t, r) \in {ToggleSpectator(r, a), ToggleOwner(r, a)}
    BY <1>4 DEF Operation
  <2>3. QED
    BY <2>1, <2>2, GuardFacts, ToggleSpectatorOK, ToggleOwnerOK
<1>5. CASE t.kind \in {"reveal-votes", "reset"}
  <2>1. Operation(t, r) \in {ToggleReveal(r), ResetVoting(r)}
    BY <1>5 DEF Operation
  <2>2. QED
    BY <2>1, RevealResetOK
<1>6. CASE t.kind \in {"add-story", "toggle-backlog-mode"}
  <2>1. \E id \in StoryIDs : FreshStoryID(r, id)
    BY <1>6 DEF OperationError, OK
  <2>2. unusedID(r) \in StoryIDs /\ FreshStoryID(r, unusedID(r))
    BY <2>1 DEF unusedID
  <2>3. CASE t.kind = "add-story"
    <3>1. Operation(t, r) = AddStory(r, a, unusedID(r))
      BY <2>3 DEF Operation
    <3>2. a \in StoryNames \cup {None}
      BY <1>0, <2>3 DEF Args
    <3>3. QED
      BY <2>2, <3>1, <3>2, AddStoryOK
  <2>4. CASE t.kind = "toggle-backlog-mode"
    <3>1. Operation(t, r) = ToggleBacklogMode(r, unusedID(r))
      BY <2>4 DEF Operation
    <3>2. QED
      BY <2>2, <3>1, ToggleBacklogModeOK
  <2>5. QED
    BY <1>6, <2>3, <2>4
<1>7. CASE t.kind = "remove-story"
  <2>1. StoryError(r, c, a) = OK /\ Operation(t, r) = RemoveStory(r, a)
    BY <1>7 DEF OperationError, Operation, RemoveStoryError
  <2>2. QED
    BY <2>1, GuardFacts, RemoveStoryOK
<1>8. CASE t.kind = "select-story"
  <2>1. SelectStoryError(r, c, a) = OK /\ Operation(t, r) = SelectStory(r, a)
    BY <1>8 DEF OperationError, Operation
  <2>2. QED
    BY <2>1, GuardFacts, ChangeStoryOK
<1>9. CASE t.kind = "reorder-story"
  <2>1. ReorderStoryError(r, c, a[1], a[2]) = OK /\ Operation(t, r) = ReorderStory(r, a[1], a[2])
    BY <1>9 DEF OperationError, Operation
  <2>2. HasStory(r, a[1]) /\ a[2] \in 0 .. Len(r.stories) - 1
    BY <2>1, GuardFacts
  <2>3. QED
    BY <2>1, <2>2, RoomAssumption, ReorderStoryOK
<1>10. CASE t.kind \in {"advance-story", "prev-story"}
  <2>1. Operation(t, r) \in {AdvanceToNextStory(r), PrevStory(r)}
    BY <1>10 DEF Operation
  <2>2. QED
    BY <2>1, ChangeStoryOK
<1>11. CASE t.kind = "update-story"
  <2>1. Operation(t, r) = SetCurrentStory(r, a)
    BY <1>11 DEF Operation
  <2>2. a \in StoryNames \cup {None}
    BY <1>0, <1>11 DEF Args
  <2>3. QED
    BY <2>1, <2>2, SetCurrentStoryOK
<1>12. QED
  BY <1>1, <1>2, <1>3, <1>4, <1>5, <1>6, <1>7, <1>8, <1>9, <1>10, <1>11
     DEF Kinds, GuardedKinds

-----------------------------------------------------------------------------
(* Who is in the room after an operation *)

\* A record with the clients of r.
ClientsOf(r, s) == "clients" \in DOMAIN s /\ s.clients = r.clients

(* Everything but joins and leaves leaves the list of clients alone. *)
LEMMA RoundKeepsClients ==
    ASSUME NEW r, NEW s, ClientsOf(r, s)
    PROVE  /\ \A story : ClientsOf(r, replaceCurrent(s, story))
           /\ \A c, vote : ClientsOf(r, applyVote(s, c, vote))
           /\ ClientsOf(r, clearVotes(s))
           /\ ClientsOf(r, hide(s))
           /\ ClientsOf(r, show(s))
           /\ ClientsOf(r, promoteFirst(s))
<1>1. /\ \A story : ClientsOf(r, replaceCurrent(s, story))
      /\ \A c, vote : ClientsOf(r, applyVote(s, c, vote))
      /\ ClientsOf(r, clearVotes(s))
      /\ ClientsOf(r, hide(s))
      /\ ClientsOf(r, promoteFirst(s))
  BY DEF ClientsOf, replaceCurrent, applyVote, clearVotes, hide, promoteFirst
<1>2. ClientsOf(r, show(s))
  <2> DEFINE t == [s EXCEPT !.reveal = TRUE, !.summary = summarize(ballot(s))]
  <2>1. ClientsOf(r, t)
    BY DEF ClientsOf
  <2>2. show(s) \in {s, stampStory(t)}
    BY DEF show
  <2> HIDE DEF t
  <2>3. ClientsOf(r, stampStory(t))
    BY <2>1 DEF stampStory, replaceCurrent, ClientsOf
  <2>4. QED
    BY <2>2, <2>3
<1>3. QED
  BY <1>1, <1>2

LEMMA RevealKeepsClients ==
    ASSUME NEW r, NEW s, ClientsOf(r, s)
    PROVE  ClientsOf(r, checkReveal(s)) /\ ClientsOf(r, startRound(s))
<1>1. ClientsOf(r, hide(s)) /\ ClientsOf(r, show(s))
  BY RoundKeepsClients
<1>2. ClientsOf(r, clearVotes(hide(s)))
  BY <1>1, RoundKeepsClients
<1>3. QED
  BY <1>1, <1>2 DEF checkReveal, startRound

(* Nor does the backlog matter to it. *)
LEMMA BacklogKeepsClients ==
    ASSUME NEW r, "clients" \in DOMAIN r
    PROVE  /\ \A id : ClientsOf(r, ToggleBacklogMode(r, id))
           /\ \A id, name : ClientsOf(r, AddStory(r, name, id))
           /\ \A id : ClientsOf(r, RemoveStory(r, id))
           /\ \A id : ClientsOf(r, SelectStory(r, id))
           /\ \A id, index : ClientsOf(r, ReorderStory(r, id, index))
           /\ ClientsOf(r, AdvanceToNextStory(r))
           /\ ClientsOf(r, PrevStory(r))
           /\ \A text : ClientsOf(r, SetCurrentStory(r, text))
<1>1. ClientsOf(r, r)
  BY DEF ClientsOf
<1>2. \A id : ClientsOf(r, ToggleBacklogMode(r, id))
  BY DEF ClientsOf, ToggleBacklogMode
<1>3. \A id, name : ClientsOf(r, AddStory(r, name, id))
  BY DEF ClientsOf, AddStory
<1>4. ASSUME NEW stories, NEW index
      PROVE  /\ ClientsOf(r, [r EXCEPT !.stories = stories])
             /\ ClientsOf(r, [r EXCEPT !.currentStoryIndex = index])
             /\ ClientsOf(r, [[r EXCEPT !.stories = stories]
                                EXCEPT !.currentStoryIndex = index])
  BY DEF ClientsOf
<1>5. ASSUME NEW id PROVE ClientsOf(r, RemoveStory(r, id))
  <2> DEFINE without == [r EXCEPT !.stories = RemoveAt(@, storyIndexByID(r, id) + 1)]
             before  == [without EXCEPT !.currentStoryIndex = r.currentStoryIndex - 1]
  <2>1. ClientsOf(r, without) /\ ClientsOf(r, before)
    BY <1>4
  <2>2. RemoveStory(r, id) \in {without, before, startRound(without), startRound(before)}
    BY DEF RemoveStory
  <2> HIDE DEF without, before
  <2>3. QED
    BY <2>1, <2>2, RevealKeepsClients
<1>6. ASSUME NEW index
      PROVE  ClientsOf(r, startRound([r EXCEPT !.currentStoryIndex = index]))
  BY <1>4, RevealKeepsClients
<1>7. /\ \A id : ClientsOf(r, SelectStory(r, id))
      /\ ClientsOf(r, AdvanceToNextStory(r)) /\ ClientsOf(r, PrevStory(r))
  BY <1>1, <1>6 DEF SelectStory, AdvanceToNextStory, PrevStory
<1>8. ASSUME NEW id, NEW index PROVE ClientsOf(r, ReorderStory(r, id, index))
  <2> DEFINE moved == [r EXCEPT !.stories =
                        InsertAt(RemoveAt(@, storyIndexByID(r, id) + 1), index + 1,
                                 r.stories[storyIndexByID(r, id) + 1])]
  <2>1. ClientsOf(r, moved)
    BY <1>4
  <2>2. \/ ReorderStory(r, id, index) = r
        \/ ReorderStory(r, id, index) =
             updateCurrentStoryIndex(moved, storyIndexByID(r, id), index, currentStoryID(r))
    BY DEF ReorderStory
  <2> HIDE DEF moved
  <2>3. QED
    BY <1>1, <2>1, <2>2 DEF updateCurrentStoryIndex, ClientsOf
<1>9. ASSUME NEW text PROVE ClientsOf(r, SetCurrentStory(r, text))
  BY <1>1, RoundKeepsClients DEF SetCurrentStory, ClientsOf
<1>10. QED
  BY <1>2, <1>3, <1>5, <1>7, <1>8, <1>9

(* The operation of a command changes neither who is in the room nor the   *)
(* order of the clients.                                                   *)
LEMMA OperationKeepsClients ==
    ASSUME NEW r, RoomOK(r), NEW t, t.kind \in Kinds \ {"join", "leave"}
    PROVE  Operation(t, r).clients = r.clients
<1> DEFINE c == t.sender
           a == t.arg
<1>1. "clients" \in DOMAIN r /\ ClientsOf(r, r)
  BY DEF RoomOK, RoomTypeOK, Rooms, ClientsOf
<1>2. CASE t.kind \in {"vote", "toggle-spectator"}
  <2> DEFINE toggled == [r EXCEPT !.isSpectator[a] = ~@]
  <2>1. ClientsOf(r, toggled)
    BY <1>1 DEF ClientsOf
  <2>2. \/ Operation(t, r) = checkReveal(applyVote(r, c, a))
        \/ Operation(t, r) = checkReveal(applyVote(toggled, a, None))
    BY <1>2 DEF Operation, Vote, ToggleSpectator
  <2> HIDE DEF toggled
  <2>3. ClientsOf(r, applyVote(r, c, a)) /\ ClientsOf(r, applyVote(toggled, a, None))
    BY <1>1, <2>1, RoundKeepsClients
  <2>4. ClientsOf(r, Operation(t, r))
    BY <2>2, <2>3, RevealKeepsClients
  <2>5. QED
    BY <2>4 DEF ClientsOf
<1>3. CASE t.kind \in {"update-name", "admin-toggle-owner", "toggle-owner"}
  <2>1. Operation(t, r) \in
            {UpdateClientName(r, c, a), AdminToggleOwner(r, a), ToggleOwner(r, a)}
    BY <1>3 DEF Operation
  <2>2. QED
    BY <1>1, <2>1 DEF UpdateClientName, AdminToggleOwner, ToggleOwner
<1>4. CASE t.kind \in {"reveal-votes", "reset"}
  <2>1. Operation(t, r) \in {hide(r), show(r), startRound(r)}
    BY <1>4 DEF Operation, ToggleReveal, ResetVoting
  <2>2. ClientsOf(r, hide(r)) /\ ClientsOf(r, show(r)) /\ ClientsOf(r, startRound(r))
    BY <1>1, RoundKeepsClients, RevealKeepsClients
  <2>3. QED
    BY <2>1, <2>2 DEF ClientsOf
<1>5. CASE t.kind \in {"toggle-backlog-mode", "add-story", "remove-story", "select-story",
                       "reorder-story", "advance-story", "prev-story", "update-story"}
  <2>1. Operation(t, r) \in
            {ToggleBacklogMode(r, unusedID(r)), AddStory(r, a, unusedID(r)),
             RemoveStory(r, a), SelectStory(r, a), ReorderStory(r, a[1], a[2]),
             AdvanceToNextStory(r), PrevStory(r), SetCurrentStory(r, a)}
    BY <1>5 DEF Operation
  <2>2. ClientsOf(r, Operation(t, r))
    BY <1>1, <2>1, BacklogKeepsClients
  <2>3. QED
    BY <2>2 DEF ClientsOf
<1>6. QED
  BY <1>2, <1>3, <1>4, <1>5 DEF Kinds, GuardedKinds

(* A join adds its client, a leave takes it away, and nobody else. *)
LEMMA PresenceProperties ==
    ASSUME NEW r, RoomOK(r), NEW c \in ClientIDs
    PROVE  /\ Present(NewClient(r, c)) = Present(r) \cup {c}
           /\ Present(RemoveClient(r, c)) = Present(r) \ {c}
           /\ IsEmpty(r) <=> Present(r) = {}
<1>1. r \in Rooms /\ r.clients \in Seq(ClientIDs) /\ "clients" \in DOMAIN r
  BY DEF RoomOK, RoomTypeOK, Rooms
<1>2. Present(NewClient(r, c)) = Present(r) \cup {c}
  <2>1. NewClient(r, c).clients = Append(r.clients, c)
    BY <1>1 DEF NewClient, Rooms
  <2>2. QED
    BY <1>1, <2>1 DEF Present, Range
<1>3. Present(RemoveClient(r, c)) = Present(r) \ {c}
  <2> DEFINE s == dropClient(r, c)
  <2>1. "clients" \in DOMAIN s /\ s.clients = RemoveFirst(r.clients, c)
    BY <1>1 DEF dropClient, Rooms
  <2>2. Range(RemoveFirst(r.clients, c)) = Range(r.clients) \ {c}
    BY <1>1, RemoveFirstProperties DEF RoomOK, RoomTypeOK
  <2> HIDE DEF s
  <2>3. ClientsOf(s, promoteFirst(s))
    BY <2>1, RoundKeepsClients DEF ClientsOf
  <2>4. ClientsOf(s, RemoveClient(r, c))
    BY <2>3, RevealKeepsClients DEF RemoveClient, s
  <2>5. QED
    BY <2>1, <2>2, <2>4 DEF Present, ClientsOf
<1>4. IsEmpty(r) <=> Present(r) = {}
  <2>1. r.clients # <<>> => r.clients[1] \in Range(r.clients)
    BY <1>1 DEF Range
  <2>2. r.clients = <<>> => Range(r.clients) = {}
    BY DEF Range
  <2>3. QED
    BY <2>1, <2>2 DEF IsEmpty, Present
<1>5. QED
  BY <1>2, <1>3, <1>4

=============================================================================
