------------------------------- MODULE Voting -------------------------------
(***************************************************************************)
(* How a room turns a ballot into a result: the deck                       *)
(* (internal/domain/entity/deck.go) and the metrics and consensus of a     *)
(* reveal (internal/domain/entity/room_voting.go).                         *)
(*                                                                         *)
(* A ballot is a function from the voters whose votes count (the clients   *)
(* of the room that are not spectators) to a card, or None when the voter  *)
(* has no vote (a nil or an empty CurrentVote).  The code walks the voters *)
(* in the order of the client list; nothing it computes depends on that    *)
(* order, so a ballot has none.                                            *)
(***************************************************************************)
EXTENDS Integers, Sequences, FiniteSets, FiniteSetsExt

CONSTANTS
    EstimateCards,     \* the ordered estimate cards of the room's deck
    SpecialDeckCards,  \* the cards without a position ("?" and the coffee cup)
    Atoi,              \* the number each numeric label denotes; categorical
                       \* labels are outside its domain (strconv.Atoi fails)
    None               \* a nil pointer, an empty label

Estimates == {EstimateCards[i] : i \in DOMAIN EstimateCards}
Cards     == Estimates \cup SpecialDeckCards

ASSUME DeckAssumption ==
    /\ EstimateCards \in Seq(Estimates)
    /\ \A i, j \in DOMAIN EstimateCards :
            EstimateCards[i] = EstimateCards[j] => i = j
    /\ Estimates \cap SpecialDeckCards = {}
    /\ None \notin Cards

\* Labels are all numbers, in ascending order, or none of them is one.
ASSUME LabelAssumption ==
    /\ \/ Estimates \subseteq DOMAIN Atoi
       \/ Estimates \cap DOMAIN Atoi = {}
    /\ \A card \in Estimates \cap DOMAIN Atoi : Atoi[card] \in Int
    /\ \A i, j \in DOMAIN EstimateCards :
            i <= j /\ {EstimateCards[i], EstimateCards[j]} \subseteq DOMAIN Atoi
            => Atoi[EstimateCards[i]] <= Atoi[EstimateCards[j]]

-----------------------------------------------------------------------------
(* Deck *)

HasCard(vote) == vote \in Cards

\* Index of an estimate card in the deck, from 0.
Position(vote) ==
    (CHOOSE i \in DOMAIN EstimateCards : EstimateCards[i] = vote) - 1

-----------------------------------------------------------------------------
(* collectVotes: special cards are only counted; estimates are counted per *)
(* card, and summed when their label is a number.                          *)

Positioned(ballot) == {v \in DOMAIN ballot : ballot[v] \in Estimates}

counts(ballot) ==
    [card \in {ballot[v] : v \in Positioned(ballot)} |->
        Cardinality({v \in Positioned(ballot) : ballot[v] = card})]

\* Mutant: special cards are not skipped.
collectVotes_Specials(ballot) ==
    LET cast     == {v \in DOMAIN ballot : ballot[v] # None}
        numeric  == {v \in cast : ballot[v] \in DOMAIN Atoi}
        value(v) == Atoi[ballot[v]]
    IN  [sum          |-> MapThenSumSet(value, numeric),
         count        |-> Cardinality(cast),
         counts       |-> [card \in {ballot[v] : v \in cast} |->
                            Cardinality({v \in cast : ballot[v] = card})],
         specialCount |-> Cardinality(cast \ Positioned(ballot))]

collectVotes(ballot) ==
    LET numeric  == {v \in Positioned(ballot) : ballot[v] \in DOMAIN Atoi}
        value(v) == Atoi[ballot[v]]
    IN  [sum          |-> MapThenSumSet(value, numeric),
         count        |-> Cardinality(numeric),
         counts       |-> counts(ballot),
         specialCount |-> Cardinality({v \in DOMAIN ballot :
                                         ballot[v] \in SpecialDeckCards})]

getMostVoteCount(voteMap) ==
    IF DOMAIN voteMap = {} THEN 0
    ELSE Max({voteMap[card] : card \in DOMAIN voteMap})

\* The cards with the most votes, sorted by deck position.
mostAppearingVotes(votes, mostVoteCount) ==
    LET most    == {i \in DOMAIN EstimateCards :
                        /\ EstimateCards[i] \in DOMAIN votes
                        /\ votes[EstimateCards[i]] = mostVoteCount}
        rank(i) == Cardinality({j \in most : j <= i})
    IN  [k \in 1 .. Cardinality(most) |->
            EstimateCards[CHOOSE i \in most : rank(i) = k]]

-----------------------------------------------------------------------------
(* calculateConsensus *)

\* Mutant: divided before it is multiplied.
strongMajority_DivFirst(mostVoteCount, n) == mostVoteCount >= 2 * ((n + 2) \div 3)

\* Two thirds of the estimates, rounded up.
strongMajority(mostVoteCount, n) == mostVoteCount >= (2 * n + 2) \div 3

\* Mutant: Medium ends one position too early.
consensusOf_Below2(mostVoteCount, n, spread) ==
    IF spread = 0 \/ (strongMajority(mostVoteCount, n) /\ spread <= 1) THEN "High"
    ELSE IF spread < 2 THEN "Medium" ELSE "Low"

\* The switch on strongMajority and spread; minLabel = maxLabel is spread = 0.
consensusOf(mostVoteCount, n, spread) ==
    IF spread = 0 \/ (strongMajority(mostVoteCount, n) /\ spread <= 1) THEN "High"
    ELSE IF spread <= 2 THEN "Medium" ELSE "Low"

calculateConsensus(ballot) ==
    LET votes     == {ballot[v] : v \in Positioned(ballot)}
        positions == {Position(card) : card \in votes}
        minLabel  == EstimateCards[Min(positions) + 1]
        maxLabel  == EstimateCards[Max(positions) + 1]
        spread    == Max(positions) - Min(positions)
    IN  IF votes = {}
        THEN [consensus   |-> "Unavailable", lowestVote |-> None,
              highestVote |-> None, voteRange |-> None, voteSpread |-> None]
        ELSE [consensus   |-> consensusOf(getMostVoteCount(counts(ballot)),
                                          Cardinality(Positioned(ballot)),
                                          spread),
              lowestVote  |-> minLabel,
              highestVote |-> maxLabel,
              voteRange   |-> IF {minLabel, maxLabel} \subseteq DOMAIN Atoi
                              THEN Atoi[maxLabel] - Atoi[minLabel] ELSE None,
              voteSpread  |-> spread]

-----------------------------------------------------------------------------
(* The result fields that reveal(true) computes.  Result is the float32    *)
(* quotient sum / count; the model keeps the exact fraction.               *)

NoSummary ==
    [result |-> None, mostAppearingVotes |-> <<>>, consensus |-> "",
     lowestVote |-> None, highestVote |-> None,
     voteRange |-> None, voteSpread |-> None, specialVoteCount |-> 0]

summarize(ballot) ==
    LET metrics == collectVotes(ballot)
        summary == calculateConsensus(ballot)
    IN  [result |-> IF metrics.count > 0
                    THEN [sum |-> metrics.sum, count |-> metrics.count]
                    ELSE None,
         mostAppearingVotes |->
            mostAppearingVotes(metrics.counts, getMostVoteCount(metrics.counts)),
         consensus        |-> summary.consensus,
         lowestVote       |-> summary.lowestVote,
         highestVote      |-> summary.highestVote,
         voteRange        |-> summary.voteRange,
         voteSpread       |-> summary.voteSpread,
         specialVoteCount |-> metrics.specialCount]

=============================================================================
