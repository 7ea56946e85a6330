----------------------------- MODULE VotingRound -----------------------------
(***************************************************************************)
(* Every ballot a set of voters can cast, reached vote by vote, and what   *)
(* the summary that a reveal computes from it promises.  (The names begin  *)
(* with Round where Room has the same one.)                                *)
(***************************************************************************)
EXTENDS Voting

CONSTANT Voters
VARIABLE votes

ASSUME VotersAssumption == IsFiniteSet(Voters)

RoundTypeOK == votes \in [Voters -> Cards \cup {None}]

RoundInit == votes = [v \in Voters |-> None]

\* A voter casts, changes or (None) withdraws a vote before the reveal.
Cast(v, vote) ==
    /\ vote # votes[v]
    /\ votes' = [votes EXCEPT ![v] = vote]

RoundNext == \E v \in Voters, vote \in Cards \cup {None} : Cast(v, vote)

RoundSpec == RoundInit /\ [][RoundNext]_votes

-----------------------------------------------------------------------------
summary == summarize(votes)

\* Distance of two voters' cards in the deck.
Apart(v, w) == Position(votes[v]) - Position(votes[w])

\* Every two estimates are at most d positions apart.
Within(d) == \A v, w \in Positioned(votes) : Apart(v, w) <= d

\* A card that at least two thirds of the estimates agree on exists.
TwoThirdsAgree ==
    \E card \in Estimates :
        3 * Cardinality({v \in Voters : votes[v] = card})
            >= 2 * Cardinality(Positioned(votes))

(* calculateConsensus, which works with minimum, maximum and a rounded     *)
(* threshold, grades the ballot as pairwise distances and an exact two     *)
(* thirds majority do.                                                     *)
ConsensusMatchesReference ==
    summary.consensus =
        CASE Positioned(votes) = {}           -> "Unavailable"
          [] /\ Positioned(votes) # {}
             /\ Within(0) \/ (Within(1) /\ TwoThirdsAgree) -> "High"
          [] /\ Within(2) /\ ~Within(0)
             /\ ~(Within(1) /\ TwoThirdsAgree)             -> "Medium"
          [] ~Within(2)                                    -> "Low"

(* The parts of a summary fit together.  A High consensus names one winner *)
(* (the rounding of strongMajority never lets a tie, two votes one card    *)
(* apart, say, count as High).  The average of a numeric deck lies between *)
(* the lowest and the highest vote shown with it, and the most appearing   *)
(* votes are listed in deck order within the same limits.  Special cards   *)
(* are abstentions: withdrawing every "?" and coffee vote leaves all but   *)
(* their own count as it was.                                              *)
SummaryIsCoherent ==
    /\ summary.consensus = "High" => Len(summary.mostAppearingVotes) = 1
    /\ summary.result # None =>
        /\ summary.lowestVote # None
        /\ Atoi[summary.lowestVote] * summary.result.count <= summary.result.sum
        /\ summary.result.sum <= Atoi[summary.highestVote] * summary.result.count
    /\ LET most == summary.mostAppearingVotes
       IN  /\ (most = <<>>) <=> (summary.lowestVote = None)
           /\ \A i \in DOMAIN most :
                /\ Position(summary.lowestVote) <= Position(most[i])
                /\ Position(most[i]) <= Position(summary.highestVote)
                /\ i > 1 => Position(most[i - 1]) < Position(most[i])
    /\ LET abstained == [v \in Voters |-> IF votes[v] \in SpecialDeckCards
                                          THEN None ELSE votes[v]]
       IN  [summary EXCEPT !.specialVoteCount = 0] = summarize(abstained)

Level == [consensus \in {"Unavailable", "Low", "Medium", "High"} |->
            CASE consensus = "Unavailable" -> 0
              [] consensus = "Low"         -> 1
              [] consensus = "Medium"      -> 2
              [] consensus = "High"        -> 3]

(* A voter who moves to the one card most others chose (from another card, *)
(* from a special card or from no vote) never lowers the consensus.        *)
AgreeingNeverLowersConsensus ==
    [][\A v \in Voters :
          /\ votes'[v] # votes[v]
          /\ summary.mostAppearingVotes = <<votes'[v]>>
          => Level[summary'.consensus] >= Level[summary.consensus]]_votes

=============================================================================
