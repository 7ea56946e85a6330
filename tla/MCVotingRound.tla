---------------------------- MODULE MCVotingRound ----------------------------
(***************************************************************************)
(* The Fibonacci deck of deck.go for VotingRound.                          *)
(***************************************************************************)
EXTENDS VotingRound, TLC

Specials == {"?", "coffee"}

FibonacciCards ==
    <<"0", "1", "2", "3", "5", "8", "13", "21", "34", "55", "89">>
FibonacciAtoi ==
    "0" :> 0 @@ "1" :> 1 @@ "2" :> 2 @@ "3" :> 3 @@ "5" :> 5 @@ "8" :> 8
        @@ "13" :> 13 @@ "21" :> 21 @@ "34" :> 34 @@ "55" :> 55 @@ "89" :> 89

Symmetry == Permutations(Voters)
=============================================================================
