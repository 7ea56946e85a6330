------------------------------- MODULE MCRoom -------------------------------
(***************************************************************************)
(* A small instance of Room: three clients and two stories, a deck with    *)
(* one estimate and one special card.                                      *)
(***************************************************************************)
EXTENDS Room

SmallCards == <<"1">>
SmallAtoi  == "1" :> 1

Symmetry == Permutations(ClientIDs) \cup Permutations(StoryIDs)
=============================================================================
