SPECIFICATION RoundSpec
CONSTANTS
    Voters = {v1, v2, v3, v4, v5}
    None = None
    EstimateCards <- FibonacciCards
    SpecialDeckCards <- Specials
    Atoi <- FibonacciAtoi
SYMMETRY Symmetry
INVARIANTS
    ConsensusMatchesReference
    SummaryIsCoherent
PROPERTIES
    AgreeingNeverLowersConsensus
