SPECIFICATION FairSpec
CONSTANTS
    Attempts = {a1, a2, a3}
    Guarded = TRUE
    None = None
    MaxChanges = 2
    MaxFailures = 2
    ExecutionsMayStall = TRUE
CHECK_DEADLOCK FALSE
INVARIANTS
    OneExecutionPerReservation
    GuardedTakesEffectOnce
    AnswersAgree
    AnswersAreTrue
PROPERTY
    ReservationEnds
