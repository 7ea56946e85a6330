SPECIFICATION Spec
CONSTANTS
    Names <- DefinitionNames
    Documents <- AllDocuments
    Consts = {"a", "b"}
INVARIANTS
    ParsedInOrder
    CircularIsACircle
    GoReachesBrowser
    ValidationAgrees
    ImportsMatchUses
    FramesFindTheirGuard
CHECK_DEADLOCK FALSE
