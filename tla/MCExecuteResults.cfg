\* Every stream of up to three messages and every chunk header.
SPECIFICATION Spec
CONSTANTS
    Outcomes <- MCOutcomes
    Pieces <- MCPieces
    Results <- MCResults
    MaxMessages = 3
INVARIANT JoinIsExact
CHECK_DEADLOCK FALSE
