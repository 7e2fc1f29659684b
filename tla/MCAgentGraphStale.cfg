SPECIFICATION Spec
CONSTANTS
    table = table
    prose = prose
    Blocks <- TheBlocks
    Figures <- TheFigures
    FastKey = TRUE
    AnswerKey = TRUE
    MultiDoc = FALSE
    Memory = TRUE
    MaxTurns = 2
CHECK_DEADLOCK FALSE
INVARIANTS
    ComputedInThisTurn
