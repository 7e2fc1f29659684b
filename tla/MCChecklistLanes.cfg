SPECIFICATION Spec
CONSTANTS
    b1 = b1
    b2 = b2
    b3 = b3
    Blocks = {b1, b2, b3}
    PageOf <- ThePageOf
    Figures = {0, 5, 7, 9, 2024}
    Years = {2024}
    Units = {"million", "percent"}
    Holds <- TheHolds
    Shows <- TheShows
    None = None
    Grid = 16
    VarianceMargin = 2
    Drifting = {5, 8, 14}
    Slipping = {14}
    Runs <- TheRuns
    Lines <- TheLines
    Cases <- TheCases
    Judge = TRUE
    Baseline <- TheBaseline
    MaxGates = 2
CHECK_DEADLOCK FALSE
INVARIANTS
    ReportsAreTraceable
    FloorsHold
    PassedHasAnswered
