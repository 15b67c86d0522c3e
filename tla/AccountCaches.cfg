CONSTANTS
    Callers = {c1, c2}
    Limit = 1
    MaxRetries = 1
    NoEntry = NoEntry
    MaxMoves = 5
    MaxFlights = 2
SPECIFICATION Spec
SYMMETRY Symmetry
INVARIANTS LimiterExact
PROPERTIES CachesMoveForward AnswersNotOlder
CHECK_DEADLOCK FALSE
