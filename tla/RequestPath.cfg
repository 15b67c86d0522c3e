CONSTANTS
    \* the registry
    Sessions = {s1, s2, s3}
    Requests = {r1, r2, r3}
    Convs = {c1, c2, c3}
    MaxEntries = 2
    TTL = 2
    NoEntry = NoEntry
    NoSession = NoSession
    NoConv = NoConv
    \* the pick
    Accounts = {1, 2, 3}
    Standings <- MixedStandings
    Keys <- ScoredKeys
    Score <- Scores
    NoKey = NoKey
    NoAccount = NoAccount
    Watched = 1
    \* the exchange
    t1 = t1
    t2 = t2
    ToolIds = {t1, t2}
    NoId = NoId
    NoResult = NoResult
    Pieces <- AllPieces
    MaxFrames = 4
    MaxMessages = 5
    MaxTrims = 2
    Events <- AllEvents
    Ends <- AllEnds
    Modes <- AllModes
    Conversations <- AllConversations
SPECIFICATION PathSpec
INVARIANTS
    PinnedConversation InFlightExact TakesItsTurn
    TypeOK ClientInStep TextIntact CutsFirstClosedUnit
PROPERTIES
    RebindsOnlyWhenIdle RefusedOnlyWhenFull QuietRegistryDrains
    SessionStays EveryFrameInOrder ReaderEnds
CHECK_DEADLOCK FALSE
