SPECIFICATION Spec
CONSTANTS
    Streamed = {m1}
    Whole = {m2}
    Deltas = 2
    Cards = {c1}
    max_queue = 2
    MaxLinks = 2
    Smes = {"@power", "@rf"}
    Summoners = {t1, t2}
    SmeOf <- MCSmeOf
    MAX_TOOL_ROUNDS = 1
    MaxDeaths = 1
    MaxFrames = 2
    MaxPieces = 2
    MaxRuns = 2
    MaxVisits = 2
INVARIANTS
    OnlyToldLosses
    BodiesInOrder
    OneEnvEach
    TranscriptsRoutedOnce
    RunsDrained
    MediaInItsSlot
PROPERTIES
    CardsOutliveUpdates
    SummonsReturn
    DisconnectsEnd
CHECK_DEADLOCK FALSE
