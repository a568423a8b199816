SPECIFICATION Spec
CONSTANTS
    Names <- MCNames
    Fold <- MCFold
    RefPrefixes <- MCRefPrefixes
    SheetMax <- MCSheetMax
    Boards <- MCBoards
    Custom <- MCCustom
    Schematics <- MCSchematics
    Asked <- MCAsked
    Started <- MCStarted
    Threads = {t1, t2}
    CAPACITY = 1
    MaxFrames = 2
    MaxParses = 2
    Queries <- MCQueries
    PageLimits <- MCPageLimits
    Within <- MCWithin
    Long <- MCLong
    Boms <- MCBoms
    BomQueries <- MCBomQueries
    MaxResults = {0, 1, 10}
INVARIANTS
    IngestPreservesLimits
    IdempotentAlone
    EvidenceIsDocumented
    FrameRefsStable
    
    LimitQuotesDatasheet
    BestPassagesKept
    DesignatorFirst
    ServedIsMerged
SYMMETRY Symmetry
CHECK_DEADLOCK FALSE
