SPECIFICATION FairSpec
CONSTANTS
    waits = waits
    leaves = leaves
    compaction = compaction
    cli = cli
    tool = tool
    ask = ask
    None = None
    Turns <- TwoTurns
    Detached <- OneTurn
    Compactions <- OneCompaction
    Opens <- OneCli
    Calls <- TwoCalls
    By <- Whose
    MayOverflow <- OneTurn
INVARIANTS
    OneDriver
    RunsInOrder
    CardsWithdrawn
PROPERTIES
    NothingHangs
CHECK_DEADLOCK FALSE
