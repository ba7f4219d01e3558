SPECIFICATION MCSpec
CONSTANTS
    ChunkSizes = {2, 4}
    Overlaps = {0, 1, 3}
    Types = {"txt", "docx", "xlsx", "pdf", "other"}
    MaxParagraphs = 3
    MaxSentences = 2
    MaxWords = 3
INVARIANTS
    TypeOK
    OversizedIsOnePiece
    ChunksCoverSection
    SectionsKeepBody
    TitleIsLastHeading
CHECK_DEADLOCK FALSE
