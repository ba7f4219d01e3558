SPECIFICATION MCSpec
CONSTANTS
    ChunkSizes = {2, 4}
    Overlaps = {0, 1, 3}
    Types = {"pdf"}
    MaxParagraphs = 3
    MaxSentences = 2
    MaxWords = 3
INVARIANT
    PdfWithTextIsRead
CHECK_DEADLOCK FALSE
