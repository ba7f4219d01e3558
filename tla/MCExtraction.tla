---------------------------- MODULE MCExtraction ----------------------------
(* Small files for TLC: texts of several paragraphs, Word documents, PDFs   *)
(* and sheets, readable or not.  A word is the number of its place, so no   *)
(* word occurs twice in a file.                                             *)
EXTENDS Extraction

CONSTANTS
    Types,
    MaxParagraphs,      \* bound: paragraphs of a text
    MaxSentences,       \* bound: sentences of a paragraph
    MaxWords            \* bound: words of a sentence

Flat(texts) ==
    [i \in 1..Len(texts) |->
        [words |-> P!Joined(texts[i]), sentences |-> texts[i]]]

\* lengths[i][j]: the number of words of sentence j of paragraph i.
TextOf(lengths) ==
    Flat([i \in 1..Len(lengths) |->
        [j \in 1..Len(lengths[i]) |->
            [words |-> [k \in 1..lengths[i][j] |-> 100 * i + 10 * j + k]]]])

SeqUpTo(S, n) == UNION {[1..m -> S] : m \in 0..n}

Shapes == SeqUpTo(SeqUpTo(1..MaxWords, MaxSentences), MaxParagraphs)

Texts == {TextOf(s) : s \in Shapes \ {<<>>}}

\* One sentence a line, 0 words for a blank one; every third line may be a
\* heading with the title 7 or 8.
Line(i, n, heading) ==
    LET words == [k \in 1..n |-> 100 * i + k]
    IN  [heading |-> heading, title |-> 7 + (i % 2), words |-> words,
         sentences |-> IF n = 0 THEN <<>> ELSE <<[words |-> words]>>]

DocxBodies ==
    {[i \in DOMAIN f |-> Line(i, f[i][1], f[i][2])] :
        f \in SeqUpTo((0..2) \X BOOLEAN, 4)}

PdfBodies ==
    {[i \in DOMAIN f |-> P!NewSection(i, TextOf(<<f[i]>>))] :
        f \in SeqUpTo(SeqUpTo(1..MaxWords, 2), 2)}

\* Two sheets; TRUE stands for a cell with a value.
Sheet(n, f) ==
    [r \in DOMAIN f |-> [c \in DOMAIN f[r] |->
        IF f[r][c] THEN 100 * n + 10 * r + c ELSE P!NoCell]]

XlsxBodies ==
    {<<Sheet(1, f), Sheet(2, <<<<TRUE>>, <<TRUE, TRUE>>>>)>> :
        f \in SeqUpTo(SeqUpTo(BOOLEAN, 2), 3)}

Bodies(type) ==
    CASE type = "txt" -> Texts
      [] type = "docx" -> DocxBodies
      [] type = "xlsx" -> XlsxBodies
      [] type \in {"pdf", "other"} -> PdfBodies

Files ==
    UNION {{[type |-> t, readable |-> r, body |-> b] : r \in BOOLEAN, b \in Bodies(t)} :
        t \in Types}

\* These are files as the theorems are about, and the chunker is given whole
\* sections (Chunker!Whole).
ASSUME FilesAreWhole ==
    \A f \in Files :
        /\ WellFormed(f)
        /\ LET sections == P!ParseDocument(f) IN
             \A n \in 1..Len(sections) : Whole(sections[n])

MCInit == file \in Files /\ Parse

MCSpec == MCInit /\ [][ExtractionNext]_<<vars, file>>
=============================================================================
