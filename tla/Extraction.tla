----------------------------- MODULE Extraction -----------------------------
(* The first two steps of ingest_document (ingestion-worker/tasks.py:206-   *)
(* 217): a file is parsed and its sections are cut into chunks.             *)
EXTENDS Chunker, FiniteSets

P == INSTANCE Parsers

VARIABLE file       \* [type, readable, body], as in Parsers

DifferentWords(parts) ==
    \A i, j \in 1..Len(parts) :
        \A k \in 1..Len(parts[i].words), l \in 1..Len(parts[j].words) :
            parts[i].words[k] = parts[j].words[l] => i = j /\ k = l

DocxLine == [heading : BOOLEAN, title : Word, words : Text, sentences : Seq(Sentence)]

\* What a file is: its paragraphs are their sentences, and a word stands for its
\* place, so none occurs twice in what may become one section; a sheet without a
\* row has no header.
WellFormed(f) ==
    /\ f.readable \in BOOLEAN
    /\ \/ /\ f.type \in {"pdf", "other"}
          /\ f.body \in Seq(Section)
          /\ \A i \in 1..Len(f.body) : Whole(f.body[i])
       \/ /\ \/ f.type = "txt" /\ f.body \in Seq(Paragraph)
             \/ f.type = "docx" /\ f.body \in Seq(DocxLine)
          /\ \A i \in 1..Len(f.body) : WholeParagraph(f.body[i])
          /\ DifferentWords(f.body)
       \/ /\ f.type = "xlsx"
          /\ f.body \in Seq(Seq(Text))
          /\ \A n \in 1..Len(f.body) : \A r \in 2..Len(f.body[n]) :
               NoneTwice(P!RowText(f.body[n], f.body[n][r]))

Parse ==
    /\ document = P!ParseDocument(file)
    /\ Start

ExtractionNext == Next /\ UNCHANGED file

ExtractionSpec ==
    WellFormed(file) /\ Parse /\ [][ExtractionNext]_<<vars, file>>

--------------------------------------------------------------------------
\* What a reader of the file sees, defined without the parsers

Filled(row) == {i \in 1..Len(row) : row[i] # P!NoCell}

\* The cells of a sheet below its first row, each as <<sheet, row, column>>.
Cells ==
    UNION {UNION {{<<n, r, i>> : i \in Filled(file.body[n][r])} :
                  r \in 2..Len(file.body[n])} : n \in 1..Len(file.body)}

ColumnName(c) ==
    IF c[3] <= Len(file.body[c[1]][1]) /\ file.body[c[1]][1][c[3]] # P!NoCell
    THEN file.body[c[1]][1][c[3]]
    ELSE P!ColumnNumber(c[3])

LineWords(i) == IF file.body[i].heading THEN <<>> ELSE file.body[i].words

Lines == P!FlattenSeq([i \in 1..Len(file.body) |-> LineWords(i)])

Extracted == P!Joined(document)

\* A file that can be read loses nothing of its text and keeps its order: the
\* sections hold the elements, the lines that are not headings, or the whole
\* text; of a sheet every cell below the first row, behind the name of its own
\* column, in the section of its row (parsers.py:25-42, 53-67, 107-132, 148-175).
SectionsKeepBody ==
    file.readable =>
      CASE file.type = "xlsx" ->
             /\ \A c \in Cells :
                  \E i \in 1..Len(document) : \E k \in 2..Len(document[i].words) :
                      /\ document[i].title = c[2] - 1
                      /\ document[i].words[k] = file.body[c[1]][c[2]][c[3]]
                      /\ document[i].words[k - 1] = ColumnName(c)
             /\ Len(Extracted) = 2 * Cardinality(Cells)
        [] file.type = "docx" -> Extracted = Lines
        [] OTHER -> Extracted = P!Joined(file.body)

\* A PDF with text gives a section, if not by Unstructured then by the OCR
\* (parsers.py:3 "OCR fallback for scanned PDFs", 38-41).
PdfWithTextIsRead ==
    file.type = "pdf" /\ P!Joined(file.body) # <<>> => document # <<>>

IsLine(j) == ~file.body[j].heading /\ file.body[j].words # <<>>

HeadingsAbove(j) == {h \in 1..(j - 1) : file.body[h].heading}

TitleAbove(j) ==
    IF HeadingsAbove(j) = {} THEN P!NoTitle ELSE file.body[P!Max(HeadingsAbove(j))].title

\* The sections that hold the first word of line j.
Home(j) ==
    {i \in 1..Len(document) :
        \E k \in 1..Len(document[i].words) : document[i].words[k] = file.body[j].words[1]}

\* In a document with headings every line is in one section, titled with the
\* last heading above it, and two lines are in the same one exactly if no
\* heading, even of the same title, is between them (parsers.py:107-132).
TitleIsLastHeading ==
    file.type = "docx" /\ file.readable =>
        \A j \in 1..Len(file.body) : IsLine(j) =>
            /\ Cardinality(Home(j)) = 1
            /\ \A i \in Home(j) : document[i].title = TitleAbove(j)
            /\ \A k \in 1..Len(file.body) : IsLine(k) =>
                 (Home(j) = Home(k) <=> HeadingsAbove(j) = HeadingsAbove(k))
=============================================================================
