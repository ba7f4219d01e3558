------------------------------ MODULE Parsers ------------------------------
(* What parse_document (ingestion-worker/parsers.py) makes of a file.  What  *)
(* the libraries find in it is the file itself here: elements of a PDF or   *)
(* another type, paragraphs with a style, sheets of rows, a text; readable  *)
(* says whether the library raises.  A section is its title, its words and  *)
(* the paragraphs and sentences the chunker finds in them; punctuation and  *)
(* separators count with the word before them.                              *)
\* Definitions marked "Mutant" are wrong forms of the definition after them.
EXTENDS Naturals, Sequences, SequencesExt

Joined(paragraphs) == FlattenSeq([i \in 1..Len(paragraphs) |-> paragraphs[i].words])

NewSection(title, paragraphs) ==
    [words |-> Joined(paragraphs), title |-> title, paragraphs |-> paragraphs]

\* Lines joined by "\n" are one paragraph for the chunker.
NewParagraph(lines) ==
    [words |-> Joined(lines),
     sentences |-> FlattenSeq([i \in 1..Len(lines) |-> lines[i].sentences])]

NoTitle == 0

Returned(sections) == [raised |-> FALSE, sections |-> sections]
Raised == [raised |-> TRUE, sections |-> <<>>]

\* Every parser has an "except Exception" of its own that returns [].
Swallowed(file, sections) == Returned(IF file.readable THEN sections ELSE <<>>)

\* What a loop appends to its list: the parts that have text.
WithText(parts) ==
    LET kept[m \in 0..Len(parts)] ==
          IF m = 0 THEN <<>>
          ELSE IF parts[m].words = <<>> THEN kept[m - 1]
          ELSE Append(kept[m - 1], parts[m])
    IN  kept[Len(parts)]

\* _parse_pdf and _parse_with_unstructured: an element with text is a section.
ParsePdf(file) == Swallowed(file, WithText(file.body))

\* What Tesseract reads off the pages: all of the text.
ParsePdfOcr(file) == file.body

\* Save the section that ends here, if it has any text.
Saved(state) ==
    IF state.lines = <<>> THEN state.sections
    ELSE Append(state.sections, NewSection(state.title, <<NewParagraph(state.lines)>>))

\* Mutant: a heading does not save the section before it.
ReadParagraph_HeadingOnly(state, para) ==
    CASE para.heading -> [state EXCEPT !.title = para.title]
      [] ~para.heading /\ para.words # <<>> ->
           [state EXCEPT !.lines = Append(@, para)]
      [] OTHER -> state

ReadParagraph(state, para) ==
    CASE para.heading ->
           [sections |-> Saved(state), title |-> para.title, lines |-> <<>>]
      [] ~para.heading /\ para.words # <<>> ->
           [state EXCEPT !.lines = Append(@, para)]
      [] OTHER -> state

\* Reading(body)[m]: the variables of the loop after m paragraphs.
Reading(body) ==
    LET after[m \in 0..Len(body)] ==
          IF m = 0 THEN [sections |-> <<>>, title |-> NoTitle, lines |-> <<>>]
          ELSE ReadParagraph(after[m - 1], body[m])
    IN  after

\* The text under one heading is one section; a heading without text is lost.
ParseDocx(file) == Swallowed(file, Saved(Reading(file.body)[Len(file.body)]))

NoCell == 0
ColumnNumber(i) == 900 + i          \* the name col_<i> of a column without one

Header(sheet, i) ==
    IF i <= Len(sheet[1]) /\ sheet[1][i] # NoCell THEN sheet[1][i]
    ELSE ColumnNumber(i)

\* "<header>: <cell>" for the cells that are not None.
RowText(sheet, row) ==
    FlattenSeq([i \in 1..Len(row) |->
        IF row[i] = NoCell THEN <<>> ELSE <<Header(sheet, i), row[i]>>])

RowSection(sheet, r) ==
    LET text == RowText(sheet, sheet[r])
    IN  NewSection(r - 1, <<[words |-> text, sentences |-> <<[words |-> text]>>]>>)

SheetSections(sheet) ==
    WithText([r \in 1..(Len(sheet) - 1) |-> RowSection(sheet, r + 1)])

\* Mutant: only the active sheet is read.
ParseExcel_ActiveSheet(file) ==
    Swallowed(file, IF file.body[1] = <<>> THEN <<>> ELSE SheetSections(file.body[1]))

\* A row below the first of its sheet, with a cell in it, is a section.
ParseExcel(file) ==
    Swallowed(file, FlattenSeq([n \in 1..Len(file.body) |->
        IF file.body[n] = <<>> THEN <<>> ELSE SheetSections(file.body[n])]))

\* The text from its first to its last paragraph with a word.
Stripped(body) ==
    LET inked == {i \in 1..Len(body) : body[i].words # <<>>}
    IN  SubSeq(body, Min(inked), Max(inked))

\* The whole text, stripped, is one section; nothing but blanks is none.
ParseText(file) ==
    Swallowed(file, IF Joined(file.body) = <<>> THEN <<>>
                    ELSE <<NewSection(NoTitle, Stripped(file.body))>>)

Dispatch(file) ==
    CASE file.type \in {"pdf", "other"} -> ParsePdf(file)
      [] file.type = "docx" -> ParseDocx(file)
      [] file.type = "xlsx" -> ParseExcel(file)
      [] file.type = "txt" -> ParseText(file)

\* The except clause with the OCR is never reached: no parser raises.
ParseDocument(file) ==
    LET result == Dispatch(file)
    IN  CASE ~result.raised -> result.sections
          [] result.raised /\ file.type = "pdf" -> ParsePdfOcr(file)
          [] OTHER -> <<>>
=============================================================================
