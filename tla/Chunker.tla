------------------------------- MODULE Chunker -------------------------------
(* How the sections of a parsed document become chunks                      *)
(* (ingestion-worker/chunker.py).  A section longer than chunk_size is cut  *)
(* at its paragraphs, a paragraph at its sentences, a sentence into slices  *)
(* of words; the loops over paragraphs and over sentences have one shape,   *)
(* collect pieces until they no longer fit, save, carry the last words over *)
(* as an overlap.  One step is one iteration of a loop.                     *)
(*                                                                          *)
(* A text is the sequence of its words; white space and wording are left    *)
(* out, and so are page and file name, which follow the section.            *)
(*                                                                          *)
(* Definitions marked "Mutant" are not part of the model: each is a wrong   *)
(* form of the definition after it that one of the properties rejects.      *)
EXTENDS Naturals, Sequences

CONSTANTS
    ChunkSizes,     \* the values of "chunk_size" in CHUNK_CONFIGS
    Overlaps        \* the values of "overlap"

ASSUME ChunkerAssumption ==
    /\ ChunkSizes \subseteq Nat \ {0}
    /\ Overlaps \subseteq Nat

\* Every entry of CHUNK_CONFIGS has an overlap smaller than its size.
Configs == {c \in [size : ChunkSizes, overlap : Overlaps] : c.overlap < c.size}

Word == Nat
Text == Seq(Word)
Sentence == [words : Text]
Paragraph == [words : Text, sentences : Seq(Sentence)]
Section == [words : Text, title : Word, paragraphs : Seq(Paragraph)]

VARIABLES
    document,       \* the sections the parser returned
    config,         \* the entry of CHUNK_CONFIGS for the type of the file
    level,          \* the loop that is running
    at,             \* the section it is in
    paragraphs,     \* the paragraphs that loop has still to read
    sentences,      \* the sentences that loop has still to read
    current,        \* current[l]: current_chunk of loop l, its words and the
                    \* number of pieces in it
    chunks          \* [section, words] in the order of their points

vars == <<document, config, level, at, paragraphs, sentences, current, chunks>>

Chunk == [section : Nat, words : Text]
Loops == {"paragraph", "sentence"}
Nothing == [words |-> <<>>, pieces |-> 0]

TypeOK ==
    /\ document \in Seq(Section)
    /\ config \in Configs
    /\ level \in {"section", "done"} \cup Loops
    /\ at \in 1..(Len(document) + 1)
    /\ level \in Loops => at <= Len(document)
    /\ paragraphs \in Seq(Paragraph)
    /\ sentences \in Seq(Sentence)
    /\ current \in [Loops -> [words : Text, pieces : Nat]]
    /\ chunks \in Seq(Chunk)

Start ==
    /\ config \in Configs
    /\ level = "section"
    /\ at = 1
    /\ paragraphs = <<>>
    /\ sentences = <<>>
    /\ current = [l \in Loops |-> Nothing]
    /\ chunks = <<>>

Init == document \in Seq(Section) /\ Start

Saved(words) == Append(chunks, [section |-> at, words |-> words])

--------------------------------------------------------------------------
\* chunk_document: the loop over the sections

NextSection ==
    LET section == document[at]
        n == Len(section.words)
    IN  /\ level = "section"
        /\ at <= Len(document)
        /\ \/ /\ n <= config.size       \* empty, or short enough
              /\ chunks' = IF n = 0 THEN chunks ELSE Saved(section.words)
              /\ at' = at + 1
              /\ UNCHANGED <<level, paragraphs, sentences>>
           \/ /\ n > config.size
              /\ Len(section.paragraphs) > 1
              /\ level' = "paragraph"
              /\ paragraphs' = section.paragraphs
              /\ UNCHANGED <<at, sentences, chunks>>
           \/ /\ n > config.size
              /\ Len(section.paragraphs) = 1
              /\ level' = "sentence"
              /\ sentences' = section.paragraphs[1].sentences
              /\ UNCHANGED <<at, paragraphs, chunks>>
        /\ UNCHANGED <<document, config, current>>

AllRead ==
    /\ level = "section"
    /\ at > Len(document)
    /\ level' = "done"
    /\ UNCHANGED <<document, config, at, paragraphs, sentences, current, chunks>>

--------------------------------------------------------------------------
\* One iteration of the loop l, which has read the piece p

Joined(l, p) == current[l].words \o p.words

\* Mutant: the overlap is counted from the wrong end.
Overlap_First(words) ==
    IF Len(words) <= config.overlap THEN words
    ELSE SubSeq(words, 1, config.overlap)

\* _get_overlap_text
Overlap(words) ==
    IF Len(words) <= config.overlap THEN words
    ELSE SubSeq(words, Len(words) - config.overlap + 1, Len(words))

Fits(l, p) == Len(Joined(l, p)) <= config.size

Collect(l, p) ==
    /\ Fits(l, p)
    /\ current' = [current EXCEPT
         ![l] = [words |-> Joined(l, p), pieces |-> @.pieces + 1]]
    /\ UNCHANGED <<level, chunks>>

\* Mutant: the piece that does not fit stays in the chunk that is saved.
SaveAndCarry_WithoutPop(l, p) ==
    /\ ~Fits(l, p)
    /\ current[l].pieces > 0
    /\ chunks' = Saved(Joined(l, p))
    /\ current' = [current EXCEPT ![l] =
         [words |-> Overlap(Joined(l, p)),
          pieces |-> IF config.overlap > 0 THEN 1 ELSE 0]]
    /\ UNCHANGED level

\* The piece that does not fit starts the next chunk after the overlap; nothing
\* looks at its size again, nor at that of the two together.
SaveAndCarry(l, p) ==
    /\ ~Fits(l, p)
    /\ current[l].pieces > 0
    /\ chunks' = Saved(current[l].words)
    /\ current' = [current EXCEPT ![l] =
         [words |-> Overlap(@.words) \o p.words,
          pieces |-> IF config.overlap > 0 THEN 2 ELSE 1]]
    /\ UNCHANGED level

TooLarge(l, p) == ~Fits(l, p) /\ current[l].pieces = 0

\* What is left when the loop has read everything.
Remaining(l) == IF current[l].pieces > 0 THEN Saved(current[l].words) ELSE chunks

--------------------------------------------------------------------------
\* _recursive_split: the loop over the paragraphs

NextParagraph ==
    /\ level = "paragraph"
    /\ paragraphs # <<>>
    /\ LET p == Head(paragraphs)
       IN  \/ /\ p.words = <<>>
              /\ UNCHANGED <<level, sentences, current, chunks>>
           \/ /\ p.words # <<>>
              /\ Collect("paragraph", p) \/ SaveAndCarry("paragraph", p)
              /\ UNCHANGED sentences
           \/ /\ TooLarge("paragraph", p)
              /\ level' = "sentence"
              /\ sentences' = p.sentences
              /\ UNCHANGED <<current, chunks>>
    /\ paragraphs' = Tail(paragraphs)
    /\ UNCHANGED <<document, config, at>>

EndOfSection ==
    /\ level = "paragraph"
    /\ paragraphs = <<>>
    /\ chunks' = Remaining("paragraph")
    /\ current' = [current EXCEPT !["paragraph"] = Nothing]
    /\ level' = "section"
    /\ at' = at + 1
    /\ UNCHANGED <<document, config, paragraphs, sentences>>

--------------------------------------------------------------------------
\* _split_by_sentences and _split_by_words

Slices(words) ==
    LET n == Len(words)
        last(k) == IF k * config.size < n THEN k * config.size ELSE n
    IN  [k \in 1..((n + config.size - 1) \div config.size) |->
           [section |-> at,
            words |-> SubSeq(words, (k - 1) * config.size + 1, last(k))]]

NextSentence ==
    /\ level = "sentence"
    /\ sentences # <<>>
    /\ LET s == Head(sentences)
       IN  \/ Collect("sentence", s)
           \/ SaveAndCarry("sentence", s)
           \/ /\ TooLarge("sentence", s)
              /\ chunks' = chunks \o Slices(s.words)
              /\ UNCHANGED <<level, current>>
    /\ sentences' = Tail(sentences)
    /\ UNCHANGED <<document, config, at, paragraphs>>

\* Mutant: every paragraph is taken for the only one of its section.
EndOfParagraph_NextSection ==
    /\ level = "sentence"
    /\ sentences = <<>>
    /\ chunks' = Remaining("sentence")
    /\ current' = [current EXCEPT !["sentence"] = Nothing]
    /\ at' = at + 1
    /\ level' = IF Len(document[at].paragraphs) > 1 THEN "paragraph" ELSE "section"
    /\ UNCHANGED <<document, config, paragraphs, sentences>>

\* Back to the loop over the paragraphs, or, for a section of one paragraph, to
\* the next section.
EndOfParagraph ==
    /\ level = "sentence"
    /\ sentences = <<>>
    /\ chunks' = Remaining("sentence")
    /\ current' = [current EXCEPT !["sentence"] = Nothing]
    /\ IF Len(document[at].paragraphs) > 1
       THEN level' = "paragraph" /\ UNCHANGED at
       ELSE level' = "section" /\ at' = at + 1
    /\ UNCHANGED <<document, config, paragraphs, sentences>>

Next ==
    \/ NextSection
    \/ AllRead
    \/ NextParagraph
    \/ EndOfSection
    \/ NextSentence
    \/ EndOfParagraph

Spec == Init /\ [][Next]_vars

--------------------------------------------------------------------------
\* Properties

\* What the two loops take a section apart into.
IsPieceOf(text, section) ==
    \E i \in 1..Len(section.paragraphs) :
        \/ text = section.paragraphs[i].words
        \/ \E j \in 1..Len(section.paragraphs[i].sentences) :
             text = section.paragraphs[i].sentences[j].words

OnePiece(words, section) ==
    \E k \in 1..(config.overlap + 1) :
        k <= Len(words) /\ IsPieceOf(SubSeq(words, k, Len(words)), section)

\* A chunk longer than chunk_size is never the result of collecting pieces: it
\* is one paragraph or one sentence with at most overlap words in front of it,
\* so the longest paragraph and the overlap bound what is sent to the embedding
\* model (chunker.py:105-127, 166-186).
OversizedIsOnePiece ==
    \A i \in 1..Len(chunks) :
        \/ Len(chunks[i].words) <= config.size
        \/ OnePiece(chunks[i].words, document[chunks[i].section])

\* The parts follow one another in the text between two places.
Cover(parts, text, from, to) ==
    \E off \in [1..(Len(parts) + 1) -> 0..Len(text)] :
        /\ off[1] = from /\ off[Len(parts) + 1] = to
        /\ \A i \in 1..Len(parts) :
             off[i] <= off[i + 1] /\ parts[i].words = SubSeq(text, off[i] + 1, off[i + 1])

WholeParagraph(p) ==
    /\ Cover(p.sentences, p.words, 0, Len(p.words))
    /\ \A j \in 1..Len(p.sentences) : p.sentences[j].words # <<>>

NoneTwice(text) == \A j, k \in 1..Len(text) : text[j] = text[k] => j = k

\* A section is its paragraphs, a paragraph its sentences; no word is repeated.
Whole(section) ==
    /\ Cover(section.paragraphs, section.words, 0, Len(section.words))
    /\ \A i \in 1..Len(section.paragraphs) : WholeParagraph(section.paragraphs[i])
    /\ NoneTwice(section.words)

\* The place of a chunk in its section: of its first and of its last word.
Place(w, text) == CHOOSE k \in 1..Len(text) : text[k] = w
From(c) == Place(c.words[1], document[c.section].words)
To(c) == From(c) + Len(c.words) - 1

\* Whatever loops cut a section, its chunks are stretches of its words in order,
\* the first begins at its first word, the last ends at its last, each brings
\* new words, and one begins where the one before it ended, or exactly one full
\* overlap (or all of a shorter chunk) earlier: no word is lost between two
\* loops and none is repeated beyond the overlap; and the chunks of a section
\* come before those of the next (chunker.py:97-139, 162-198, 212-221).  For
\* sections that are whole.
ChunksCoverSection ==
    /\ \A n \in 1..(at - 1) : document[n].words # <<>> =>
         \E i \in 1..Len(chunks) : chunks[i].section = n
    /\ \A i \in 1..Len(chunks) :
         LET c == chunks[i]
             first == i = 1 \/ chunks[i - 1].section # c.section
             last == i = Len(chunks) \/ chunks[i + 1].section # c.section
             next == chunks[i + 1]
         IN  /\ c.words # <<>>
             /\ c.words = SubSeq(document[c.section].words, From(c), To(c))
             /\ first => From(c) = 1 /\ (i > 1 => chunks[i - 1].section < c.section)
             /\ last /\ c.section < at => To(c) = Len(document[c.section].words)
             /\ ~last => /\ To(next) > To(c)
                         /\ From(next) \in {To(c) + 1, To(c) + 1 - Len(Overlap(c.words))}

=============================================================================
