---------------------------- MODULE ChunkerProofs ----------------------------
(* Theorems of Chunker for documents of any shape and any chunk size and     *)
(* overlap, and of the parsers for files of any type and length: what they   *)
(* make of a file is what the chunker needs, and nothing of it is lost.      *)
EXTENDS Extraction, SequenceTheorems, FiniteSetTheorems, RecursionProofs

--------------------------------------------------------------------------
\* Words, overlaps and slices

\* The numbers of a configuration.
LEMMA ConfigNumbers ==
    ASSUME NEW c \in Configs
    PROVE  c.size \in Nat /\ c.size > 0 /\ c.overlap \in Nat /\ c.overlap < c.size
<1>1. c.size \in ChunkSizes /\ c.overlap \in Overlaps /\ c.overlap < c.size
  BY DEF Configs
<1>2. c.size \in Nat /\ c.size # 0 /\ c.overlap \in Nat
  BY <1>1, ChunkerAssumption, Zenon DEF ChunkerAssumption
<1> QED BY <1>1, <1>2

\* The overlap is a text of at most the configured length.
LEMMA OverlapIsShort ==
    ASSUME config \in Configs, NEW words \in Text
    PROVE  Overlap(words) \in Text /\ Len(Overlap(words)) <= config.overlap
<1> DEFINE n == Len(words)
           o == config.overlap
<1>1. o \in Nat /\ n \in Nat
  BY ConfigNumbers, LenProperties DEF Text
<1>2. CASE n <= o
  BY <1>2 DEF Overlap
<1>3. CASE n > o
  <2>1. \A i \in (n - o + 1)..n : words[i] \in Word
    BY <1>1, <1>3, ElementOfSeq DEF Text
  <2>2. n - o + 1 \in Int /\ n \in Int
    BY <1>1
  <2>3. SubSeq(words, n - o + 1, n) \in Text
          /\ Len(SubSeq(words, n - o + 1, n)) =
               IF n - o + 1 <= n THEN n - (n - o + 1) + 1 ELSE 0
    BY <2>1, <2>2, SubSeqProperties DEF Text
  <2>4. Overlap(words) = SubSeq(words, n - o + 1, n)
    <3>1. ~(Len(words) <= config.overlap)
      BY <1>1, <1>3
    <3> QED BY <3>1 DEF Overlap
  <2> QED BY <1>1, <2>3, <2>4
<1> QED BY <1>1, <1>2, <1>3

\* The slices of a sentence are chunks no longer than chunk_size.
LEMMA SlicesAreShort ==
    ASSUME config \in Configs, at \in Nat, NEW words \in Text
    PROVE  /\ Slices(words) \in Seq(Chunk)
           /\ \A k \in 1..Len(Slices(words)) :
                Len(Slices(words)[k].words) <= config.size
<1> DEFINE n == Len(words)
           s == config.size
           m == (n + s - 1) \div s
           last(k) == IF k * s < n THEN k * s ELSE n
           slice(k) == SubSeq(words, (k - 1) * s + 1, last(k))
<1>1. s \in Nat /\ s > 0 /\ n \in Nat /\ n + s - 1 \in Nat
  BY ConfigNumbers, LenProperties DEF Text
<1>2. m \in Nat
  BY <1>1
<1>3. ASSUME NEW k \in 1..m PROVE slice(k) \in Text /\ Len(slice(k)) <= s
  <2> DEFINE f == (k - 1) * s
  <2>1. k * s = f + s /\ f \in Nat
    BY <1>1, <1>3
  <2> HIDE DEF f
  <2>2. last(k) \in Int /\ f + 1 \in Int /\ last(k) <= n /\ last(k) <= f + s
    BY <1>1, <2>1
  <2>3. \A i \in (f + 1)..last(k) : words[i] \in Word
    <3>1. ASSUME NEW i \in (f + 1)..last(k) PROVE i \in 1..n
      BY <1>1, <2>1, <2>2
    <3> QED BY <3>1, ElementOfSeq DEF Text
  <2> HIDE DEF last
  <2>4. /\ SubSeq(words, f + 1, last(k)) \in Seq(Word)
        /\ Len(SubSeq(words, f + 1, last(k))) =
             IF f + 1 <= last(k) THEN last(k) - (f + 1) + 1 ELSE 0
    BY <2>2, <2>3, SubSeqProperties
  <2>5. Len(SubSeq(words, f + 1, last(k))) <= s
    BY <1>1, <2>1, <2>2, <2>4
  <2>6. slice(k) = SubSeq(words, f + 1, last(k))
    BY DEF f
  <2> QED BY <2>4, <2>5, <2>6 DEF Text
<1> DEFINE piece(k) == [section |-> at, words |-> slice(k)]
<1>4. Slices(words) = [k \in 1..m |-> piece(k)]
  BY DEF Slices
<1> HIDE DEF slice, m
<1>5. \A k \in 1..m : piece(k) \in Chunk
  BY <1>3 DEF Chunk
<1> HIDE DEF piece
<1>6. Slices(words) \in [1..m -> Chunk]
  BY <1>4, <1>5
<1>7. Slices(words) \in Seq(Chunk) /\ Len(Slices(words)) = m
  BY <1>2, <1>6
<1>8. \A k \in 1..m : Slices(words)[k].words = slice(k)
  BY <1>4 DEF piece
<1> QED BY <1>3, <1>7, <1>8

--------------------------------------------------------------------------
\* Types

Piece == [words : Text, pieces : Nat]

\* What the state before a step gives the proofs below.
LEMMA StateTypes ==
    ASSUME TypeOK
    PROVE  /\ config \in Configs /\ at \in Nat /\ chunks \in Seq(Chunk)
           /\ current \in [Loops -> Piece]
           /\ \A l \in Loops : current[l] \in Piece /\ current[l].words \in Text
                                                    /\ current[l].pieces \in Nat
           /\ Len(document) \in Nat
           /\ \A i \in 1..Len(document) : document[i] \in Section
<1>1. Len(document) \in Nat /\ \A i \in 1..Len(document) : document[i] \in Section
  BY LenProperties, ElementOfSeq DEF TypeOK
<1>2. current \in [Loops -> Piece]
  BY DEF TypeOK, Piece
<1>3. \A l \in Loops : current[l] \in Piece
  BY <1>2
<1>4. \A x \in Piece : x.words \in Text /\ x.pieces \in Nat
  BY DEF Piece
<1>5. at \in Nat
  BY <1>1 DEF TypeOK
<1> QED BY <1>1, <1>2, <1>3, <1>4, <1>5 DEF TypeOK

\* A chunk saved, or the pieces of a loop, or nothing.
LEMMA SavedIsTyped ==
    ASSUME TypeOK, NEW words \in Text PROVE Saved(words) \in Seq(Chunk)
<1>1. [section |-> at, words |-> words] \in Chunk
  BY StateTypes DEF Chunk
<1> QED BY <1>1, StateTypes, AppendProperties DEF Saved

\* What a loop leaves behind is a list of chunks.
LEMMA RemainingIsTyped ==
    ASSUME TypeOK, NEW l \in Loops PROVE Remaining(l) \in Seq(Chunk)
BY StateTypes, SavedIsTyped DEF Remaining

\* A loop may begin with nothing collected.
LEMMA NothingIsAPiece == Nothing \in Piece
<1>1. <<>> \in Text
  BY EmptySeq DEF Text
<1> QED BY <1>1 DEF Nothing, Piece

\* The two ways an iteration takes a piece in.
LEMMA PieceTaken ==
    ASSUME TypeOK, NEW l \in Loops, NEW p, p.words \in Text,
           Collect(l, p) \/ SaveAndCarry(l, p)
    PROVE  /\ current' \in [Loops -> Piece] /\ chunks' \in Seq(Chunk) /\ level' = level
<1>1. /\ current[l].words \in Text /\ current[l].pieces \in Nat
      /\ current \in [Loops -> Piece] /\ config \in Configs /\ chunks \in Seq(Chunk)
  BY StateTypes
<1>2. CASE Collect(l, p)
  <2>1. Joined(l, p) \in Text
    BY <1>1, ConcatProperties DEF Joined, Text
  <2>2. [words |-> Joined(l, p), pieces |-> current[l].pieces + 1] \in Piece
    BY <1>1, <2>1 DEF Piece
  <2>3. current' = [current EXCEPT
           ![l] = [words |-> Joined(l, p), pieces |-> current[l].pieces + 1]]
    BY <1>2 DEF Collect
  <2>4. current' \in [Loops -> Piece]
    BY <1>1, <2>2, <2>3
  <2> QED BY <1>1, <1>2, <2>4 DEF Collect
<1>3. CASE SaveAndCarry(l, p)
  <2>1. Overlap(current[l].words) \o p.words \in Text
    BY <1>1, OverlapIsShort, ConcatProperties DEF Text
  <2> DEFINE next == [words |-> Overlap(current[l].words) \o p.words,
                      pieces |-> IF config.overlap > 0 THEN 2 ELSE 1]
  <2>2. next \in Piece
    BY <2>1 DEF Piece
  <2>3. current' = [current EXCEPT ![l] = next]
    BY <1>3 DEF SaveAndCarry
  <2>4. chunks' \in Seq(Chunk) /\ level' = level
    BY <1>1, <1>3, SavedIsTyped DEF SaveAndCarry
  <2> HIDE DEF next
  <2> QED BY <1>1, <2>2, <2>3, <2>4
<1> QED BY <1>2, <1>3

\* What a section is made of.
LEMMA SectionTypes ==
    ASSUME NEW x \in Section
    PROVE  /\ x.words \in Text /\ x.paragraphs \in Seq(Paragraph)
           /\ \A i \in 1..Len(x.paragraphs) : /\ x.paragraphs[i].words \in Text
                                              /\ x.paragraphs[i].sentences \in Seq(Sentence)
<1>1. x.words \in Text /\ x.paragraphs \in Seq(Paragraph)
  BY DEF Section
<1>2. \A i \in 1..Len(x.paragraphs) : x.paragraphs[i] \in Paragraph
  BY <1>1, ElementOfSeq
<1> QED BY <1>1, <1>2 DEF Paragraph

\* The chunker begins well typed.
LEMMA InitIsTyped == Init => TypeOK
<1> SUFFICES ASSUME Init PROVE TypeOK
  OBVIOUS
<1>1. Len(document) \in Nat
  BY LenProperties DEF Init
<1>2. current \in [Loops -> Piece]
  BY NothingIsAPiece DEF Init, Start
<1>3. <<>> \in Seq(Chunk) /\ <<>> \in Seq(Paragraph) /\ <<>> \in Seq(Sentence)
  BY EmptySeq
<1> QED BY <1>1, <1>2, <1>3 DEF Init, Start, TypeOK, Piece, Loops

\* One iteration of a loop keeps the types.
LEMMA NextIsTyped == ASSUME TypeOK, Next PROVE TypeOK'
<1>0. /\ config \in Configs /\ at \in Nat /\ chunks \in Seq(Chunk)
      /\ current \in [Loops -> Piece] /\ Len(document) \in Nat
      /\ document \in Seq(Section) /\ at \in 1..(Len(document) + 1)
      /\ paragraphs \in Seq(Paragraph) /\ sentences \in Seq(Sentence)
      /\ level \in {"section", "done"} \cup Loops /\ (level \in Loops => at <= Len(document))
  BY StateTypes DEF TypeOK
<1> SUFFICES /\ level' \in {"section", "done"} \cup Loops
             /\ at' \in 1..(Len(document) + 1)
             /\ (level' \in Loops => at' <= Len(document))
             /\ paragraphs' \in Seq(Paragraph) /\ sentences' \in Seq(Sentence)
             /\ current' \in [Loops -> Piece] /\ chunks' \in Seq(Chunk)
             /\ UNCHANGED <<document, config>>
  BY <1>0 DEF TypeOK, Piece, Loops
<1>1. CASE NextSection
  <2>1. document[at] \in Section /\ at + 1 \in 1..(Len(document) + 1) /\ at <= Len(document)
    BY <1>0, <1>1, StateTypes DEF NextSection
  <2>2. /\ document[at].words \in Text /\ document[at].paragraphs \in Seq(Paragraph)
        /\ 1 \in 1..Len(document[at].paragraphs) =>
             document[at].paragraphs[1].sentences \in Seq(Sentence)
    BY <2>1, SectionTypes
  <2>3. Saved(document[at].words) \in Seq(Chunk)
    BY <2>2, SavedIsTyped
  <2>4. Len(document[at].paragraphs) = 1 => 1 \in 1..Len(document[at].paragraphs)
    OBVIOUS
  <2> QED BY <1>0, <1>1, <2>1, <2>2, <2>3, <2>4 DEF NextSection, Loops
<1>2. CASE AllRead
  BY <1>0, <1>2 DEF AllRead, Loops
<1>3. CASE NextParagraph
  <2> DEFINE p == Head(paragraphs)
  <2>1. p \in Paragraph /\ Tail(paragraphs) \in Seq(Paragraph)
    BY <1>0, <1>3, HeadTailProperties DEF NextParagraph
  <2>2. p.words \in Text /\ p.sentences \in Seq(Sentence)
    BY <2>1 DEF Paragraph
  <2> HIDE DEF p
  <2>3. /\ paragraphs' = Tail(paragraphs) /\ UNCHANGED <<document, config, at>>
        /\ level = "paragraph"
        /\ \/ UNCHANGED <<level, sentences, current, chunks>>
           \/ /\ Collect("paragraph", p) \/ SaveAndCarry("paragraph", p)
              /\ UNCHANGED sentences
           \/ /\ level' = "sentence" /\ sentences' = p.sentences
              /\ UNCHANGED <<current, chunks>>
    BY <1>3 DEF NextParagraph, p
  <2>4. "paragraph" \in Loops /\ "sentence" \in Loops
    BY DEF Loops
  <2>5. CASE Collect("paragraph", p) \/ SaveAndCarry("paragraph", p)
    <3>1. current' \in [Loops -> Piece] /\ chunks' \in Seq(Chunk) /\ level' = level
      BY <2>2, <2>4, <2>5, PieceTaken
    <3>2. sentences' \in Seq(Sentence)
      BY <1>0, <2>2, <2>3
    <3> QED BY <1>0, <2>1, <2>3, <3>1, <3>2
  <2> QED BY <1>0, <2>1, <2>2, <2>3, <2>4, <2>5
<1>4. CASE EndOfSection
  <2>1. Remaining("paragraph") \in Seq(Chunk)
    BY RemainingIsTyped DEF Loops
  <2>2. current' \in [Loops -> Piece]
    BY <1>0, <1>4, NothingIsAPiece DEF EndOfSection
  <2>3. at + 1 \in 1..(Len(document) + 1)
    BY <1>0, <1>4 DEF EndOfSection, Loops
  <2> QED BY <1>0, <1>4, <2>1, <2>2, <2>3 DEF EndOfSection, Loops
<1>5. CASE NextSentence
  <2> DEFINE s == Head(sentences)
  <2>1. s \in Sentence /\ Tail(sentences) \in Seq(Sentence)
    BY <1>0, <1>5, HeadTailProperties DEF NextSentence
  <2>2. s.words \in Text
    BY <2>1 DEF Sentence
  <2> HIDE DEF s
  <2>3. /\ sentences' = Tail(sentences) /\ UNCHANGED <<document, config, at, paragraphs>>
        /\ level = "sentence"
        /\ \/ Collect("sentence", s) \/ SaveAndCarry("sentence", s)
           \/ chunks' = chunks \o Slices(s.words) /\ UNCHANGED <<level, current>>
    BY <1>5 DEF NextSentence, s
  <2>4. "sentence" \in Loops
    BY DEF Loops
  <2>5. CASE Collect("sentence", s) \/ SaveAndCarry("sentence", s)
    BY <1>0, <2>1, <2>2, <2>3, <2>4, <2>5, PieceTaken
  <2>6. CASE chunks' = chunks \o Slices(s.words) /\ UNCHANGED <<level, current>>
    <3>1. chunks' \in Seq(Chunk)
      BY <1>0, <2>2, <2>6, SlicesAreShort, ConcatProperties
    <3> QED BY <1>0, <2>1, <2>3, <2>6, <3>1
  <2> QED BY <2>3, <2>5, <2>6
<1>6. CASE EndOfParagraph
  <2>1. Remaining("sentence") \in Seq(Chunk)
    BY RemainingIsTyped DEF Loops
  <2>2. current' \in [Loops -> Piece]
    BY <1>0, <1>6, NothingIsAPiece DEF EndOfParagraph
  <2>3. at <= Len(document) /\ at + 1 \in 1..(Len(document) + 1)
    BY <1>0, <1>6 DEF EndOfParagraph, Loops
  <2> QED BY <1>0, <1>6, <2>1, <2>2, <2>3 DEF EndOfParagraph, Loops
<1> QED BY <1>1, <1>2, <1>3, <1>4, <1>5, <1>6 DEF Next

\* Loops, pieces and chunks have their types, and a loop runs within a section.
THEOREM TypeCorrect == Spec => []TypeOK
<1>1. TypeOK /\ UNCHANGED vars => TypeOK'
  BY DEF TypeOK, vars
<1>2. TypeOK /\ [Next]_vars => TypeOK'
  BY <1>1, NextIsTyped
<1> QED BY <1>2, InitIsTyped, PTL DEF Spec

--------------------------------------------------------------------------
\* What a chunk longer than chunk_size is

Small(words, section) == Len(words) <= config.size \/ OnePiece(words, section)

AllSmall(list) ==
    \A i \in 1..Len(list) : Small(list[i].words, document[list[i].section])

\* What the loops have still to read are parts of the section they are in, ..
IsParagraph(p) ==
    \E k \in 1..Len(document[at].paragraphs) : p = document[at].paragraphs[k]

IsSentence(s) ==
    \E k \in 1..Len(document[at].paragraphs) :
        \E m \in 1..Len(document[at].paragraphs[k].sentences) :
            s = document[at].paragraphs[k].sentences[m]

ParagraphsLeft ==
    paragraphs # <<>> =>
        /\ level \in Loops
        /\ Len(document[at].paragraphs) > 1
        /\ \A i \in 1..Len(paragraphs) : IsParagraph(paragraphs[i])

SentencesLeft ==
    sentences # <<>> =>
        level = "sentence" /\ \A i \in 1..Len(sentences) : IsSentence(sentences[i])

\* .. and what they have collected is short or one such part with an overlap.
ParagraphsCollected ==
    current["paragraph"].pieces > 0 =>
        /\ level \in Loops
        /\ Len(document[at].paragraphs) > 1
        /\ Small(current["paragraph"].words, document[at])

SentencesCollected ==
    current["sentence"].pieces > 0 =>
        level = "sentence" /\ Small(current["sentence"].words, document[at])

PieceInv ==
    /\ AllSmall(chunks)
    /\ ParagraphsLeft
    /\ SentencesLeft
    /\ ParagraphsCollected
    /\ SentencesCollected

\* Being small depends on the configuration only, which never changes.
LEMMA SmallStays ==
    ASSUME UNCHANGED config
    PROVE  \A words, section : Small(words, section)' <=> Small(words, section)
BY DEF Small, OnePiece, IsPieceOf

\* A list of small chunks is one in the next state.
LEMMA AllSmallStays ==
    ASSUME UNCHANGED <<config, document>>, NEW list, AllSmall(list), chunks' = list
    PROVE  AllSmall(chunks)'
<1>1. UNCHANGED config
  OBVIOUS
<1>2. \A words, section : Small(words, section)' <=> Small(words, section)
  BY <1>1, SmallStays
<1> QED BY <1>2 DEF AllSmall

\* Adding a small chunk of the section at hand, or small chunks of any.
LEMMA SavedIsSmall ==
    ASSUME TypeOK, AllSmall(chunks), NEW words \in Text, Small(words, document[at])
    PROVE  AllSmall(Saved(words))
<1> DEFINE new == [section |-> at, words |-> words]
<1>1. new \in Chunk /\ chunks \in Seq(Chunk)
  BY StateTypes DEF Chunk
<1>2. /\ Len(Append(chunks, new)) = Len(chunks) + 1 /\ Len(chunks) \in Nat
      /\ \A i \in 1..Len(chunks) : Append(chunks, new)[i] = chunks[i]
      /\ Append(chunks, new)[Len(chunks) + 1] = new
  BY <1>1, AppendProperties, LenProperties
<1>3. Small(new.words, document[new.section])
  OBVIOUS
<1> HIDE DEF new
<1>4. ASSUME NEW i \in 1..(Len(chunks) + 1)
      PROVE  Small(Append(chunks, new)[i].words, document[Append(chunks, new)[i].section])
  <2>1. CASE i \in 1..Len(chunks)
    BY <1>2, <2>1 DEF AllSmall
  <2>2. CASE i = Len(chunks) + 1
    BY <1>2, <1>3, <2>2
  <2> QED BY <1>2, <2>1, <2>2
<1> QED BY <1>2, <1>4 DEF AllSmall, Saved, new

\* Slices of words do not break the bound on chunks.
LEMMA SlicesAreSmall ==
    ASSUME TypeOK, AllSmall(chunks), NEW words \in Text
    PROVE  AllSmall(chunks \o Slices(words))
<1> DEFINE cut == Slices(words)
<1>1. /\ cut \in Seq(Chunk) /\ chunks \in Seq(Chunk)
      /\ \A k \in 1..Len(cut) : Len(cut[k].words) <= config.size
  BY StateTypes, SlicesAreShort
<1> HIDE DEF cut
<1>2. /\ Len(chunks \o cut) = Len(chunks) + Len(cut)
      /\ Len(chunks) \in Nat /\ Len(cut) \in Nat
      /\ \A i \in 1..(Len(chunks) + Len(cut)) : (chunks \o cut)[i] =
           IF i <= Len(chunks) THEN chunks[i] ELSE cut[i - Len(chunks)]
  BY <1>1, ConcatProperties, LenProperties
<1>3. ASSUME NEW i \in 1..(Len(chunks) + Len(cut))
      PROVE  Small((chunks \o cut)[i].words, document[(chunks \o cut)[i].section])
  <2>1. CASE i <= Len(chunks)
    <3>1. i \in 1..Len(chunks) /\ (chunks \o cut)[i] = chunks[i]
      BY <1>2, <2>1
    <3> QED BY <3>1 DEF AllSmall
  <2>2. CASE i > Len(chunks)
    <3>1. i - Len(chunks) \in 1..Len(cut) /\ (chunks \o cut)[i] = cut[i - Len(chunks)]
      BY <1>2, <2>2
    <3> QED BY <1>1, <3>1 DEF Small
  <2> QED BY <1>2, <2>1, <2>2
<1> QED BY <1>2, <1>3 DEF AllSmall, cut

\* The chunk a piece begins behind an overlap is small.
LEMMA CarriedIsSmall ==
    ASSUME config \in Configs, NEW words \in Text, NEW text \in Text, NEW section,
           IsPieceOf(text, section)
    PROVE  Small(Overlap(words) \o text, section)
<1> DEFINE o == Overlap(words)
           all == o \o text
<1>1. /\ o \in Text /\ Len(o) <= config.overlap /\ config.overlap < config.size
      /\ config.overlap \in Nat /\ config.size \in Nat
  BY OverlapIsShort, ConfigNumbers
<1> HIDE DEF o
<1>2. Len(o) \in Nat /\ Len(text) \in Nat /\ Len(all) = Len(o) + Len(text)
  BY <1>1, ConcatProperties, LenProperties DEF Text
<1>3. CASE Len(text) = 0
  BY <1>1, <1>2, <1>3 DEF Small, o
<1>4. CASE Len(text) > 0
  <2> DEFINE k == Len(o) + 1
  <2>1. k \in 1..(config.overlap + 1) /\ k <= Len(all)
    BY <1>1, <1>2, <1>4
  <2>2. k \in (Len(o) + 1)..(Len(o) + Len(text)) /\ Len(all) \in (Len(o) + 1)..(Len(o) + Len(text))
    BY <1>2, <1>4
  <2>3. SubSeq(all, k, Len(all)) = SubSeq(text, k - Len(o), Len(all) - Len(o))
    BY <1>1, <2>2, SubSeqOfConcat2 DEF Text
  <2>4. k - Len(o) = 1 /\ Len(all) - Len(o) = Len(text)
    BY <1>2
  <2>5. SubSeq(text, 1, Len(text)) = text
    BY SubSeqFull DEF Text
  <2>6. IsPieceOf(SubSeq(all, k, Len(all)), section)
    BY <2>3, <2>4, <2>5
  <2> HIDE DEF k, all
  <2>7. OnePiece(all, section)
    BY <2>1, <2>6 DEF OnePiece
  <2> QED BY <2>7 DEF Small, all, o
<1> QED BY <1>2, <1>3, <1>4

\* Taking a piece in, whichever loop does.
LEMMA TakenIsSmall ==
    ASSUME TypeOK, AllSmall(chunks), UNCHANGED <<config, document>>,
           NEW l \in Loops, NEW p, p.words \in Text, IsPieceOf(p.words, document[at]),
           current[l].pieces > 0 => Small(current[l].words, document[at]),
           Collect(l, p) \/ SaveAndCarry(l, p)
    PROVE  /\ AllSmall(chunks)'
           /\ Small(current'[l].words, document[at])
           /\ \A k \in Loops \ {l} : current'[k] = current[k]
<1>1. config \in Configs /\ current \in [Loops -> Piece] /\ current[l].words \in Text
  BY StateTypes
<1>2. CASE Collect(l, p)
  <2> DEFINE new == [words |-> Joined(l, p), pieces |-> current[l].pieces + 1]
  <2>1. current' = [current EXCEPT ![l] = new] /\ chunks' = chunks
    BY <1>2 DEF Collect
  <2>2. Small(new.words, document[at])
    BY <1>2 DEF Collect, Fits, Small
  <2>3. AllSmall(chunks)'
    BY <2>1, AllSmallStays
  <2> HIDE DEF new
  <2> QED BY <1>1, <2>1, <2>2, <2>3
<1>3. CASE SaveAndCarry(l, p)
  <2> DEFINE new == [words |-> Overlap(current[l].words) \o p.words,
                     pieces |-> IF config.overlap > 0 THEN 2 ELSE 1]
  <2>1. /\ current' = [current EXCEPT ![l] = new] /\ chunks' = Saved(current[l].words)
        /\ current[l].pieces > 0
    BY <1>3 DEF SaveAndCarry
  <2>2. Small(new.words, document[at])
    BY <1>1, CarriedIsSmall
  <2>3. AllSmall(Saved(current[l].words))
    BY <1>1, <2>1, SavedIsSmall
  <2>4. AllSmall(chunks)'
    BY <2>1, <2>3, AllSmallStays
  <2> HIDE DEF new
  <2> QED BY <1>1, <2>1, <2>2, <2>4
<1> QED BY <1>2, <1>3

\* What is left at the end of a loop.
LEMMA RemainingIsSmall ==
    ASSUME TypeOK, AllSmall(chunks), UNCHANGED <<config, document>>, NEW l \in Loops,
           current[l].pieces > 0 => Small(current[l].words, document[at]),
           chunks' = Remaining(l)
    PROVE  AllSmall(chunks)'
<1>1. AllSmall(Remaining(l))
  BY StateTypes, SavedIsSmall DEF Remaining
<1> QED BY <1>1, AllSmallStays

\* A loop passes over the first of the elements it has to read.
LEMMA TailStays ==
    ASSUME NEW S, NEW list \in Seq(S), list # <<>>
    PROVE  /\ Head(list) = list[1] /\ 1 \in 1..Len(list)
           /\ \A i \in 1..Len(Tail(list)) : i + 1 \in 1..Len(list) /\ Tail(list)[i] = list[i + 1]
<1>1. Len(list) \in Nat /\ Len(list) # 0
  BY LenProperties, EmptySeq
<1>2. Len(Tail(list)) = Len(list) - 1 /\ \A i \in 1..Len(Tail(list)) : Tail(list)[i] = list[i + 1]
  BY HeadTailProperties
<1>3. Head(list) = list[1]
  OBVIOUS
<1> QED BY <1>1, <1>2, <1>3

\* Each step keeps what is to be read and what is collected parts of the
\* section at hand.
LEMMA StepKeepsPieces == ASSUME TypeOK, PieceInv, Next PROVE PieceInv'
<1>0. /\ config \in Configs /\ at \in Nat /\ chunks \in Seq(Chunk)
      /\ current \in [Loops -> Piece]
      /\ current["paragraph"].pieces \in Nat /\ current["sentence"].pieces \in Nat
      /\ current["paragraph"].words \in Text /\ current["sentence"].words \in Text
      /\ paragraphs \in Seq(Paragraph) /\ sentences \in Seq(Sentence)
      /\ "paragraph" \in Loops /\ "sentence" \in Loops
      /\ \A i \in 1..Len(document) : document[i] \in Section
  BY StateTypes DEF TypeOK, Loops
<1>i. AllSmall(chunks) /\ ParagraphsLeft /\ SentencesLeft
        /\ ParagraphsCollected /\ SentencesCollected
  BY DEF PieceInv
<1>c. UNCHANGED <<config, document>>
  BY DEF Next, NextSection, AllRead, NextParagraph, EndOfSection, NextSentence, EndOfParagraph
<1>u. UNCHANGED config
  BY <1>c
<1>s. \A words, section : Small(words, section)' <=> Small(words, section)
  BY <1>u, SmallStays
<1>1. CASE NextSection
  <2>1. /\ level = "section" /\ UNCHANGED current /\ at <= Len(document)
    BY <1>1 DEF NextSection
  <2>2. /\ paragraphs = <<>> /\ sentences = <<>>
        /\ current["paragraph"].pieces = 0 /\ current["sentence"].pieces = 0
    BY <1>0, <1>i, <2>1
       DEF ParagraphsLeft, SentencesLeft, ParagraphsCollected, SentencesCollected, Loops
  <2>3. ParagraphsCollected' /\ SentencesCollected'
    BY <2>1, <2>2 DEF ParagraphsCollected, SentencesCollected
  <2>4. document[at] \in Section
    BY <1>0, <2>1 DEF TypeOK
  <2>5. document[at].words \in Text /\ document[at].paragraphs \in Seq(Paragraph)
    BY <2>4, SectionTypes
  <2>6. CASE Len(document[at].words) <= config.size
    <3>1. UNCHANGED <<paragraphs, sentences>>
      BY <1>0, <1>1, <2>5, <2>6, ConfigNumbers, LenProperties DEF NextSection, Text
    <3>2. chunks' = chunks \/ chunks' = Saved(document[at].words)
      BY <1>0, <1>1, <2>5, <2>6, ConfigNumbers, LenProperties DEF NextSection, Text
    <3>3. AllSmall(Saved(document[at].words))
      BY <1>i, <2>5, <2>6, SavedIsSmall DEF Small
    <3>4. AllSmall(chunks)'
      BY <1>c, <1>i, <3>2, <3>3, AllSmallStays
    <3> QED BY <2>2, <2>3, <3>1, <3>4 DEF PieceInv, ParagraphsLeft, SentencesLeft
  <2>7. CASE Len(document[at].words) > config.size
    <3>n. ~(Len(document[at].words) <= config.size)
      BY <1>0, <2>5, <2>7, ConfigNumbers, LenProperties DEF Text
    <3>d. /\ UNCHANGED <<at, chunks>>
          /\ \/ /\ Len(document[at].paragraphs) > 1
                /\ level' = "paragraph" /\ paragraphs' = document[at].paragraphs
                /\ UNCHANGED sentences
             \/ /\ Len(document[at].paragraphs) = 1 /\ level' = "sentence"
                /\ sentences' = document[at].paragraphs[1].sentences
                /\ UNCHANGED paragraphs
      BY <1>1, <3>n, Zenon DEF NextSection
    <3>0. UNCHANGED <<at, chunks>>
      BY <3>d
    <3>1. AllSmall(chunks)'
      BY <1>c, <1>i, <3>0, AllSmallStays
    <3>2. CASE Len(document[at].paragraphs) > 1
      <4>1. level' = "paragraph" /\ paragraphs' = document[at].paragraphs /\ UNCHANGED sentences
        <5>1. Len(document[at].paragraphs) # 1
          <6> DEFINE n == Len(document[at].paragraphs)
          <6>1. n \in Nat /\ n > 1
            BY <2>5, <3>2, LenProperties
          <6> HIDE DEF n
          <6>2. n # 1
            BY <6>1
          <6> QED BY <6>2 DEF n
        <5> QED BY <3>d, <5>1, Zenon
      <4>2. ParagraphsLeft'
        BY <1>c, <3>0, <3>2, <4>1 DEF ParagraphsLeft, IsParagraph, Loops
      <4> QED BY <2>2, <2>3, <3>1, <4>1, <4>2 DEF PieceInv, SentencesLeft
    <3>3. CASE ~(Len(document[at].paragraphs) > 1)
      <4>1. /\ Len(document[at].paragraphs) = 1 /\ level' = "sentence"
            /\ sentences' = document[at].paragraphs[1].sentences /\ UNCHANGED paragraphs
        BY <2>5, <3>3, <3>d, LenProperties
      <4>2. 1 \in 1..Len(document[at].paragraphs)
        BY <4>1
      <4>3. SentencesLeft'
        BY <1>c, <3>0, <4>1, <4>2 DEF SentencesLeft, IsSentence
      <4> QED BY <2>2, <2>3, <3>1, <4>1, <4>3 DEF PieceInv, ParagraphsLeft
    <3> QED BY <3>2, <3>3
  <2> QED BY <1>0, <2>5, <2>6, <2>7, ConfigNumbers, LenProperties DEF Text
<1>2. CASE AllRead
  <2>1. level = "section" /\ UNCHANGED <<at, paragraphs, sentences, current, chunks>>
    BY <1>2 DEF AllRead
  <2>2. /\ paragraphs = <<>> /\ sentences = <<>>
        /\ ~(current["paragraph"].pieces > 0) /\ ~(current["sentence"].pieces > 0)
    BY <1>i, <2>1
       DEF ParagraphsLeft, SentencesLeft, ParagraphsCollected, SentencesCollected, Loops
  <2>3. AllSmall(chunks)'
    BY <1>c, <1>i, <2>1, AllSmallStays
  <2> QED BY <2>1, <2>2, <2>3
          DEF PieceInv, ParagraphsLeft, SentencesLeft, ParagraphsCollected, SentencesCollected
<1>3. CASE NextParagraph
  <2> DEFINE p == Head(paragraphs)
  <2>1. /\ level = "paragraph" /\ paragraphs # <<>> /\ at' = at
        /\ paragraphs' = Tail(paragraphs)
    BY <1>3 DEF NextParagraph
  <2>2. p \in Paragraph /\ Tail(paragraphs) \in Seq(Paragraph)
    BY <1>0, <2>1, HeadTailProperties
  <2>3. p = paragraphs[1] /\ 1 \in 1..Len(paragraphs)
          /\ \A i \in 1..Len(Tail(paragraphs)) :
               i + 1 \in 1..Len(paragraphs) /\ Tail(paragraphs)[i] = paragraphs[i + 1]
    BY <1>0, <2>1, TailStays
  <2>4. /\ \A i \in 1..Len(Tail(paragraphs)) : IsParagraph(Tail(paragraphs)[i])
        /\ IsParagraph(p) /\ Len(document[at].paragraphs) > 1
    BY <1>i, <2>1, <2>3 DEF ParagraphsLeft
  <2> HIDE DEF p
  <2>5. p.words \in Text
    BY <2>2 DEF Paragraph
  <2>6. IsPieceOf(p.words, document[at])
    BY <2>4 DEF IsParagraph, IsPieceOf
  <2>7. /\ \/ UNCHANGED <<level, sentences, current, chunks>>
           \/ /\ Collect("paragraph", p) \/ SaveAndCarry("paragraph", p)
              /\ UNCHANGED sentences
           \/ /\ level' = "sentence" /\ sentences' = p.sentences
              /\ UNCHANGED <<current, chunks>>
    BY <1>3 DEF NextParagraph, p
  <2>8. sentences = <<>> /\ current["sentence"].pieces = 0
    BY <1>0, <1>i, <2>1 DEF SentencesLeft, SentencesCollected
  <2>9. level' \in Loops => ParagraphsLeft'
    BY <1>c, <2>1, <2>4 DEF ParagraphsLeft, IsParagraph
  <2>10. CASE UNCHANGED <<level, sentences, current, chunks>>
    <3>1. AllSmall(chunks)' /\ level' \in Loops
      BY <1>0, <1>c, <1>i, <2>1, <2>10, AllSmallStays
    <3>2. ParagraphsCollected'
      BY <1>c, <1>i, <1>s, <2>1, <2>10 DEF ParagraphsCollected
    <3> QED BY <2>8, <2>9, <2>10, <3>1, <3>2 DEF PieceInv, SentencesLeft, SentencesCollected
  <2>11. CASE (Collect("paragraph", p) \/ SaveAndCarry("paragraph", p)) /\ UNCHANGED sentences
    <3>1. current["paragraph"].pieces > 0 => Small(current["paragraph"].words, document[at])
      BY <1>i DEF ParagraphsCollected
    <3>2. /\ AllSmall(chunks)' /\ Small(current'["paragraph"].words, document[at])
          /\ \A k \in Loops \ {"paragraph"} : current'[k] = current[k]
      BY <1>0, <1>c, <1>i, <2>5, <2>6, <2>11, <3>1, TakenIsSmall
    <3>3. level' = "paragraph" /\ level' \in Loops /\ current'["sentence"].pieces = 0
      BY <1>0, <2>1, <2>8, <2>11, <3>2 DEF Collect, SaveAndCarry, Loops
    <3>4. ParagraphsCollected'
      BY <1>c, <1>s, <2>1, <2>4, <3>2, <3>3 DEF ParagraphsCollected
    <3> QED BY <2>8, <2>9, <2>11, <3>2, <3>3, <3>4 DEF PieceInv, SentencesLeft, SentencesCollected
  <2>12. CASE level' = "sentence" /\ sentences' = p.sentences /\ UNCHANGED <<current, chunks>>
    <3>1. AllSmall(chunks)' /\ level' \in Loops
      BY <1>0, <1>c, <1>i, <2>12, AllSmallStays
    <3>2. ParagraphsCollected'
      BY <1>c, <1>i, <1>s, <2>1, <2>12, <3>1 DEF ParagraphsCollected
    <3>3. SentencesLeft'
      BY <1>c, <2>1, <2>4, <2>12 DEF SentencesLeft, IsSentence, IsParagraph
    <3> QED BY <2>8, <2>9, <2>12, <3>1, <3>2, <3>3 DEF PieceInv, SentencesCollected
  <2> QED BY <2>7, <2>10, <2>11, <2>12
<1>4. CASE EndOfSection
  <2>1. /\ level = "paragraph" /\ paragraphs = <<>> /\ chunks' = Remaining("paragraph")
        /\ current' = [current EXCEPT !["paragraph"] = Nothing]
        /\ UNCHANGED <<paragraphs, sentences>>
    BY <1>4 DEF EndOfSection
  <2>2. current["paragraph"].pieces > 0 => Small(current["paragraph"].words, document[at])
    BY <1>i DEF ParagraphsCollected
  <2>3. AllSmall(chunks)'
    BY <1>0, <1>c, <1>i, <2>1, <2>2, RemainingIsSmall
  <2>4. sentences = <<>> /\ current["sentence"].pieces = 0
    BY <1>0, <1>i, <2>1 DEF SentencesLeft, SentencesCollected
  <2>5. current'["paragraph"].pieces = 0 /\ current'["sentence"].pieces = 0
    BY <1>0, <2>1, <2>4 DEF Nothing
  <2> QED BY <2>1, <2>3, <2>4, <2>5
          DEF PieceInv, ParagraphsLeft, SentencesLeft, ParagraphsCollected, SentencesCollected
<1>5. CASE NextSentence
  <2> DEFINE s == Head(sentences)
  <2>1. /\ level = "sentence" /\ sentences # <<>> /\ UNCHANGED <<at, paragraphs>>
        /\ sentences' = Tail(sentences)
    BY <1>5 DEF NextSentence
  <2>2. s \in Sentence
    BY <1>0, <2>1, HeadTailProperties
  <2>3. s = sentences[1] /\ 1 \in 1..Len(sentences)
          /\ \A i \in 1..Len(Tail(sentences)) :
               i + 1 \in 1..Len(sentences) /\ Tail(sentences)[i] = sentences[i + 1]
    BY <1>0, <2>1, TailStays
  <2>4. (\A i \in 1..Len(Tail(sentences)) : IsSentence(Tail(sentences)[i])) /\ IsSentence(s)
    BY <1>i, <2>1, <2>3 DEF SentencesLeft
  <2>5. \/ Collect("sentence", s) \/ SaveAndCarry("sentence", s)
        \/ chunks' = chunks \o Slices(s.words) /\ UNCHANGED <<level, current>>
    BY <1>5 DEF NextSentence
  <2> HIDE DEF s
  <2>6. s.words \in Text
    BY <2>2 DEF Sentence
  <2>7. IsPieceOf(s.words, document[at])
    BY <2>4 DEF IsSentence, IsPieceOf
  <2>8. level' = level
    BY <2>5 DEF Collect, SaveAndCarry
  <2>9. SentencesLeft'
    BY <1>c, <2>1, <2>4, <2>8 DEF SentencesLeft, IsSentence
  <2>10. ParagraphsLeft'
    BY <1>c, <1>i, <2>1, <2>8 DEF ParagraphsLeft, IsParagraph
  <2>11. CASE Collect("sentence", s) \/ SaveAndCarry("sentence", s)
    <3>1. current["sentence"].pieces > 0 => Small(current["sentence"].words, document[at])
      BY <1>i DEF SentencesCollected
    <3>2. /\ AllSmall(chunks)' /\ Small(current'["sentence"].words, document[at])
          /\ \A k \in Loops \ {"sentence"} : current'[k] = current[k]
      BY <1>0, <1>c, <1>i, <2>6, <2>7, <2>11, <3>1, TakenIsSmall
    <3>3. current'["paragraph"] = current["paragraph"]
      BY <1>0, <3>2
    <3>4. ParagraphsCollected'
      BY <1>c, <1>i, <1>s, <2>1, <2>8, <3>3 DEF ParagraphsCollected
    <3>5. SentencesCollected'
      BY <1>c, <1>s, <2>1, <2>8, <3>2 DEF SentencesCollected
    <3> QED BY <2>9, <2>10, <3>2, <3>4, <3>5 DEF PieceInv
  <2>12. CASE chunks' = chunks \o Slices(s.words) /\ UNCHANGED <<level, current>>
    <3>1. AllSmall(chunks \o Slices(s.words))
      BY <1>i, <2>6, SlicesAreSmall
    <3>2. AllSmall(chunks)'
      BY <1>c, <2>12, <3>1, AllSmallStays
    <3>3. ParagraphsCollected' /\ SentencesCollected'
      BY <1>c, <1>i, <1>s, <2>1, <2>12 DEF ParagraphsCollected, SentencesCollected
    <3> QED BY <2>9, <2>10, <3>2, <3>3 DEF PieceInv
  <2> QED BY <2>5, <2>11, <2>12
<1>6. CASE EndOfParagraph
  <2>1. /\ level = "sentence" /\ sentences = <<>> /\ chunks' = Remaining("sentence")
        /\ current' = [current EXCEPT !["sentence"] = Nothing]
        /\ UNCHANGED <<paragraphs, sentences>>
        /\ IF Len(document[at].paragraphs) > 1
           THEN level' = "paragraph" /\ UNCHANGED at
           ELSE level' = "section"
    BY <1>6 DEF EndOfParagraph
  <2>2. current["sentence"].pieces > 0 => Small(current["sentence"].words, document[at])
    BY <1>i DEF SentencesCollected
  <2>3. AllSmall(chunks)'
    BY <1>0, <1>c, <1>i, <2>1, <2>2, RemainingIsSmall
  <2>4. current'["sentence"].pieces = 0 /\ current'["paragraph"] = current["paragraph"]
    BY <1>0, <2>1 DEF Nothing
  <2>5. CASE Len(document[at].paragraphs) > 1
    <3>1. level' \in Loops /\ at' = at
      BY <1>0, <2>1, <2>5
    <3>2. ParagraphsLeft' /\ ParagraphsCollected'
      BY <1>c, <1>i, <1>s, <2>1, <2>4, <3>1 DEF ParagraphsLeft, ParagraphsCollected, IsParagraph
    <3> QED BY <2>1, <2>3, <2>4, <3>2 DEF PieceInv, SentencesLeft, SentencesCollected
  <2>6. CASE ~(Len(document[at].paragraphs) > 1)
    <3>1. paragraphs = <<>> /\ ~(current["paragraph"].pieces > 0)
      BY <1>i, <2>6 DEF ParagraphsLeft, ParagraphsCollected
    <3> QED BY <2>1, <2>3, <2>4, <3>1
            DEF PieceInv, ParagraphsLeft, ParagraphsCollected, SentencesLeft, SentencesCollected
  <2> QED BY <2>5, <2>6
<1> QED BY <1>1, <1>2, <1>3, <1>4, <1>5, <1>6 DEF Next

\* A chunk longer than chunk_size is one paragraph or one sentence behind at
\* most the overlap, for documents of any shape (chunker.py:105-127, 166-186).
THEOREM OversizedIsBounded == Spec => []OversizedIsOnePiece
<1>1. Init => PieceInv
  <2> SUFFICES ASSUME Init PROVE PieceInv
    OBVIOUS
  <2>1. chunks = <<>> /\ paragraphs = <<>> /\ sentences = <<>>
          /\ current = [l \in Loops |-> Nothing]
    BY DEF Init, Start
  <2>2. Len(chunks) = 0 /\ current["paragraph"].pieces = 0 /\ current["sentence"].pieces = 0
    BY <2>1 DEF Loops, Nothing
  <2> QED BY <2>1, <2>2
          DEF PieceInv, AllSmall, ParagraphsLeft, SentencesLeft,
              ParagraphsCollected, SentencesCollected
<1>2. PieceInv /\ UNCHANGED vars => PieceInv'
  <2> SUFFICES ASSUME PieceInv, UNCHANGED vars PROVE PieceInv'
    OBVIOUS
  <2>1. UNCHANGED config
    BY DEF vars
  <2>2. \A words, section : Small(words, section)' <=> Small(words, section)
    BY <2>1, SmallStays
  <2>3. AllSmall(chunks)'
    BY <2>2 DEF PieceInv, AllSmall, vars
  <2>4. ParagraphsLeft' /\ SentencesLeft'
    BY DEF PieceInv, ParagraphsLeft, SentencesLeft, IsParagraph, IsSentence, vars
  <2>5. ParagraphsCollected' /\ SentencesCollected'
    BY <2>2 DEF PieceInv, ParagraphsCollected, SentencesCollected, vars
  <2> QED BY <2>3, <2>4, <2>5 DEF PieceInv
<1>3. TypeOK /\ PieceInv /\ [Next]_vars => PieceInv'
  BY <1>2, StepKeepsPieces
<1>4. PieceInv => OversizedIsOnePiece
  BY DEF PieceInv, AllSmall, Small, OversizedIsOnePiece
<1> QED BY <1>1, <1>3, <1>4, TypeCorrect, PTL DEF Spec
--------------------------------------------------------------------------
\* Stretches of a text

\* A stretch of a text, from behind one place to another.
LEMMA StretchOfText ==
    ASSUME NEW text \in Text, NEW a \in Nat, NEW b \in Nat, a <= b, b <= Len(text)
    PROVE  /\ SubSeq(text, a + 1, b) \in Text
           /\ Len(SubSeq(text, a + 1, b)) = b - a
           /\ \A i \in 1..(b - a) : SubSeq(text, a + 1, b)[i] = text[a + i]
<1> DEFINE n == Len(text)
<1>1. n \in Nat /\ \A i \in 1..n : text[i] \in Word
  BY LenProperties, ElementOfSeq DEF Text
<1>2. b <= n
  OBVIOUS
<1> HIDE DEF n
<1>3. a + 1 \in Int /\ b \in Int /\ \A i \in (a + 1)..b : text[i] \in Word
  BY <1>1, <1>2
<1>4. /\ SubSeq(text, a + 1, b) \in Seq(Word)
      /\ Len(SubSeq(text, a + 1, b)) = IF a + 1 <= b THEN b - (a + 1) + 1 ELSE 0
      /\ \A i \in 1 .. b - (a + 1) + 1 : SubSeq(text, a + 1, b)[i] = text[(a + 1) + i - 1]
  BY <1>3, SubSeqProperties
<1> DEFINE s == SubSeq(text, a + 1, b)
<1> HIDE DEF s
<1>5. Len(s) = b - a /\ b - (a + 1) + 1 = b - a
  BY <1>4 DEF s
<1>6. \A i \in 1..(b - a) : s[i] = text[a + i]
  <2> TAKE i \in 1..(b - a)
  <2>1. (a + 1) + i - 1 = a + i
    OBVIOUS
  <2> QED BY <1>4, <1>5, <2>1 DEF s
<1> QED BY <1>4, <1>5, <1>6 DEF s, Text

\* Two stretches that meet are one.
LEMMA StretchesMeet ==
    ASSUME NEW text \in Text, NEW a \in Nat, NEW b \in Nat, NEW c \in Nat,
           a <= b, b <= c, c <= Len(text)
    PROVE  SubSeq(text, a + 1, b) \o SubSeq(text, b + 1, c) = SubSeq(text, a + 1, c)
<1> DEFINE n == Len(text)
<1>1. n \in Nat /\ c <= n
  BY LenProperties DEF Text
<1> HIDE DEF n
<1>2. a + 1 \in 1..(n + 1) /\ b \in ((a + 1) - 1)..n /\ c \in b..n
  BY <1>1
<1> QED BY <1>2, ConcatAdjacentSubSeq DEF Text, n

\* A stretch of a stretch.
LEMMA StretchOfStretch ==
    ASSUME NEW text \in Text, NEW q \in Nat, NEW r \in Nat, q <= r, r <= Len(text),
           NEW x \in Nat, NEW y \in Nat, x <= y, y <= r - q
    PROVE  SubSeq(SubSeq(text, q + 1, r), x + 1, y) = SubSeq(text, (q + x) + 1, q + y)
<1> DEFINE s == SubSeq(text, q + 1, r)
           t == SubSeq(s, x + 1, y)
           u == SubSeq(text, (q + x) + 1, q + y)
           n == Len(text)
<1>0. n \in Nat /\ r <= n
  BY LenProperties DEF Text
<1> HIDE DEF n
<1>1. s \in Text /\ Len(s) = r - q /\ \A i \in 1..(r - q) : s[i] = text[q + i]
  BY StretchOfText
<1> HIDE DEF s
<1>2. t \in Text /\ Len(t) = y - x /\ \A i \in 1..(y - x) : t[i] = s[x + i]
  BY <1>1, StretchOfText
<1>3. /\ q + x \in Nat /\ q + y \in Nat /\ q + x <= q + y /\ q + y <= n
      /\ (q + y) - (q + x) = y - x
  BY <1>0
<1>4. /\ u \in Text /\ Len(u) = (q + y) - (q + x)
      /\ \A i \in 1..((q + y) - (q + x)) : u[i] = text[(q + x) + i]
  BY <1>3, StretchOfText DEF n
<1> HIDE DEF t, u
<1>5. ASSUME NEW i \in 1..(y - x) PROVE t[i] = u[i]
  <2>1. x + i \in 1..(r - q) /\ q + (x + i) = (q + x) + i
    BY <1>5
  <2> QED BY <1>1, <1>2, <1>3, <1>4, <2>1
<1>6. Len(t) = Len(u) /\ \A i \in 1..Len(t) : t[i] = u[i]
  BY <1>2, <1>3, <1>4, <1>5
<1>7. t = u
  BY <1>2, <1>4, <1>6, SeqEqual DEF Text
<1> QED BY <1>7 DEF s, t, u

\* The overlap is a stretch at the end.
LEMMA OverlapIsTheEnd ==
    ASSUME config \in Configs, NEW text \in Text, NEW a \in Nat, NEW b \in Nat,
           a < b, b <= Len(text)
    PROVE  LET o == Overlap(SubSeq(text, a + 1, b))
           IN  /\ Len(o) \in Nat /\ Len(o) <= b - a
               /\ o = SubSeq(text, (b - Len(o)) + 1, b)
<1> DEFINE s == SubSeq(text, a + 1, b)
           v == config.overlap
<1>0. v \in Nat
  BY ConfigNumbers
<1>1. s \in Text /\ Len(s) = b - a
  BY StretchOfText
<1>2. CASE b - a <= v
  <2>1. Overlap(s) = s
    <3>1. Len(s) <= config.overlap
      BY <1>1, <1>2
    <3> QED BY <3>1 DEF Overlap
  <2>2. b - (b - a) = a
    OBVIOUS
  <2> QED BY <1>1, <2>1, <2>2
<1>3. CASE b - a > v
  <2> DEFINE x == (b - a) - v
  <2>1. x \in Nat /\ x <= b - a /\ (b - a) - v + 1 = x + 1 /\ a + x = b - v /\ a + (b - a) = b
    BY <1>0, <1>3
  <2>2. Overlap(s) = SubSeq(s, (b - a) - v + 1, b - a)
    <3>1. ~(Len(s) <= config.overlap)
      BY <1>0, <1>1, <1>3
    <3> QED BY <1>1, <3>1 DEF Overlap
  <2> HIDE DEF x, v
  <2>3. SubSeq(s, x + 1, b - a) = SubSeq(text, (a + x) + 1, a + (b - a))
    <3>1. b - a \in Nat /\ b - a <= b - a /\ a <= b
      OBVIOUS
    <3> QED BY <2>1, <3>1, StretchOfStretch
  <2>4. Overlap(s) = SubSeq(text, (b - v) + 1, b)
    BY <2>1, <2>2, <2>3
  <2>5. b - v \in Nat /\ b - v <= b /\ b - (b - v) = v /\ v <= b - a
    BY <1>0, <1>3
  <2>6. Len(Overlap(s)) = v
    BY <2>4, <2>5, StretchOfText
  <2> QED BY <1>0, <2>4, <2>5, <2>6
<1>4. b - a <= v \/ b - a > v
  BY <1>0
<1> QED BY <1>2, <1>3, <1>4

\* In a text that repeats no word a word is in its place.
LEMMA PlaceOfWord ==
    ASSUME NEW text, NoneTwice(text), NEW k \in 1..Len(text)
    PROVE  Place(text[k], text) = k
BY DEF Place, NoneTwice

--------------------------------------------------------------------------
\* Parts of a text

\* The first of the parts begins where they begin, the others where it ends.
LEMMA CoverFirst ==
    ASSUME NEW S, NEW parts \in Seq(S), parts # <<>>, NEW text \in Text,
           NEW from, NEW to, Cover(parts, text, from, to)
    PROVE  /\ from \in 0..Len(text)
           /\ \E m \in 0..Len(text) :
                /\ from <= m /\ Head(parts).words = SubSeq(text, from + 1, m)
                /\ Cover(Tail(parts), text, m, to)
<1> DEFINE n == Len(parts)
           z == Len(text)
<1>1. PICK off \in [1..(n + 1) -> 0..z] :
        /\ off[1] = from /\ off[n + 1] = to
        /\ \A i \in 1..n :
             off[i] <= off[i + 1] /\ parts[i].words = SubSeq(text, off[i] + 1, off[i + 1])
  BY DEF Cover
<1>2. n \in Nat /\ n # 0 /\ z \in Nat
  BY LenProperties, EmptySeq DEF Text
<1>3. /\ Head(parts) = parts[1] /\ Tail(parts) \in Seq(S) /\ Len(Tail(parts)) = n - 1
      /\ \A i \in 1..(n - 1) : Tail(parts)[i] = parts[i + 1]
  BY HeadTailProperties
<1> DEFINE rest == Tail(parts)
           move == [i \in 1..((n - 1) + 1) |-> off[i + 1]]
<1> HIDE DEF n, z, rest
<1>4. 1 \in 1..(n + 1) /\ 1 \in 1..n /\ 1 + 1 = 2 /\ 2 \in 1..(n + 1)
  BY <1>2
<1>5. \A i \in 1..((n - 1) + 1) : i + 1 \in 1..(n + 1)
  BY <1>2
<1>6. move \in [1..((n - 1) + 1) -> 0..z]
  BY <1>1, <1>5
<1>7. move[1] = off[2]
  BY <1>2, <1>4
<1>8. move[(n - 1) + 1] = to
  <2>1. (n - 1) + 1 = n /\ n \in 1..((n - 1) + 1)
    BY <1>2
  <2> QED BY <1>1, <2>1
<1>9. ASSUME NEW i \in 1..(n - 1)
      PROVE  /\ move[i] <= move[i + 1]
             /\ rest[i].words = SubSeq(text, move[i] + 1, move[i + 1])
  <2>1. i \in 1..((n - 1) + 1) /\ i + 1 \in 1..((n - 1) + 1) /\ i + 1 \in 1..n
    BY <1>2
  <2>2. move[i] = off[i + 1] /\ move[i + 1] = off[(i + 1) + 1]
    BY <2>1
  <2>3. rest[i] = parts[i + 1]
    BY <1>3 DEF rest
  <2> QED BY <1>1, <2>1, <2>2, <2>3
<1> HIDE DEF move
<1>10. Cover(rest, text, off[2], to)
  <2>1. Len(rest) = n - 1
    BY <1>3 DEF rest
  <2> QED BY <1>6, <1>7, <1>8, <1>9, <2>1 DEF Cover, z
<1>11. /\ off[1] <= off[2] /\ parts[1].words = SubSeq(text, off[1] + 1, off[2])
       /\ off[1] \in 0..z /\ off[2] \in 0..z
  BY <1>1, <1>4
<1>12. /\ from \in 0..z /\ off[2] \in 0..z /\ from <= off[2]
       /\ Head(parts).words = SubSeq(text, from + 1, off[2])
  BY <1>1, <1>3, <1>11
<1> QED BY <1>10, <1>12 DEF z, rest

\* Where there are no parts, nothing is covered.
LEMMA CoverNothing ==
    ASSUME NEW text, NEW from, NEW to, Cover(<<>>, text, from, to)
    PROVE  from = to
<1>1. Len(<<>>) + 1 = 1
  OBVIOUS
<1> QED BY <1>1 DEF Cover

\* What covers a stretch covers that stretch of the text.
LEMMA CoverOfStretch ==
    ASSUME NEW S, NEW parts \in Seq(S), NEW text \in Text, NEW q \in Nat, NEW r \in Nat,
           q <= r, r <= Len(text), Cover(parts, SubSeq(text, q + 1, r), 0, r - q)
    PROVE  Cover(parts, text, q, r)
<1> DEFINE n == Len(parts)
           s == SubSeq(text, q + 1, r)
           z == Len(text)
<1>0. n \in Nat /\ z \in Nat /\ r <= z
  BY LenProperties DEF Text
<1>1. s \in Text /\ Len(s) = r - q
  BY StretchOfText
<1>2. PICK off \in [1..(n + 1) -> 0..(r - q)] :
        /\ off[1] = 0 /\ off[n + 1] = r - q
        /\ \A i \in 1..n :
             off[i] <= off[i + 1] /\ parts[i].words = SubSeq(s, off[i] + 1, off[i + 1])
  BY <1>1 DEF Cover
<1> DEFINE move == [i \in 1..(n + 1) |-> q + off[i]]
<1> HIDE DEF n, z
<1>3. 1 \in 1..(n + 1) /\ n + 1 \in 1..(n + 1)
        /\ \A i \in 1..n : i \in 1..(n + 1) /\ i + 1 \in 1..(n + 1)
  BY <1>0
<1>4. \A i \in 1..(n + 1) : off[i] \in 0..(r - q)
  BY <1>2
<1>5. \A i \in 1..(n + 1) : q + off[i] \in 0..z
  BY <1>0, <1>4
<1>6. move \in [1..(n + 1) -> 0..z]
  BY <1>5
<1>7. move[1] = q /\ move[n + 1] = r
  <2>1. q + 0 = q /\ q + (r - q) = r
    OBVIOUS
  <2> QED BY <1>2, <1>3, <2>1
<1>8. ASSUME NEW i \in 1..n
      PROVE  /\ move[i] <= move[i + 1]
             /\ parts[i].words = SubSeq(text, move[i] + 1, move[i + 1])
  <2>1. /\ off[i] \in Nat /\ off[i + 1] \in Nat /\ off[i] <= off[i + 1] /\ off[i + 1] <= r - q
        /\ parts[i].words = SubSeq(s, off[i] + 1, off[i + 1])
    BY <1>2, <1>3, <1>4
  <2>2. PICK x \in Nat, y \in Nat : x = off[i] /\ y = off[i + 1]
    BY <2>1
  <2>3. x <= y /\ y <= r - q /\ parts[i].words = SubSeq(s, x + 1, y)
    BY <2>1, <2>2
  <2>4. move[i] = q + x /\ move[i + 1] = q + y
    BY <1>3, <2>2
  <2> HIDE DEF move
  <2>5. SubSeq(SubSeq(text, q + 1, r), x + 1, y) = SubSeq(text, (q + x) + 1, q + y)
    BY <2>3, StretchOfStretch
  <2>6. q + x <= q + y
    BY <2>3
  <2> QED BY <2>3, <2>4, <2>5, <2>6
<1> HIDE DEF move
<1> QED BY <1>6, <1>7, <1>8 DEF Cover, n, z

--------------------------------------------------------------------------
\* Chains of chunks

TextOfSection(n) == document[n].words

\* A chunk is a stretch of the words of its section.
Stretch(c) ==
    /\ c.section \in 1..Len(document)
    /\ c.words # <<>>
    /\ From(c) \in 1..Len(TextOfSection(c.section))
    /\ To(c) \in 1..Len(TextOfSection(c.section))
    /\ c.words = SubSeq(TextOfSection(c.section), From(c), To(c))

\* Two chunks one after the other.
Follows(c, d) ==
    IF d.section = c.section
    THEN /\ To(d) > To(c)
         /\ From(d) \in {To(c) + 1, To(c) + 1 - Len(Overlap(c.words))}
    ELSE /\ c.section < d.section
         /\ From(d) = 1
         /\ To(c) = Len(TextOfSection(c.section))

Chained(list) ==
    /\ \A i \in 1..Len(list) : Stretch(list[i])
    /\ list # <<>> => From(list[1]) = 1
    /\ \A i \in 1..(Len(list) - 1) : Follows(list[i], list[i + 1])

\* The chunks of list cover the sections before n, and section n up to place e.
Reaches(list, n, e) ==
    /\ Chained(list)
    /\ \A i \in 1..Len(list) : list[i].section <= n
    /\ \A m \in 1..(n - 1) : TextOfSection(m) # <<>> =>
         \E i \in 1..Len(list) : list[i].section = m
    /\ LET c == list[Len(list)] IN
       IF list # <<>> /\ c.section = n THEN e = To(c)
       ELSE e = 0 /\ (list # <<>> => To(c) = Len(TextOfSection(c.section)))

\* Behind place a the next chunk may begin.
Link(list, n, a, e) ==
    LET c == list[Len(list)] IN
    IF list # <<>> /\ c.section = n THEN a \in {e, e - Len(Overlap(c.words))}
    ELSE a = e

\* A chunk that is cut between two places begins and ends there.
LEMMA CutIsStretch ==
    ASSUME NEW n \in 1..Len(document), TextOfSection(n) \in Text,
           NoneTwice(TextOfSection(n)),
           NEW a \in Nat, NEW b \in Nat, a < b, b <= Len(TextOfSection(n)),
           NEW c, c.section = n, c.words = SubSeq(TextOfSection(n), a + 1, b)
    PROVE  /\ Stretch(c) /\ From(c) = a + 1 /\ To(c) = b
           /\ Len(c.words) = b - a
<1> DEFINE t == TextOfSection(n)
           z == Len(t)
<1>1. z \in Nat /\ b <= z
  BY LenProperties DEF Text
<1>2. c.words \in Text /\ Len(c.words) = b - a /\ \A i \in 1..(b - a) : c.words[i] = t[a + i]
  BY StretchOfText
<1>3. 1 \in 1..(b - a)
  OBVIOUS
<1>4. c.words[1] = t[a + 1]
  BY <1>2, <1>3
<1> HIDE DEF z
<1>5. a + 1 \in 1..z
  BY <1>1
<1>6. From(c) = a + 1
  BY <1>4, <1>5, PlaceOfWord DEF From, TextOfSection, z
<1>7. To(c) = b
  BY <1>2, <1>6 DEF To
<1>8. c.words # <<>>
  <2>1. Len(c.words) # 0 /\ Len(<<>>) = 0
    BY <1>2
  <2> QED BY <2>1, Zenon
<1>9. b \in 1..z
  BY <1>1
<1> QED BY <1>2, <1>5, <1>6, <1>7, <1>8, <1>9 DEF Stretch, z

\* A chunk cut out between two places of a section is a stretch that begins and ends
\* there.
LEMMA CutsAreStretches ==
    ASSUME NEW n \in 1..Len(document), TextOfSection(n) \in Text,
           NoneTwice(TextOfSection(n))
    PROVE  \A a, b \in Nat : \A c :
             a < b /\ b <= Len(TextOfSection(n)) /\ c.section = n
               /\ c.words = SubSeq(TextOfSection(n), a + 1, b) =>
             Stretch(c) /\ From(c) = a + 1 /\ To(c) = b
<1> SUFFICES ASSUME NEW a \in Nat, NEW b \in Nat, NEW c, a < b,
                    b <= Len(TextOfSection(n)), c.section = n,
                    c.words = SubSeq(TextOfSection(n), a + 1, b)
             PROVE  Stretch(c) /\ From(c) = a + 1 /\ To(c) = b
  OBVIOUS
<1> QED BY CutIsStretch

\* One list behind another.
LEMMA ChunksJoined ==
    ASSUME NEW list \in Seq(Chunk), NEW cuts \in Seq(Chunk)
    PROVE  /\ Len(list) \in Nat /\ list \o cuts \in Seq(Chunk)
           /\ Len(list \o cuts) = Len(list) + Len(cuts)
           /\ \A i \in 1..(Len(list) + Len(cuts)) :
                (list \o cuts)[i] = IF i <= Len(list) THEN list[i] ELSE cuts[i - Len(list)]
           /\ \A i \in 1..Len(list) : list[i].section \in Nat /\ list[i].words \in Text
<1>1. \A i \in 1..Len(list) : list[i] \in Chunk
  BY ElementOfSeq
<1>2. \A i \in 1..Len(list) : list[i].section \in Nat /\ list[i].words \in Text
  BY <1>1 DEF Chunk
<1> QED BY <1>2, ConcatProperties, LenProperties

\* Chunks of section n cut at the places lo[1] < hi[1] = lo[2] < hi[2] ..
CutAt(cuts, n, m, lo, hi) ==
    /\ lo \in [1..m -> Nat] /\ hi \in [1..m -> Nat]
    /\ \A k \in 1..m : /\ cuts[k].section = n
                      /\ cuts[k].words = SubSeq(TextOfSection(n), lo[k] + 1, hi[k])
                      /\ lo[k] < hi[k] /\ hi[k] <= Len(TextOfSection(n))
    /\ \A k \in 1..(m - 1) : lo[k + 1] = hi[k]

\* Cuts that go on where the list has come to.
LEMMA CutsExtend ==
    ASSUME NEW n \in 1..Len(document), TextOfSection(n) \in Text,
           NoneTwice(TextOfSection(n)), Len(document) \in Nat,
           NEW list \in Seq(Chunk), NEW e \in Nat, Reaches(list, n, e),
           NEW cuts \in Seq(Chunk), NEW m \in Nat \ {0}, Len(cuts) = m,
           NEW lo, NEW hi, CutAt(cuts, n, m, lo, hi),
           Link(list, n, lo[1], e), e < hi[1]
    PROVE  Reaches(list \o cuts, n, hi[m])
<1> DEFINE all == list \o cuts
           z == Len(list)
<1>0. /\ lo \in [1..m -> Nat] /\ hi \in [1..m -> Nat]
      /\ \A k \in 1..m : /\ cuts[k].section = n
                        /\ cuts[k].words = SubSeq(TextOfSection(n), lo[k] + 1, hi[k])
                        /\ lo[k] < hi[k] /\ hi[k] <= Len(TextOfSection(n))
      /\ \A k \in 1..(m - 1) : lo[k + 1] = hi[k]
  BY DEF CutAt
<1>1. /\ all \in Seq(Chunk) /\ Len(all) = z + m /\ z \in Nat
      /\ \A i \in 1..(z + m) : all[i] = IF i <= z THEN list[i] ELSE cuts[i - z]
  BY ChunksJoined
<1>z. z \in Nat /\ m \in Nat /\ m > 0
  BY <1>1
<1>2. /\ \A i \in 1..z : i \in 1..(z + m) /\ all[i] = list[i]
      /\ \A k \in 1..m : z + k \in 1..(z + m) /\ all[z + k] = cuts[k]
  <2>1. \A i \in 1..z : i \in 1..(z + m) /\ all[i] = list[i]
    BY <1>1
  <2>2. \A k \in 1..m : z + k \in 1..(z + m) /\ ~(z + k <= z) /\ (z + k) - z = k
    BY <1>1
  <2>3. ASSUME NEW k \in 1..m PROVE all[z + k] = cuts[k]
    BY <1>1, <2>2
  <2> QED BY <2>1, <2>2, <2>3
<1>3. list = <<>> <=> z = 0
  BY EmptySeq
<1> HIDE DEF all, z
<1>4. ASSUME NEW k \in 1..m
      PROVE  Stretch(cuts[k]) /\ From(cuts[k]) = lo[k] + 1 /\ To(cuts[k]) = hi[k]
  <2>1. lo[k] \in Nat /\ hi[k] \in Nat
    BY <1>0, <1>4
  <2>2. PICK a \in Nat, b \in Nat : a = lo[k] /\ b = hi[k]
    BY <2>1
  <2>3. PICK c : c = cuts[k]
    OBVIOUS
  <2>4. /\ c.section = n /\ c.words = SubSeq(TextOfSection(n), a + 1, b)
        /\ a < b /\ b <= Len(TextOfSection(n))
    BY <1>0, <2>2, <2>3
  <2>5. Stretch(c) /\ From(c) = a + 1 /\ To(c) = b
    BY <2>4, CutsAreStretches
  <2> QED BY <2>2, <2>3, <2>5
<1>5. 1 \in 1..m /\ m \in 1..m
  OBVIOUS
<1>6. \A i \in 1..z : Stretch(list[i]) /\ list[i].section <= n
  BY DEF Reaches, Chained, z
<1>7. ASSUME NEW i \in 1..(z + m)
      PROVE  \/ i \in 1..z /\ all[i] = list[i]
             \/ \E k \in 1..m : i = z + k /\ all[i] = cuts[k]
  <2>1. CASE i <= z
    BY <1>1, <1>2, <2>1
  <2>2. CASE i > z
    <3>1. i - z \in 1..m /\ i = z + (i - z)
      BY <1>1, <2>2
    <3> QED BY <1>2, <3>1
  <2> QED BY <1>1, <2>1, <2>2
<1>8. \A i \in 1..(z + m) : Stretch(all[i]) /\ all[i].section <= n
  <2>1. n <= n
    OBVIOUS
  <2>2. \A k \in 1..m : Stretch(cuts[k]) /\ cuts[k].section <= n
    BY <1>0, <1>4, <2>1
  <2> TAKE i \in 1..(z + m)
  <2>3. CASE i \in 1..z /\ all[i] = list[i]
    BY <1>6, <2>3
  <2>4. CASE \E k \in 1..m : i = z + k /\ all[i] = cuts[k]
    BY <2>2, <2>4
  <2> QED BY <1>7, <2>3, <2>4
<1>9. From(all[1]) = 1
  <2>1. CASE z = 0
    <3>1. all[1] = cuts[1]
      <4>1. z + 1 = 1
        BY <2>1
      <4>2. all[z + 1] = cuts[1]
        BY <1>2, <1>5
      <4> QED BY <4>1, <4>2
    <3>2. e = 0 /\ lo[1] = e
      BY <1>3, <2>1 DEF Reaches, Link
    <3> QED BY <1>4, <1>5, <3>1, <3>2
  <2>2. CASE z # 0
    <3>1. 1 \in 1..z
      BY <1>1, <2>2
    <3> QED BY <1>2, <1>3, <2>2, <3>1 DEF Reaches, Chained
  <2> QED BY <2>1, <2>2
<1>10. ASSUME NEW i \in 1..((z + m) - 1) PROVE Follows(all[i], all[i + 1])
  <2>1. CASE i < z
    <3>1. i \in 1..(z - 1) /\ i \in 1..z /\ i + 1 \in 1..z
      BY <1>1, <2>1
    <3>2. Follows(list[i], list[i + 1])
      BY <3>1 DEF Reaches, Chained, z
    <3> QED BY <1>2, <3>1, <3>2
  <2>2. CASE i = z
    <3>1. z \in 1..z /\ z # 0
      BY <1>1, <2>2
    <3>2. all[i] = list[z] /\ all[i + 1] = cuts[1] /\ cuts[1].section = n
      BY <1>0, <1>2, <1>5, <2>2, <3>1
    <3>3. From(cuts[1]) = lo[1] + 1 /\ To(cuts[1]) = hi[1] /\ lo[1] \in Nat /\ hi[1] \in Nat
      BY <1>0, <1>4, <1>5
    <3>4. Stretch(list[z]) /\ list[z].section <= n
      BY <1>6, <3>1
    <3>5. CASE list[z].section = n
      <4>1. e = To(list[z]) /\ lo[1] \in {e, e - Len(Overlap(list[z].words))}
        BY <1>3, <3>1, <3>5 DEF Reaches, Link, z
      <4>2. lo[1] = e - Len(Overlap(list[z].words)) =>
               lo[1] + 1 = e + 1 - Len(Overlap(list[z].words))
        <5>1. Len(Overlap(list[z].words)) \in Nat
          <6>2. list[z].words \in Seq(Word)
            BY <3>1, ChunksJoined DEF z, Text
          <6>3. Overlap(list[z].words) = list[z].words
                  \/ \E x, y : Overlap(list[z].words) = SubSeq(list[z].words, x, y)
            BY DEF Overlap
          <6> QED BY <6>2, <6>3, LenProperties
        <5> QED BY <5>1
      <4> QED BY <3>2, <3>3, <3>5, <4>1, <4>2 DEF Follows
    <3>6. CASE list[z].section # n
      <4>1. e = 0 /\ lo[1] = e /\ To(list[z]) = Len(TextOfSection(list[z].section))
        BY <1>3, <3>1, <3>6 DEF Reaches, Link, z
      <4>2. list[z].section < n
        <5>1. list[z].section \in Nat /\ n \in Nat
          BY <3>1, ChunksJoined DEF z
        <5> QED BY <3>4, <3>6, <5>1
      <4>3. cuts[1].section # list[z].section /\ list[z].section < cuts[1].section
        BY <3>2, <3>6, <4>2
      <4>4. From(cuts[1]) = 1
        BY <3>3, <4>1
      <4>5. Follows(list[z], cuts[1])
        BY <4>1, <4>3, <4>4 DEF Follows
      <4> QED BY <3>2, <4>5
    <3> QED BY <3>5, <3>6
  <2>3. CASE i > z
    <3> DEFINE k == i - z
    <3>i. i \in Nat /\ i > z /\ i <= (z + m) - 1
      BY <1>z, <2>3
    <3>1. k \in 1..(m - 1) /\ k \in 1..m /\ k + 1 \in 1..m /\ i = z + k /\ i + 1 = z + (k + 1)
      BY <1>z, <3>i
    <3> HIDE DEF k
    <3>2. all[i] = cuts[k] /\ all[i + 1] = cuts[k + 1]
      BY <1>2, <3>1
    <3>3. /\ From(cuts[k + 1]) = lo[k + 1] + 1 /\ To(cuts[k + 1]) = hi[k + 1]
          /\ To(cuts[k]) = hi[k] /\ lo[k + 1] = hi[k] /\ lo[k + 1] < hi[k + 1]
          /\ cuts[k].section = cuts[k + 1].section
          /\ hi[k] \in Nat /\ hi[k + 1] \in Nat
      BY <1>0, <1>4, <3>1
    <3> QED BY <3>2, <3>3 DEF Follows
  <2> QED BY <1>1, <2>1, <2>2, <2>3
<1>11. Len(all) = z + m /\ all # <<>> /\ z + m \in Nat
  <2>1. Len(all) # 0
    BY <1>1 DEF all
  <2> QED BY <1>1, <2>1 DEF all
<1>12. Chained(all)
  BY <1>8, <1>9, <1>10, <1>11 DEF Chained
<1>13. ASSUME NEW j \in 1..(n - 1), TextOfSection(j) # <<>>
       PROVE  \E i \in 1..Len(all) : all[i].section = j
  <2>1. PICK i \in 1..z : list[i].section = j
    BY <1>13 DEF Reaches, z
  <2> QED BY <1>2, <1>11, <2>1
<1>14. all[Len(all)] = cuts[m] /\ cuts[m].section = n /\ To(cuts[m]) = hi[m]
  BY <1>0, <1>2, <1>4, <1>5, <1>11
<1> QED BY <1>8, <1>11, <1>12, <1>13, <1>14 DEF Reaches, all

\* Chains depend on the document and the configuration, which never change.
LEMMA ChainsStay ==
    ASSUME UNCHANGED <<document, config>>
    PROVE  \A list, n, a, e : /\ Reaches(list, n, e)' <=> Reaches(list, n, e)
                              /\ Link(list, n, a, e)' <=> Link(list, n, a, e)
<1>1. \A c : /\ From(c)' = From(c) /\ To(c)' = To(c)
             /\ Overlap(c.words)' = Overlap(c.words)
  BY DEF From, To, Overlap
<1>2. \A c : Stretch(c)' <=> Stretch(c)
  BY <1>1 DEF Stretch, TextOfSection
<1>3. \A c, d : Follows(c, d)' <=> Follows(c, d)
  BY <1>1 DEF Follows, TextOfSection
<1>4. \A list : Chained(list)' <=> Chained(list)
  BY <1>1, <1>2, <1>3 DEF Chained
<1>5. ASSUME NEW list, NEW n, NEW a, NEW e
      PROVE  /\ Reaches(list, n, e)' <=> Reaches(list, n, e)
             /\ Link(list, n, a, e)' <=> Link(list, n, a, e)
  <2>1. PICK c : c = list[Len(list)]
    OBVIOUS
  <2>2. To(c)' = To(c) /\ Overlap(c.words)' = Overlap(c.words)
    BY <1>1
  <2> QED BY <1>4, <2>1, <2>2 DEF Reaches, Link, TextOfSection
<1> QED BY <1>5

AllWhole == \A n \in 1..Len(document) : Whole(document[n])

\* The section at hand.
LEMMA SectionAtHand ==
    ASSUME TypeOK, AllWhole, at <= Len(document)
    PROVE  /\ at \in 1..Len(document) /\ Len(document) \in Nat /\ at \in Nat
           /\ document[at] \in Section /\ Whole(document[at])
           /\ TextOfSection(at) \in Text /\ NoneTwice(TextOfSection(at))
           /\ Len(TextOfSection(at)) \in Nat
           /\ chunks \in Seq(Chunk) /\ config \in Configs
<1>1. Len(document) \in Nat /\ at \in 1..(Len(document) + 1)
  BY StateTypes DEF TypeOK
<1>2. at \in 1..Len(document) /\ at \in Nat
  BY <1>1
<1>3. document[at] \in Section /\ Whole(document[at])
  BY <1>2, StateTypes DEF AllWhole
<1>4. TextOfSection(at) \in Text /\ NoneTwice(TextOfSection(at))
  BY <1>3, SectionTypes DEF TextOfSection, NoneTwice, Whole
<1> QED BY <1>1, <1>2, <1>3, <1>4, StateTypes, LenProperties DEF Text

\* A chunk that is saved brings the chain to its end, and the next may begin
\* there or an overlap earlier.
LEMMA SavedReaches ==
    ASSUME TypeOK, AllWhole, at <= Len(document),
           NEW a \in Nat, NEW e \in Nat, NEW b \in Nat, a < b, e < b,
           b <= Len(TextOfSection(at)), Reaches(chunks, at, e), Link(chunks, at, a, e),
           NEW words, words = SubSeq(TextOfSection(at), a + 1, b)
    PROVE  /\ Reaches(Saved(words), at, b)
           /\ Link(Saved(words), at, b - Len(Overlap(words)), b)
<1> DEFINE c == [section |-> at, words |-> words]
           lo == [k \in 1..1 |-> a]
           hi == [k \in 1..1 |-> b]
<1>0. /\ at \in 1..Len(document) /\ Len(document) \in Nat /\ at \in Nat
      /\ TextOfSection(at) \in Text /\ NoneTwice(TextOfSection(at))
      /\ chunks \in Seq(Chunk)
  BY SectionAtHand
<1>1. words \in Text
  BY <1>0, StretchOfText
<1>2. c \in Chunk /\ c.section = at /\ c.words = words
  BY <1>0, <1>1 DEF Chunk
<1>3. Saved(words) = Append(chunks, c)
  BY DEF Saved
<1> HIDE DEF c
<1>4. Saved(words) = chunks \o <<c>>
  BY <1>0, <1>2, <1>3, AppendIsConcat
<1>5. <<c>> \in Seq(Chunk) /\ Len(<<c>>) = 1 /\ <<c>>[1] = c
  BY <1>2
<1>6. lo \in [1..1 -> Nat] /\ hi \in [1..1 -> Nat] /\ lo[1] = a /\ hi[1] = b
  OBVIOUS
<1> HIDE DEF lo, hi
<1>7. CutAt(<<c>>, at, 1, lo, hi)
  <2>1. \A k \in 1..1 : k = 1
    OBVIOUS
  <2>2. \A k \in 1..(1 - 1) : lo[k + 1] = hi[k]
    OBVIOUS
  <2> QED BY <1>2, <1>5, <1>6, <2>1, <2>2 DEF CutAt
<1>8. Reaches(chunks \o <<c>>, at, hi[1])
  <2>1. 1 \in Nat \ {0}
    OBVIOUS
  <2> QED BY <1>0, <1>5, <1>6, <1>7, <2>1, CutsExtend
<1>9. /\ Saved(words) # <<>> /\ Saved(words)[Len(Saved(words))] = c
  BY <1>0, <1>2, <1>3, AppendProperties, LenProperties
<1>10. Link(Saved(words), at, b - Len(Overlap(words)), b)
  BY <1>2, <1>9 DEF Link
<1> QED BY <1>4, <1>6, <1>8, <1>10

\* A product grows with its factor.
LEMMA ProductsGrow ==
    ASSUME NEW x \in Nat, NEW y \in Nat, NEW z \in Nat, x <= y PROVE x * z <= y * z
<1>1. PICK d \in Nat : y = x + d
  <2>1. y - x \in Nat /\ y = x + (y - x)
    OBVIOUS
  <2> QED BY <2>1
<1>2. y * z = x * z + d * z /\ x * z \in Nat /\ d * z \in Nat
  BY <1>1
<1> QED BY <1>2

\* So do the slices of a sentence.
LEMMA SlicesReach ==
    ASSUME TypeOK, AllWhole, at <= Len(document),
           NEW a \in Nat, NEW b \in Nat, a < b, b <= Len(TextOfSection(at)),
           Reaches(chunks, at, a),
           NEW words, words = SubSeq(TextOfSection(at), a + 1, b)
    PROVE  Reaches(chunks \o Slices(words), at, b)
<1> DEFINE n == b - a
           s == config.size
           m == (n + s - 1) \div s
           last(k) == IF k * s < n THEN k * s ELSE n
           lo == [k \in 1..m |-> a + (k - 1) * s]
           hi == [k \in 1..m |-> a + last(k)]
           cut(k) == [section |-> at, words |-> SubSeq(words, (k - 1) * s + 1, last(k))]
<1>0. /\ at \in 1..Len(document) /\ Len(document) \in Nat /\ at \in Nat
      /\ TextOfSection(at) \in Text /\ NoneTwice(TextOfSection(at))
      /\ chunks \in Seq(Chunk) /\ config \in Configs
  BY SectionAtHand
<1>1. /\ words \in Text /\ Len(words) = n /\ n \in Nat /\ n > 0
      /\ s \in Nat /\ s > 0
  BY <1>0, StretchOfText, ConfigNumbers
<1>2. Slices(words) \in Seq(Chunk)
  BY <1>0, <1>1, SlicesAreShort
<1>3. Slices(words) = [k \in 1..m |-> cut(k)]
  BY <1>1 DEF Slices
<1> HIDE DEF s, n, cut
<1>4. m \in Nat /\ m >= 1 /\ m * s >= n /\ (m - 1) * s < n
  <2> DEFINE x == n + s - 1
  <2>1. x \in Nat
    BY <1>1
  <2> HIDE DEF x
  <2>2. /\ x \div s \in Nat /\ x % s \in 0..(s - 1)
        /\ x = s * (x \div s) + (x % s)
    BY <1>1, <2>1
  <2> DEFINE y == x \div s
  <2>3. y \in Nat /\ s * y <= x /\ x <= s * y + (s - 1)
    BY <1>1, <2>1, <2>2
  <2> HIDE DEF y
  <2>4. s * y >= n /\ s * y <= n + s - 1
    BY <1>1, <2>1, <2>3 DEF x
  <2>5. s * y = y * s /\ (y - 1) * s = y * s - s
    BY <1>1, <2>3
  <2>6. y * s >= n /\ (y - 1) * s < n
    <3>1. y * s \in Int
      BY <1>1, <2>3
    <3> HIDE DEF x
    <3> QED BY <1>1, <2>4, <2>5, <3>1
  <2>7. y # 0
    BY <1>1, <2>6
  <2> QED BY <2>3, <2>6, <2>7 DEF x, y
<1> HIDE DEF m
<1>5. ASSUME NEW k \in 1..m
      PROVE  /\ (k - 1) * s \in Nat /\ (k - 1) * s < n
             /\ last(k) \in Nat /\ (k - 1) * s < last(k) /\ last(k) <= n
             /\ k < m => last(k) = k * s
  <2> DEFINE f == (k - 1) * s
  <2>1. f \in Nat /\ k * s = f + s
    BY <1>1, <1>4
  <2>2. f <= (m - 1) * s
    <3>1. k - 1 \in Nat /\ m - 1 \in Nat /\ k - 1 <= m - 1
      BY <1>4
    <3> QED BY <1>1, <3>1
  <2>3. f < n
    <3>1. (m - 1) * s \in Int
      BY <1>1, <1>4
    <3> HIDE DEF f
    <3> QED BY <1>1, <1>4, <2>1, <2>2, <3>1
  <2>4. ASSUME k < m PROVE k * s <= (m - 1) * s
    <3>1. k \in Nat /\ m - 1 \in Nat /\ k <= m - 1
      BY <1>4, <2>4
    <3>2. PICK y \in Nat : y = m - 1
      BY <3>1
    <3>3. k * s <= y * s
      BY <1>1, <3>1, <3>2, ProductsGrow
    <3> QED BY <3>2, <3>3
  <2>5. k < m => k * s < n
    <3>1. (m - 1) * s \in Int /\ k * s \in Int
      BY <1>1, <1>4
    <3> QED BY <1>1, <1>4, <2>4, <3>1
  <2> HIDE DEF f
  <2>6. /\ last(k) \in Nat /\ f < last(k) /\ last(k) <= n /\ (k < m => last(k) = k * s)
    BY <1>1, <2>1, <2>3, <2>5
  <2> QED BY <2>1, <2>3, <2>6 DEF f
<1> DEFINE sl == Slices(words)
<1>6. Len(sl) = m /\ \A k \in 1..m : sl[k] = cut(k)
  <2>1. sl \in Seq(Chunk) /\ DOMAIN sl = 1..m
    BY <1>2, <1>3
  <2> QED BY <1>3, <1>4, <2>1, LenProperties
<1> HIDE DEF sl
<1>7. ASSUME NEW k \in 1..m
      PROVE  /\ cut(k).section = at
             /\ cut(k).words = SubSeq(TextOfSection(at), (a + (k - 1) * s) + 1, a + last(k))
  <2>1. PICK x \in Nat, y \in Nat : x = (k - 1) * s /\ y = last(k)
    BY <1>5
  <2>2. x <= y /\ y <= b - a /\ a <= b
    BY <1>5, <2>1 DEF n
  <2>3. SubSeq(SubSeq(TextOfSection(at), a + 1, b), x + 1, y)
          = SubSeq(TextOfSection(at), (a + x) + 1, a + y)
    BY <1>0, <2>2, StretchOfStretch
  <2>4. cut(k).section = at /\ cut(k).words = SubSeq(words, x + 1, y)
    BY <2>1 DEF cut
  <2> QED BY <2>1, <2>3, <2>4
<1>8. \A k \in 1..m : lo[k] = a + (k - 1) * s /\ hi[k] = a + last(k)
  OBVIOUS
<1>9. lo \in [1..m -> Nat] /\ hi \in [1..m -> Nat]
  BY <1>5
<1> HIDE DEF lo, hi, last
<1>10. CutAt(sl, at, m, lo, hi)
  <2>1. ASSUME NEW k \in 1..m
        PROVE  /\ sl[k].section = at
               /\ sl[k].words = SubSeq(TextOfSection(at), lo[k] + 1, hi[k])
    BY <1>6, <1>7, <1>8
  <2>2. ASSUME NEW k \in 1..m
        PROVE  lo[k] < hi[k] /\ hi[k] <= Len(TextOfSection(at))
    <3>1. PICK x \in Nat, y \in Nat : x = (k - 1) * s /\ y = last(k)
      BY <1>5
    <3>2. lo[k] = a + x /\ hi[k] = a + y /\ x < y /\ y <= b - a
      BY <1>5, <1>8, <3>1 DEF n
    <3>3. PICK z \in Nat : z = Len(TextOfSection(at)) /\ b <= z
      BY SectionAtHand
    <3> QED BY <3>2, <3>3
  <2>3. ASSUME NEW k \in 1..(m - 1) PROVE lo[k + 1] = hi[k]
    <3>1. k \in 1..m /\ k < m /\ k + 1 \in 1..m /\ (k + 1) - 1 = k
      BY <1>4
    <3>2. lo[k + 1] = a + ((k + 1) - 1) * s /\ hi[k] = a + last(k) /\ last(k) = k * s
      BY <1>5, <1>8, <3>1
    <3> QED BY <3>1, <3>2
  <2> QED BY <1>9, <2>1, <2>2, <2>3 DEF CutAt
<1>11. lo[1] = a /\ hi[m] = b /\ a < hi[1]
  <2>1. 1 \in 1..m /\ m \in 1..m
    BY <1>4
  <2>2. (1 - 1) * s = 0
    BY <1>1
  <2>3. last(m) = n
    <3>1. PICK y \in Nat : y = m * s
      BY <1>1, <1>4
    <3> QED BY <1>1, <1>4, <3>1 DEF last
  <2>4. last(1) \in Nat /\ 0 < last(1)
    BY <1>5, <2>1, <2>2
  <2>5. lo[1] = a + (1 - 1) * s /\ hi[m] = a + last(m) /\ hi[1] = a + last(1)
    BY <1>8, <2>1
  <2> QED BY <2>2, <2>3, <2>4, <2>5 DEF n
<1>12. Link(chunks, at, lo[1], a)
  BY <1>11 DEF Link
<1>13. Reaches(chunks \o sl, at, hi[m])
  <2>1. m \in Nat \ {0}
    BY <1>4
  <2> QED BY <1>0, <1>2, <1>6, <1>10, <1>11, <1>12, <2>1, CutsExtend DEF sl
<1> QED BY <1>11, <1>13 DEF sl

--------------------------------------------------------------------------
\* The chunks of a section cover it

\* What a loop r that has read up to place pos holds: nothing, and the chunks
\* come as far, or the words from where the next chunk begins.
Held(r, list, n, pos) ==
    IF r.pieces = 0
    THEN r.words = <<>> /\ Reaches(list, n, pos)
    ELSE \E a, e \in Nat :
           /\ a < pos /\ e < pos /\ Reaches(list, n, e) /\ Link(list, n, a, e)
           /\ r.words = SubSeq(TextOfSection(n), a + 1, pos)

\* What a loop holds depends on the document and the sizes only, and these stay.
LEMMA HeldStays ==
    ASSUME UNCHANGED <<document, config>>
    PROVE  \A r, list, n, pos : Held(r, list, n, pos)' <=> Held(r, list, n, pos)
<1>1. \A x, k, b, c : /\ Reaches(x, k, c)' <=> Reaches(x, k, c)
                     /\ Link(x, k, b, c)' <=> Link(x, k, b, c)
  BY ChainsStay
<1>2. \A n : TextOfSection(n)' = TextOfSection(n)
  BY DEF TextOfSection
<1> SUFFICES ASSUME NEW r, NEW list, NEW n, NEW pos
             PROVE  Held(r, list, n, pos)' <=> Held(r, list, n, pos)
  OBVIOUS
<1>3. CASE r.pieces = 0
  <2>1. Held(r, list, n, pos) <=> r.words = <<>> /\ Reaches(list, n, pos)
    BY <1>3 DEF Held
  <2>2. Held(r, list, n, pos)' <=> r.words = <<>> /\ Reaches(list, n, pos)'
    BY <1>3 DEF Held
  <2>3. Reaches(list, n, pos)' <=> Reaches(list, n, pos)
    BY ChainsStay
  <2> QED BY <2>1, <2>2, <2>3
<1>4. CASE r.pieces # 0
  <2>1. Held(r, list, n, pos) <=>
          \E a, e \in Nat :
            /\ a < pos /\ e < pos /\ Reaches(list, n, e) /\ Link(list, n, a, e)
            /\ r.words = SubSeq(TextOfSection(n), a + 1, pos)
    BY <1>4 DEF Held
  <2>2. Held(r, list, n, pos)' <=>
          \E a, e \in Nat :
            /\ a < pos /\ e < pos /\ Reaches(list, n, e)' /\ Link(list, n, a, e)'
            /\ r.words = SubSeq(TextOfSection(n)', a + 1, pos)
    BY <1>4 DEF Held
  <2>3. TextOfSection(n)' = TextOfSection(n)
    BY <1>2
  <2>4. ASSUME NEW a, NEW e
        PROVE  /\ Reaches(list, n, e)' <=> Reaches(list, n, e)
               /\ Link(list, n, a, e)' <=> Link(list, n, a, e)
               /\ SubSeq(TextOfSection(n)', a + 1, pos) = SubSeq(TextOfSection(n), a + 1, pos)
    BY ChainsStay, <2>3
  <2> QED BY <2>1, <2>2, <2>4
<1> QED BY <1>3, <1>4

\* The next piece of the text taken in, whichever loop does.
LEMMA TakenIsHeld ==
    ASSUME TypeOK, AllWhole, at <= Len(document), NEW l \in Loops,
           NEW pos \in Nat, NEW m \in Nat, pos < m, m <= Len(TextOfSection(at)),
           NEW p, p.words = SubSeq(TextOfSection(at), pos + 1, m),
           Held(current[l], chunks, at, pos),
           Collect(l, p) \/ SaveAndCarry(l, p)
    PROVE  /\ Held(current'[l], chunks', at, m) /\ level' = level
           /\ \A k \in Loops \ {l} : current'[k] = current[k]
<1> DEFINE t == TextOfSection(at)
<1>0. /\ t \in Text /\ config \in Configs /\ current \in [Loops -> Piece]
      /\ current[l].pieces \in Nat /\ current[l].words \in Text /\ Len(t) \in Nat
  BY SectionAtHand, StateTypes
<1>i. pos <= m /\ m <= Len(t)
  OBVIOUS
<1> HIDE DEF t
<1>1. p.words \in Text
  <2>1. SubSeq(t, pos + 1, m) \in Text
    BY <1>0, <1>i, StretchOfText
  <2> QED BY <2>1 DEF t
<1>2. CASE Collect(l, p)
  <2> DEFINE new == [words |-> Joined(l, p), pieces |-> current[l].pieces + 1]
  <2>1. current' = [current EXCEPT ![l] = new] /\ chunks' = chunks /\ level' = level
    BY <1>2 DEF Collect
  <2>2. new.words = current[l].words \o p.words /\ new.pieces # 0
    <3>1. current[l].pieces + 1 # 0
      BY <1>0
    <3> QED BY <3>1 DEF Joined
  <2> HIDE DEF new
  <2>3. current'[l] = new /\ \A k \in Loops \ {l} : current'[k] = current[k]
    BY <1>0, <2>1
  <2>4. CASE current[l].pieces = 0
    <3>1. current[l].words = <<>> /\ Reaches(chunks, at, pos)
      BY <2>4 DEF Held
    <3>2. new.words = SubSeq(t, pos + 1, m)
      BY <1>1, <2>2, <3>1, ConcatEmptySeq DEF Text, t
    <3>3. Link(chunks, at, pos, pos)
      BY DEF Link
    <3>4. Held(new, chunks, at, m)
      BY <2>2, <3>1, <3>2, <3>3 DEF Held, t
    <3> QED BY <2>1, <2>3, <3>4
  <2>5. CASE current[l].pieces # 0
    <3>1. PICK a \in Nat, e \in Nat :
            /\ a < pos /\ e < pos /\ Reaches(chunks, at, e) /\ Link(chunks, at, a, e)
            /\ current[l].words = SubSeq(t, a + 1, pos)
      BY <2>5 DEF Held, t
    <3>2. a <= pos /\ pos <= m /\ m <= Len(t) /\ a < m /\ e < m
      BY <3>1 DEF t
    <3>3. SubSeq(t, a + 1, pos) \o SubSeq(t, pos + 1, m) = SubSeq(t, a + 1, m)
      BY <1>0, <3>2, StretchesMeet
    <3>4. new.words = SubSeq(t, a + 1, m)
      BY <2>2, <3>1, <3>3 DEF t
    <3>5. Held(new, chunks, at, m)
      BY <2>2, <3>1, <3>2, <3>4 DEF Held, t
    <3> QED BY <2>1, <2>3, <3>5
  <2> QED BY <2>4, <2>5
<1>3. CASE SaveAndCarry(l, p)
  <2> DEFINE w == current[l].words
             new == [words |-> Overlap(w) \o p.words,
                     pieces |-> IF config.overlap > 0 THEN 2 ELSE 1]
  <2>1. /\ current' = [current EXCEPT ![l] = new] /\ chunks' = Saved(w) /\ level' = level
        /\ current[l].pieces > 0
    BY <1>3 DEF SaveAndCarry
  <2>2. new.words = Overlap(w) \o p.words /\ new.pieces # 0
    OBVIOUS
  <2> HIDE DEF new, w
  <2>3. current'[l] = new /\ \A k \in Loops \ {l} : current'[k] = current[k]
    BY <1>0, <2>1
  <2>4. PICK a \in Nat, e \in Nat :
          /\ a < pos /\ e < pos /\ Reaches(chunks, at, e) /\ Link(chunks, at, a, e)
          /\ w = SubSeq(t, a + 1, pos)
    <3>1. current[l].pieces # 0
      BY <1>0, <2>1
    <3> QED BY <3>1 DEF Held, t, w
  <2>5. pos <= Len(t) /\ m <= Len(t)
    BY <1>0 DEF t
  <2>6. Reaches(Saved(w), at, pos) /\ Link(Saved(w), at, pos - Len(Overlap(w)), pos)
    BY <2>4, <2>5, SavedReaches DEF t
  <2>7. /\ Len(Overlap(w)) \in Nat /\ Len(Overlap(w)) <= pos - a
        /\ Overlap(w) = SubSeq(t, (pos - Len(Overlap(w))) + 1, pos)
    BY <1>0, <2>4, <2>5, OverlapIsTheEnd
  <2>8. PICK b \in Nat : b = pos - Len(Overlap(w)) /\ b <= pos
    <3>1. PICK o \in Nat : o = Len(Overlap(w)) /\ o <= pos - a
      BY <2>7
    <3>2. pos - o \in Nat /\ pos - o <= pos
      BY <2>4, <3>1
    <3> QED BY <3>1, <3>2
  <2>9. SubSeq(t, b + 1, pos) \o SubSeq(t, pos + 1, m) = SubSeq(t, b + 1, m)
    <3>1. b <= pos /\ pos <= m /\ m <= Len(t) /\ t \in Text
      BY <1>0, <1>i, <2>8
    <3> QED BY <3>1, StretchesMeet
  <2>10. new.words = SubSeq(t, b + 1, m)
    BY <2>2, <2>7, <2>8, <2>9 DEF t
  <2>11. b < m /\ Link(Saved(w), at, b, pos)
    BY <2>6, <2>8
  <2>12. Held(new, Saved(w), at, m)
    BY <2>2, <2>6, <2>10, <2>11 DEF Held, t
  <2> QED BY <2>1, <2>3, <2>12
<1> QED BY <1>2, <1>3

\* What is left at the end of a loop.
LEMMA RemainingReaches ==
    ASSUME TypeOK, AllWhole, at <= Len(document), NEW l \in Loops,
           NEW pos \in Nat, pos <= Len(TextOfSection(at)), Held(current[l], chunks, at, pos)
    PROVE  Reaches(Remaining(l), at, pos)
<1>0. current[l].pieces \in Nat
  BY StateTypes
<1>1. CASE current[l].pieces = 0
  <2>1. ~(current[l].pieces > 0)
    BY <1>1
  <2> QED BY <1>1, <2>1 DEF Remaining, Held
<1>2. CASE current[l].pieces # 0
  <2>1. current[l].pieces > 0
    BY <1>0, <1>2
  <2>2. PICK a \in Nat, e \in Nat :
          /\ a < pos /\ e < pos /\ Reaches(chunks, at, e) /\ Link(chunks, at, a, e)
          /\ current[l].words = SubSeq(TextOfSection(at), a + 1, pos)
    BY <1>2 DEF Held
  <2>3. Reaches(Saved(current[l].words), at, pos)
    BY <2>2, SavedReaches
  <2> QED BY <2>1, <2>3 DEF Remaining
<1> QED BY <1>1, <1>2

\* A section that is covered is done.
LEMMA SectionIsDone ==
    ASSUME TypeOK, AllWhole, at <= Len(document), NEW list \in Seq(Chunk),
           Reaches(list, at, Len(TextOfSection(at)))
    PROVE  Reaches(list, at + 1, 0)
<1> DEFINE c == list[Len(list)]
           e == Len(TextOfSection(at))
<1>0. at \in Nat /\ e \in Nat /\ TextOfSection(at) \in Text /\ Len(list) \in Nat
  BY SectionAtHand, LenProperties
<1>1. ASSUME list # <<>>
      PROVE  /\ c.section \in Nat /\ c.section <= at /\ c.section # at + 1
             /\ To(c) = Len(TextOfSection(c.section))
  <2>1. Len(list) \in 1..Len(list)
    BY <1>0, <1>1, EmptySeq
  <2>2. c \in Chunk
    BY <2>1, ElementOfSeq
  <2>3. c.section \in Nat /\ c.section <= at
    BY <2>1, <2>2 DEF Chunk, Reaches
  <2>4. To(c) = Len(TextOfSection(c.section))
    <3>1. CASE c.section = at
      BY <1>1, <3>1 DEF Reaches
    <3>2. CASE c.section # at
      BY <1>1, <3>2 DEF Reaches
    <3> QED BY <3>1, <3>2
  <2> QED BY <1>0, <2>3, <2>4
<1>2. ASSUME NEW i \in 1..Len(list) PROVE list[i].section <= at + 1
  <2>1. list[i].section \in Nat
    <3>1. list[i] \in Chunk
      BY ElementOfSeq
    <3> QED BY <3>1 DEF Chunk
  <2>2. list[i].section <= at
    BY DEF Reaches
  <2> QED BY <1>0, <2>1, <2>2
<1>3. ASSUME NEW m \in 1..((at + 1) - 1), TextOfSection(m) # <<>>
      PROVE  \E i \in 1..Len(list) : list[i].section = m
  <2>1. CASE m = at
    <3>1. e # 0
      BY <1>0, <1>3, <2>1, EmptySeq DEF Text
    <3>2. list # <<>> /\ c.section = at
      BY <3>1 DEF Reaches
    <3>3. Len(list) \in 1..Len(list)
      BY <1>0, <3>2, EmptySeq
    <3> QED BY <2>1, <3>2, <3>3
  <2>2. CASE m # at
    <3>1. m \in 1..(at - 1)
      BY <1>0, <2>2
    <3> QED BY <1>3, <3>1 DEF Reaches
  <2> QED BY <2>1, <2>2
<1>4. Chained(list)
  BY DEF Reaches
<1> QED BY <1>1, <1>2, <1>3, <1>4 DEF Reaches

\* The sentences of a paragraph cover its stretch of the section.
LEMMA SentencesCover ==
    ASSUME NEW text \in Text, NEW q \in Nat, NEW r \in Nat, q <= r, r <= Len(text),
           NEW p \in Paragraph, p.words = SubSeq(text, q + 1, r), WholeParagraph(p)
    PROVE  /\ Cover(p.sentences, text, q, r)
           /\ \A j \in 1..Len(p.sentences) : p.sentences[j].words # <<>>
<1>1. Len(p.words) = r - q
  BY StretchOfText
<1>2. p.sentences \in Seq(Sentence)
  BY DEF Paragraph
<1>3. Cover(p.sentences, SubSeq(text, q + 1, r), 0, r - q)
  BY <1>1 DEF WholeParagraph
<1> QED BY <1>2, <1>3, CoverOfStretch DEF WholeParagraph

\* The loop over the paragraphs has read the section up to place pos.
ParagraphsFrom(pos) ==
    /\ Len(document[at].paragraphs) > 1
    /\ Cover(paragraphs, TextOfSection(at), pos, Len(TextOfSection(at)))
    /\ \A i \in 1..Len(paragraphs) : WholeParagraph(paragraphs[i])

BetweenSections ==
    level \in {"section", "done"} =>
        /\ current["paragraph"] = Nothing /\ current["sentence"] = Nothing
        /\ Reaches(chunks, at, 0)

InParagraphs ==
    level = "paragraph" =>
        /\ current["sentence"] = Nothing
        /\ \E pos \in 0..Len(TextOfSection(at)) :
             ParagraphsFrom(pos) /\ Held(current["paragraph"], chunks, at, pos)

\* The loop over the sentences is within a paragraph that ends at place end.
InSentences ==
    level = "sentence" =>
        /\ current["paragraph"] = Nothing
        /\ \A j \in 1..Len(sentences) : sentences[j].words # <<>>
        /\ \E pos, end \in 0..Len(TextOfSection(at)) :
             /\ Cover(sentences, TextOfSection(at), pos, end)
             /\ Held(current["sentence"], chunks, at, pos)
             /\ IF Len(document[at].paragraphs) > 1 THEN ParagraphsFrom(end)
                ELSE end = Len(TextOfSection(at))

CoverInv == AllWhole /\ BetweenSections /\ InParagraphs /\ InSentences

\* Nothing is held between two pieces.
LEMMA NothingIsHeld ==
    ASSUME NEW list, NEW n, NEW pos, Reaches(list, n, pos)
    PROVE  Held(Nothing, list, n, pos)
BY DEF Held, Nothing

\* A loop that has collected nothing holds nothing, and the chunks reach the place it
\* has read up to.
LEMMA HoldsNothing ==
    ASSUME NEW r \in Piece, r.pieces = 0, NEW list, NEW n, NEW pos, Held(r, list, n, pos)
    PROVE  r = Nothing /\ Reaches(list, n, pos)
BY DEF Held, Nothing, Piece

\* A step of a section begins the next one, a loop, or goes on with it.
LEMMA SectionStepCovers ==
    ASSUME TypeOK, CoverInv, NextSection PROVE CoverInv'
<1> DEFINE t == TextOfSection(at)
           section == document[at]
           n == Len(t)
<1>0. /\ level = "section" /\ at <= Len(document) /\ UNCHANGED <<document, config, current>>
      /\ AllWhole
  BY DEF NextSection, CoverInv
<1>1. /\ at \in 1..Len(document) /\ at \in Nat /\ section \in Section /\ Whole(section)
      /\ t \in Text /\ n \in Nat /\ chunks \in Seq(Chunk) /\ config \in Configs
  BY <1>0, SectionAtHand
<1>2. /\ current["paragraph"] = Nothing /\ current["sentence"] = Nothing
      /\ Reaches(chunks, at, 0)
  BY <1>0 DEF CoverInv, BetweenSections
<1>3. AllWhole'
  BY <1>0 DEF AllWhole
<1>4. t = section.words
  BY DEF TextOfSection
<1>5. config.size \in Nat
  BY <1>1, ConfigNumbers
<1>p. section.paragraphs \in Seq(Paragraph)
  BY <1>1, SectionTypes
<1>h. \A r, list, k, pos : Held(r, list, k, pos)' <=> Held(r, list, k, pos)
  BY <1>0, HeldStays
<1>r. \A list, k, e : Reaches(list, k, e)' <=> Reaches(list, k, e)
  BY <1>0, ChainsStay
<1> HIDE DEF t, n
<1>6. CASE n <= config.size
  <2>1. /\ chunks' = IF n = 0 THEN chunks ELSE Saved(section.words)
        /\ at' = at + 1 /\ level' = level
    BY <1>1, <1>4, <1>5, <1>6 DEF NextSection, n
  <2>2. PICK list \in Seq(Chunk) : list = chunks' /\ Reaches(list, at, n)
    <3>1. CASE n = 0
      BY <1>1, <1>2, <2>1, <3>1
    <3>2. CASE n # 0
      <4>1. section.words = SubSeq(t, 0 + 1, n)
        BY <1>1, <1>4, SubSeqFull DEF Text, n
      <4>2. Link(chunks, at, 0, 0)
        BY DEF Link
      <4>3. 0 \in Nat /\ 0 < n /\ n <= Len(t)
        BY <1>1, <3>2 DEF n
      <4>4. Reaches(Saved(section.words), at, n)
        BY <1>0, <1>1, <1>2, <4>1, <4>2, <4>3, SavedReaches DEF t
      <4>5. Saved(section.words) \in Seq(Chunk)
        BY <1>1, <1>4, SavedIsTyped
      <4> QED BY <2>1, <3>2, <4>4, <4>5
    <3> QED BY <3>1, <3>2
  <2>3. Reaches(list, at + 1, 0)
    BY <1>0, <2>2, SectionIsDone DEF t, n
  <2>4. Reaches(chunks, at, 0)'
    BY <1>r, <2>1, <2>2, <2>3
  <2> QED BY <1>0, <1>2, <1>3, <2>1, <2>4
          DEF CoverInv, BetweenSections, InParagraphs, InSentences
<1>7. CASE n > config.size
  <2>1. ~(n <= config.size)
    BY <1>1, <1>5, <1>7
  <2>2. at' = at /\ chunks' = chunks
        /\ \/ /\ Len(section.paragraphs) > 1
              /\ level' = "paragraph" /\ paragraphs' = section.paragraphs
           \/ /\ Len(section.paragraphs) = 1
              /\ level' = "sentence" /\ sentences' = section.paragraphs[1].sentences
    BY <1>4, <2>1 DEF NextSection, n
  <2>3. Held(Nothing, chunks, at, 0)
    BY <1>2, NothingIsHeld
  <2>4. CASE Len(section.paragraphs) > 1 /\ level' = "paragraph"
               /\ paragraphs' = section.paragraphs
    <3>1. Cover(section.paragraphs, t, 0, n)
            /\ \A i \in 1..Len(section.paragraphs) : WholeParagraph(section.paragraphs[i])
      BY <1>1, <1>4 DEF Whole, n
    <3>2. ParagraphsFrom(0)'
      BY <1>0, <2>2, <2>4, <3>1 DEF ParagraphsFrom, TextOfSection, t, n
    <3>3. Held(current["paragraph"], chunks, at, 0)'
      BY <1>0, <1>2, <1>h, <2>2, <2>3
    <3>4. 0 \in 0..Len(TextOfSection(at)')
      BY <1>0, <1>1, <2>2 DEF TextOfSection, t, n
    <3> QED BY <1>0, <1>2, <1>3, <2>4, <3>2, <3>3, <3>4
            DEF CoverInv, BetweenSections, InParagraphs, InSentences
  <2>5. CASE Len(section.paragraphs) = 1 /\ level' = "sentence"
               /\ sentences' = section.paragraphs[1].sentences
    <3> DEFINE p == section.paragraphs[1]
    <3>1. 1 \in 1..Len(section.paragraphs) /\ section.paragraphs # <<>>
      BY <2>5
    <3>2. p \in Paragraph /\ WholeParagraph(p)
      BY <1>1, <1>p, <3>1, ElementOfSeq DEF Whole
    <3>3. Cover(section.paragraphs, t, 0, n)
      BY <1>1, <1>4 DEF Whole, n
    <3>4. PICK m \in 0..Len(t) :
            /\ Head(section.paragraphs).words = SubSeq(t, 0 + 1, m)
            /\ Cover(Tail(section.paragraphs), t, m, n)
      BY <1>1, <1>p, <3>1, <3>3, CoverFirst
    <3>5. Tail(section.paragraphs) = <<>> /\ Head(section.paragraphs) = p
      <4>1. Tail(section.paragraphs) \in Seq(Paragraph) /\ Len(Tail(section.paragraphs)) = 0
        BY <1>p, <2>5, <3>1, HeadTailProperties
      <4> QED BY <1>p, <3>1, <4>1, EmptySeq, TailStays
    <3>6. m = n
      BY <3>4, <3>5, CoverNothing
    <3> HIDE DEF p
    <3>7. p.words = SubSeq(t, 0 + 1, n) /\ 0 \in Nat /\ 0 <= n /\ n <= Len(t)
      BY <1>1, <3>4, <3>5, <3>6 DEF n
    <3>8. /\ Cover(p.sentences, t, 0, n)
          /\ \A j \in 1..Len(p.sentences) : p.sentences[j].words # <<>>
      BY <1>1, <3>2, <3>7, SentencesCover
    <3>9. Held(current["sentence"], chunks, at, 0)'
      BY <1>0, <1>2, <1>h, <2>2, <2>3
    <3>10. Cover(sentences, TextOfSection(at), 0, Len(TextOfSection(at)))'
      BY <1>0, <2>2, <2>5, <3>8 DEF TextOfSection, t, n, p
    <3>11. /\ 0 \in 0..Len(TextOfSection(at)') /\ Len(TextOfSection(at)') = n
           /\ n \in 0..Len(TextOfSection(at)')
      BY <1>0, <1>1, <2>2 DEF TextOfSection, t, n
    <3>12. ~(Len(document[at].paragraphs) > 1)'
      BY <1>0, <2>2, <2>5
    <3>13. InSentences'
      BY <1>0, <1>2, <2>5, <3>8, <3>9, <3>10, <3>11, <3>12 DEF InSentences, p
    <3> QED BY <1>0, <1>3, <2>5, <3>13 DEF CoverInv, BetweenSections, InParagraphs
  <2> QED BY <2>2, <2>4, <2>5
<1> QED BY <1>1, <1>5, <1>6, <1>7

\* A step of the loop over the paragraphs.
LEMMA ParagraphStepCovers ==
    ASSUME TypeOK, CoverInv, NextParagraph PROVE CoverInv'
<1> DEFINE t == TextOfSection(at)
           n == Len(t)
           p == Head(paragraphs)
<1>0. /\ level = "paragraph" /\ paragraphs # <<>> /\ at <= Len(document)
      /\ UNCHANGED <<document, config, at>> /\ paragraphs' = Tail(paragraphs)
      /\ AllWhole /\ paragraphs \in Seq(Paragraph) /\ sentences \in Seq(Sentence)
  BY DEF NextParagraph, CoverInv, TypeOK, Loops
<1>1. t \in Text /\ n \in Nat /\ chunks \in Seq(Chunk) /\ config \in Configs
  BY <1>0, SectionAtHand
<1>2. /\ AllWhole' /\ TextOfSection(at)' = t
      /\ document'[at'].paragraphs = document[at].paragraphs
  BY <1>0 DEF AllWhole, TextOfSection
<1>h. \A r, list, k, pos : Held(r, list, k, pos)' <=> Held(r, list, k, pos)
  BY <1>0, HeldStays
<1>3. current["sentence"] = Nothing /\ "paragraph" \in Loops /\ "sentence" \in Loops
  BY <1>0 DEF CoverInv, InParagraphs, Loops
<1>4. PICK pos \in 0..n : ParagraphsFrom(pos) /\ Held(current["paragraph"], chunks, at, pos)
  BY <1>0 DEF CoverInv, InParagraphs
<1>5. PICK m \in 0..n :
        /\ pos <= m /\ p.words = SubSeq(t, pos + 1, m)
        /\ Cover(Tail(paragraphs), t, m, n)
  BY <1>0, <1>1, <1>4, CoverFirst DEF ParagraphsFrom
<1>6. /\ p \in Paragraph /\ WholeParagraph(p) /\ Len(document[at].paragraphs) > 1
      /\ \A i \in 1..Len(Tail(paragraphs)) : WholeParagraph(Tail(paragraphs)[i])
  <2>1. p = paragraphs[1] /\ 1 \in 1..Len(paragraphs)
          /\ \A i \in 1..Len(Tail(paragraphs)) :
               i + 1 \in 1..Len(paragraphs) /\ Tail(paragraphs)[i] = paragraphs[i + 1]
    BY <1>0, TailStays
  <2>2. p \in Paragraph
    BY <1>0, HeadTailProperties
  <2> QED BY <1>4, <2>1, <2>2 DEF ParagraphsFrom
<1> HIDE DEF t, n, p
<1>7. pos \in Nat /\ m \in Nat /\ m <= Len(t) /\ pos <= Len(t) /\ pos <= m
  BY <1>1, <1>5 DEF n
<1>8. ParagraphsFrom(m)'
  BY <1>0, <1>2, <1>5, <1>6 DEF ParagraphsFrom, n
<1>9. m \in 0..Len(TextOfSection(at)')
  BY <1>2, <1>5 DEF n
<1>10. \/ p.words = <<>> /\ UNCHANGED <<level, sentences, current, chunks>>
       \/ p.words # <<>> /\ (Collect("paragraph", p) \/ SaveAndCarry("paragraph", p))
       \/ /\ TooLarge("paragraph", p) /\ level' = "sentence" /\ sentences' = p.sentences
          /\ UNCHANGED <<current, chunks>>
  BY DEF NextParagraph, p
<1>11. Len(p.words) = m - pos /\ p.words \in Text
  BY <1>1, <1>5, <1>7, StretchOfText
<1>12. CASE p.words = <<>> /\ UNCHANGED <<level, sentences, current, chunks>>
  <2>1. m = pos
    <3>1. Len(p.words) = 0
      BY <1>12
    <3> QED BY <1>7, <1>11, <3>1
  <2>2. Held(current["paragraph"], chunks, at, m)'
    BY <1>0, <1>4, <1>h, <1>12, <2>1
  <2> QED BY <1>0, <1>2, <1>3, <1>8, <1>9, <1>12, <2>2
          DEF CoverInv, BetweenSections, InParagraphs, InSentences
<1>13. CASE p.words # <<>> /\ (Collect("paragraph", p) \/ SaveAndCarry("paragraph", p))
  <2>1. pos < m
    <3>1. Len(p.words) # 0
      BY <1>11, <1>13, EmptySeq DEF Text
    <3> QED BY <1>7, <1>11, <3>1
  <2>2. /\ Held(current'["paragraph"], chunks', at, m) /\ level' = level
        /\ \A k \in Loops \ {"paragraph"} : current'[k] = current[k]
    BY <1>0, <1>3, <1>4, <1>5, <1>7, <1>13, <2>1, TakenIsHeld DEF t
  <2>3. Held(current["paragraph"], chunks, at, m)'
    BY <1>0, <1>h, <2>2
  <2>4. current'["sentence"] = Nothing
    BY <1>3, <2>2
  <2> QED BY <1>0, <1>2, <1>8, <1>9, <2>2, <2>3, <2>4
          DEF CoverInv, BetweenSections, InParagraphs, InSentences
<1>14. CASE /\ TooLarge("paragraph", p) /\ level' = "sentence" /\ sentences' = p.sentences
            /\ UNCHANGED <<current, chunks>>
  <2>1. current["paragraph"].pieces = 0 /\ current["paragraph"] \in Piece
    BY <1>3, <1>14, StateTypes DEF TooLarge
  <2>2. current["paragraph"] = Nothing /\ Reaches(chunks, at, pos)
    BY <1>4, <2>1, HoldsNothing
  <2>3. Held(current["sentence"], chunks, at, pos)
    BY <1>3, <2>2, NothingIsHeld
  <2>4. Held(current["sentence"], chunks, at, pos)'
    BY <1>0, <1>14, <1>h, <2>3
  <2>5. /\ Cover(p.sentences, t, pos, m)
        /\ \A j \in 1..Len(p.sentences) : p.sentences[j].words # <<>>
    BY <1>1, <1>5, <1>6, <1>7, SentencesCover
  <2>6. Cover(sentences, TextOfSection(at), pos, m)'
    BY <1>2, <1>14, <2>5
  <2>7. (Len(document[at].paragraphs) > 1)'
    BY <1>2, <1>6
  <2>8. pos \in 0..Len(TextOfSection(at)')
    BY <1>2 DEF n
  <2>9. InSentences'
    BY <1>8, <1>9, <1>14, <2>2, <2>4, <2>5, <2>6, <2>7, <2>8 DEF InSentences
  <2> QED BY <1>2, <1>14, <2>9 DEF CoverInv, BetweenSections, InParagraphs
<1> QED BY <1>10, <1>12, <1>13, <1>14

\* A step of the loop over the sentences.
LEMMA SentenceStepCovers ==
    ASSUME TypeOK, CoverInv, NextSentence PROVE CoverInv'
<1> DEFINE t == TextOfSection(at)
           n == Len(t)
           s == Head(sentences)
           several == Len(document[at].paragraphs) > 1
<1>0. /\ level = "sentence" /\ sentences # <<>> /\ at <= Len(document)
      /\ UNCHANGED <<document, config, at, paragraphs>> /\ sentences' = Tail(sentences)
      /\ AllWhole /\ sentences \in Seq(Sentence)
  BY DEF NextSentence, CoverInv, TypeOK, Loops
<1>1. t \in Text /\ n \in Nat /\ chunks \in Seq(Chunk) /\ config \in Configs
  BY <1>0, SectionAtHand
<1>2. /\ AllWhole' /\ TextOfSection(at)' = t
      /\ document'[at'].paragraphs = document[at].paragraphs
  BY <1>0 DEF AllWhole, TextOfSection
<1>h. \A r, list, k, pos : Held(r, list, k, pos)' <=> Held(r, list, k, pos)
  BY <1>0, HeldStays
<1>3. current["paragraph"] = Nothing /\ "paragraph" \in Loops /\ "sentence" \in Loops
  BY <1>0 DEF CoverInv, InSentences, Loops
<1>4. PICK pos \in 0..n, end \in 0..n :
        /\ Cover(sentences, t, pos, end) /\ Held(current["sentence"], chunks, at, pos)
        /\ IF several THEN ParagraphsFrom(end) ELSE end = n
  BY <1>0 DEF CoverInv, InSentences
<1>5. PICK m \in 0..n :
        /\ pos <= m /\ s.words = SubSeq(t, pos + 1, m)
        /\ Cover(Tail(sentences), t, m, end)
  BY <1>0, <1>1, <1>4, CoverFirst
<1>6. /\ s.words # <<>>
      /\ \A j \in 1..Len(Tail(sentences)) : Tail(sentences)[j].words # <<>>
  <2>1. s = sentences[1] /\ 1 \in 1..Len(sentences)
          /\ \A i \in 1..Len(Tail(sentences)) :
               i + 1 \in 1..Len(sentences) /\ Tail(sentences)[i] = sentences[i + 1]
    BY <1>0, TailStays
  <2>2. \A j \in 1..Len(sentences) : sentences[j].words # <<>>
    BY <1>0 DEF CoverInv, InSentences
  <2> QED BY <2>1, <2>2
<1>7. (IF several THEN ParagraphsFrom(end) ELSE end = Len(TextOfSection(at)))'
  BY <1>0, <1>2, <1>4 DEF ParagraphsFrom, TextOfSection
<1>8. /\ m \in 0..Len(TextOfSection(at)') /\ end \in 0..Len(TextOfSection(at)')
      /\ Cover(sentences, TextOfSection(at), m, end)'
  BY <1>0, <1>2, <1>4, <1>5
<1> HIDE DEF t, n, s
<1>9. pos \in Nat /\ m \in Nat /\ m <= Len(t) /\ pos <= m
  BY <1>1, <1>5 DEF n
<1>10. pos < m
  <2>1. Len(s.words) = m - pos /\ s.words \in Text
    BY <1>1, <1>5, <1>9, StretchOfText
  <2>2. Len(s.words) # 0
    BY <1>6, <2>1, EmptySeq DEF Text
  <2> QED BY <1>9, <2>1, <2>2
<1>11. ASSUME level' = level, current'["paragraph"] = Nothing,
              Held(current'["sentence"], chunks', at, m)
       PROVE  CoverInv'
  <2>1. Held(current["sentence"], chunks, at, m)'
    BY <1>0, <1>h, <1>11
  <2>2. InSentences'
    BY <1>0, <1>6, <1>7, <1>8, <1>11, <2>1 DEF InSentences
  <2> QED BY <1>0, <1>2, <1>11, <2>2 DEF CoverInv, BetweenSections, InParagraphs
<1>12. \/ Collect("sentence", s) \/ SaveAndCarry("sentence", s)
       \/ /\ TooLarge("sentence", s) /\ chunks' = chunks \o Slices(s.words)
          /\ UNCHANGED <<level, current>>
  BY DEF NextSentence, s
<1>13. CASE Collect("sentence", s) \/ SaveAndCarry("sentence", s)
  <2>1. /\ Held(current'["sentence"], chunks', at, m) /\ level' = level
        /\ \A k \in Loops \ {"sentence"} : current'[k] = current[k]
    BY <1>0, <1>3, <1>4, <1>5, <1>9, <1>10, <1>13, TakenIsHeld DEF t
  <2>2. current'["paragraph"] = Nothing
    BY <1>3, <2>1
  <2> QED BY <1>11, <2>1, <2>2
<1>14. CASE /\ TooLarge("sentence", s) /\ chunks' = chunks \o Slices(s.words)
            /\ UNCHANGED <<level, current>>
  <2>1. current["sentence"].pieces = 0 /\ current["sentence"] \in Piece
    BY <1>3, <1>14, StateTypes DEF TooLarge
  <2>2. current["sentence"] = Nothing /\ Reaches(chunks, at, pos)
    BY <1>4, <2>1, HoldsNothing
  <2>3. Reaches(chunks', at, m)
    BY <1>0, <1>5, <1>9, <1>10, <1>14, <2>2, SlicesReach DEF t
  <2>4. Held(current'["sentence"], chunks', at, m)
    BY <1>14, <2>2, <2>3, NothingIsHeld
  <2> QED BY <1>3, <1>11, <1>14, <2>4
<1> QED BY <1>12, <1>13, <1>14

\* A section that its chunks cover lets the next one begin.
LEMMA NextSectionCovers ==
    ASSUME TypeOK, AllWhole, at <= Len(document), UNCHANGED <<document, config>>,
           chunks' \in Seq(Chunk), Reaches(chunks', at, Len(TextOfSection(at))),
           level' = "section", at' = at + 1,
           current'["paragraph"] = Nothing, current'["sentence"] = Nothing
    PROVE  CoverInv'
<1>1. PICK list \in Seq(Chunk) : list = chunks' /\ Reaches(list, at, Len(TextOfSection(at)))
  OBVIOUS
<1>2. Reaches(list, at + 1, 0)
  BY <1>1, SectionIsDone
<1>3. \A k : Reaches(list, k, 0)' <=> Reaches(list, k, 0)
  BY ChainsStay
<1>4. PICK k : k = at + 1
  OBVIOUS
<1>5. Reaches(chunks, at, 0)'
  BY <1>1, <1>2, <1>3, <1>4
<1>6. AllWhole'
  BY DEF AllWhole
<1> QED BY <1>5, <1>6 DEF CoverInv, BetweenSections, InParagraphs, InSentences

\* The end of the loop over the sentences.
LEMMA ParagraphEndCovers ==
    ASSUME TypeOK, CoverInv, EndOfParagraph PROVE CoverInv'
<1> DEFINE t == TextOfSection(at)
           n == Len(t)
           several == Len(document[at].paragraphs) > 1
<1>0. /\ level = "sentence" /\ sentences = <<>> /\ at <= Len(document)
      /\ UNCHANGED <<document, config, paragraphs>>
      /\ AllWhole /\ chunks' = Remaining("sentence")
      /\ current' = [current EXCEPT !["sentence"] = Nothing]
  BY DEF EndOfParagraph, CoverInv, TypeOK, Loops
<1>1. t \in Text /\ n \in Nat
  BY <1>0, SectionAtHand
<1>2. AllWhole'
  BY <1>0 DEF AllWhole
<1>h. \A r, list, k, pos : Held(r, list, k, pos)' <=> Held(r, list, k, pos)
  BY <1>0, HeldStays
<1>3. /\ "sentence" \in Loops /\ current \in [Loops -> Piece]
      /\ current'["paragraph"] = Nothing /\ current'["sentence"] = Nothing
  BY <1>0, StateTypes DEF CoverInv, InSentences, Loops
<1>4. PICK pos \in 0..n, end \in 0..n :
        /\ Cover(sentences, t, pos, end) /\ Held(current["sentence"], chunks, at, pos)
        /\ IF several THEN ParagraphsFrom(end) ELSE end = n
  BY <1>0 DEF CoverInv, InSentences
<1>5. pos = end
  BY <1>0, <1>4, CoverNothing
<1>6. pos \in Nat /\ pos <= Len(TextOfSection(at))
  BY <1>1
<1>7. Reaches(chunks', at, pos) /\ chunks' \in Seq(Chunk)
  BY <1>0, <1>3, <1>4, <1>6, RemainingReaches, RemainingIsTyped
<1>8. CASE several
  <2>1. level' = "paragraph" /\ at' = at
    BY <1>8 DEF EndOfParagraph
  <2>2. ParagraphsFrom(pos)'
    BY <1>0, <1>4, <1>5, <1>8, <2>1 DEF ParagraphsFrom, TextOfSection
  <2>3. Held(current'["paragraph"], chunks', at, pos)
    BY <1>3, <1>7, NothingIsHeld
  <2>4. Held(current["paragraph"], chunks, at, pos)'
    BY <1>h, <2>1, <2>3
  <2>5. pos \in 0..Len(TextOfSection(at)')
    BY <1>0, <1>4, <2>1 DEF TextOfSection
  <2> QED BY <1>2, <1>3, <2>1, <2>2, <2>4, <2>5
          DEF CoverInv, BetweenSections, InParagraphs, InSentences
<1>9. CASE ~several
  <2>1. level' = "section" /\ at' = at + 1
    BY <1>9 DEF EndOfParagraph
  <2>2. Reaches(chunks', at, Len(TextOfSection(at)))
    BY <1>4, <1>5, <1>7, <1>9
  <2> QED BY <1>0, <1>3, <1>7, <2>1, <2>2, NextSectionCovers
<1> QED BY <1>8, <1>9

\* The end of the loop over the paragraphs.
LEMMA SectionEndCovers ==
    ASSUME TypeOK, CoverInv, EndOfSection PROVE CoverInv'
<1> DEFINE t == TextOfSection(at)
           n == Len(t)
<1>0. /\ level = "paragraph" /\ paragraphs = <<>> /\ at <= Len(document)
      /\ UNCHANGED <<document, config>>
      /\ AllWhole /\ chunks' = Remaining("paragraph")
      /\ current' = [current EXCEPT !["paragraph"] = Nothing]
      /\ level' = "section" /\ at' = at + 1
  BY DEF EndOfSection, CoverInv, TypeOK, Loops
<1>1. t \in Text /\ n \in Nat
  BY <1>0, SectionAtHand
<1>2. /\ "paragraph" \in Loops /\ current \in [Loops -> Piece]
      /\ current'["paragraph"] = Nothing /\ current'["sentence"] = Nothing
  BY <1>0, StateTypes DEF CoverInv, InParagraphs, Loops
<1>3. PICK pos \in 0..n : ParagraphsFrom(pos) /\ Held(current["paragraph"], chunks, at, pos)
  BY <1>0 DEF CoverInv, InParagraphs
<1>4. pos = n
  BY <1>0, <1>3, CoverNothing DEF ParagraphsFrom
<1>5. pos \in Nat /\ pos <= Len(TextOfSection(at))
  BY <1>1
<1>6. Reaches(chunks', at, Len(TextOfSection(at))) /\ chunks' \in Seq(Chunk)
  BY <1>0, <1>2, <1>3, <1>4, <1>5, RemainingReaches, RemainingIsTyped
<1> QED BY <1>0, <1>2, <1>6, NextSectionCovers

\* Going from one section to the next, or to the end, disturbs no part of the
\* invariant.
LEMMA CoverInvStays ==
    ASSUME CoverInv,
           UNCHANGED <<document, config, at, paragraphs, sentences, current, chunks>>,
           \/ level' = level
           \/ level \in {"section", "done"} /\ level' \in {"section", "done"}
    PROVE  CoverInv'
<1>1. \A list, k, e : Reaches(list, k, e)' <=> Reaches(list, k, e)
  BY ChainsStay
<1>2. \A r, list, k, pos : Held(r, list, k, pos)' <=> Held(r, list, k, pos)
  BY HeldStays
<1>3. AllWhole'
  BY DEF CoverInv, AllWhole
<1>4. \A pos : ParagraphsFrom(pos)' <=> ParagraphsFrom(pos)
  BY DEF ParagraphsFrom, TextOfSection
<1>5. BetweenSections'
  BY <1>1 DEF CoverInv, BetweenSections
<1>6. InParagraphs'
  <2> SUFFICES ASSUME level' = "paragraph"
               PROVE  /\ current'["sentence"] = Nothing
                      /\ \E pos \in 0..Len(TextOfSection(at)') :
                           /\ ParagraphsFrom(pos)'
                           /\ Held(current["paragraph"], chunks, at, pos)'
    BY DEF InParagraphs
  <2>1. level = "paragraph"
    OBVIOUS
  <2>2. PICK pos \in 0..Len(TextOfSection(at)) :
          ParagraphsFrom(pos) /\ Held(current["paragraph"], chunks, at, pos)
    BY <2>1 DEF CoverInv, InParagraphs
  <2>3. ParagraphsFrom(pos)' /\ Held(current["paragraph"], chunks, at, pos)'
    BY <1>2, <1>4, <2>2
  <2>4. pos \in 0..Len(TextOfSection(at)')
    BY DEF TextOfSection
  <2> QED BY <2>1, <2>3, <2>4 DEF CoverInv, InParagraphs
<1>7. InSentences'
  <2> SUFFICES ASSUME level' = "sentence" PROVE InSentences'
    BY DEF InSentences
  <2>1. level = "sentence"
    OBVIOUS
  <2>2. PICK pos \in 0..Len(TextOfSection(at)), end \in 0..Len(TextOfSection(at)) :
          /\ Cover(sentences, TextOfSection(at), pos, end)
          /\ Held(current["sentence"], chunks, at, pos)
          /\ IF Len(document[at].paragraphs) > 1 THEN ParagraphsFrom(end)
             ELSE end = Len(TextOfSection(at))
    BY <2>1 DEF CoverInv, InSentences
  <2>3. TextOfSection(at)' = TextOfSection(at)
    BY DEF TextOfSection
  <2>4. Held(current["sentence"], chunks, at, pos)'
    BY <1>2, <2>2
  <2>5. (IF Len(document[at].paragraphs) > 1 THEN ParagraphsFrom(end)
         ELSE end = Len(TextOfSection(at)))'
    BY <1>4, <2>2, <2>3
  <2>6. current'["paragraph"] = Nothing
          /\ \A j \in 1..Len(sentences') : sentences'[j].words # <<>>
    BY <2>1 DEF CoverInv, InSentences
  <2>7. Cover(sentences, TextOfSection(at), pos, end)'
    BY <2>2, <2>3
  <2> QED BY <2>3, <2>4, <2>5, <2>6, <2>7 DEF InSentences
<1> QED BY <1>3, <1>5, <1>6, <1>7 DEF CoverInv

\* Every step of the chunker keeps the cover.
LEMMA StepCovers == ASSUME TypeOK, CoverInv, [Next]_vars PROVE CoverInv'
<1>1. CASE AllRead
  BY <1>1, CoverInvStays DEF AllRead
<1>2. CASE UNCHANGED vars
  BY <1>2, CoverInvStays DEF vars
<1> QED BY <1>1, <1>2, SectionStepCovers, ParagraphStepCovers, SentenceStepCovers,
          ParagraphEndCovers, SectionEndCovers DEF Next

\* At any time the chunks of the section at hand form a chain up to some place of it.
LEMMA ChunksReach ==
    ASSUME TypeOK, CoverInv PROVE \E e : Reaches(chunks, at, e)
<1>1. level \in {"section", "done", "paragraph", "sentence"}
  BY DEF TypeOK, Loops
<1>2. \A r, pos : Held(r, chunks, at, pos) => \E e : Reaches(chunks, at, e)
  BY DEF Held
<1> QED BY <1>1, <1>2 DEF CoverInv, BetweenSections, InParagraphs, InSentences

\* A chain that has come to section n covers the sections before it.
LEMMA CoveredByChain ==
    ASSUME TypeOK, CoverInv PROVE ChunksCoverSection
<1>1. PICK e : Reaches(chunks, at, e)
  BY ChunksReach
<1>2. /\ Len(chunks) \in Nat /\ at \in Nat
      /\ \A i \in 1..Len(chunks) : chunks[i].section \in Nat
  <2>1. chunks \in Seq(Chunk) /\ at \in Nat
    BY StateTypes
  <2>2. \A i \in 1..Len(chunks) : chunks[i] \in Chunk
    BY <2>1, ElementOfSeq
  <2> QED BY <2>1, <2>2, LenProperties DEF Chunk
<1>3. \A n \in 1..(at - 1) : document[n].words # <<>> =>
        \E i \in 1..Len(chunks) : chunks[i].section = n
  BY <1>1 DEF Reaches, TextOfSection
<1>4. ASSUME NEW i \in 1..Len(chunks)
      PROVE  LET c == chunks[i]
                 first == i = 1 \/ chunks[i - 1].section # c.section
                 last == i = Len(chunks) \/ chunks[i + 1].section # c.section
                 next == chunks[i + 1]
             IN  /\ c.words # <<>>
                 /\ c.words = SubSeq(document[c.section].words, From(c), To(c))
                 /\ first => From(c) = 1 /\ (i > 1 => chunks[i - 1].section < c.section)
                 /\ last /\ c.section < at => To(c) = Len(document[c.section].words)
                 /\ ~last => /\ To(next) > To(c)
                             /\ From(next) \in {To(c) + 1, To(c) + 1 - Len(Overlap(c.words))}
  <2> DEFINE z == Len(chunks)
             c == chunks[i]
  <2>0. z \in Nat /\ i \in 1..z
    BY <1>2
  <2>1. Stretch(c) /\ c.section \in Nat /\ c.section <= at
    BY <1>1, <1>2 DEF Reaches, Chained
  <2>2. c.words # <<>> /\ c.words = SubSeq(document[c.section].words, From(c), To(c))
    BY <2>1 DEF Stretch, TextOfSection
  <2>3. ASSUME i = 1 \/ chunks[i - 1].section # c.section
        PROVE  From(c) = 1 /\ (i > 1 => chunks[i - 1].section < c.section)
    <3>1. CASE i = 1
      <4>1. chunks # <<>>
        BY <2>0, EmptySeq
      <4> QED BY <1>1, <3>1, <4>1 DEF Reaches, Chained
    <3>2. CASE i # 1
      <4>1. PICK j \in 1..(z - 1) : i = j + 1
        <5>1. i - 1 \in 1..(z - 1) /\ i = (i - 1) + 1
          BY <2>0, <3>2
        <5> QED BY <5>1
      <4>2. i - 1 = j
        BY <4>1
      <4>3. Follows(chunks[j], chunks[j + 1])
        BY <1>1, <4>1 DEF Reaches, Chained
      <4> QED BY <2>3, <3>2, <4>1, <4>2, <4>3 DEF Follows
    <3> QED BY <3>1, <3>2
  <2>4. ASSUME i = z \/ chunks[i + 1].section # c.section, c.section < at
        PROVE  To(c) = Len(document[c.section].words)
    <3>1. CASE i = z
      <4>1. chunks # <<>> /\ chunks[z] = c
        BY <2>0, <3>1, EmptySeq
      <4>2. c.section # at
        BY <1>2, <2>1, <2>4
      <4> QED BY <1>1, <4>1, <4>2 DEF Reaches, TextOfSection
    <3>2. CASE i # z
      <4>1. i \in 1..(z - 1)
        BY <2>0, <3>2
      <4>2. Follows(chunks[i], chunks[i + 1])
        BY <1>1, <4>1 DEF Reaches, Chained
      <4> QED BY <2>4, <3>2, <4>2 DEF Follows, TextOfSection
    <3> QED BY <3>1, <3>2
  <2>5. ASSUME ~(i = z \/ chunks[i + 1].section # c.section)
        PROVE  /\ To(chunks[i + 1]) > To(c)
               /\ From(chunks[i + 1]) \in {To(c) + 1, To(c) + 1 - Len(Overlap(c.words))}
    <3>1. i \in 1..(z - 1)
      BY <2>0, <2>5
    <3>2. Follows(chunks[i], chunks[i + 1])
      BY <1>1, <3>1 DEF Reaches, Chained
    <3> QED BY <2>5, <3>2 DEF Follows
  <2> QED BY <2>2, <2>3, <2>4, <2>5
<1> QED BY <1>3, <1>4 DEF ChunksCoverSection

\* Of a document whose sections are whole, as all that the parsers return are,
\* the chunks are the words of its sections in order, none lost and none
\* repeated beyond the overlap, whichever loops cut them
\* (chunker.py:97-139, 162-198, 212-221).
THEOREM SectionsAreCovered == Spec /\ AllWhole => []ChunksCoverSection
<1>1. Init /\ AllWhole => CoverInv
  <2> SUFFICES ASSUME Init, AllWhole PROVE CoverInv
    OBVIOUS
  <2>1. chunks = <<>> /\ at = 1 /\ level = "section" /\ current = [l \in Loops |-> Nothing]
    BY DEF Init, Start
  <2>2. current["paragraph"] = Nothing /\ current["sentence"] = Nothing
    BY <2>1 DEF Loops
  <2>3. Len(<<>>) = 0
    OBVIOUS
  <2>4. Reaches(<<>>, 1, 0)
    BY <2>3 DEF Reaches, Chained
  <2> QED BY <2>1, <2>2, <2>4 DEF CoverInv, BetweenSections, InParagraphs, InSentences
<1>2. TypeOK /\ CoverInv /\ [Next]_vars => CoverInv'
  BY StepCovers
<1>3. TypeOK /\ CoverInv => ChunksCoverSection
  BY CoveredByChain
<1> QED BY <1>1, <1>2, <1>3, TypeCorrect, PTL DEF Spec

--------------------------------------------------------------------------
\* The parsers (Extraction and Parsers).  Lists put one after the other

\* f[r] is the first r of the lists, one after the other.
Gathers(f, lists) ==
    /\ f[0] = <<>>
    /\ \A r \in 1..Len(lists) : f[r] = f[r - 1] \o lists[r]

\* The lists gathered one after the other exist as a function of their number.
LEMMA GathersExists ==
    ASSUME NEW V, NEW lists \in Seq(Seq(V))
    PROVE  \E f \in [0..Len(lists) -> Seq(V)] : Gathers(f, lists)
<1> DEFINE n == Len(lists)
           step == [p \in Seq(V) \X (1..n) |-> p[1] \o lists[p[2]]]
<1>1. n \in Nat /\ <<>> \in Seq(V) /\ \A r \in 1..n : lists[r] \in Seq(V)
  OBVIOUS
<1>2. step \in [Seq(V) \X (1..n) -> Seq(V)]
  <2>1. ASSUME NEW p \in Seq(V) \X (1..n) PROVE p[1] \o lists[p[2]] \in Seq(V)
    <3>1. p[1] \in Seq(V) /\ lists[p[2]] \in Seq(V)
      BY <1>1
    <3> QED BY <3>1, ConcatProperties
  <2> QED BY <2>1
<1>3. \A s \in Seq(V), r \in 1..n : step[<<s, r>>] = s \o lists[r]
  OBVIOUS
<1> HIDE DEF step, n
<1>4. PICK f \in [0..n -> Seq(V)] : Iterates(f, n, <<>>, step)
  BY <1>1, <1>2, IteratesExist
<1>5. f[0] = <<>>
  BY <1>1, <1>4 DEF Iterates
<1>6. ASSUME NEW r \in 1..n PROVE f[r] = f[r - 1] \o lists[r]
  <2>1. r \in 0..n /\ r - 1 \in 0..n /\ r # 0
    BY <1>1
  <2>2. f[r] = step[<<f[r - 1], r>>] /\ f[r - 1] \in Seq(V)
    BY <1>4, <2>1 DEF Iterates
  <2> QED BY <1>3, <2>2
<1> QED BY <1>4, <1>5, <1>6 DEF Gathers, n

\* There is one such function.
LEMMA GathersOnce ==
    ASSUME NEW lists, Len(lists) \in Nat, NEW f, NEW g, Gathers(f, lists), Gathers(g, lists)
    PROVE  \A r \in 0..Len(lists) : f[r] = g[r]
<1> DEFINE n == Len(lists)
           S == {r \in 0..n : f[r] = g[r]}
<1>1. 0 \in S
  BY DEF Gathers
<1>2. ASSUME NEW r \in 1..n, r - 1 \in S PROVE r \in S
  <2>1. f[r - 1] = g[r - 1] /\ r \in 0..n
    BY <1>2
  <2>2. f[r] = f[r - 1] \o lists[r] /\ g[r] = g[r - 1] \o lists[r]
    BY DEF Gathers
  <2> QED BY <2>1, <2>2
<1>3. \A r \in 0..n : r \in S
  <2> HIDE DEF S
  <2> QED BY <1>1, <1>2, CountUp
<1> QED BY <1>3

\* What FlattenSeq computes.
LEMMA FlattenIs ==
    ASSUME NEW V, NEW lists \in Seq(Seq(V)), NEW f \in [0..Len(lists) -> Seq(V)],
           Gathers(f, lists)
    PROVE  P!FlattenSeq(lists) = f[Len(lists)]
<1> DEFINE n == Len(lists)
<1>1. n \in Nat /\ \A r \in 1..n : lists[r] \in Seq(V)
  OBVIOUS
<1>2. CASE n = 0
  <2>1. P!FlattenSeq(lists) = lists
    BY <1>2 DEF P!FlattenSeq
  <2>2. lists = <<>>
    BY <1>2, EmptySeq
  <2> QED BY <1>2, <2>1, <2>2 DEF Gathers
<1>3. CASE n # 0
  <2> DEFINE Def(g) == [i \in 1..n |-> IF i = 1 THEN lists[i] ELSE g[i - 1] \o lists[i]]
             h == [i \in 1..n |-> f[i]]
             g == CHOOSE x : x = Def(x)
  <2>1. ASSUME NEW i \in 1..n
        PROVE  h[i] = IF i = 1 THEN lists[i] ELSE h[i - 1] \o lists[i]
    <3>1. f[i] = f[i - 1] \o lists[i] /\ h[i] = f[i]
      BY DEF Gathers
    <3>2. CASE i = 1
      <4>1. f[i - 1] = <<>>
        BY <3>2 DEF Gathers
      <4>2. <<>> \o lists[i] = lists[i]
        BY <1>1, ConcatEmptySeq
      <4> QED BY <3>1, <3>2, <4>1, <4>2
    <3>3. CASE i # 1
      <4>1. i - 1 \in 1..n
        BY <1>1, <3>3
      <4> QED BY <3>1, <3>3, <4>1
    <3> QED BY <3>2, <3>3
  <2>2. h = Def(h)
    BY <2>1
  <2>3. P!FlattenSeq(lists) = g[n]
    BY <1>3, Zenon DEF P!FlattenSeq
  <2> HIDE DEF h
  <2>4. g = Def(g)
    BY <2>2, Zenon
  <2> HIDE DEF g
  <2> DEFINE S == {i \in 0..n : i # 0 => g[i] = f[i]}
  <2>5. 0 \in S
    BY <1>1
  <2>6. ASSUME NEW i \in 1..n, i - 1 \in S PROVE i \in S
    <3>1. g[i] = IF i = 1 THEN lists[i] ELSE g[i - 1] \o lists[i]
      BY <2>4
    <3>2. h[i] = IF i = 1 THEN lists[i] ELSE h[i - 1] \o lists[i]
      BY <2>1
    <3>3. h[i] = f[i] /\ (i # 1 => h[i - 1] = f[i - 1] /\ g[i - 1] = f[i - 1])
      BY <1>1, <2>6 DEF h
    <3>4. g[i] = f[i]
      BY <3>1, <3>2, <3>3
    <3> QED BY <1>1, <3>4
  <2>7. n \in S
    <3> HIDE DEF S
    <3>1. n \in 0..n
      BY <1>1
    <3> QED BY <1>1, <2>5, <2>6, <3>1, CountUp
  <2> QED BY <1>3, <2>3, <2>7
<1> QED BY <1>2, <1>3

\* Where the lists lie in the text they make: list r behind place off[r - 1].
Laid(off, lists, text) ==
    /\ off \in [0..Len(lists) -> Nat]
    /\ off[0] = 0 /\ off[Len(lists)] = Len(text)
    /\ \A r \in 1..Len(lists) : off[r] = off[r - 1] + Len(lists[r]) /\ off[r] <= Len(text)
    /\ \A r \in 1..Len(lists) : \A k \in 1..Len(lists[r]) :
         off[r - 1] + k \in 1..Len(text) /\ text[off[r - 1] + k] = lists[r][k]
    /\ \A p \in 1..Len(text) :
         \E r \in 1..Len(lists) : \E k \in 1..Len(lists[r]) : p = off[r - 1] + k

\* Places of a text of a words with b words behind it.
LEMMA PlacesOfTwo ==
    ASSUME NEW a \in Nat, NEW b \in Nat
    PROVE  /\ \A k \in 1..b : a + k \in 1..(a + b) /\ ~(a + k <= a) /\ (a + k) - a = k
           /\ \A p \in 1..a : p \in 1..(a + b) /\ p <= a
           /\ \A p \in 1..(a + b) : ~(p <= a) => p - a \in 1..b /\ p = a + (p - a)
           /\ \A p \in 1..(a + b) : p <= a => p \in 1..a
OBVIOUS

\* The same of the first m lists.
LaidTo(f, lists, m) ==
    /\ \A r \in 0..m : Len(f[r]) <= Len(f[m])
    /\ \A r \in 1..m : \A k \in 1..Len(lists[r]) :
         /\ Len(f[r - 1]) + k \in 1..Len(f[m])
         /\ f[m][Len(f[r - 1]) + k] = lists[r][k]
    /\ \A p \in 1..Len(f[m]) :
         \E r \in 1..m : \E k \in 1..Len(lists[r]) : p = Len(f[r - 1]) + k

\* Each list gathered lies behind those gathered before it.
LEMMA GathersLays ==
    ASSUME NEW V, NEW lists \in Seq(Seq(V)), NEW f \in [0..Len(lists) -> Seq(V)],
           Gathers(f, lists)
    PROVE  \A m \in 0..Len(lists) : LaidTo(f, lists, m)
<1> DEFINE n == Len(lists)
           S == {m \in 0..n : LaidTo(f, lists, m)}
<1>1. n \in Nat /\ \A r \in 1..n : lists[r] \in Seq(V) /\ Len(lists[r]) \in Nat
  OBVIOUS
<1>2. \A r \in 0..n : f[r] \in Seq(V) /\ Len(f[r]) \in Nat
  OBVIOUS
<1>3. 0 \in S
  <2>1. f[0] = <<>> /\ Len(f[0]) = 0
    BY DEF Gathers
  <2>2. \A r \in 0..0 : r = 0
    OBVIOUS
  <2> QED BY <1>1, <2>1, <2>2 DEF LaidTo
<1>4. ASSUME NEW m \in 1..n, m - 1 \in S PROVE m \in S
  <2>1. m - 1 \in 0..n /\ m \in 0..n /\ m - 1 \in Nat /\ m \in Nat
    BY <1>1
  <2>2. f[m] = f[m - 1] \o lists[m]
    BY DEF Gathers
  <2>3. PICK a \in Nat, b \in Nat : a = Len(f[m - 1]) /\ b = Len(lists[m])
    BY <1>1, <1>2, <2>1
  <2>4. /\ Len(f[m]) = a + b
        /\ \A i \in 1..(a + b) : f[m][i] = IF i <= a THEN f[m - 1][i] ELSE lists[m][i - a]
    <3>1. PICK s \in Seq(V), t \in Seq(V) : s = f[m - 1] /\ t = lists[m]
      BY <1>1, <1>2, <2>1
    <3>2. /\ Len(s \o t) = Len(s) + Len(t)
          /\ \A i \in 1..(Len(s) + Len(t)) :
               (s \o t)[i] = IF i <= Len(s) THEN s[i] ELSE t[i - Len(s)]
      BY ConcatProperties
    <3>3. f[m] = s \o t /\ Len(s) = a /\ Len(t) = b
      BY <2>2, <2>3, <3>1
    <3> QED BY <3>1, <3>2, <3>3
  <2>5. LaidTo(f, lists, m - 1)
    BY <1>4
  <2>6. ASSUME NEW r \in 0..m PROVE Len(f[r]) <= Len(f[m])
    <3>1. CASE r = m
      BY <1>2, <2>1, <3>1
    <3>2. CASE r # m
      <4>1. r \in 0..(m - 1) /\ r \in 0..n
        BY <1>1, <2>1, <3>2
      <4>2. Len(f[r]) <= a /\ Len(f[r]) \in Nat
        BY <1>2, <2>3, <2>5, <4>1 DEF LaidTo
      <4> QED BY <2>4, <4>2
    <3> QED BY <3>1, <3>2
  <2>7. ASSUME NEW r \in 1..m, NEW k \in 1..Len(lists[r])
        PROVE  /\ Len(f[r - 1]) + k \in 1..Len(f[m])
               /\ f[m][Len(f[r - 1]) + k] = lists[r][k]
    <3>1. CASE r = m
      <4>1. k \in 1..b /\ a + k \in 1..(a + b) /\ ~(a + k <= a) /\ (a + k) - a = k
        <5>1. k \in 1..b
          BY <2>3, <3>1
        <5> QED BY <5>1, PlacesOfTwo
      <4>2. f[m][a + k] = lists[m][k]
        BY <2>4, <4>1
      <4> QED BY <2>3, <2>4, <3>1, <4>1, <4>2
    <3>2. CASE r # m
      <4>1. r \in 1..(m - 1)
        BY <2>1, <3>2
      <4>2. Len(f[r - 1]) + k \in 1..a /\ f[m - 1][Len(f[r - 1]) + k] = lists[r][k]
        BY <2>3, <2>5, <4>1 DEF LaidTo
      <4>3. PICK p \in 1..a : p = Len(f[r - 1]) + k
        BY <4>2
      <4>4. p \in 1..(a + b) /\ p <= a
        BY PlacesOfTwo
      <4> QED BY <2>4, <4>2, <4>3, <4>4
    <3> QED BY <3>1, <3>2
  <2>8. ASSUME NEW p \in 1..Len(f[m])
        PROVE  \E r \in 1..m : \E k \in 1..Len(lists[r]) : p = Len(f[r - 1]) + k
    <3>1. CASE p <= a
      <4>1. p \in 1..Len(f[m - 1])
        BY <2>3, <2>4, <3>1
      <4>2. PICK r \in 1..(m - 1) : \E k \in 1..Len(lists[r]) : p = Len(f[r - 1]) + k
        BY <2>5, <4>1 DEF LaidTo
      <4>3. r \in 1..m
        BY <2>1
      <4> QED BY <4>2, <4>3
    <3>2. CASE ~(p <= a)
      <4>1. p - a \in 1..Len(lists[m]) /\ p = Len(f[m - 1]) + (p - a) /\ m \in 1..m
        <5>1. p \in 1..(a + b) /\ m \in 1..m
          BY <2>1, <2>4
        <5>2. p - a \in 1..b /\ p = a + (p - a)
          BY <3>2, <5>1, PlacesOfTwo
        <5> QED BY <2>3, <5>1, <5>2
      <4> QED BY <4>1
    <3> QED BY <3>1, <3>2
  <2> QED BY <2>1, <2>6, <2>7, <2>8 DEF LaidTo
<1>5. \A m \in 0..n : m \in S
  <2> HIDE DEF S
  <2> QED BY <1>1, <1>3, <1>4, CountUp
<1> QED BY <1>5

\* FlattenSeq lays the lists out one behind the other, with nothing between them.
LEMMA FlattenLays ==
    ASSUME NEW V, NEW lists \in Seq(Seq(V))
    PROVE  P!FlattenSeq(lists) \in Seq(V) /\ \E off : Laid(off, lists, P!FlattenSeq(lists))
<1> DEFINE n == Len(lists)
<1>1. n \in Nat /\ \A r \in 1..n : lists[r] \in Seq(V) /\ Len(lists[r]) \in Nat
  OBVIOUS
<1>2. PICK f \in [0..n -> Seq(V)] : Gathers(f, lists)
  BY GathersExists
<1>3. P!FlattenSeq(lists) = f[n]
  BY <1>2, FlattenIs
<1>4. n \in 0..n /\ f[n] \in Seq(V)
  BY <1>1
<1>5. LaidTo(f, lists, n)
  BY <1>2, <1>4, GathersLays
<1> DEFINE off == [r \in 0..n |-> Len(f[r])]
<1>6. off \in [0..n -> Nat] /\ \A r \in 0..n : off[r] = Len(f[r]) /\ Len(f[r]) \in Nat
  OBVIOUS
<1>7. off[0] = 0 /\ off[n] = Len(f[n])
  <2>1. f[0] = <<>> /\ 0 \in 0..n
    BY <1>1, <1>2 DEF Gathers
  <2> QED BY <1>4, <2>1
<1>8. ASSUME NEW r \in 1..n
      PROVE  off[r] = off[r - 1] + Len(lists[r]) /\ off[r] <= Len(f[n])
  <2>1. r \in 0..n /\ r - 1 \in 0..n
    BY <1>1
  <2>2. f[r] = f[r - 1] \o lists[r] /\ f[r - 1] \in Seq(V)
    BY <1>2, <2>1 DEF Gathers
  <2>3. Len(f[r]) = Len(f[r - 1]) + Len(lists[r])
    BY <1>1, <2>2, ConcatProperties
  <2> QED BY <1>5, <2>1, <2>3 DEF LaidTo
<1>9. \A r \in 1..n : off[r - 1] = Len(f[r - 1])
  BY <1>1
<1> HIDE DEF off
<1>10. ASSUME NEW r \in 1..n, NEW k \in 1..Len(lists[r])
       PROVE  off[r - 1] + k \in 1..Len(f[n]) /\ f[n][off[r - 1] + k] = lists[r][k]
  BY <1>5, <1>9 DEF LaidTo
<1>11. ASSUME NEW p \in 1..Len(f[n])
       PROVE  \E r \in 1..n : \E k \in 1..Len(lists[r]) : p = off[r - 1] + k
  <2>1. PICK r \in 1..n : \E k \in 1..Len(lists[r]) : p = Len(f[r - 1]) + k
    BY <1>5 DEF LaidTo
  <2> QED BY <1>9, <2>1
<1>12. Laid(off, lists, f[n])
  BY <1>6, <1>7, <1>8, <1>10, <1>11 DEF Laid
<1> QED BY <1>3, <1>4, <1>12

--------------------------------------------------------------------------
\* The text of several parts

Texts(parts) == [i \in 1..Len(parts) |-> parts[i].words]

HaveTexts(parts) ==
    /\ Len(parts) \in Nat
    /\ \A i \in 1..Len(parts) : parts[i].words \in Text

\* The texts of some parts are texts, one for each part.
LEMMA TextsType ==
    ASSUME NEW parts, HaveTexts(parts)
    PROVE  /\ Texts(parts) \in Seq(Seq(Word))
           /\ Len(Texts(parts)) = Len(parts)
           /\ \A i \in 1..Len(parts) : Texts(parts)[i] = parts[i].words
<1> DEFINE n == Len(parts)
           T == Texts(parts)
<1>1. n \in Nat /\ \A i \in 1..n : parts[i].words \in Seq(Word)
  BY DEF HaveTexts, Text
<1>2. T = [i \in 1..n |-> parts[i].words]
  BY DEF Texts
<1>3. T \in [1..n -> Seq(Word)] /\ \A i \in 1..n : T[i] = parts[i].words
  BY <1>1, <1>2
<1> HIDE DEF T, n
<1>4. T \in Seq(Seq(Word)) /\ Len(T) = n
  BY <1>1, <1>3
<1> QED BY <1>3, <1>4 DEF T, n

\* Elements of a sequence over records with words have texts.
LEMMA PartsHaveTexts ==
    ASSUME NEW V, \A v \in V : v.words \in Text, NEW parts \in Seq(V)
    PROVE  HaveTexts(parts)
<1>1. Len(parts) \in Nat /\ \A i \in 1..Len(parts) : parts[i] \in V
  OBVIOUS
<1> QED BY <1>1 DEF HaveTexts

\* Joined lays the texts of the parts out one behind the other.
LEMMA JoinedLays ==
    ASSUME NEW parts, HaveTexts(parts)
    PROVE  P!Joined(parts) \in Text /\ \E off : Laid(off, Texts(parts), P!Joined(parts))
BY TextsType, FlattenLays DEF P!Joined, Texts, Text

\* Where the words of the parts are.
Spread(off, parts, text) ==
    /\ off \in [0..Len(parts) -> Nat] /\ off[0] = 0 /\ off[Len(parts)] = Len(text)
    /\ \A i \in 1..Len(parts) :
         off[i] = off[i - 1] + Len(parts[i].words) /\ off[i] <= Len(text)
    /\ \A i \in 1..Len(parts) : \A k \in 1..Len(parts[i].words) :
         off[i - 1] + k \in 1..Len(text) /\ text[off[i - 1] + k] = parts[i].words[k]
    /\ \A p \in 1..Len(text) : \E i \in 1..Len(parts) :
         \E k \in 1..Len(parts[i].words) : p = off[i - 1] + k

\* The same place by place, in terms of the parts.
LEMMA LaidTexts ==
    ASSUME NEW parts, HaveTexts(parts), NEW text, NEW off,
           Laid(off, Texts(parts), text)
    PROVE  Spread(off, parts, text)
<1>1. PICK T : T = Texts(parts)
  OBVIOUS
<1>2. Len(T) = Len(parts) /\ \A i \in 1..Len(parts) : T[i] = parts[i].words
  BY <1>1, TextsType
<1>3. Laid(off, T, text)
  BY <1>1
<1>4. /\ off \in [0..Len(parts) -> Nat] /\ off[0] = 0 /\ off[Len(parts)] = Len(text)
      /\ \A i \in 1..Len(parts) : off[i] = off[i - 1] + Len(T[i]) /\ off[i] <= Len(text)
  BY <1>2, <1>3 DEF Laid
<1>5. \A i \in 1..Len(parts) : \A k \in 1..Len(T[i]) :
        off[i - 1] + k \in 1..Len(text) /\ text[off[i - 1] + k] = T[i][k]
  BY <1>2, <1>3 DEF Laid
<1>6. \A p \in 1..Len(text) : \E i \in 1..Len(parts) :
        \E k \in 1..Len(T[i]) : p = off[i - 1] + k
  <2> SUFFICES ASSUME NEW p \in 1..Len(text)
               PROVE  \E i \in 1..Len(parts) : \E k \in 1..Len(T[i]) : p = off[i - 1] + k
    OBVIOUS
  <2>1. PICK i \in 1..Len(T) : \E k \in 1..Len(T[i]) : p = off[i - 1] + k
    BY <1>3 DEF Laid
  <2> QED BY <1>2, <2>1
<1>7. ASSUME NEW i \in 1..Len(parts), NEW k \in 1..Len(parts[i].words)
      PROVE  off[i - 1] + k \in 1..Len(text) /\ text[off[i - 1] + k] = parts[i].words[k]
  <2>1. T[i] = parts[i].words
    BY <1>2
  <2>2. k \in 1..Len(T[i])
    BY <2>1
  <2> QED BY <1>5, <2>1, <2>2
<1>8. ASSUME NEW p \in 1..Len(text)
      PROVE  \E i \in 1..Len(parts) : \E k \in 1..Len(parts[i].words) : p = off[i - 1] + k
  <2>1. PICK i \in 1..Len(parts) : \E k \in 1..Len(T[i]) : p = off[i - 1] + k
    BY <1>6
  <2>2. T[i] = parts[i].words
    BY <1>2
  <2> QED BY <2>1, <2>2
<1>9. ASSUME NEW i \in 1..Len(parts)
      PROVE  off[i] = off[i - 1] + Len(parts[i].words) /\ off[i] <= Len(text)
  BY <1>2, <1>4
<1> QED BY <1>4, <1>7, <1>8, <1>9 DEF Spread

\* Each part is a stretch of the text.
LEMMA PartIsStretch ==
    ASSUME NEW parts, HaveTexts(parts), NEW text \in Text, NEW off,
           Spread(off, parts, text), NEW i \in 1..Len(parts)
    PROVE  /\ off[i - 1] \in Nat /\ off[i] \in Nat
           /\ off[i - 1] <= off[i] /\ off[i] <= Len(text)
           /\ off[i] - off[i - 1] = Len(parts[i].words)
           /\ parts[i].words = SubSeq(text, off[i - 1] + 1, off[i])
<1> DEFINE n == Len(parts)
           z == Len(text)
<1>1. n \in Nat /\ z \in Nat /\ i \in 0..n /\ i - 1 \in 0..n
  BY DEF HaveTexts, Text
<1>2. PICK a \in Nat, b \in Nat : a = off[i - 1] /\ b = off[i]
  BY <1>1 DEF Spread
<1>3. PICK w \in Text : w = parts[i].words
  BY DEF HaveTexts
<1>4. Len(w) \in Nat /\ b = a + Len(w) /\ b <= z
  BY <1>2, <1>3 DEF Spread, Text
<1>5. \A k \in 1..Len(w) : text[a + k] = w[k]
  BY <1>2, <1>3 DEF Spread
<1> DEFINE c == SubSeq(text, a + 1, b)
<1>6. a <= b /\ b - a = Len(w)
  BY <1>4
<1>7. c \in Text /\ Len(c) = b - a /\ \A k \in 1..(b - a) : c[k] = text[a + k]
  BY <1>4, <1>6, StretchOfText
<1>8. Len(c) = Len(w) /\ \A k \in 1..Len(c) : c[k] = w[k]
  BY <1>5, <1>6, <1>7
<1> HIDE DEF c
<1>9. c = w
  BY <1>7, <1>8, SeqEqual DEF Text
<1> QED BY <1>2, <1>3, <1>4, <1>6, <1>9 DEF c

\* Parts cover the text they make.
LEMMA LaidCovers ==
    ASSUME NEW parts, HaveTexts(parts), NEW text \in Text, NEW off,
           Laid(off, Texts(parts), text)
    PROVE  Cover(parts, text, 0, Len(text))
<1> DEFINE n == Len(parts)
           z == Len(text)
           place == [i \in 1..(n + 1) |-> off[i - 1]]
<1>1. n \in Nat /\ z \in Nat
  BY DEF HaveTexts, Text
<1>2. Spread(off, parts, text)
  BY LaidTexts
<1>3. off \in [0..n -> Nat] /\ off[0] = 0 /\ off[n] = z
  BY <1>2 DEF Spread
<1>4. \A i \in 1..(n + 1) : i - 1 \in 0..n
  BY <1>1
<1>5. \A i \in 0..n : off[i] \in 0..z
  <2>1. \A i \in 1..n : off[i] <= z
    BY <1>2 DEF Spread
  <2>2. \A i \in 0..n : i = 0 \/ i \in 1..n
    BY <1>1
  <2> QED BY <1>1, <1>3, <2>1, <2>2
<1>6. \A i \in 1..n : /\ off[i - 1] <= off[i]
                      /\ parts[i].words = SubSeq(text, off[i - 1] + 1, off[i])
  BY <1>2, PartIsStretch
<1> HIDE DEF n, z
<1>7. place \in [1..(n + 1) -> 0..z] /\ \A i \in 1..(n + 1) : place[i] = off[i - 1]
  BY <1>4, <1>5
<1> HIDE DEF place
<1>8. place[1] = 0 /\ place[n + 1] = z
  <2>1. 1 \in 1..(n + 1) /\ n + 1 \in 1..(n + 1) /\ (n + 1) - 1 = n /\ 1 - 1 = 0
    BY <1>1
  <2> QED BY <1>3, <1>7, <2>1
<1>9. ASSUME NEW i \in 1..n
      PROVE  /\ place[i] <= place[i + 1]
             /\ parts[i].words = SubSeq(text, place[i] + 1, place[i + 1])
  <2>1. i \in 1..(n + 1) /\ i + 1 \in 1..(n + 1) /\ (i + 1) - 1 = i
    BY <1>1
  <2>2. place[i] = off[i - 1] /\ place[i + 1] = off[i]
    BY <1>7, <2>1
  <2> QED BY <1>6, <2>2
<1>10. \E o \in [1..(n + 1) -> 0..z] :
        /\ o[1] = 0 /\ o[n + 1] = z
        /\ \A i \in 1..n : o[i] <= o[i + 1] /\ parts[i].words = SubSeq(text, o[i] + 1, o[i + 1])
  BY <1>7, <1>8, <1>9
<1> QED BY <1>10 DEF Cover, n, z

\* A text of parts whose words all differ repeats no word.
LEMMA LaidOnce ==
    ASSUME NEW parts, HaveTexts(parts), NEW text \in Text, NEW off,
           Laid(off, Texts(parts), text), DifferentWords(parts)
    PROVE  NoneTwice(text)
<1>1. SUFFICES ASSUME NEW p \in 1..Len(text), NEW q \in 1..Len(text), text[p] = text[q]
               PROVE  p = q
  BY DEF NoneTwice
<1>0. Spread(off, parts, text)
  BY LaidTexts
<1>2. /\ \A i \in 1..Len(parts) : \A k \in 1..Len(parts[i].words) :
           off[i - 1] + k \in 1..Len(text) /\ text[off[i - 1] + k] = parts[i].words[k]
      /\ \A o \in 1..Len(text) : \E i \in 1..Len(parts) :
           \E k \in 1..Len(parts[i].words) : o = off[i - 1] + k
  BY <1>0 DEF Spread
<1>3. PICK i \in 1..Len(parts) : \E k \in 1..Len(parts[i].words) : p = off[i - 1] + k
  BY <1>2
<1>4. PICK k \in 1..Len(parts[i].words) : p = off[i - 1] + k
  BY <1>3
<1>5. PICK j \in 1..Len(parts) : \E l \in 1..Len(parts[j].words) : q = off[j - 1] + l
  BY <1>2
<1>6. PICK l \in 1..Len(parts[j].words) : q = off[j - 1] + l
  BY <1>5
<1>7. text[p] = parts[i].words[k] /\ text[q] = parts[j].words[l]
  BY <1>2, <1>4, <1>6
<1>8. i = j /\ k = l
  <2>1. parts[i].words[k] = parts[j].words[l]
    BY <1>1, <1>7
  <2> QED BY <2>1, Zenon DEF DifferentWords
<1> QED BY <1>4, <1>6, <1>8

\* The parts cover the text they are joined to, and if they differ no word occurs
\* twice in it.
LEMMA JoinedIs ==
    ASSUME NEW parts, HaveTexts(parts)
    PROVE  /\ P!Joined(parts) \in Text
           /\ Cover(parts, P!Joined(parts), 0, Len(P!Joined(parts)))
           /\ DifferentWords(parts) => NoneTwice(P!Joined(parts))
BY JoinedLays, LaidCovers, LaidOnce

--------------------------------------------------------------------------
\* One more list, or one more part

\* No lists make an empty text.
LEMMA FlattenNothing == P!FlattenSeq(<<>>) = <<>>
BY DEF P!FlattenSeq

\* One more list is behind the text of those before it.
LEMMA FlattenAppend ==
    ASSUME NEW V, NEW lists \in Seq(Seq(V)), NEW list \in Seq(V)
    PROVE  P!FlattenSeq(Append(lists, list)) = P!FlattenSeq(lists) \o list
<1> DEFINE n == Len(lists)
           more == Append(lists, list)
<1>1. n \in Nat
  OBVIOUS
<1>2. /\ more \in Seq(Seq(V)) /\ Len(more) = n + 1
      /\ more[n + 1] = list /\ \A i \in 1..n : more[i] = lists[i]
  <2>1. list \in Seq(V)
    OBVIOUS
  <2> QED BY <2>1, AppendProperties
<1>3. PICK f \in [0..n -> Seq(V)] : Gathers(f, lists)
  BY GathersExists
<1>4. n \in 0..n /\ f[n] \in Seq(V) /\ P!FlattenSeq(lists) = f[n]
  <2>1. n \in 0..n
    BY <1>1
  <2>2. P!FlattenSeq(lists) = f[n]
    BY <1>3, FlattenIs
  <2> QED BY <2>1, <2>2
<1>5. f[n] \o list \in Seq(V)
  BY <1>4, ConcatProperties
<1> DEFINE g == [r \in 0..(n + 1) |-> IF r = n + 1 THEN f[n] \o list ELSE f[r]]
<1>6. g \in [0..(n + 1) -> Seq(V)]
  BY <1>1, <1>5
<1>7. g[n + 1] = f[n] \o list /\ \A r \in 0..n : g[r] = f[r]
  <2>1. \A r \in 0..n : r \in 0..(n + 1) /\ r # n + 1
    BY <1>1
  <2>2. n + 1 \in 0..(n + 1)
    BY <1>1
  <2> QED BY <2>1, <2>2
<1> HIDE DEF g, more, n
<1>8. Gathers(g, more)
  <2>1. g[0] = <<>>
    <3>1. 0 \in 0..n
      BY <1>1
    <3> QED BY <1>3, <1>7, <3>1 DEF Gathers
  <2>2. ASSUME NEW r \in 1..(n + 1) PROVE g[r] = g[r - 1] \o more[r]
    <3>1. CASE r = n + 1
      <4>1. r - 1 = n
        BY <1>1, <3>1
      <4>2. g[r - 1] = f[n]
        BY <1>4, <1>7, <4>1
      <4> QED BY <1>2, <1>7, <3>1, <4>2
    <3>2. CASE r # n + 1
      <4>1. r \in 1..n /\ r \in 0..n /\ r - 1 \in 0..n
        BY <1>1, <3>2
      <4>2. f[r] = f[r - 1] \o lists[r]
        BY <1>3, <4>1 DEF Gathers, n
      <4> QED BY <1>2, <1>7, <4>1, <4>2
    <3> QED BY <3>1, <3>2
  <2> QED BY <1>2, <2>1, <2>2 DEF Gathers
<1>9. P!FlattenSeq(more) = g[n + 1]
  BY <1>2, <1>6, <1>8, FlattenIs
<1> QED BY <1>4, <1>7, <1>9 DEF more

\* No parts make an empty text.
LEMMA JoinedNothing == P!Joined(<<>>) = <<>>
<1>1. [i \in 1..Len(<<>>) |-> <<>>[i].words] = <<>>
  OBVIOUS
<1> QED BY <1>1, FlattenNothing DEF P!Joined

\* The text of the parts and one more.
LEMMA JoinedAppend ==
    ASSUME NEW V, NEW parts \in Seq(V), HaveTexts(parts), NEW part \in V, part.words \in Text
    PROVE  /\ P!Joined(Append(parts, part)) = P!Joined(parts) \o part.words
           /\ HaveTexts(Append(parts, part))
<1> DEFINE n == Len(parts)
           more == Append(parts, part)
<1>1. n \in Nat
  OBVIOUS
<1>2. /\ more \in Seq(V) /\ Len(more) = n + 1
      /\ more[n + 1] = part /\ \A i \in 1..n : more[i] = parts[i]
  BY AppendProperties
<1>3. Texts(parts) \in Seq(Seq(Word)) /\ Len(Texts(parts)) = n
      /\ \A i \in 1..n : Texts(parts)[i] = parts[i].words
  BY TextsType
<1>4. HaveTexts(more)
  <2>1. ASSUME NEW i \in 1..(n + 1) PROVE more[i].words \in Text
    <3>1. CASE i = n + 1
      BY <1>2, <3>1
    <3>2. CASE i # n + 1
      <4>1. i \in 1..n
        BY <1>1, <3>2
      <4> QED BY <1>2, <4>1 DEF HaveTexts
    <3> QED BY <3>1, <3>2
  <2> HIDE DEF more
  <2> QED BY <1>1, <1>2, <2>1 DEF HaveTexts
<1>5. /\ Texts(more) \in Seq(Seq(Word)) /\ Len(Texts(more)) = n + 1
      /\ \A i \in 1..(n + 1) : Texts(more)[i] = more[i].words
  BY <1>2, <1>4, TextsType
<1>6. Texts(more) = Append(Texts(parts), part.words)
  <2> DEFINE a == Append(Texts(parts), part.words)
             b == Texts(more)
  <2>1. part.words \in Seq(Word)
    BY DEF Text
  <2>2. /\ a \in Seq(Seq(Word)) /\ Len(a) = n + 1 /\ a[n + 1] = part.words
        /\ \A i \in 1..n : a[i] = Texts(parts)[i]
    <3>1. PICK t \in Seq(Seq(Word)), w \in Seq(Word) : t = Texts(parts) /\ w = part.words
      BY <1>3, <2>1
    <3>2. /\ Append(t, w) \in Seq(Seq(Word)) /\ Len(Append(t, w)) = Len(t) + 1
          /\ Append(t, w)[Len(t) + 1] = w
          /\ \A i \in 1..Len(t) : Append(t, w)[i] = t[i]
      BY AppendProperties
    <3> QED BY <1>3, <3>1, <3>2
  <2>3. ASSUME NEW i \in 1..(n + 1) PROVE a[i] = b[i]
    <3>1. CASE i = n + 1
      BY <1>1, <1>2, <1>5, <2>2, <3>1
    <3>2. CASE i # n + 1
      <4>1. i \in 1..n
        BY <1>1, <3>2
      <4> QED BY <1>2, <1>3, <1>5, <2>2, <4>1
    <3> QED BY <3>1, <3>2
  <2> HIDE DEF a, b, n
  <2>4. b \in Seq(Seq(Word)) /\ Len(b) = n + 1
    BY <1>5 DEF b
  <2>5. a = b
    BY <2>2, <2>3, <2>4, SeqEqual
  <2> QED BY <2>5 DEF a, b
<1>7. P!FlattenSeq(Append(Texts(parts), part.words)) = P!FlattenSeq(Texts(parts)) \o part.words
  <2>1. part.words \in Seq(Word)
    BY DEF Text
  <2> QED BY <1>3, <2>1, FlattenAppend
<1>8. P!Joined(more) = P!FlattenSeq(Texts(more)) /\ P!Joined(parts) = P!FlattenSeq(Texts(parts))
  BY DEF P!Joined, Texts
<1> QED BY <1>4, <1>6, <1>7, <1>8

\* The text of one part.
LEMMA JoinedOne ==
    ASSUME NEW part, part.words \in Text
    PROVE  P!Joined(<<part>>) = part.words
<1>1. <<>> \in Seq({part}) /\ Len(<<>>) = 0
  OBVIOUS
<1>2. HaveTexts(<<>>)
  BY <1>1 DEF HaveTexts
<1>3. Append(<<>>, part) = <<part>>
  OBVIOUS
<1>4. P!Joined(<<part>>) = <<>> \o part.words
  BY <1>1, <1>2, <1>3, JoinedAppend, JoinedNothing
<1>5. <<>> \o part.words = part.words
  BY ConcatEmptySeq DEF Text
<1> QED BY <1>4, <1>5

--------------------------------------------------------------------------
\* The parts that have text

\* kept[m] is those of the first m parts.
Keeps(kept, parts) ==
    /\ kept[0] = <<>>
    /\ \A m \in 1..Len(parts) :
         kept[m] = IF parts[m].words = <<>> THEN kept[m - 1]
                   ELSE Append(kept[m - 1], parts[m])

\* WithText is the last of the lists its recursion goes through.
LEMMA WithTextIs ==
    ASSUME NEW V, NEW parts \in Seq(V)
    PROVE  \E kept \in [0..Len(parts) -> Seq(V)] :
             Keeps(kept, parts) /\ P!WithText(parts) = kept[Len(parts)]
<1> DEFINE n == Len(parts)
           step == [p \in Seq(V) \X (1..n) |->
                      IF parts[p[2]].words = <<>> THEN p[1] ELSE Append(p[1], parts[p[2]])]
           Def(f) == [m \in 0..n |->
                        IF m = 0 THEN <<>>
                        ELSE IF parts[m].words = <<>> THEN f[m - 1]
                        ELSE Append(f[m - 1], parts[m])]
           kept == CHOOSE f : f = Def(f)
<1>1. n \in Nat /\ <<>> \in Seq(V) /\ \A m \in 1..n : parts[m] \in V
  OBVIOUS
<1>2. step \in [Seq(V) \X (1..n) -> Seq(V)]
  <2>1. ASSUME NEW p \in Seq(V) \X (1..n)
        PROVE  (IF parts[p[2]].words = <<>> THEN p[1] ELSE Append(p[1], parts[p[2]])) \in Seq(V)
    <3>1. p[1] \in Seq(V) /\ parts[p[2]] \in V
      BY <1>1
    <3> QED BY <3>1, AppendProperties
  <2> QED BY <2>1
<1>3. \A s \in Seq(V), m \in 1..n :
        step[<<s, m>>] = IF parts[m].words = <<>> THEN s ELSE Append(s, parts[m])
  OBVIOUS
<1> HIDE DEF step
<1>4. PICK f \in [0..n -> Seq(V)] : Iterates(f, n, <<>>, step)
  <2> HIDE DEF n
  <2> QED BY <1>1, <1>2, IteratesExist
<1>5. f = Def(f)
  <2>1. ASSUME NEW m \in 0..n PROVE f[m] = Def(f)[m]
    <3>1. CASE m = 0
      BY <1>1, <1>4, <3>1 DEF Iterates
    <3>2. CASE m # 0
      <4>1. m \in 1..n /\ m - 1 \in 0..n
        BY <1>1, <3>2
      <4>2. f[m] = step[<<f[m - 1], m>>] /\ f[m - 1] \in Seq(V)
        BY <1>4, <3>2, <4>1 DEF Iterates
      <4>3. step[<<f[m - 1], m>>] =
              IF parts[m].words = <<>> THEN f[m - 1] ELSE Append(f[m - 1], parts[m])
        BY <1>3, <4>1, <4>2
      <4> QED BY <3>2, <4>2, <4>3
    <3> QED BY <3>1, <3>2
  <2> QED BY <2>1
<1>6. P!WithText(parts) = kept[n]
  BY Zenon DEF P!WithText
<1>7. kept = Def(kept)
  BY <1>5, Zenon
<1> HIDE DEF kept
<1>8. Keeps(kept, parts)
  <2>1. kept[0] = <<>>
    BY <1>1, <1>7
  <2>2. ASSUME NEW m \in 1..n
        PROVE  kept[m] = IF parts[m].words = <<>> THEN kept[m - 1]
                         ELSE Append(kept[m - 1], parts[m])
    <3>1. m \in 0..n /\ m # 0
      BY <1>1
    <3> QED BY <1>7, <3>1
  <2> QED BY <2>1, <2>2 DEF Keeps
<1>9. kept \in [0..n -> Seq(V)]
  <2>1. Computes(kept, n, <<>>, step, Seq(V))
    <3>1. ASSUME NEW m \in 1..n, kept[m - 1] \in Seq(V)
          PROVE  kept[m] = step[<<kept[m - 1], m>>]
      BY <1>3, <1>8, <3>1 DEF Keeps
    <3>2. kept[0] = <<>>
      BY <1>8 DEF Keeps
    <3> QED BY <3>1, <3>2 DEF Computes
  <2>2. \A m \in 0..n : kept[m] \in Seq(V)
    <3> HIDE DEF n
    <3> QED BY <1>1, <1>2, <2>1, IteratesKeepTo
  <2>3. kept = [m \in 0..n |-> kept[m]]
    BY <1>7
  <2> QED BY <2>2, <2>3
<1> QED BY <1>6, <1>8, <1>9

\* They are parts of the list, they have its text, and there is none but them.
LEMMA WithTextKeeps ==
    ASSUME NEW V, NEW parts \in Seq(V), HaveTexts(parts)
    PROVE  /\ P!WithText(parts) \in Seq(V)
           /\ HaveTexts(P!WithText(parts))
           /\ P!Joined(P!WithText(parts)) = P!Joined(parts)
           /\ \A i \in 1..Len(P!WithText(parts)) : \E j \in 1..Len(parts) :
                /\ P!WithText(parts)[i] = parts[j]
                /\ parts[j].words # <<>>
           /\ \A j \in 1..Len(parts) : parts[j].words # <<>> =>
                \E i \in 1..Len(P!WithText(parts)) : P!WithText(parts)[i] = parts[j]
<1> DEFINE n == Len(parts)
<1>1. n \in Nat /\ n \in 0..n /\ \A m \in 1..n : parts[m] \in V
  OBVIOUS
<1>2. PICK kept \in [0..n -> Seq(V)] :
        Keeps(kept, parts) /\ P!WithText(parts) = kept[n]
  BY WithTextIs
<1>3. /\ Texts(parts) \in Seq(Seq(Word)) /\ Len(Texts(parts)) = n
      /\ \A i \in 1..n : Texts(parts)[i] = parts[i].words
  BY TextsType
<1>4. PICK f \in [0..n -> Seq(Word)] : Gathers(f, Texts(parts))
  <2>1. \E f \in [0..Len(Texts(parts)) -> Seq(Word)] : Gathers(f, Texts(parts))
    BY <1>3, GathersExists
  <2> QED BY <1>3, <2>1
<1>5. P!Joined(parts) = f[n]
  <2>1. P!Joined(parts) = P!FlattenSeq(Texts(parts))
    BY DEF P!Joined, Texts
  <2> QED BY <1>3, <1>4, <2>1, FlattenIs
<1> DEFINE Right(list, m) ==
             /\ HaveTexts(list)
             /\ P!Joined(list) = f[m]
             /\ \A i \in 1..Len(list) : \E j \in 1..m :
                  list[i] = parts[j] /\ parts[j].words # <<>>
             /\ \A j \in 1..m : parts[j].words # <<>> =>
                  \E i \in 1..Len(list) : list[i] = parts[j]
           S == {m \in 0..n : Right(kept[m], m)}
<1>6. 0 \in S
  <2>1. kept[0] = <<>> /\ f[0] = <<>> /\ Len(<<>>) = 0
    BY <1>2, <1>4 DEF Keeps, Gathers
  <2> QED BY <1>1, <2>1, JoinedNothing DEF HaveTexts
<1>7. ASSUME NEW m \in 1..n, m - 1 \in S PROVE m \in S
  <2>1. m \in 0..n /\ m - 1 \in 0..n /\ m - 1 \in Nat /\ m \in Nat
    BY <1>1
  <2>2. PICK old \in Seq(V), new \in Seq(V) : old = kept[m - 1] /\ new = kept[m]
    BY <1>2, <2>1
  <2>3. PICK part \in V : part = parts[m]
    BY <1>1
  <2>4. new = IF part.words = <<>> THEN old ELSE Append(old, part)
    BY <1>2, <2>2, <2>3 DEF Keeps
  <2>5. f[m] = f[m - 1] \o part.words /\ f[m - 1] \in Seq(Word)
    BY <1>3, <1>4, <2>1, <2>3 DEF Gathers
  <2>6. part.words \in Text /\ part.words \in Seq(Word)
    BY <2>3 DEF HaveTexts, Text
  <2>7. Right(old, m - 1)
    BY <1>7, <2>2
  <2>8. CASE part.words = <<>>
    <3>1. f[m] = f[m - 1]
      BY <2>5, <2>8, ConcatEmptySeq
    <3>2. \A j \in 1..m : parts[j].words # <<>> => j \in 1..(m - 1)
      BY <2>1, <2>3, <2>8
    <3>3. \A j \in 1..(m - 1) : j \in 1..m
      BY <2>1
    <3>4. Right(old, m)
      BY <2>7, <3>1, <3>2, <3>3
    <3>5. kept[m] = old
      BY <2>2, <2>4, <2>8
    <3> HIDE DEF Right
    <3>6. Right(kept[m], m)
      BY <3>4, <3>5
    <3> QED BY <2>1, <3>6
  <2>9. CASE part.words # <<>>
    <3>1. new = Append(old, part)
      BY <2>4, <2>9
    <3>2. P!Joined(new) = f[m] /\ HaveTexts(new)
      <4>1. HaveTexts(old) /\ P!Joined(old) = f[m - 1]
        BY <2>7
      <4>2. /\ P!Joined(Append(old, part)) = P!Joined(old) \o part.words
            /\ HaveTexts(Append(old, part))
        BY <2>6, <4>1, JoinedAppend
      <4> QED BY <2>5, <3>1, <4>1, <4>2
    <3>3. /\ Len(new) = Len(old) + 1 /\ Len(old) \in Nat
          /\ new[Len(old) + 1] = part
          /\ \A i \in 1..Len(old) : new[i] = old[i]
      BY <3>1, AppendProperties
    <3>4. ASSUME NEW i \in 1..Len(new)
          PROVE  \E j \in 1..m : new[i] = parts[j] /\ parts[j].words # <<>>
      <4>1. CASE i = Len(old) + 1
        <5>1. m \in 1..m
          BY <2>1
        <5> QED BY <2>3, <2>9, <3>3, <4>1, <5>1
      <4>2. CASE i # Len(old) + 1
        <5>1. i \in 1..Len(old)
          BY <3>3, <4>2
        <5>2. PICK j \in 1..(m - 1) : old[i] = parts[j] /\ parts[j].words # <<>>
          BY <2>7, <5>1
        <5>3. j \in 1..m
          BY <2>1
        <5> QED BY <3>3, <5>1, <5>2, <5>3
      <4> QED BY <4>1, <4>2
    <3>5. ASSUME NEW j \in 1..m, parts[j].words # <<>>
          PROVE  \E i \in 1..Len(new) : new[i] = parts[j]
      <4>1. CASE j = m
        <5>1. Len(old) + 1 \in 1..Len(new)
          BY <3>3
        <5> QED BY <2>3, <3>3, <4>1, <5>1
      <4>2. CASE j # m
        <5>1. j \in 1..(m - 1)
          BY <2>1, <4>2
        <5>2. PICK i \in 1..Len(old) : old[i] = parts[j]
          BY <2>7, <3>5, <5>1
        <5>3. i \in 1..Len(new)
          BY <3>3
        <5> QED BY <3>3, <5>2, <5>3
      <4> QED BY <4>1, <4>2
    <3>6. Right(new, m)
      BY <3>2, <3>4, <3>5
    <3> QED BY <2>1, <2>2, <3>6
  <2> QED BY <2>8, <2>9
<1>8. n \in S
  <2> HIDE DEF S, n
  <2>1. \A m \in 0..n : m \in S
    BY <1>1, <1>6, <1>7, CountUp
  <2> QED BY <1>1, <2>1
<1>9. Right(kept[n], n)
  BY <1>8
<1>10. kept[n] \in Seq(V)
  BY <1>1
<1> QED BY <1>2, <1>5, <1>9, <1>10

--------------------------------------------------------------------------
\* Lists of lists, and what covers one text after the other

Associates(V) == \A x, y, z \in Seq(V) : (x \o y) \o z = x \o (y \o z)

\* Concatenation of lists is associative.
LEMMA ListsAssociate == \A V : Associates(V)
BY ConcatAssociative DEF Associates

\* The text of two lists of lists is the text of the first and of the second.
LEMMA FlattenConcat ==
    ASSUME NEW V, NEW a \in Seq(Seq(V)), NEW b \in Seq(Seq(V))
    PROVE  P!FlattenSeq(a \o b) = P!FlattenSeq(a) \o P!FlattenSeq(b)
<1> DEFINE m == Len(a)
           n == Len(b)
           c == a \o b
<1>0. Associates(V)
  BY ListsAssociate
<1>1. m \in Nat /\ n \in Nat /\ m + n \in Nat
  OBVIOUS
<1>2. /\ c \in Seq(Seq(V)) /\ Len(c) = m + n
      /\ \A i \in 1..(m + n) : c[i] = IF i <= m THEN a[i] ELSE b[i - m]
  BY ConcatProperties
<1>3. PICK f \in [0..m -> Seq(V)] : Gathers(f, a)
  BY GathersExists
<1>4. PICK g \in [0..n -> Seq(V)] : Gathers(g, b)
  BY GathersExists
<1>5. P!FlattenSeq(a) = f[m] /\ P!FlattenSeq(b) = g[n]
  BY <1>3, <1>4, FlattenIs
<1> DEFINE h == [r \in 0..(m + n) |-> IF r <= m THEN f[r] ELSE f[m] \o g[r - m]]
<1>6. \A r \in 0..(m + n) : /\ r <= m => r \in 0..m
                            /\ ~(r <= m) => r - m \in 1..n /\ r - m \in 0..n
  BY <1>1
<1>7. f[m] \in Seq(V) /\ g[n] \in Seq(V) /\ \A i \in 1..n : b[i] \in Seq(V)
  <2>1. m \in 0..m /\ n \in 0..n
    BY <1>1
  <2>2. \A i \in 1..n : b[i] \in Seq(V)
    OBVIOUS
  <2> HIDE DEF m, n
  <2> QED BY <2>1, <2>2
<1> HIDE DEF m, n, c
<1>8. h \in [0..(m + n) -> Seq(V)]
  <2>1. ASSUME NEW r \in 0..(m + n)
        PROVE  (IF r <= m THEN f[r] ELSE f[m] \o g[r - m]) \in Seq(V)
    <3>1. CASE r <= m
      BY <1>6, <3>1
    <3>2. CASE ~(r <= m)
      <4>1. g[r - m] \in Seq(V)
        BY <1>6, <3>2
      <4> QED BY <1>7, <3>2, <4>1, ConcatProperties
    <3> QED BY <3>1, <3>2
  <2> QED BY <2>1
<1>9. \A r \in 0..(m + n) : h[r] = IF r <= m THEN f[r] ELSE f[m] \o g[r - m]
  OBVIOUS
<1> HIDE DEF h
<1>10. h[0] = <<>>
  <2>1. 0 \in 0..(m + n) /\ 0 <= m
    BY <1>1
  <2> QED BY <1>3, <1>9, <2>1 DEF Gathers
<1>11. ASSUME NEW r \in 1..(m + n) PROVE h[r] = h[r - 1] \o c[r]
  <2>1. r \in 0..(m + n) /\ r - 1 \in 0..(m + n)
    BY <1>1
  <2>2. CASE r <= m
    <3>1. r \in 1..m /\ r - 1 <= m
      BY <1>1, <2>2
    <3>2. f[r] = f[r - 1] \o a[r]
      BY <1>3, <3>1 DEF Gathers, m
    <3> QED BY <1>2, <1>9, <2>1, <2>2, <3>1, <3>2
  <2>3. CASE ~(r <= m)
    <3>1. r - m \in 1..n /\ c[r] = b[r - m]
      BY <1>1, <1>2, <2>1, <2>3
    <3>2. PICK k \in 1..n : k = r - m
      BY <3>1
    <3>3. g[k] = g[k - 1] \o b[k]
      BY <1>4 DEF Gathers, n
    <3>4. k - 1 \in 0..n /\ k \in 0..n
      BY <1>1
    <3>5. PICK x \in Seq(V), y \in Seq(V), z \in Seq(V) : x = f[m] /\ y = g[k - 1] /\ z = b[k]
      <4>1. g[k - 1] \in Seq(V)
        BY <3>4
      <4> QED BY <1>7, <4>1
    <3>6. h[r] = x \o (y \o z)
      BY <1>9, <2>1, <2>3, <3>2, <3>3, <3>5
    <3>7. h[r - 1] = x \o y
      <4>1. CASE k = 1
        <5>1. r - 1 = m /\ k - 1 = 0
          BY <1>1, <3>2, <4>1
        <5>2. y = <<>>
          BY <1>4, <3>5, <5>1 DEF Gathers
        <5>3. h[m] = x
          <6>1. m \in 0..(m + n) /\ m <= m
            BY <1>1
          <6> QED BY <1>9, <3>5, <6>1
        <5>4. x \o y = x
          BY <5>2, ConcatEmptySeq
        <5> QED BY <5>1, <5>3, <5>4
      <4>2. CASE k # 1
        <5>1. ~(r - 1 <= m) /\ (r - 1) - m = k - 1
          BY <1>1, <3>2, <4>2
        <5> QED BY <1>9, <2>1, <3>5, <5>1
      <4> QED BY <4>1, <4>2
    <3>8. (x \o y) \o z = x \o (y \o z)
      BY <3>5, <1>0, Zenon DEF Associates
    <3>9. c[r] = z
      BY <3>1, <3>2, <3>5
    <3> QED BY <3>6, <3>7, <3>8, <3>9
  <2> QED BY <2>2, <2>3
<1>12. Gathers(h, c)
  BY <1>2, <1>10, <1>11 DEF Gathers
<1>13. P!FlattenSeq(c) = h[m + n]
  BY <1>2, <1>8, <1>12, FlattenIs
<1>14. h[m + n] = f[m] \o g[n]
  <2>1. m + n \in 0..(m + n) /\ (m + n) - m = n
    BY <1>1
  <2>2. CASE n = 0
    <3>1. m + n = m /\ m <= m
      BY <1>1, <2>2
    <3>2. g[n] = <<>>
      BY <1>4, <2>2 DEF Gathers
    <3>3. h[m + n] = f[m]
      BY <1>9, <2>1, <3>1
    <3> QED BY <1>7, <3>2, <3>3, ConcatEmptySeq
  <2>3. CASE n # 0
    <3>1. ~(m + n <= m)
      BY <1>1, <2>3
    <3> QED BY <1>9, <2>1, <3>1
  <2> QED BY <2>2, <2>3
<1> QED BY <1>5, <1>13, <1>14 DEF c

\* No parts cover an empty stretch.
LEMMA CoverByNone ==
    ASSUME NEW text \in Text PROVE Cover(<<>>, text, 0, 0)
<1>1. Len(text) \in Nat /\ Len(<<>>) = 0
  BY DEF Text
<1> DEFINE o == [i \in 1..(0 + 1) |-> 0]
<1>2. o \in [1..(0 + 1) -> 0..Len(text)] /\ o[1] = 0 /\ o[0 + 1] = 0
  BY <1>1
<1> HIDE DEF o
<1>3. \A i \in 1..0 : FALSE
  OBVIOUS
<1>4. \E off \in [1..(Len(<<>>) + 1) -> 0..Len(text)] :
        /\ off[1] = 0 /\ off[Len(<<>>) + 1] = 0
        /\ \A i \in 1..Len(<<>>) :
             off[i] <= off[i + 1] /\ <<>>[i].words = SubSeq(text, off[i] + 1, off[i + 1])
  BY <1>1, <1>2, <1>3
<1> QED BY <1>4 DEF Cover

\* Two lists that cover one after the other, together.
LEMMA CoverJoined ==
    ASSUME NEW V, NEW a \in Seq(V), NEW b \in Seq(V), NEW text, NEW p, NEW q, NEW r,
           Cover(a, text, p, q), Cover(b, text, q, r)
    PROVE  Cover(a \o b, text, p, r)
<1> DEFINE m == Len(a)
           n == Len(b)
           c == a \o b
           z == Len(text)
<1>1. m \in Nat /\ n \in Nat /\ m + n \in Nat
  OBVIOUS
<1>2. /\ c \in Seq(V) /\ Len(c) = m + n
      /\ \A i \in 1..(m + n) : c[i] = IF i <= m THEN a[i] ELSE b[i - m]
  BY ConcatProperties
<1>3. PICK x \in [1..(m + 1) -> 0..z] :
        /\ x[1] = p /\ x[m + 1] = q
        /\ \A i \in 1..m : x[i] <= x[i + 1] /\ a[i].words = SubSeq(text, x[i] + 1, x[i + 1])
  BY DEF Cover
<1>4. PICK y \in [1..(n + 1) -> 0..z] :
        /\ y[1] = q /\ y[n + 1] = r
        /\ \A i \in 1..n : y[i] <= y[i + 1] /\ b[i].words = SubSeq(text, y[i] + 1, y[i + 1])
  BY DEF Cover
<1> HIDE DEF m, n, c, z
<1> DEFINE o == [i \in 1..(m + n + 1) |-> IF i <= m THEN x[i] ELSE y[i - m]]
<1>5. /\ \A i \in 1..(m + n + 1) : i <= m => i \in 1..m /\ i \in 1..(m + 1)
      /\ \A i \in 1..(m + n + 1) : ~(i <= m) => i - m \in 1..(n + 1)
  BY <1>1
<1>6. o \in [1..(m + n + 1) -> 0..z]
  BY <1>5
<1>7. \A i \in 1..(m + n + 1) : o[i] = IF i <= m THEN x[i] ELSE y[i - m]
  OBVIOUS
<1> HIDE DEF o
<1>8. o[1] = p
  <2>1. 1 \in 1..(m + n + 1)
    BY <1>1
  <2>2. CASE m = 0
    <3>1. ~(1 <= m) /\ 1 - m = 1 /\ m + 1 = 1
      BY <2>2
    <3> QED BY <1>3, <1>4, <1>7, <2>1, <3>1
  <2>3. CASE m # 0
    <3>1. 1 <= m
      BY <1>1, <2>3
    <3> QED BY <1>3, <1>7, <2>1, <3>1
  <2> QED BY <2>2, <2>3
<1>9. o[m + n + 1] = r
  <2>1. m + n + 1 \in 1..(m + n + 1) /\ ~(m + n + 1 <= m) /\ (m + n + 1) - m = n + 1
    BY <1>1
  <2> QED BY <1>4, <1>7, <2>1
<1>10. ASSUME NEW i \in 1..(m + n)
       PROVE  o[i] <= o[i + 1] /\ c[i].words = SubSeq(text, o[i] + 1, o[i + 1])
  <2>1. i \in 1..(m + n + 1) /\ i + 1 \in 1..(m + n + 1)
    BY <1>1
  <2>2. CASE i <= m
    <3>1. i \in 1..m /\ c[i] = a[i] /\ o[i] = x[i]
      BY <1>2, <1>5, <1>7, <2>1, <2>2
    <3>2. o[i + 1] = x[i + 1]
      <4>1. CASE i = m
        <5>1. ~(i + 1 <= m) /\ (i + 1) - m = 1
          BY <1>1, <4>1
        <5>2. o[i + 1] = y[1]
          BY <1>7, <2>1, <5>1
        <5> QED BY <1>3, <1>4, <4>1, <5>2
      <4>2. CASE i # m
        <5>1. i + 1 <= m
          BY <1>1, <2>2, <4>2
        <5> QED BY <1>7, <2>1, <5>1
      <4> QED BY <4>1, <4>2
    <3> QED BY <1>3, <3>1, <3>2
  <2>3. CASE ~(i <= m)
    <3>1. PICK k \in 1..n : k = i - m
      <4>1. i - m \in 1..n
        BY <1>1, <2>3
      <4> QED BY <4>1
    <3>2. ~(i + 1 <= m) /\ (i + 1) - m = k + 1
      BY <1>1, <2>3, <3>1
    <3>3. c[i] = b[k] /\ o[i] = y[k] /\ o[i + 1] = y[k + 1]
      BY <1>2, <1>7, <2>1, <2>3, <3>1, <3>2
    <3> QED BY <1>4, <3>3
  <2> QED BY <2>2, <2>3
<1>11. \E off \in [1..(Len(c) + 1) -> 0..z] :
         /\ off[1] = p /\ off[Len(c) + 1] = r
         /\ \A i \in 1..Len(c) :
              off[i] <= off[i + 1] /\ c[i].words = SubSeq(text, off[i] + 1, off[i + 1])
  BY <1>2, <1>6, <1>8, <1>9, <1>10
<1> QED BY <1>11 DEF Cover, c, z

--------------------------------------------------------------------------
\* Sections and paragraphs that are whole

\* A section made of whole paragraphs without a word twice is whole.
LEMMA SectionOfParagraphs ==
    ASSUME NEW title \in Word, NEW paras \in Seq(Paragraph),
           \A i \in 1..Len(paras) : WholeParagraph(paras[i]),
           NoneTwice(P!Joined(paras))
    PROVE  LET section == P!NewSection(title, paras)
           IN  /\ section \in Section /\ Whole(section)
               /\ section.words = P!Joined(paras) /\ section.title = title
<1> DEFINE section == P!NewSection(title, paras)
<1>1. HaveTexts(paras)
  <2>1. \A p \in Paragraph : p.words \in Text
    BY DEF Paragraph
  <2> QED BY <2>1, PartsHaveTexts
<1>2. P!Joined(paras) \in Text /\ Cover(paras, P!Joined(paras), 0, Len(P!Joined(paras)))
  BY <1>1, JoinedIs
<1>3. /\ section.words = P!Joined(paras) /\ section.title = title
      /\ section.paragraphs = paras
      /\ section = [words |-> P!Joined(paras), title |-> title, paragraphs |-> paras]
  BY DEF P!NewSection
<1>4. section \in Section
  BY <1>2, <1>3 DEF Section
<1> HIDE DEF section
<1>5. Whole(section)
  BY <1>2, <1>3 DEF Whole
<1> QED BY <1>3, <1>4, <1>5 DEF section

HaveSentences(lines) ==
    \A i \in 1..Len(lines) :
        lines[i].sentences \in Seq(Sentence) /\ WholeParagraph(lines[i])

\* The lines under a heading make a whole paragraph.
LEMMA ParagraphOfLines ==
    ASSUME NEW lines, HaveTexts(lines), HaveSentences(lines)
    PROVE  LET para == P!NewParagraph(lines)
           IN  /\ para \in Paragraph /\ WholeParagraph(para)
               /\ para.words = P!Joined(lines)
<1> DEFINE n == Len(lines)
           lists == [i \in 1..n |-> lines[i].sentences]
           text == P!Joined(lines)
           para == P!NewParagraph(lines)
<1>1. n \in Nat
  BY DEF HaveTexts
<1>2. /\ lists \in Seq(Seq(Sentence)) /\ Len(lists) = n
      /\ \A i \in 1..n : lists[i] = lines[i].sentences
  <2>1. \A i \in 1..n : lines[i].sentences \in Seq(Sentence)
    BY DEF HaveSentences
  <2> HIDE DEF n
  <2>2. lists \in [1..n -> Seq(Sentence)]
    BY <2>1
  <2> QED BY <1>1, <2>2
<1>3. para = [words |-> text, sentences |-> P!FlattenSeq(lists)]
  BY DEF P!NewParagraph
<1> HIDE DEF lists, text, para, n
<1>4. PICK off : Spread(off, lines, text)
  BY JoinedLays, LaidTexts DEF text
<1>5. text \in Text
  BY JoinedLays DEF text
<1>6. PICK g \in [0..n -> Seq(Sentence)] : Gathers(g, lists)
  <2>1. \E g \in [0..Len(lists) -> Seq(Sentence)] : Gathers(g, lists)
    BY <1>2, GathersExists
  <2> QED BY <1>2, <2>1
<1>7. P!FlattenSeq(lists) = g[n]
  BY <1>2, <1>6, FlattenIs
<1>8. n \in 0..n /\ g[n] \in Seq(Sentence)
  BY <1>1
<1> DEFINE S == {m \in 0..n : Cover(g[m], text, 0, off[m])}
<1>9. 0 \in S
  <2>1. g[0] = <<>> /\ off[0] = 0
    BY <1>4, <1>6 DEF Gathers, Spread
  <2>2. Cover(g[0], text, 0, off[0])
    BY <1>5, <2>1, CoverByNone
  <2> QED BY <1>1, <2>2
<1>10. ASSUME NEW m \in 1..n, m - 1 \in S PROVE m \in S
  <2>1. m - 1 \in 0..n /\ m \in 0..n
    BY <1>1
  <2>2. PICK a, b, s :
          a = off[m - 1] /\ b = off[m] /\ s = lines[m].sentences
    OBVIOUS
  <2>3. /\ a \in Nat /\ b \in Nat /\ a <= b /\ b <= Len(text)
        /\ b - a = Len(lines[m].words)
        /\ lines[m].words = SubSeq(text, a + 1, b)
    BY <1>4, <1>5, <2>2, PartIsStretch DEF n
  <2>4. s \in Seq(Sentence) /\ Cover(s, lines[m].words, 0, Len(lines[m].words))
    BY <2>2 DEF HaveSentences, WholeParagraph, n
  <2>5. Cover(s, SubSeq(text, a + 1, b), 0, b - a)
    BY <2>3, <2>4
  <2>6. Cover(s, text, a, b)
    BY <1>5, <2>3, <2>4, <2>5, CoverOfStretch
  <2>7. PICK old \in Seq(Sentence) : old = g[m - 1]
    BY <2>1
  <2>8. Cover(old, text, 0, a)
    BY <1>10, <2>2, <2>7
  <2>9. g[m] = old \o s
    BY <1>2, <1>6, <2>2, <2>7 DEF Gathers
  <2>10. Cover(old \o s, text, 0, b)
    BY <2>4, <2>6, <2>7, <2>8, CoverJoined
  <2>11. Cover(g[m], text, 0, off[m])
    BY <2>2, <2>9, <2>10
  <2> QED BY <2>1, <2>11
<1>11. Cover(g[n], text, 0, Len(text))
  <2>1. n \in S
    <3> HIDE DEF S
    <3>1. \A m \in 0..n : m \in S
      BY <1>1, <1>9, <1>10, CountUp
    <3> QED BY <1>8, <3>1
  <2>2. off[n] = Len(text)
    BY <1>4 DEF Spread, n
  <2> QED BY <2>1, <2>2
<1>12. ASSUME NEW p \in 1..Len(g[n]) PROVE g[n][p].words # <<>>
  <2>1. PICK o : Laid(o, lists, g[n])
    BY <1>2, <1>7, FlattenLays
  <2>2. PICK r \in 1..n : \E k \in 1..Len(lists[r]) : p = o[r - 1] + k
    BY <1>2, <2>1 DEF Laid
  <2>3. PICK k \in 1..Len(lists[r]) : p = o[r - 1] + k
    BY <2>2
  <2>4. g[n][o[r - 1] + k] = lists[r][k]
    BY <1>2, <2>1 DEF Laid
  <2>5. \A j \in 1..Len(lines[r].sentences) : lines[r].sentences[j].words # <<>>
    BY DEF HaveSentences, WholeParagraph, n
  <2> QED BY <1>2, <2>3, <2>4, <2>5
<1>13. para.words = text /\ para.sentences = g[n]
  BY <1>3, <1>7
<1>14. para \in Paragraph
  BY <1>3, <1>5, <1>7, <1>8 DEF Paragraph
<1>15. WholeParagraph(para)
  BY <1>11, <1>12, <1>13 DEF WholeParagraph
<1> QED BY <1>13, <1>14, <1>15 DEF para, text

--------------------------------------------------------------------------
\* PDF files and files of another type

AllWholeIn(sections) ==
    sections \in Seq(Section) /\ \A i \in 1..Len(sections) : Whole(sections[i])

\* Of whole elements, those with text are whole and hold all words.
LEMMA ElementsAreKept ==
    ASSUME NEW body, AllWholeIn(body)
    PROVE  AllWholeIn(P!WithText(body)) /\ P!Joined(P!WithText(body)) = P!Joined(body)
<1>1. body \in Seq(Section)
  BY DEF AllWholeIn
<1>2. HaveTexts(body)
  <2>1. \A p \in Section : p.words \in Text
    BY DEF Section
  <2> QED BY <1>1, <2>1, PartsHaveTexts
<1>3. /\ P!WithText(body) \in Seq(Section)
      /\ P!Joined(P!WithText(body)) = P!Joined(body)
      /\ \A i \in 1..Len(P!WithText(body)) : \E j \in 1..Len(body) :
           P!WithText(body)[i] = body[j] /\ body[j].words # <<>>
  BY <1>1, <1>2, WithTextKeeps
<1> QED BY <1>3 DEF AllWholeIn

--------------------------------------------------------------------------
\* Texts

\* A set of numbers up to n that is not empty has a greatest one.
LEMMA GreatestNumber ==
    ASSUME NEW n \in Nat, NEW T, T \subseteq 1..n, T # {}
    PROVE  \E x \in T : \A y \in T : x >= y
<1> DEFINE U == {n - x : x \in T}
<1>0. \A x \in T : x \in Nat /\ n - x \in Nat
  <2>1. \A x \in 1..n : x \in Nat /\ n - x \in Nat
    OBVIOUS
  <2> QED BY <2>1
<1>1. U \subseteq Nat /\ U # {}
  BY <1>0
<1>2. PICK u \in U : \A v \in U : u <= v
  BY <1>1, LeastNumber
<1>3. PICK x \in T : u = n - x
  BY <1>2
<1>4. ASSUME NEW y \in T PROVE x >= y
  <2>1. u <= n - y
    BY <1>2
  <2>2. x \in Nat /\ y \in Nat
    BY <1>0
  <2> QED BY <1>3, <2>1, <2>2
<1> QED BY <1>4

\* Parts without a word add nothing.
LEMMA BlanksAddNothing ==
    ASSUME NEW parts, HaveTexts(parts), NEW f \in [0..Len(parts) -> Seq(Word)],
           Gathers(f, Texts(parts)), NEW lo \in Nat, NEW hi \in Nat, lo <= hi, hi <= Len(parts),
           \A r \in (lo + 1)..hi : parts[r].words = <<>>
    PROVE  f[lo] = f[hi]
<1> DEFINE n == Len(parts)
           S == {d \in 0..(hi - lo) : f[lo + d] = f[lo]}
<1>1. n \in Nat /\ hi - lo \in Nat /\ hi <= n
  BY DEF HaveTexts
<1>2. 0 \in S
  <2>1. lo + 0 = lo
    OBVIOUS
  <2> QED BY <1>1, <2>1
<1>3. ASSUME NEW d \in 1..(hi - lo), d - 1 \in S PROVE d \in S
  <2>1. PICK r \in Nat : r = lo + d
    OBVIOUS
  <2>2. r \in 1..n /\ r \in (lo + 1)..hi /\ r - 1 = lo + (d - 1) /\ r - 1 \in 0..n
    BY <1>1, <2>1
  <2>3. Texts(parts)[r] = <<>> /\ Len(Texts(parts)) = n
    BY <2>2, TextsType
  <2>4. f[r] = f[r - 1] \o <<>>
    BY <2>2, <2>3 DEF Gathers
  <2>5. f[r - 1] \in Seq(Word)
    BY <2>2
  <2>6. f[r] = f[r - 1]
    BY <2>4, <2>5, ConcatEmptySeq
  <2>7. f[r - 1] = f[lo]
    BY <1>3, <2>2
  <2> QED BY <2>1, <2>6, <2>7
<1>4. hi - lo \in S
  <2> HIDE DEF S
  <2>1. \A d \in 0..(hi - lo) : d \in S
    BY <1>1, <1>2, <1>3, CountUp
  <2>2. hi - lo \in 0..(hi - lo)
    BY <1>1
  <2> QED BY <2>1, <2>2
<1>5. lo + (hi - lo) = hi
  OBVIOUS
<1> QED BY <1>4, <1>5

\* Stripping takes a stretch of the parts and leaves no word out.
LEMMA StrippedKeeps ==
    ASSUME NEW V, NEW body \in Seq(V), HaveTexts(body), P!Joined(body) # <<>>
    PROVE  /\ P!Stripped(body) \in Seq(V)
           /\ HaveTexts(P!Stripped(body))
           /\ P!Joined(P!Stripped(body)) = P!Joined(body)
           /\ \E a \in Nat : \A i \in 1..Len(P!Stripped(body)) :
                a + i \in 1..Len(body) /\ P!Stripped(body)[i] = body[a + i]
<1> DEFINE n == Len(body)
           inked == {i \in 1..n : body[i].words # <<>>}
<1>1. n \in Nat /\ \A i \in 1..n : body[i] \in V /\ body[i].words \in Text
  BY DEF HaveTexts
<1>2. /\ Texts(body) \in Seq(Seq(Word)) /\ Len(Texts(body)) = n
      /\ \A i \in 1..n : Texts(body)[i] = body[i].words
  BY TextsType
<1>3. PICK f \in [0..n -> Seq(Word)] : Gathers(f, Texts(body))
  <2>1. \E f \in [0..Len(Texts(body)) -> Seq(Word)] : Gathers(f, Texts(body))
    BY <1>2, GathersExists
  <2> QED BY <1>2, <2>1
<1>4. f[0] = <<>>
  BY <1>3 DEF Gathers
<1>5. P!Joined(body) = f[n]
  <2>1. P!Joined(body) = P!FlattenSeq(Texts(body))
    BY DEF P!Joined, Texts
  <2> QED BY <1>2, <1>3, <2>1, FlattenIs
<1> HIDE DEF n
<1>6. inked \subseteq 1..n /\ inked # {}
  <2>1. SUFFICES ASSUME inked = {} PROVE FALSE
    OBVIOUS
  <2>2. ASSUME NEW r \in (0 + 1)..n PROVE body[r].words = <<>>
    <3>1. r \in 1..n
      <4> HIDE DEF inked
      <4> QED BY <1>1
    <3>2. r \notin inked
      <4> HIDE DEF inked
      <4> QED BY <2>1
    <3> QED BY <3>1, <3>2
  <2>0. 0 \in Nat /\ 0 <= n /\ n <= n
    BY <1>1
  <2>3. f[0] = f[n]
    BY <1>1, <1>3, <2>0, <2>2, BlanksAddNothing DEF n
  <2> QED BY <1>4, <1>5, <2>3
<1>7. PICK a1, b :
        /\ a1 = P!Min(inked) /\ b = P!Max(inked)
        /\ a1 \in inked /\ b \in inked /\ \A i \in inked : a1 <= i /\ i <= b
  <2> DEFINE lo == P!Min(inked)
             hi == P!Max(inked)
  <2> HIDE DEF inked
  <2>1. lo \in inked /\ \A i \in inked : lo <= i
    <3>1. \E x \in inked : \A y \in inked : x <= y
      <4>1. inked \subseteq Nat
        BY <1>1, <1>6
      <4> QED BY <1>6, <4>1, LeastNumber
    <3> QED BY <3>1, Zenon DEF P!Min
  <2>2. hi \in inked /\ \A i \in inked : hi >= i
    <3>1. \E x \in inked : \A y \in inked : x >= y
      BY <1>1, <1>6, GreatestNumber
    <3> QED BY <3>1, Zenon DEF P!Max
  <2>3. \A i \in inked : hi >= i => i <= hi
    BY <1>1, <1>6, <2>2
  <2> QED BY <2>1, <2>2, <2>3
<1>8. PICK a \in Nat : a + 1 = a1
  <2>1. a1 \in 1..n
    BY <1>6, <1>7
  <2>2. a1 - 1 \in Nat /\ (a1 - 1) + 1 = a1
    BY <1>1, <2>1
  <2> QED BY <2>2
<1>9. /\ a + 1 = a1 /\ a \in 0..n /\ b \in 1..n /\ a <= b /\ a + 1 <= b /\ b - a \in Nat
      /\ b \in Nat /\ a <= n /\ b <= n /\ 0 <= a
  <2>1. a1 \in 1..n /\ b \in 1..n /\ a1 <= b
    BY <1>6, <1>7
  <2> HIDE DEF inked
  <2> QED BY <1>1, <1>8, <2>1
<1>10. f[a] = <<>>
  <2>1. \A r \in (0 + 1)..a : body[r].words = <<>>
    <3>1. ASSUME NEW r \in (0 + 1)..a PROVE body[r].words = <<>>
      <4>1. r \in 1..n /\ ~(a1 <= r)
        <5> HIDE DEF inked
        <5> QED BY <1>1, <1>9
      <4>2. r \notin inked
        BY <1>7, <4>1
      <4> QED BY <4>1, <4>2
    <3> QED BY <3>1
  <2>2. 0 \in Nat /\ 0 <= a /\ a <= Len(body)
    BY <1>9 DEF n
  <2>3. f[0] = f[a]
    <3> HIDE DEF inked
    <3> QED BY <1>3, <1>8, <2>1, <2>2, BlanksAddNothing DEF n
  <2> QED BY <1>4, <2>3
<1>11. f[b] = f[n]
  <2>1. \A r \in (b + 1)..n : body[r].words = <<>>
    <3>1. ASSUME NEW r \in (b + 1)..n PROVE body[r].words = <<>>
      <4>1. r \in 1..n /\ ~(r <= b)
        <5> HIDE DEF inked
        <5> QED BY <1>1, <1>9
      <4>2. r \notin inked
        BY <1>7, <4>1
      <4> QED BY <4>1, <4>2
    <3> QED BY <3>1
  <2>2. b \in Nat /\ n \in Nat /\ b <= n /\ n <= Len(body)
    <3> HIDE DEF inked
    <3> QED BY <1>1, <1>9 DEF n
  <2>3. f[b] = f[n]
    <3> HIDE DEF inked
    <3> QED BY <1>3, <2>1, <2>2, BlanksAddNothing DEF n
  <2> QED BY <2>3
<1> DEFINE s == P!Stripped(body)
           m == b - a
<1>12. s = SubSeq(body, a + 1, b)
  BY <1>7, <1>9 DEF P!Stripped, n
<1>13. /\ s \in Seq(V) /\ Len(s) = m
       /\ \A i \in 1..m : a + i \in 1..n /\ s[i] = body[a + i]
  <2>1. \A i \in (a + 1)..b : body[i] \in V
    BY <1>1, <1>9
  <2>2. a + 1 \in Int /\ b \in Int
    BY <1>9
  <2>3. /\ SubSeq(body, a + 1, b) \in Seq(V)
        /\ Len(SubSeq(body, a + 1, b)) = IF a + 1 <= b THEN b - (a + 1) + 1 ELSE 0
        /\ \A i \in 1..(b - (a + 1) + 1) :
             SubSeq(body, a + 1, b)[i] = body[(a + 1) + i - 1]
    BY <2>1, <2>2, SubSeqProperties
  <2>4. b - (a + 1) + 1 = m
    BY <1>9
  <2>5. \A i \in 1..m : (a + 1) + i - 1 = a + i /\ a + i \in 1..n
    BY <1>1, <1>9
  <2> HIDE DEF s, m
  <2> QED BY <1>9, <1>12, <2>3, <2>4, <2>5
<1>14. m \in Nat
  BY <1>9
<1> HIDE DEF s, m
<1>15. HaveTexts(s)
  BY <1>1, <1>13, <1>14 DEF HaveTexts
<1>16. /\ Texts(s) \in Seq(Seq(Word)) /\ Len(Texts(s)) = m
       /\ \A i \in 1..m : Texts(s)[i] = s[i].words
  BY <1>13, <1>15, TextsType
<1> DEFINE g == [r \in 0..m |-> f[a + r]]
<1>17. \A r \in 0..m : a + r \in 0..n
  BY <1>1, <1>9 DEF m
<1>18. g \in [0..m -> Seq(Word)] /\ \A r \in 0..m : g[r] = f[a + r]
  BY <1>17
<1> HIDE DEF g
<1>19. Gathers(g, Texts(s))
  <2>1. g[0] = <<>>
    <3>1. 0 \in 0..m /\ a + 0 = a
      BY <1>14
    <3> QED BY <1>10, <1>18, <3>1
  <2>2. ASSUME NEW r \in 1..m PROVE g[r] = g[r - 1] \o Texts(s)[r]
    <3>1. /\ r \in 0..m /\ r - 1 \in 0..m /\ a + r \in 1..n
          /\ a + (r - 1) = (a + r) - 1
      <4>1. a + r \in 1..n
        BY <1>13
      <4>2. r \in 0..m /\ r - 1 \in 0..m /\ a + (r - 1) = (a + r) - 1
        BY <1>14
      <4> QED BY <4>1, <4>2
    <3>2. f[a + r] = f[(a + r) - 1] \o Texts(body)[a + r]
      BY <1>2, <1>3, <3>1 DEF Gathers
    <3>3. Texts(body)[a + r] = Texts(s)[r]
      BY <1>2, <1>13, <1>16, <3>1
    <3> QED BY <1>18, <3>1, <3>2, <3>3
  <2> QED BY <1>16, <2>1, <2>2 DEF Gathers
<1>20. P!Joined(s) = P!Joined(body)
  <2>1. P!Joined(s) = P!FlattenSeq(Texts(s))
    BY DEF P!Joined, Texts
  <2>2. P!FlattenSeq(Texts(s)) = g[m]
    BY <1>16, <1>18, <1>19, FlattenIs
  <2>3. m \in 0..m /\ a + m = b
    BY <1>9, <1>14 DEF m
  <2> QED BY <1>5, <1>11, <1>18, <2>1, <2>2, <2>3
<1>21. \E x \in Nat : \A i \in 1..Len(s) : x + i \in 1..n /\ s[i] = body[x + i]
  BY <1>13
<1> QED BY <1>13, <1>15, <1>20, <1>21 DEF s, n

\* A stretch of parts whose words differ.
LEMMA StretchDiffers ==
    ASSUME NEW body, DifferentWords(body), NEW s, Len(s) \in Nat, NEW a \in Nat,
           \A i \in 1..Len(s) : a + i \in 1..Len(body) /\ s[i] = body[a + i]
    PROVE  DifferentWords(s)
<1>1. SUFFICES ASSUME NEW i \in 1..Len(s), NEW j \in 1..Len(s),
                      NEW k \in 1..Len(s[i].words), NEW l \in 1..Len(s[j].words),
                      s[i].words[k] = s[j].words[l]
               PROVE  i = j /\ k = l
  BY DEF DifferentWords
<1>2. PICK x \in 1..Len(body), y \in 1..Len(body) : x = a + i /\ y = a + j
  OBVIOUS
<1>3. s[i] = body[x] /\ s[j] = body[y]
  BY <1>2
<1>4. /\ k \in 1..Len(body[x].words) /\ l \in 1..Len(body[y].words)
      /\ body[x].words[k] = body[y].words[l]
  BY <1>1, <1>3
<1>5. x = y /\ k = l
  <2>1. \A p \in 1..Len(body[x].words), q \in 1..Len(body[y].words) :
          body[x].words[p] = body[y].words[q] => x = y /\ p = q
    BY <1>2, Zenon DEF DifferentWords
  <2> QED BY <1>4, <2>1
<1>6. i \in Nat /\ j \in Nat
  OBVIOUS
<1> QED BY <1>2, <1>5, <1>6

\* The stripped text is one whole section with all words.
LEMMA TextIsKept ==
    ASSUME NEW body \in Seq(Paragraph), DifferentWords(body),
           \A i \in 1..Len(body) : WholeParagraph(body[i]), P!Joined(body) # <<>>
    PROVE  LET sections == <<P!NewSection(P!NoTitle, P!Stripped(body))>>
           IN  AllWholeIn(sections) /\ P!Joined(sections) = P!Joined(body)
<1> DEFINE s == P!Stripped(body)
           section == P!NewSection(P!NoTitle, s)
<1>1. HaveTexts(body)
  <2>1. \A p \in Paragraph : p.words \in Text
    BY DEF Paragraph
  <2> QED BY <2>1, PartsHaveTexts
<1>2. /\ s \in Seq(Paragraph) /\ HaveTexts(s) /\ P!Joined(s) = P!Joined(body)
      /\ \E a \in Nat : \A i \in 1..Len(s) : a + i \in 1..Len(body) /\ s[i] = body[a + i]
  BY <1>1, StrippedKeeps
<1> HIDE DEF s
<1>3. PICK a \in Nat : \A i \in 1..Len(s) : a + i \in 1..Len(body) /\ s[i] = body[a + i]
  BY <1>2
<1>4. DifferentWords(s)
  BY <1>2, <1>3, StretchDiffers DEF HaveTexts
<1>5. NoneTwice(P!Joined(s))
  BY <1>2, <1>4, JoinedIs
<1>6. \A i \in 1..Len(s) : WholeParagraph(s[i])
  BY <1>3
<1>7. P!NoTitle \in Word
  BY DEF P!NoTitle, Word
<1>8. /\ section \in Section /\ Whole(section)
      /\ section.words = P!Joined(s) /\ section.title = P!NoTitle
  BY <1>2, <1>5, <1>6, <1>7, SectionOfParagraphs
<1> HIDE DEF section
<1>9. section.words \in Text
  BY <1>8 DEF Section
<1>10. P!Joined(<<section>>) = P!Joined(body)
  BY <1>2, <1>8, <1>9, JoinedOne
<1>11. AllWholeIn(<<section>>)
  BY <1>8 DEF AllWholeIn
<1> QED BY <1>10, <1>11 DEF section, s

--------------------------------------------------------------------------
\* Word documents: the loop over the paragraphs

LinesState == [sections : Seq(Section), title : Word, lines : Seq(DocxLine)]

\* The section that the lines read so far would make.
OpenSection(state) == P!NewSection(state.title, <<P!NewParagraph(state.lines)>>)

\* The lines of a Word document have words.
LEMMA LinesHaveTexts ==
    ASSUME NEW lines \in Seq(DocxLine) PROVE HaveTexts(lines)
<1>1. \A p \in DocxLine : p.words \in Text
  BY DEF DocxLine
<1> QED BY <1>1, PartsHaveTexts

\* The lines not saved yet would make a section of their words, under the title of
\* the loop.
LEMMA OpenSectionType ==
    ASSUME NEW state \in LinesState
    PROVE  /\ P!NewParagraph(state.lines) \in Paragraph
           /\ P!NewParagraph(state.lines).words = P!Joined(state.lines)
           /\ OpenSection(state) \in Section
           /\ OpenSection(state).words = P!Joined(state.lines)
           /\ OpenSection(state).title = state.title
<1> DEFINE lines == state.lines
           lists == [i \in 1..Len(lines) |-> lines[i].sentences]
           para == P!NewParagraph(lines)
<1>1. lines \in Seq(DocxLine) /\ state.title \in Word
  BY DEF LinesState
<1> HIDE DEF lines
<1>2. lists \in Seq(Seq(Sentence))
  <2>1. Len(lines) \in Nat /\ \A i \in 1..Len(lines) : lines[i] \in DocxLine
    BY <1>1
  <2>2. \A i \in 1..Len(lines) : lines[i].sentences \in Seq(Sentence)
    BY <2>1 DEF DocxLine
  <2>3. lists \in [1..Len(lines) -> Seq(Sentence)]
    BY <2>2
  <2> QED BY <2>1, <2>3
<1>3. P!FlattenSeq(lists) \in Seq(Sentence)
  <2> HIDE DEF lists
  <2> QED BY <1>2, FlattenLays
<1>4. P!Joined(lines) \in Text
  BY <1>1, LinesHaveTexts, JoinedIs
<1>5. para = [words |-> P!Joined(lines), sentences |-> P!FlattenSeq(lists)]
  BY DEF P!NewParagraph
<1> HIDE DEF lists
<1>6. para \in Paragraph /\ para.words = P!Joined(lines)
  BY <1>3, <1>4, <1>5 DEF Paragraph
<1> HIDE DEF para
<1>7. P!Joined(<<para>>) = P!Joined(lines)
  BY <1>4, <1>6, JoinedOne
<1>8. OpenSection(state) =
        [words |-> P!Joined(lines), title |-> state.title, paragraphs |-> <<para>>]
  BY <1>7 DEF OpenSection, P!NewSection, para, lines
<1>9. <<para>> \in Seq(Paragraph)
  BY <1>6
<1>10. OpenSection(state) \in Section
  BY <1>1, <1>4, <1>8, <1>9 DEF Section
<1> QED BY <1>6, <1>8, <1>10 DEF para, lines

\* Saving appends the open section if it has a line.
LEMMA SavedSections ==
    ASSUME NEW state \in LinesState
    PROVE  /\ P!Saved(state) = IF state.lines = <<>> THEN state.sections
                               ELSE Append(state.sections, OpenSection(state))
           /\ P!Saved(state) \in Seq(Section)
<1>1. P!Saved(state) = IF state.lines = <<>> THEN state.sections
                       ELSE Append(state.sections, OpenSection(state))
  BY DEF P!Saved, OpenSection
<1>2. state.sections \in Seq(Section) /\ OpenSection(state) \in Section
  BY OpenSectionType DEF LinesState
<1>3. Append(state.sections, OpenSection(state)) \in Seq(Section)
  BY <1>2, AppendProperties
<1> QED BY <1>1, <1>2, <1>3

\* The three branches of the loop over paragraphs, with their types.
LEMMA ReadParagraphIs ==
    ASSUME NEW state \in LinesState, NEW para \in DocxLine
    PROVE  /\ P!ReadParagraph(state, para) \in LinesState
           /\ para.heading => P!ReadParagraph(state, para) =
                [sections |-> P!Saved(state), title |-> para.title, lines |-> <<>>]
           /\ ~para.heading /\ para.words # <<>> => P!ReadParagraph(state, para) =
                [state EXCEPT !.lines = Append(@, para)]
           /\ ~para.heading /\ para.words = <<>> => P!ReadParagraph(state, para) = state
<1>1. P!Saved(state) \in Seq(Section)
  BY SavedSections
<1>2. para.heading \in BOOLEAN /\ para.title \in Word
  BY DEF DocxLine
<1>3. /\ state.sections \in Seq(Section) /\ state.title \in Word
      /\ state.lines \in Seq(DocxLine)
      /\ state = [sections |-> state.sections, title |-> state.title, lines |-> state.lines]
  BY DEF LinesState
<1>4. Append(state.lines, para) \in Seq(DocxLine)
  BY <1>3, AppendProperties
<1>5. CASE para.heading
  <2>1. P!ReadParagraph(state, para) =
          [sections |-> P!Saved(state), title |-> para.title, lines |-> <<>>]
    BY <1>5 DEF P!ReadParagraph
  <2>2. <<>> \in Seq(DocxLine)
    OBVIOUS
  <2> QED BY <1>1, <1>2, <1>5, <2>1, <2>2 DEF LinesState
<1>6. CASE ~para.heading /\ para.words # <<>>
  <2>1. P!ReadParagraph(state, para) = [state EXCEPT !.lines = Append(@, para)]
    BY <1>6 DEF P!ReadParagraph
  <2>2. [state EXCEPT !.lines = Append(@, para)] \in LinesState
    BY <1>3, <1>4 DEF LinesState
  <2> QED BY <1>6, <2>1, <2>2
<1>7. CASE ~para.heading /\ para.words = <<>>
  <2>1. P!ReadParagraph(state, para) = state
    BY <1>7 DEF P!ReadParagraph
  <2> QED BY <1>7, <2>1
<1> QED BY <1>2, <1>5, <1>6, <1>7

NothingRead == [sections |-> <<>>, title |-> P!NoTitle, lines |-> <<>>]

\* Reading is what its recursion says.
LEMMA ReadingIs ==
    ASSUME NEW body \in Seq(DocxLine)
    PROVE  /\ P!Reading(body) \in [0..Len(body) -> LinesState]
           /\ P!Reading(body)[0] = NothingRead
           /\ \A m \in 1..Len(body) :
                P!Reading(body)[m] = P!ReadParagraph(P!Reading(body)[m - 1], body[m])
<1> DEFINE n == Len(body)
           step == [p \in LinesState \X (1..n) |-> P!ReadParagraph(p[1], body[p[2]])]
           Def(f) == [m \in 0..n |-> IF m = 0 THEN NothingRead
                                     ELSE P!ReadParagraph(f[m - 1], body[m])]
           after == P!Reading(body)
<1>1. n \in Nat /\ \A m \in 1..n : body[m] \in DocxLine
  OBVIOUS
<1>2. NothingRead \in LinesState
  <2>1. <<>> \in Seq(Section) /\ <<>> \in Seq(DocxLine) /\ P!NoTitle \in Word
    BY DEF P!NoTitle, Word
  <2> QED BY <2>1 DEF NothingRead, LinesState
<1>3. step \in [LinesState \X (1..n) -> LinesState]
  <2>1. ASSUME NEW p \in LinesState \X (1..n)
        PROVE  P!ReadParagraph(p[1], body[p[2]]) \in LinesState
    <3>1. p[1] \in LinesState /\ body[p[2]] \in DocxLine
      BY <1>1
    <3> QED BY <3>1, ReadParagraphIs
  <2> QED BY <2>1
<1>4. \A s \in LinesState, m \in 1..n : step[<<s, m>>] = P!ReadParagraph(s, body[m])
  OBVIOUS
<1> HIDE DEF step
<1>5. PICK f \in [0..n -> LinesState] : Iterates(f, n, NothingRead, step)
  <2> HIDE DEF n
  <2> QED BY <1>1, <1>2, <1>3, IteratesExist
<1>6. f = Def(f)
  <2>1. ASSUME NEW m \in 0..n PROVE f[m] = Def(f)[m]
    <3>1. CASE m = 0
      BY <1>1, <1>5, <3>1 DEF Iterates
    <3>2. CASE m # 0
      <4>1. m \in 1..n /\ m - 1 \in 0..n
        BY <1>1, <3>2
      <4>2. f[m] = step[<<f[m - 1], m>>] /\ f[m - 1] \in LinesState
        BY <1>5, <3>2, <4>1 DEF Iterates
      <4>3. step[<<f[m - 1], m>>] = P!ReadParagraph(f[m - 1], body[m])
        BY <1>4, <4>1, <4>2
      <4> QED BY <3>2, <4>2, <4>3
    <3> QED BY <3>1, <3>2
  <2> QED BY <2>1
<1>7. after = Def(after)
  BY <1>6, Zenon DEF P!Reading, NothingRead
<1> HIDE DEF after
<1>8. after[0] = NothingRead
  BY <1>1, <1>7
<1>9. ASSUME NEW m \in 1..n PROVE after[m] = P!ReadParagraph(after[m - 1], body[m])
  <2>1. m \in 0..n /\ m # 0
    BY <1>1
  <2> QED BY <1>7, <2>1
<1>10. after \in [0..n -> LinesState]
  <2>1. Computes(after, n, NothingRead, step, LinesState)
    <3>1. ASSUME NEW m \in 1..n, after[m - 1] \in LinesState
          PROVE  after[m] = step[<<after[m - 1], m>>]
      BY <1>4, <1>9, <3>1
    <3> QED BY <1>8, <3>1 DEF Computes
  <2>2. \A m \in 0..n : after[m] \in LinesState
    <3> HIDE DEF n
    <3> QED BY <1>1, <1>2, <1>3, <2>1, IteratesKeepTo
  <2>3. after = [m \in 0..n |-> after[m]]
    BY <1>7
  <2> QED BY <2>2, <2>3
<1> QED BY <1>8, <1>9, <1>10 DEF after

\* The lines that are read are lines of the file, their words differ.
FromBody(body, lines, m) ==
    /\ \A k \in 1..Len(lines) : \E j \in 1..m : lines[k] = body[j]
    /\ DifferentWords(lines)

\* The next paragraph of the body behind lines from before it: still lines of the
\* body in their order.
LEMMA OneMoreLine ==
    ASSUME NEW body \in Seq(DocxLine), DifferentWords(body), NEW m \in 1..Len(body),
           NEW lines \in Seq(DocxLine), FromBody(body, lines, m - 1)
    PROVE  FromBody(body, Append(lines, body[m]), m)
<1> DEFINE more == Append(lines, body[m])
           z == Len(lines)
<1>1. z \in Nat /\ m \in Nat /\ m \in 1..m /\ body[m] \in DocxLine
  OBVIOUS
<1>2. Len(more) = z + 1 /\ more[z + 1] = body[m] /\ \A k \in 1..z : more[k] = lines[k]
  BY <1>1, AppendProperties
<1> HIDE DEF more, z
<1>3. \A k \in 1..(z + 1) : k = z + 1 \/ k \in 1..z
  BY <1>1
<1>4. \A j \in 1..(m - 1) : j \in 1..m /\ j \in 1..Len(body) /\ j # m
  BY <1>1
<1>5. ASSUME NEW k \in 1..(z + 1)
      PROVE  \E j \in 1..m : more[k] = body[j] /\ (k = z + 1 <=> j = m)
  <2>1. CASE k = z + 1
    BY <1>1, <1>2, <2>1
  <2>2. CASE k # z + 1
    <3>1. k \in 1..z
      BY <1>3, <2>2
    <3>2. PICK j \in 1..(m - 1) : lines[k] = body[j]
      BY <3>1 DEF FromBody, z
    <3> QED BY <1>2, <1>4, <2>2, <3>1, <3>2
  <2> QED BY <2>1, <2>2
<1>6. ASSUME NEW i \in 1..(z + 1), NEW j \in 1..(z + 1),
             NEW k \in 1..Len(more[i].words), NEW l \in 1..Len(more[j].words),
             more[i].words[k] = more[j].words[l]
      PROVE  i = j /\ k = l
  <2>1. CASE i # z + 1 /\ j # z + 1
    <3>1. i \in 1..z /\ j \in 1..z
      BY <1>3, <2>1
    <3>2. more[i] = lines[i] /\ more[j] = lines[j]
      BY <1>2, <3>1
    <3>3. \A p \in 1..Len(lines[i].words), q \in 1..Len(lines[j].words) :
            lines[i].words[p] = lines[j].words[q] => i = j /\ p = q
      BY <3>1, Zenon DEF FromBody, DifferentWords, z
    <3> QED BY <1>6, <3>2, <3>3
  <2>2. CASE i = z + 1 \/ j = z + 1
    <3>1. PICK x \in 1..m : more[i] = body[x] /\ (i = z + 1 <=> x = m)
      BY <1>5
    <3>2. PICK y \in 1..m : more[j] = body[y] /\ (j = z + 1 <=> y = m)
      BY <1>5
    <3>3. x \in 1..Len(body) /\ y \in 1..Len(body)
      <4>1. \A v \in 1..m : v \in 1..Len(body)
        BY <1>1
      <4> QED BY <3>1, <3>2, <4>1
    <3>4. \A p \in 1..Len(body[x].words), q \in 1..Len(body[y].words) :
            body[x].words[p] = body[y].words[q] => x = y /\ p = q
      BY <3>3, Zenon DEF DifferentWords
    <3>5. x = y /\ k = l
      BY <1>6, <3>1, <3>2, <3>4
    <3> QED BY <2>2, <3>1, <3>2, <3>5
  <2> QED BY <2>1, <2>2
<1>7. DifferentWords(more)
  BY <1>2, <1>6 DEF DifferentWords
<1> QED BY <1>2, <1>5, <1>7 DEF FromBody, more

\* Lines among the first paragraphs are among more of them.
LEMMA FromBodyLater ==
    ASSUME NEW body, NEW lines, NEW m \in Nat, NEW k \in Nat, k <= m, FromBody(body, lines, k)
    PROVE  FromBody(body, lines, m)
<1>1. \A j \in 1..k : j \in 1..m
  OBVIOUS
<1> QED BY <1>1 DEF FromBody

\* The section of lines of the file is whole.
LEMMA OpenSectionWhole ==
    ASSUME NEW body \in Seq(DocxLine), \A i \in 1..Len(body) : WholeParagraph(body[i]),
           NEW m \in 0..Len(body), NEW state \in LinesState,
           FromBody(body, state.lines, m)
    PROVE  Whole(OpenSection(state))
<1> DEFINE lines == state.lines
           para == P!NewParagraph(lines)
<1>1. lines \in Seq(DocxLine) /\ state.title \in Word
  BY DEF LinesState
<1>2. para \in Paragraph /\ para.words = P!Joined(lines) /\ para.words \in Text
  BY OpenSectionType DEF Paragraph
<1> HIDE DEF lines
<1>3. HaveTexts(lines)
  BY <1>1, LinesHaveTexts
<1>4. HaveSentences(lines)
  <2>1. \A k \in 1..Len(lines) : lines[k].sentences \in Seq(Sentence)
    <3>1. \A k \in 1..Len(lines) : lines[k] \in DocxLine
      BY <1>1
    <3> QED BY <3>1 DEF DocxLine
  <2>2. ASSUME NEW k \in 1..Len(lines) PROVE WholeParagraph(lines[k])
    <3>1. PICK j \in 1..m : lines[k] = body[j]
      BY DEF FromBody, lines
    <3>2. j \in 1..Len(body)
      <4>1. Len(body) \in Nat
        OBVIOUS
      <4> QED BY <3>1, <4>1
    <3> QED BY <3>1, <3>2
  <2> QED BY <2>1, <2>2 DEF HaveSentences
<1>5. WholeParagraph(para)
  BY <1>3, <1>4, ParagraphOfLines
<1>6. NoneTwice(P!Joined(lines))
  BY <1>3, JoinedIs DEF FromBody, lines
<1> HIDE DEF para
<1>7. P!Joined(<<para>>) = P!Joined(lines)
  BY <1>2, JoinedOne
<1>8. /\ <<para>> \in Seq(Paragraph)
      /\ \A i \in 1..Len(<<para>>) : WholeParagraph(<<para>>[i])
      /\ NoneTwice(P!Joined(<<para>>))
  <2>1. <<para>> \in Seq(Paragraph) /\ Len(<<para>>) = 1 /\ <<para>>[1] = para
    BY <1>2
  <2> QED BY <1>5, <1>6, <1>7, <2>1
<1> QED BY <1>1, <1>8, SectionOfParagraphs DEF OpenSection, para, lines

\* The sections made so far are whole.
LEMMA LinesMakeWholes ==
    ASSUME NEW body \in Seq(DocxLine), \A i \in 1..Len(body) : WholeParagraph(body[i]),
           DifferentWords(body)
    PROVE  AllWholeIn(P!Saved(P!Reading(body)[Len(body)]))
<1> DEFINE n == Len(body)
           st(m) == P!Reading(body)[m]
           Right(m) == AllWholeIn(st(m).sections) /\ FromBody(body, st(m).lines, m)
           S == {m \in 0..n : Right(m)}
<1>1. n \in Nat /\ \A m \in 1..n : body[m] \in DocxLine
  OBVIOUS
<1>2. \A m \in 0..n : st(m) \in LinesState
  BY ReadingIs
<1>3. ASSUME NEW state \in LinesState, NEW m \in 0..n,
             AllWholeIn(state.sections), FromBody(body, state.lines, m)
      PROVE  AllWholeIn(P!Saved(state))
  <2>1. CASE state.lines = <<>>
    BY <1>3, <2>1, SavedSections
  <2>2. CASE state.lines # <<>>
    <3>1. OpenSection(state) \in Section /\ Whole(OpenSection(state))
      BY <1>3, OpenSectionType, OpenSectionWhole
    <3>2. PICK list \in Seq(Section), s \in Section :
            list = state.sections /\ s = OpenSection(state)
      BY <3>1 DEF LinesState
    <3>3. /\ Append(list, s) \in Seq(Section) /\ Len(Append(list, s)) = Len(list) + 1
          /\ Append(list, s)[Len(list) + 1] = s
          /\ \A i \in 1..Len(list) : Append(list, s)[i] = list[i]
      BY <3>2, AppendProperties
    <3>4. \A i \in 1..(Len(list) + 1) : i = Len(list) + 1 \/ i \in 1..Len(list)
      <4>1. Len(list) \in Nat
        BY <3>2
      <4> QED BY <4>1
    <3>5. AllWholeIn(Append(list, s))
      BY <1>3, <3>1, <3>2, <3>3, <3>4 DEF AllWholeIn
    <3> QED BY <2>2, <3>2, <3>5, SavedSections
  <2> QED BY <2>1, <2>2
<1>4. ASSUME NEW m \in Nat PROVE FromBody(body, <<>>, m)
  <2>1. Len(<<>>) = 0 /\ \A k \in 1..0 : FALSE
    OBVIOUS
  <2> QED BY <2>1 DEF FromBody, DifferentWords
<1>5. 0 \in S
  <2>1. st(0) = NothingRead
    BY ReadingIs
  <2>2. st(0).sections = <<>> /\ st(0).lines = <<>>
    BY <2>1 DEF NothingRead
  <2>3. AllWholeIn(<<>>)
    <3>1. <<>> \in Seq(Section) /\ Len(<<>>) = 0 /\ \A k \in 1..0 : FALSE
      OBVIOUS
    <3> QED BY <3>1 DEF AllWholeIn
  <2> QED BY <1>1, <1>4, <2>2, <2>3
<1>6. ASSUME NEW m \in 1..n, m - 1 \in S PROVE m \in S
  <2>1. m - 1 \in 0..n /\ m \in 0..n /\ m \in Nat /\ m - 1 \in Nat /\ m - 1 <= m
    BY <1>1
  <2>2. PICK old \in LinesState, para \in DocxLine : old = st(m - 1) /\ para = body[m]
    BY <1>1, <1>2, <2>1
  <2>3. st(m) = P!ReadParagraph(old, para)
    BY <2>2, ReadingIs
  <2>4. AllWholeIn(old.sections) /\ FromBody(body, old.lines, m - 1)
    BY <1>6, <2>2
  <2>5. CASE para.heading
    <3>1. st(m).sections = P!Saved(old) /\ st(m).lines = <<>>
      BY <2>2, <2>3, <2>5, ReadParagraphIs
    <3>2. AllWholeIn(P!Saved(old))
      BY <1>3, <2>1, <2>2, <2>4
    <3> QED BY <1>4, <2>1, <3>1, <3>2
  <2>6. CASE ~para.heading /\ para.words # <<>>
    <3>1. st(m) = [old EXCEPT !.lines = Append(@, para)]
      BY <2>2, <2>3, <2>6, ReadParagraphIs
    <3>2. st(m).sections = old.sections /\ st(m).lines = Append(old.lines, para)
      BY <2>2, <3>1 DEF LinesState
    <3>3. old.lines \in Seq(DocxLine)
      BY <2>2 DEF LinesState
    <3>4. FromBody(body, Append(old.lines, para), m)
      BY <2>2, <2>4, <3>3, OneMoreLine
    <3> QED BY <2>1, <2>4, <3>2, <3>4
  <2>7. CASE ~para.heading /\ para.words = <<>>
    <3>1. st(m) = old
      BY <2>2, <2>3, <2>7, ReadParagraphIs
    <3>2. FromBody(body, old.lines, m)
      BY <2>1, <2>4, FromBodyLater
    <3> QED BY <2>1, <2>4, <3>1, <3>2
  <2> QED BY <2>5, <2>6, <2>7
<1>7. n \in S
  <2> HIDE DEF S, n
  <2>1. \A m \in 0..n : m \in S
    BY <1>1, <1>5, <1>6, CountUp
  <2> QED BY <1>1, <2>1
<1>8. n \in 0..n /\ Right(n) /\ st(n) \in LinesState
  BY <1>2, <1>7
<1> HIDE DEF st
<1>9. AllWholeIn(P!Saved(st(n)))
  BY <1>3, <1>8
<1> QED BY <1>9 DEF st

\* What the file says without its headings, one list for each of its lines.
LinesOf(body) == [i \in 1..Len(body) |-> IF body[i].heading THEN <<>> ELSE body[i].words]

\* LinesOf gives the words of every paragraph that is no heading.
LEMMA LinesOfType ==
    ASSUME NEW body \in Seq(DocxLine)
    PROVE  /\ LinesOf(body) \in Seq(Seq(Word)) /\ Len(LinesOf(body)) = Len(body)
           /\ \A i \in 1..Len(body) :
                LinesOf(body)[i] = IF body[i].heading THEN <<>> ELSE body[i].words
<1> DEFINE n == Len(body)
           L == LinesOf(body)
<1>1. n \in Nat /\ \A i \in 1..n : body[i] \in DocxLine
  OBVIOUS
<1>2. ASSUME NEW i \in 1..n
      PROVE  (IF body[i].heading THEN <<>> ELSE body[i].words) \in Seq(Word)
  <2>1. body[i].words \in Seq(Word)
    BY <1>1 DEF DocxLine, Text
  <2> QED BY <2>1
<1>3. L = [i \in 1..n |-> IF body[i].heading THEN <<>> ELSE body[i].words]
  BY DEF LinesOf
<1> HIDE DEF n, L
<1>4. L \in [1..n -> Seq(Word)]
  BY <1>2, <1>3
<1>5. L \in Seq(Seq(Word)) /\ Len(L) = n
  BY <1>1, <1>3, <1>4
<1> QED BY <1>3, <1>5 DEF n, L

\* The words of the saved sections are those saved before and those of the lines
\* waiting.
LEMMA JoinedSaved ==
    ASSUME NEW state \in LinesState
    PROVE  /\ P!Joined(state.sections) \in Seq(Word) /\ P!Joined(state.lines) \in Seq(Word)
           /\ P!Joined(P!Saved(state)) = P!Joined(state.sections) \o P!Joined(state.lines)
<1>1. state.sections \in Seq(Section) /\ state.lines \in Seq(DocxLine)
  BY DEF LinesState
<1>2. HaveTexts(state.sections) /\ HaveTexts(state.lines)
  <2>1. \A p \in Section : p.words \in Text
    BY DEF Section
  <2> QED BY <1>1, <2>1, PartsHaveTexts, LinesHaveTexts
<1>3. P!Joined(state.sections) \in Seq(Word) /\ P!Joined(state.lines) \in Seq(Word)
  BY <1>2, JoinedIs DEF Text
<1>4. CASE state.lines = <<>>
  <2>1. P!Saved(state) = state.sections
    BY <1>4, SavedSections
  <2>2. P!Joined(state.sections) \o <<>> = P!Joined(state.sections)
    BY <1>3, ConcatEmptySeq
  <2> QED BY <1>3, <1>4, <2>1, <2>2, JoinedNothing
<1>5. CASE state.lines # <<>>
  <2>1. P!Saved(state) = Append(state.sections, OpenSection(state))
    BY <1>5, SavedSections
  <2>2. /\ OpenSection(state) \in Section
        /\ OpenSection(state).words = P!Joined(state.lines)
    BY OpenSectionType
  <2>3. OpenSection(state).words \in Text
    BY <2>2 DEF Section
  <2>4. P!Joined(Append(state.sections, OpenSection(state))) =
          P!Joined(state.sections) \o OpenSection(state).words
    BY <1>1, <1>2, <2>2, <2>3, JoinedAppend
  <2> QED BY <1>3, <2>1, <2>2, <2>4
<1> QED BY <1>4, <1>5

\* The sections of a document hold its lines.
LEMMA LinesAreKept ==
    ASSUME NEW body \in Seq(DocxLine)
    PROVE  P!Joined(P!Saved(P!Reading(body)[Len(body)])) = P!FlattenSeq(LinesOf(body))
<1> DEFINE n == Len(body)
           st(m) == P!Reading(body)[m]
           L == LinesOf(body)
<1>0. Associates(Word)
  BY ListsAssociate
<1>1. n \in Nat /\ n \in 0..n /\ \A m \in 1..n : body[m] \in DocxLine
  OBVIOUS
<1>2. \A m \in 0..n : st(m) \in LinesState
  BY ReadingIs
<1>3. /\ L \in Seq(Seq(Word)) /\ Len(L) = n
      /\ \A i \in 1..n : L[i] = IF body[i].heading THEN <<>> ELSE body[i].words
  BY LinesOfType
<1>4. PICK f \in [0..n -> Seq(Word)] : Gathers(f, L)
  <2>1. \E f \in [0..Len(L) -> Seq(Word)] : Gathers(f, L)
    BY <1>3, GathersExists
  <2> QED BY <1>3, <2>1
<1>5. P!FlattenSeq(L) = f[n]
  BY <1>3, <1>4, FlattenIs
<1> DEFINE Right(m) == P!Joined(st(m).sections) \o P!Joined(st(m).lines) = f[m]
           S == {m \in 0..n : Right(m)}
<1> HIDE DEF n, L
<1>6. 0 \in S
  <2>1. st(0).sections = <<>> /\ st(0).lines = <<>>
    BY ReadingIs DEF NothingRead
  <2>2. f[0] = <<>> /\ <<>> \o <<>> = <<>>
    BY <1>4 DEF Gathers
  <2> QED BY <1>1, <2>1, <2>2, JoinedNothing
<1>7. ASSUME NEW m \in 1..n, m - 1 \in S PROVE m \in S
  <2>1. m - 1 \in 0..n /\ m \in 0..n
    BY <1>1
  <2>2. PICK old \in LinesState, para \in DocxLine : old = st(m - 1) /\ para = body[m]
    BY <1>1, <1>2, <2>1
  <2>3. st(m) = P!ReadParagraph(old, para)
    BY <2>2, ReadingIs DEF n
  <2>4. PICK a \in Seq(Word), b \in Seq(Word), w \in Seq(Word) :
          a = P!Joined(old.sections) /\ b = P!Joined(old.lines) /\ w = para.words
    <3>1. para.words \in Seq(Word)
      BY DEF DocxLine, Text
    <3> QED BY <3>1, JoinedSaved
  <2>5. a \o b = f[m - 1] /\ a \o b \in Seq(Word)
    <3>1. Right(m - 1)
      BY <1>7
    <3> QED BY <2>2, <2>4, <3>1, ConcatProperties
  <2>6. f[m] = (a \o b) \o L[m]
    BY <1>3, <1>4, <2>5 DEF Gathers
  <2>7. CASE para.heading
    <3>1. st(m).sections = P!Saved(old) /\ st(m).lines = <<>>
      BY <2>2, <2>3, <2>7, ReadParagraphIs
    <3>2. P!Joined(P!Saved(old)) = a \o b
      BY <2>2, <2>4, JoinedSaved
    <3>3. L[m] = <<>>
      BY <1>3, <2>2, <2>7
    <3>4. Right(m)
      BY <2>6, <3>1, <3>2, <3>3, JoinedNothing
    <3> QED BY <2>1, <3>4
  <2>8. CASE ~para.heading /\ para.words # <<>>
    <3>1. st(m) = [old EXCEPT !.lines = Append(@, para)]
      BY <2>2, <2>3, <2>8, ReadParagraphIs
    <3>2. st(m).sections = old.sections /\ st(m).lines = Append(old.lines, para)
      BY <2>2, <3>1 DEF LinesState
    <3>3. old.lines \in Seq(DocxLine) /\ para.words \in Text
      BY <2>2 DEF LinesState, DocxLine
    <3>4. P!Joined(Append(old.lines, para)) = b \o w
      BY <2>2, <2>4, <3>3, LinesHaveTexts, JoinedAppend
    <3>5. L[m] = w
      BY <1>3, <2>2, <2>4, <2>8
    <3>6. a \o (b \o w) = (a \o b) \o w
      BY <1>0, <2>4, Zenon DEF Associates
    <3>7. Right(m)
      BY <2>4, <2>6, <3>2, <3>4, <3>5, <3>6
    <3> QED BY <2>1, <3>7
  <2>9. CASE ~para.heading /\ para.words = <<>>
    <3>1. st(m) = old
      BY <2>2, <2>3, <2>9, ReadParagraphIs
    <3>2. L[m] = <<>>
      BY <1>3, <2>2, <2>9
    <3>3. (a \o b) \o <<>> = a \o b
      BY <2>5, ConcatEmptySeq
    <3>4. Right(m)
      BY <2>4, <2>6, <3>1, <3>2, <3>3
    <3> QED BY <2>1, <3>4
  <2> QED BY <2>7, <2>8, <2>9
<1>8. Right(n)
  <2>1. n \in S
    <3> HIDE DEF S
    <3>1. \A m \in 0..n : m \in S
      BY <1>1, <1>6, <1>7, CountUp
    <3> QED BY <1>1, <3>1
  <2> QED BY <2>1
<1>9. st(n) \in LinesState
  BY <1>1, <1>2
<1>10. P!Joined(P!Saved(st(n))) = f[n]
  BY <1>8, <1>9, JoinedSaved
<1> QED BY <1>5, <1>10 DEF n, L

--------------------------------------------------------------------------
\* Word documents: the sections and the headings

\* Line l is in section i of D, under the right title.
Belongs(D, i, l) ==
    /\ i \in 1..Len(D)
    /\ D[i].title = TitleAbove(l)
    /\ \A k \in 1..Len(file.body[l].words) : \E p \in 1..Len(D[i].words) :
         D[i].words[p] = file.body[l].words[k]

\* The words of section i of D are those of the first m lines that belong to it.
FromLines(D, own, i, m) ==
    \A p \in 1..Len(D[i].words) : \E l \in 1..m :
        /\ IsLine(l) /\ own[l] = i
        /\ \E k \in 1..Len(file.body[l].words) : D[i].words[p] = file.body[l].words[k]

\* own[l] is the section of D that line l belongs to, for the first m lines.
Owns(D, own, m) ==
    /\ \A l \in 1..m : IsLine(l) => Belongs(D, own[l], l)
    /\ \A i \in 1..Len(D) : FromLines(D, own, i, m)
    /\ \A j, k \in 1..m : IsLine(j) /\ IsLine(k) =>
         (own[j] = own[k] <=> HeadingsAbove(j) = HeadingsAbove(k))

\* The section that is open is the one of the lines below the last heading.
Holds(state, own, m) ==
    /\ own \in [1..Len(file.body) -> Nat]
    /\ Owns(Append(state.sections, OpenSection(state)), own, m)
    /\ \A l \in 1..m : IsLine(l) =>
         (own[l] = Len(state.sections) + 1 <=> HeadingsAbove(l) = HeadingsAbove(m + 1))
    /\ state.title = TitleAbove(m + 1)

\* The headings above the next paragraph: one more if this one is a heading.
LEMMA NextHeadings ==
    ASSUME Len(file.body) \in Nat, NEW m \in 1..Len(file.body)
    PROVE  /\ file.body[m].heading =>
                /\ TitleAbove(m + 1) = file.body[m].title
                /\ \A l \in 1..m : HeadingsAbove(l) # HeadingsAbove(m + 1)
           /\ ~file.body[m].heading =>
                /\ HeadingsAbove(m + 1) = HeadingsAbove(m)
                /\ TitleAbove(m + 1) = TitleAbove(m)
<1>1. m \in Nat /\ (m + 1) - 1 = m
  OBVIOUS
<1>2. HeadingsAbove(m + 1) = {h \in 1..m : file.body[h].heading}
  BY <1>1 DEF HeadingsAbove
<1>3. CASE file.body[m].heading
  <2>1. m \in HeadingsAbove(m + 1) /\ HeadingsAbove(m + 1) \subseteq 1..m
    BY <1>1, <1>2, <1>3
  <2>2. \A l \in 1..m : m \notin HeadingsAbove(l)
    BY <1>1 DEF HeadingsAbove
  <2>3. P!Max(HeadingsAbove(m + 1)) = m
    <3>1. \E x \in HeadingsAbove(m + 1) : \A y \in HeadingsAbove(m + 1) : x >= y
      BY <1>1, <2>1
    <3>2. PICK x : x = P!Max(HeadingsAbove(m + 1))
      OBVIOUS
    <3>3. x \in HeadingsAbove(m + 1) /\ \A y \in HeadingsAbove(m + 1) : x >= y
      BY <3>1, <3>2, Zenon DEF P!Max
    <3>4. x \in 1..m /\ x >= m
      BY <2>1, <3>3
    <3> QED BY <1>1, <3>2, <3>4
  <2>4. TitleAbove(m + 1) = file.body[m].title
    BY <2>1, <2>3 DEF TitleAbove
  <2> QED BY <1>3, <2>1, <2>2, <2>4
<1>4. CASE ~file.body[m].heading
  <2>1. \A h \in 1..m : file.body[h].heading => h \in 1..(m - 1)
    BY <1>1, <1>4
  <2>2. \A h \in 1..(m - 1) : h \in 1..m
    BY <1>1
  <2>3. HeadingsAbove(m + 1) = HeadingsAbove(m)
    BY <1>2, <2>1, <2>2 DEF HeadingsAbove
  <2> QED BY <1>4, <2>3 DEF TitleAbove
<1> QED BY <1>3, <1>4

\* A section without a word at the end of the list changes nothing.
LEMMA NoLineOwned ==
    ASSUME NEW list \in Seq(Section), NEW s \in Section, s.words = <<>>,
           NEW own, NEW m \in Nat,
           \A l \in 1..m : IsLine(l) => Len(file.body[l].words) \in Nat \ {0}
    PROVE  /\ Owns(list, own, m) <=> Owns(Append(list, s), own, m)
           /\ Owns(list, own, m) => \A l \in 1..m : IsLine(l) => own[l] # Len(list) + 1
<1> DEFINE z == Len(list)
           D == Append(list, s)
<1>1. z \in Nat
  OBVIOUS
<1>2. Len(D) = z + 1 /\ D[z + 1] = s /\ \A i \in 1..z : D[i] = list[i]
  BY AppendProperties
<1>3. Len(s.words) = 0
  OBVIOUS
<1> HIDE DEF D, z
<1>4. \A i \in 1..(z + 1) : i = z + 1 \/ i \in 1..z
  BY <1>1
<1>5. \A i \in 1..z : i \in 1..(z + 1) /\ i # z + 1
  BY <1>1
<1>6. \A l \in 1..m : IsLine(l) => ~Belongs(D, z + 1, l)
  <2>1. SUFFICES ASSUME NEW l \in 1..m, IsLine(l), Belongs(D, z + 1, l) PROVE FALSE
    OBVIOUS
  <2>2. 1 \in 1..Len(file.body[l].words)
    BY <2>1
  <2>3. \E p \in 1..Len(D[z + 1].words) : D[z + 1].words[p] = file.body[l].words[1]
    BY <2>1, <2>2 DEF Belongs
  <2> QED BY <1>2, <1>3, <2>3
<1>7. \A i \in 1..z, l \in 1..m : Belongs(D, i, l) <=> Belongs(list, i, l)
  BY <1>2, <1>5 DEF Belongs, z
<1>8. \A i \in 1..z : FromLines(D, own, i, m) <=> FromLines(list, own, i, m)
  <2>1. SUFFICES ASSUME NEW i \in 1..z
                 PROVE  FromLines(D, own, i, m) <=> FromLines(list, own, i, m)
    OBVIOUS
  <2>2. PICK e : D[i] = e /\ list[i] = e
    BY <1>2
  <2>3. FromLines(D, own, i, m) <=>
          \A p \in 1..Len(e.words) : \E l \in 1..m :
              /\ IsLine(l) /\ own[l] = i
              /\ \E k \in 1..Len(file.body[l].words) : e.words[p] = file.body[l].words[k]
    BY <2>2 DEF FromLines
  <2>4. FromLines(list, own, i, m) <=>
          \A p \in 1..Len(e.words) : \E l \in 1..m :
              /\ IsLine(l) /\ own[l] = i
              /\ \E k \in 1..Len(file.body[l].words) : e.words[p] = file.body[l].words[k]
    BY <2>2 DEF FromLines
  <2> QED BY <2>3, <2>4
<1>9. FromLines(D, own, z + 1, m)
  <2>1. \A p \in 1..0 : FALSE
    OBVIOUS
  <2> QED BY <1>2, <1>3, <2>1 DEF FromLines
<1>10. \A i, l : (Belongs(D, i, l) => i \in 1..(z + 1)) /\ (Belongs(list, i, l) => i \in 1..z)
  BY <1>2 DEF Belongs, z
<1>11. Owns(list, own, m) => \A l \in 1..m : IsLine(l) => own[l] # z + 1
  BY <1>5, <1>10 DEF Owns
<1>12. ASSUME Owns(list, own, m) PROVE Owns(D, own, m)
  <2>1. \A l \in 1..m : IsLine(l) => Belongs(D, own[l], l)
    BY <1>7, <1>10, <1>12 DEF Owns
  <2>2. \A i \in 1..Len(D) : FromLines(D, own, i, m)
    BY <1>2, <1>4, <1>8, <1>9, <1>12 DEF Owns, z
  <2> QED BY <1>12, <2>1, <2>2 DEF Owns
<1>13. ASSUME Owns(D, own, m) PROVE Owns(list, own, m)
  <2>1. \A l \in 1..m : IsLine(l) => Belongs(list, own[l], l)
    <3>1. SUFFICES ASSUME NEW l \in 1..m, IsLine(l) PROVE Belongs(list, own[l], l)
      OBVIOUS
    <3>2. Belongs(D, own[l], l)
      BY <1>13, <3>1 DEF Owns
    <3>3. own[l] \in 1..z
      BY <1>4, <1>6, <1>10, <3>1, <3>2
    <3> QED BY <1>7, <3>2, <3>3
  <2>2. \A i \in 1..Len(list) : FromLines(list, own, i, m)
    BY <1>2, <1>5, <1>8, <1>13 DEF Owns, z
  <2> QED BY <1>13, <2>1, <2>2 DEF Owns
<1> QED BY <1>11, <1>12, <1>13 DEF D, z

\* What is not a line adds nothing.
LEMMA OwnsMore ==
    ASSUME NEW D, NEW own, NEW m \in Nat \ {0}, ~IsLine(m), Owns(D, own, m - 1)
    PROVE  Owns(D, own, m)
<1>1. \A l \in 1..m : IsLine(l) => l \in 1..(m - 1)
  OBVIOUS
<1>2. \A l \in 1..(m - 1) : l \in 1..m
  OBVIOUS
<1>3. \A i : FromLines(D, own, i, m - 1) => FromLines(D, own, i, m)
  BY <1>2 DEF FromLines
<1> QED BY <1>1, <1>3 DEF Owns

\* A line has a word.
LEMMA LineLengths ==
    ASSUME file.body \in Seq(DocxLine)
    PROVE  \A l \in 1..Len(file.body) : IsLine(l) => Len(file.body[l].words) \in Nat \ {0}
<1>1. SUFFICES ASSUME NEW l \in 1..Len(file.body), IsLine(l)
               PROVE  Len(file.body[l].words) \in Nat \ {0}
  OBVIOUS
<1>2. PICK w \in Seq(Word) : w = file.body[l].words
  <2>1. file.body[l] \in DocxLine
    OBVIOUS
  <2> QED BY <2>1 DEF DocxLine, Text
<1>3. w # <<>>
  BY <1>1, <1>2 DEF IsLine
<1> QED BY <1>2, <1>3

\* Once the open section is saved, every line read is in its section.
LEMMA SavedOwns ==
    ASSUME file.body \in Seq(DocxLine), NEW state \in LinesState,
           NEW m \in 0..Len(file.body), NEW own, Holds(state, own, m)
    PROVE  Owns(P!Saved(state), own, m)
<1>1. CASE state.lines = <<>>
  <2>1. /\ state.sections \in Seq(Section) /\ OpenSection(state) \in Section
        /\ OpenSection(state).words = <<>>
    BY <1>1, OpenSectionType, JoinedNothing DEF LinesState
  <2>2. m \in Nat /\ \A l \in 1..m : IsLine(l) => Len(file.body[l].words) \in Nat \ {0}
    <3>1. Len(file.body) \in Nat
      OBVIOUS
    <3>2. \A l \in 1..m : l \in 1..Len(file.body)
      BY <3>1
    <3> QED BY <3>1, <3>2, LineLengths
  <2>3. Owns(state.sections, own, m)
    BY <2>1, <2>2, NoLineOwned DEF Holds
  <2> QED BY <1>1, <2>3, SavedSections
<1>2. CASE state.lines # <<>>
  BY <1>2, SavedSections DEF Holds
<1> QED BY <1>1, <1>2

\* A heading saves the section that is open and opens the next.
LEMMA HeadingHolds ==
    ASSUME file.body \in Seq(DocxLine), NEW old \in LinesState,
           NEW m \in 1..Len(file.body), NEW own, Holds(old, own, m - 1),
           file.body[m].heading
    PROVE  Holds(P!ReadParagraph(old, file.body[m]), own, m)
<1> DEFINE new == P!ReadParagraph(old, file.body[m])
<1>1. /\ Len(file.body) \in Nat /\ file.body[m] \in DocxLine /\ m \in Nat \ {0}
      /\ m - 1 \in 0..Len(file.body) /\ m \in Nat
  OBVIOUS
<1>2. new = [sections |-> P!Saved(old), title |-> file.body[m].title, lines |-> <<>>]
      /\ new \in LinesState
  BY <1>1, ReadParagraphIs
<1> HIDE DEF new
<1>3. new.sections = P!Saved(old) /\ new.title = file.body[m].title /\ new.lines = <<>>
  BY <1>2
<1>4. /\ new.sections \in Seq(Section) /\ OpenSection(new) \in Section
      /\ OpenSection(new).words = <<>>
  BY <1>2, <1>3, OpenSectionType, JoinedNothing DEF LinesState
<1>5. \A l \in 1..m : IsLine(l) => Len(file.body[l].words) \in Nat \ {0}
  <2>1. \A l \in 1..m : l \in 1..Len(file.body)
    BY <1>1
  <2> QED BY <2>1, LineLengths
<1>6. Owns(new.sections, own, m)
  <2>1. Owns(P!Saved(old), own, m - 1)
    BY <1>1, SavedOwns
  <2>2. ~IsLine(m)
    BY DEF IsLine
  <2> QED BY <1>1, <1>3, <2>1, <2>2, OwnsMore
<1>7. Owns(Append(new.sections, OpenSection(new)), own, m)
  BY <1>1, <1>4, <1>5, <1>6, NoLineOwned
<1>8. ASSUME NEW l \in 1..m, IsLine(l)
      PROVE  own[l] = Len(new.sections) + 1 <=> HeadingsAbove(l) = HeadingsAbove(m + 1)
  <2>1. own[l] # Len(new.sections) + 1
    BY <1>1, <1>4, <1>5, <1>6, <1>8, NoLineOwned
  <2>2. HeadingsAbove(l) # HeadingsAbove(m + 1)
    BY <1>1, NextHeadings
  <2> QED BY <2>1, <2>2
<1>9. new.title = TitleAbove(m + 1)
  BY <1>1, <1>3, NextHeadings
<1>10. own \in [1..Len(file.body) -> Nat]
  BY DEF Holds
<1> QED BY <1>7, <1>8, <1>9, <1>10 DEF Holds, new

\* A blank line changes nothing.
LEMMA BlankHolds ==
    ASSUME file.body \in Seq(DocxLine), NEW old \in LinesState,
           NEW m \in 1..Len(file.body), NEW own, Holds(old, own, m - 1),
           ~file.body[m].heading, file.body[m].words = <<>>
    PROVE  Holds(P!ReadParagraph(old, file.body[m]), own, m)
<1>1. Len(file.body) \in Nat /\ file.body[m] \in DocxLine /\ m \in Nat \ {0}
  OBVIOUS
<1>2. P!ReadParagraph(old, file.body[m]) = old
  BY <1>1, ReadParagraphIs
<1>3. ~IsLine(m)
  BY DEF IsLine
<1>4. \A l \in 1..m : IsLine(l) => l \in 1..(m - 1)
  BY <1>1, <1>3
<1>5. (m - 1) + 1 = m
  BY <1>1
<1>6. HeadingsAbove(m + 1) = HeadingsAbove(m) /\ TitleAbove(m + 1) = TitleAbove(m)
  BY <1>1, NextHeadings
<1>7. Owns(Append(old.sections, OpenSection(old)), own, m)
  BY <1>1, <1>3, OwnsMore DEF Holds
<1>8. Holds(old, own, m)
  BY <1>4, <1>5, <1>6, <1>7 DEF Holds
<1> QED BY <1>2, <1>8

\* A line goes to the section that is open.
LEMMA LineHolds ==
    ASSUME file.body \in Seq(DocxLine), NEW old \in LinesState,
           NEW m \in 1..Len(file.body), NEW own, Holds(old, own, m - 1),
           ~file.body[m].heading, file.body[m].words # <<>>
    PROVE  Holds(P!ReadParagraph(old, file.body[m]),
                 [own EXCEPT ![m] = Len(old.sections) + 1], m)
<1> DEFINE new == P!ReadParagraph(old, file.body[m])
           n == Len(file.body)
           z == Len(old.sections)
           o == [own EXCEPT ![m] = z + 1]
           list == old.sections
           s == OpenSection(old)
           t == OpenSection(new)
           C == Append(list, s)
           D == Append(list, t)
<1>1. n \in Nat /\ file.body[m] \in DocxLine /\ m \in Nat \ {0} /\ (m - 1) + 1 = m
  OBVIOUS
<1>2. new = [old EXCEPT !.lines = Append(@, file.body[m])] /\ new \in LinesState
  BY <1>1, ReadParagraphIs
<1>3. /\ new.sections = list /\ new.title = old.title
      /\ new.lines = Append(old.lines, file.body[m])
  BY <1>2 DEF LinesState
<1>4. /\ list \in Seq(Section) /\ s \in Section /\ t \in Section
      /\ s.title = old.title /\ t.title = old.title
      /\ s.words = P!Joined(old.lines) /\ t.words = P!Joined(new.lines)
  <2>1. new.title = old.title /\ new \in LinesState
    BY <1>2, <1>3
  <2> HIDE DEF new
  <2> QED BY <2>1, OpenSectionType DEF LinesState
<1>5. PICK a \in Seq(Word), w \in Seq(Word) :
        a = s.words /\ w = file.body[m].words
  <2>1. s.words \in Seq(Word)
    BY <1>4 DEF Section, Text
  <2>2. file.body[m].words \in Seq(Word)
    BY <1>1 DEF DocxLine, Text
  <2> QED BY <2>1, <2>2
<1>6. t.words = a \o w
  <2>1. old.lines \in Seq(DocxLine) /\ file.body[m].words \in Text
    BY <1>1 DEF LinesState, DocxLine
  <2>2. P!Joined(Append(old.lines, file.body[m])) = P!Joined(old.lines) \o file.body[m].words
    BY <1>1, <2>1, LinesHaveTexts, JoinedAppend
  <2> QED BY <1>3, <1>4, <1>5, <2>2
<1>7. PICK x \in Nat, y \in Nat : x = Len(a) /\ y = Len(w)
  OBVIOUS
<1>8. /\ Len(t.words) = x + y
      /\ \A p \in 1..(x + y) : t.words[p] = IF p <= x THEN a[p] ELSE w[p - x]
  BY <1>6, <1>7, ConcatProperties
<1>9. /\ z \in Nat /\ Len(C) = z + 1 /\ C[z + 1] = s /\ Len(D) = z + 1 /\ D[z + 1] = t
      /\ \A i \in 1..z : C[i] = list[i] /\ D[i] = list[i]
  <2>1. PICK L \in Seq(Section), u \in Section, v \in Section : L = list /\ u = s /\ v = t
    BY <1>4
  <2>2. /\ Len(L) \in Nat /\ Len(Append(L, u)) = Len(L) + 1 /\ Len(Append(L, v)) = Len(L) + 1
        /\ Append(L, u)[Len(L) + 1] = u /\ Append(L, v)[Len(L) + 1] = v
        /\ \A i \in 1..Len(L) : Append(L, u)[i] = L[i] /\ Append(L, v)[i] = L[i]
    BY AppendProperties
  <2> QED BY <2>1, <2>2
<1>10. /\ own \in [1..n -> Nat]
       /\ Owns(C, own, m - 1)
       /\ \A l \in 1..(m - 1) : IsLine(l) =>
            (own[l] = z + 1 <=> HeadingsAbove(l) = HeadingsAbove(m))
       /\ old.title = TitleAbove(m)
  BY <1>1 DEF Holds
<1>11. HeadingsAbove(m + 1) = HeadingsAbove(m) /\ TitleAbove(m + 1) = TitleAbove(m)
  BY <1>1, NextHeadings
<1>12. /\ \A i \in 1..(z + 1) : i = z + 1 \/ i \in 1..z
       /\ \A i \in 1..z : i \in 1..(z + 1) /\ i # z + 1
       /\ \A l \in 1..m : l = m \/ l \in 1..(m - 1)
       /\ \A l \in 1..(m - 1) : l \in 1..m /\ l # m
       /\ m \in 1..m /\ z + 1 \in 1..(z + 1)
  BY <1>1, <1>9
<1> HIDE DEF new, n, z, list, s, t, C, D
<1>13. o \in [1..n -> Nat] /\ o[m] = z + 1 /\ \A l \in 1..(m - 1) : o[l] = own[l]
  <2>1. m \in 1..n /\ z + 1 \in Nat /\ \A l \in 1..(m - 1) : l \in 1..n /\ l # m
    BY <1>1, <1>9 DEF n
  <2> QED BY <1>10, <2>1
<1> HIDE DEF o
<1>14. \A l : Belongs(C, z + 1, l) => Belongs(D, z + 1, l)
  <2>1. SUFFICES ASSUME NEW l, Belongs(C, z + 1, l) PROVE Belongs(D, z + 1, l)
    OBVIOUS
  <2>2. D[z + 1].title = TitleAbove(l)
    BY <1>4, <1>9, <2>1 DEF Belongs
  <2>3. ASSUME NEW k \in 1..Len(file.body[l].words)
        PROVE  \E p \in 1..Len(t.words) : t.words[p] = file.body[l].words[k]
    <3>1. PICK p \in 1..Len(s.words) : s.words[p] = file.body[l].words[k]
      BY <1>9, <2>1 DEF Belongs
    <3>2. p \in 1..x /\ p \in 1..(x + y) /\ p <= x
      <4>1. p \in 1..x
        BY <1>5, <1>7
      <4> QED BY <4>1, PlacesOfTwo
    <3>3. t.words[p] = s.words[p]
      BY <1>5, <1>8, <3>2
    <3> QED BY <1>8, <3>1, <3>2, <3>3
  <2> QED BY <1>9, <1>12, <2>2, <2>3 DEF Belongs
<1>15. Belongs(D, z + 1, m)
  <2>1. D[z + 1].title = TitleAbove(m)
    BY <1>4, <1>9, <1>10
  <2>2. ASSUME NEW k \in 1..Len(file.body[m].words)
        PROVE  \E p \in 1..Len(t.words) : t.words[p] = file.body[m].words[k]
    <3>1. k \in 1..y
      BY <1>5, <1>7
    <3>2. x + k \in 1..(x + y) /\ ~(x + k <= x) /\ (x + k) - x = k
      BY <3>1, PlacesOfTwo
    <3>3. t.words[x + k] = w[k]
      BY <1>8, <3>2
    <3> QED BY <1>5, <1>8, <3>2, <3>3
  <2> QED BY <1>9, <1>12, <2>1, <2>2 DEF Belongs
<1>16. \A l : \A i \in 1..z : Belongs(C, i, l) => Belongs(D, i, l)
  <2>1. SUFFICES ASSUME NEW i \in 1..z, NEW l, Belongs(C, i, l) PROVE Belongs(D, i, l)
    OBVIOUS
  <2>2. C[i] = D[i] /\ i \in 1..Len(D)
    BY <1>9, <1>12
  <2> QED BY <2>1, <2>2 DEF Belongs
<1>17. ASSUME NEW l \in 1..m, IsLine(l) PROVE Belongs(D, o[l], l)
  <2>1. CASE l = m
    BY <1>13, <1>15, <2>1
  <2>2. CASE l # m
    <3>1. l \in 1..(m - 1)
      BY <1>12, <2>2
    <3>2. Belongs(C, own[l], l) /\ o[l] = own[l]
      BY <1>10, <1>13, <1>17, <3>1 DEF Owns
    <3>3. own[l] = z + 1 \/ own[l] \in 1..z
      BY <1>9, <1>12, <3>2 DEF Belongs
    <3> QED BY <1>14, <1>16, <3>2, <3>3
  <2> QED BY <2>1, <2>2
<1>18. ASSUME NEW i \in 1..z PROVE FromLines(D, o, i, m)
  <2>1. SUFFICES ASSUME NEW p \in 1..Len(D[i].words)
                 PROVE  \E l \in 1..m :
                          /\ IsLine(l) /\ o[l] = i
                          /\ \E k \in 1..Len(file.body[l].words) :
                               D[i].words[p] = file.body[l].words[k]
    BY DEF FromLines
  <2>2. FromLines(C, own, i, m - 1) /\ C[i] = D[i]
    BY <1>9, <1>10, <1>12 DEF Owns
  <2>3. PICK l \in 1..(m - 1) :
          /\ IsLine(l) /\ own[l] = i
          /\ \E k \in 1..Len(file.body[l].words) : D[i].words[p] = file.body[l].words[k]
    BY <2>2 DEF FromLines
  <2> QED BY <1>12, <1>13, <2>3
<1>19. FromLines(D, o, z + 1, m)
  <2>1. SUFFICES ASSUME NEW p \in 1..Len(t.words)
                 PROVE  \E l \in 1..m :
                          /\ IsLine(l) /\ o[l] = z + 1
                          /\ \E k \in 1..Len(file.body[l].words) :
                               t.words[p] = file.body[l].words[k]
    BY <1>9 DEF FromLines
  <2>2. CASE p <= x
    <3>1. p \in 1..x
      BY <1>8, <2>2, PlacesOfTwo
    <3>2. t.words[p] = s.words[p] /\ p \in 1..Len(s.words)
      BY <1>5, <1>7, <1>8, <2>2, <3>1
    <3>3. FromLines(C, own, z + 1, m - 1)
      BY <1>9, <1>10, <1>12 DEF Owns
    <3>4. PICK l \in 1..(m - 1) :
            /\ IsLine(l) /\ own[l] = z + 1
            /\ \E k \in 1..Len(file.body[l].words) : s.words[p] = file.body[l].words[k]
      BY <1>9, <3>2, <3>3 DEF FromLines
    <3> QED BY <1>12, <1>13, <3>2, <3>4
  <2>3. CASE ~(p <= x)
    <3>1. p - x \in 1..y
      BY <1>8, <2>3, PlacesOfTwo
    <3>2. t.words[p] = w[p - x]
      BY <1>8, <2>3
    <3>3. IsLine(m)
      BY DEF IsLine
    <3>4. \E k \in 1..Len(file.body[m].words) : t.words[p] = file.body[m].words[k]
      BY <1>5, <1>7, <3>1, <3>2
    <3> QED BY <1>12, <1>13, <3>3, <3>4
  <2> QED BY <2>2, <2>3
<1>20. ASSUME NEW j \in 1..m, NEW k \in 1..m, IsLine(j), IsLine(k)
       PROVE  o[j] = o[k] <=> HeadingsAbove(j) = HeadingsAbove(k)
  <2>1. CASE j \in 1..(m - 1) /\ k \in 1..(m - 1)
    <3>1. own[j] = own[k] <=> HeadingsAbove(j) = HeadingsAbove(k)
      BY <1>10, <1>20, <2>1 DEF Owns
    <3> QED BY <1>13, <2>1, <3>1
  <2>2. CASE j = m /\ k \in 1..(m - 1)
    <3>1. own[k] = z + 1 <=> HeadingsAbove(k) = HeadingsAbove(m)
      BY <1>10, <1>20, <2>2
    <3> QED BY <1>13, <2>2, <3>1
  <2>3. CASE k = m /\ j \in 1..(m - 1)
    <3>1. own[j] = z + 1 <=> HeadingsAbove(j) = HeadingsAbove(m)
      BY <1>10, <1>20, <2>3
    <3> QED BY <1>13, <2>3, <3>1
  <2>4. CASE j = m /\ k = m
    BY <2>4
  <2> QED BY <1>12, <2>1, <2>2, <2>3, <2>4
<1>21. Owns(D, o, m)
  <2>1. \A i \in 1..Len(D) : FromLines(D, o, i, m)
    BY <1>9, <1>12, <1>18, <1>19
  <2> QED BY <1>17, <1>20, <2>1 DEF Owns
<1>22. ASSUME NEW l \in 1..m, IsLine(l)
       PROVE  o[l] = z + 1 <=> HeadingsAbove(l) = HeadingsAbove(m + 1)
  <2>1. CASE l = m
    BY <1>11, <1>13, <2>1
  <2>2. CASE l \in 1..(m - 1)
    BY <1>10, <1>11, <1>13, <1>22, <2>2
  <2> QED BY <1>12, <2>1, <2>2
<1>23. /\ new.sections = list /\ new.title = TitleAbove(m + 1)
       /\ D = Append(new.sections, OpenSection(new))
  BY <1>3, <1>10, <1>11 DEF D, t
<1>24. Holds(new, o, m)
  BY <1>13, <1>21, <1>22, <1>23 DEF Holds, n, z, list
<1> QED BY <1>24 DEF new, o, z

\* At the end of a Word document every line has its section.
LEMMA LinesOwned ==
    ASSUME file.body \in Seq(DocxLine)
    PROVE  \E own : Owns(P!Saved(P!Reading(file.body)[Len(file.body)]), own, Len(file.body))
<1> DEFINE n == Len(file.body)
           st(m) == P!Reading(file.body)[m]
           S == {m \in 0..n : \E own : Holds(st(m), own, m)}
<1>1. n \in Nat /\ n \in 0..n /\ \A m \in 1..n : file.body[m] \in DocxLine
  OBVIOUS
<1>2. \A m \in 0..n : st(m) \in LinesState
  BY ReadingIs
<1>3. 0 \in S
  <2> DEFINE own == [l \in 1..n |-> 0]
             s == OpenSection(st(0))
  <2>1. /\ st(0) \in LinesState /\ st(0).sections = <<>> /\ st(0).lines = <<>>
        /\ st(0).title = P!NoTitle
    BY <1>1, <1>2, ReadingIs DEF NothingRead
  <2>2. own \in [1..n -> Nat]
    OBVIOUS
  <2>3. s.words = <<>> /\ Len(s.words) = 0
    BY <2>1, OpenSectionType, JoinedNothing
  <2>4. /\ Append(st(0).sections, s) = <<s>> /\ Len(<<s>>) = 1 /\ <<s>>[1] = s
        /\ \A i \in 1..1 : i = 1
    <3> HIDE DEF s
    <3> QED BY <2>1
  <2> HIDE DEF own, s, st
  <2>5. \A l \in 1..0 : FALSE
    OBVIOUS
  <2>6. FromLines(<<s>>, own, 1, 0)
    BY <2>3, <2>4, <2>5 DEF FromLines
  <2>7. Owns(<<s>>, own, 0)
    BY <2>4, <2>5, <2>6 DEF Owns
  <2>8. TitleAbove(0 + 1) = P!NoTitle
    <3>1. HeadingsAbove(0 + 1) = {}
      BY DEF HeadingsAbove
    <3> QED BY <3>1 DEF TitleAbove
  <2>9. Holds(st(0), own, 0)
    BY <2>1, <2>2, <2>4, <2>5, <2>7, <2>8 DEF Holds, n, s
  <2> QED BY <1>1, <2>9
<1>4. ASSUME NEW m \in 1..n, m - 1 \in S PROVE m \in S
  <2>1. m - 1 \in 0..n /\ m \in 0..n
    BY <1>1
  <2>2. PICK own : Holds(st(m - 1), own, m - 1)
    BY <1>4
  <2>3. PICK old \in LinesState : old = st(m - 1)
    BY <1>2, <2>1
  <2>4. st(m) = P!ReadParagraph(old, file.body[m]) /\ Holds(old, own, m - 1)
    BY <2>2, <2>3, ReadingIs
  <2>5. CASE file.body[m].heading
    <3>1. Holds(P!ReadParagraph(old, file.body[m]), own, m)
      BY <2>4, <2>5, HeadingHolds
    <3> QED BY <2>1, <2>4, <3>1
  <2>6. CASE ~file.body[m].heading /\ file.body[m].words # <<>>
    <3>1. \E o : Holds(P!ReadParagraph(old, file.body[m]), o, m)
      BY <2>4, <2>6, LineHolds
    <3> QED BY <2>1, <2>4, <3>1
  <2>7. CASE ~file.body[m].heading /\ file.body[m].words = <<>>
    <3>1. Holds(P!ReadParagraph(old, file.body[m]), own, m)
      BY <2>4, <2>7, BlankHolds
    <3> QED BY <2>1, <2>4, <3>1
  <2> QED BY <2>5, <2>6, <2>7
<1>5. n \in S
  <2> HIDE DEF S, n
  <2>1. \A m \in 0..n : m \in S
    BY <1>1, <1>3, <1>4, CountUp
  <2> QED BY <1>1, <2>1
<1>6. PICK own : Holds(st(n), own, n)
  BY <1>5
<1>7. st(n) \in LinesState
  BY <1>1, <1>2
<1>8. Owns(P!Saved(st(n)), own, n)
  <2> HIDE DEF st
  <2> QED BY <1>1, <1>6, <1>7, SavedOwns
<1> QED BY <1>8

\* Where every line is in its own section, and words are in one line only.
LEMMA HomesAreOwned ==
    ASSUME file.body \in Seq(DocxLine), DifferentWords(file.body),
           NEW own, Owns(document, own, Len(file.body)),
           NEW j \in 1..Len(file.body), IsLine(j)
    PROVE  Home(j) = {own[j]} /\ document[own[j]].title = TitleAbove(j)
<1>1. Len(file.body[j].words) \in Nat \ {0} /\ 1 \in 1..Len(file.body[j].words)
  BY LineLengths
<1>2. Belongs(document, own[j], j)
  BY DEF Owns
<1>3. own[j] \in Home(j)
  <2>1. /\ own[j] \in 1..Len(document)
        /\ \E p \in 1..Len(document[own[j]].words) :
             document[own[j]].words[p] = file.body[j].words[1]
    BY <1>1, <1>2 DEF Belongs
  <2> QED BY <2>1 DEF Home
<1>4. ASSUME NEW i \in Home(j) PROVE i = own[j]
  <2>1. i \in 1..Len(document)
    BY DEF Home
  <2>2. PICK p \in 1..Len(document[i].words) : document[i].words[p] = file.body[j].words[1]
    BY DEF Home
  <2>3. FromLines(document, own, i, Len(file.body))
    BY <2>1 DEF Owns
  <2>4. PICK l \in 1..Len(file.body) :
          /\ IsLine(l) /\ own[l] = i
          /\ \E k \in 1..Len(file.body[l].words) :
               document[i].words[p] = file.body[l].words[k]
    BY <2>3 DEF FromLines
  <2>5. PICK k \in 1..Len(file.body[l].words) : document[i].words[p] = file.body[l].words[k]
    BY <2>4
  <2>6. \A x \in 1..Len(file.body[l].words), y \in 1..Len(file.body[j].words) :
          file.body[l].words[x] = file.body[j].words[y] => l = j /\ x = y
    BY <2>4, Zenon DEF DifferentWords
  <2>7. l = j
    BY <1>1, <2>2, <2>5, <2>6
  <2> QED BY <2>4, <2>7
<1>5. document[own[j]].title = TitleAbove(j)
  BY <1>2 DEF Belongs
<1> QED BY <1>3, <1>4, <1>5

\* The section of a line is the only one that holds it, as no word occurs twice.
LEMMA LinesAreHome ==
    ASSUME file.body \in Seq(DocxLine), DifferentWords(file.body),
           document = P!Saved(P!Reading(file.body)[Len(file.body)])
    PROVE  TitleIsLastHeading
<1>1. PICK own : Owns(document, own, Len(file.body))
  BY LinesOwned
<1>2. SUFFICES ASSUME NEW j \in 1..Len(file.body), IsLine(j)
               PROVE  /\ Cardinality(Home(j)) = 1
                      /\ \A i \in Home(j) : document[i].title = TitleAbove(j)
                      /\ \A k \in 1..Len(file.body) : IsLine(k) =>
                           (Home(j) = Home(k) <=> HeadingsAbove(j) = HeadingsAbove(k))
  BY DEF TitleIsLastHeading
<1>3. Home(j) = {own[j]} /\ document[own[j]].title = TitleAbove(j)
  BY <1>1, <1>2, HomesAreOwned
<1>4. Cardinality(Home(j)) = 1
  BY <1>3, FS_Singleton
<1>5. ASSUME NEW k \in 1..Len(file.body), IsLine(k)
      PROVE  Home(j) = Home(k) <=> HeadingsAbove(j) = HeadingsAbove(k)
  <2>1. Home(k) = {own[k]}
    BY <1>1, <1>5, HomesAreOwned
  <2>2. own[j] = own[k] <=> HeadingsAbove(j) = HeadingsAbove(k)
    BY <1>1, <1>2, <1>5 DEF Owns
  <2> QED BY <1>3, <2>1, <2>2
<1> QED BY <1>3, <1>4, <1>5

--------------------------------------------------------------------------
\* Lists of sections, joined and counted

\* The words of two lists of parts are those of the first and of the second.
LEMMA JoinedConcat ==
    ASSUME NEW V, \A v \in V : v.words \in Text, NEW a \in Seq(V), NEW b \in Seq(V)
    PROVE  P!Joined(a \o b) = P!Joined(a) \o P!Joined(b)
<1> DEFINE m == Len(a)
           n == Len(b)
           c == a \o b
<1>1. m \in Nat /\ n \in Nat
  OBVIOUS
<1>2. /\ c \in Seq(V) /\ Len(c) = m + n
      /\ \A i \in 1..(m + n) : c[i] = IF i <= m THEN a[i] ELSE b[i - m]
  BY ConcatProperties
<1>3. HaveTexts(a) /\ HaveTexts(b) /\ HaveTexts(c)
  <2> HIDE DEF c
  <2> QED BY <1>2, PartsHaveTexts
<1> HIDE DEF m, n, c
<1>4. /\ Texts(a) \in Seq(Seq(Word)) /\ Len(Texts(a)) = m
      /\ \A i \in 1..m : Texts(a)[i] = a[i].words
  BY <1>3, TextsType DEF m
<1>5. /\ Texts(b) \in Seq(Seq(Word)) /\ Len(Texts(b)) = n
      /\ \A i \in 1..n : Texts(b)[i] = b[i].words
  BY <1>3, TextsType DEF n
<1>6. /\ Texts(c) \in Seq(Seq(Word)) /\ Len(Texts(c)) = m + n
      /\ \A i \in 1..(m + n) : Texts(c)[i] = c[i].words
  BY <1>2, <1>3, TextsType
<1>7. PICK x, y, z : x = Texts(a) /\ y = Texts(b) /\ z = Texts(c)
  OBVIOUS
<1> DEFINE T == Seq(Word)
<1> HIDE DEF T
<1>8. /\ x \in Seq(T) /\ Len(x) = m /\ y \in Seq(T) /\ Len(y) = n
      /\ z \in Seq(T) /\ Len(z) = m + n
      /\ \A i \in 1..m : x[i] = a[i].words
      /\ \A i \in 1..n : y[i] = b[i].words
      /\ \A i \in 1..(m + n) : z[i] = c[i].words
  BY <1>4, <1>5, <1>6, <1>7 DEF T
<1>9. /\ x \o y \in Seq(T) /\ Len(x \o y) = m + n
      /\ \A i \in 1..(m + n) : (x \o y)[i] = IF i <= m THEN x[i] ELSE y[i - m]
  BY <1>8, ConcatProperties
<1>10. ASSUME NEW i \in 1..(m + n) PROVE z[i] = (x \o y)[i]
  <2>1. CASE i <= m
    <3>1. i \in 1..m
      BY <1>1, <2>1
    <3>2. z[i] = c[i].words /\ c[i] = a[i]
      BY <1>2, <1>8, <2>1
    <3>3. x[i] = a[i].words
      BY <1>8, <3>1
    <3> QED BY <1>9, <2>1, <3>2, <3>3
  <2>2. CASE ~(i <= m)
    <3>1. i - m \in 1..n
      BY <1>1, <2>2
    <3>2. z[i] = c[i].words /\ c[i] = b[i - m]
      BY <1>2, <1>8, <2>2
    <3>3. y[i - m] = b[i - m].words
      BY <1>8, <3>1
    <3> QED BY <1>9, <2>2, <3>2, <3>3
  <2> QED BY <2>1, <2>2
<1>11. z = x \o y
  <2>1. PICK u : u = x \o y
    OBVIOUS
  <2>2. u \in Seq(T) /\ Len(u) = m + n /\ \A i \in 1..(m + n) : z[i] = u[i]
    BY <1>9, <1>10, <2>1
  <2>3. z = u
    BY <1>8, <2>2, SeqEqual
  <2> QED BY <2>1, <2>3
<1>12. P!FlattenSeq(x \o y) = P!FlattenSeq(x) \o P!FlattenSeq(y)
  BY <1>8, FlattenConcat DEF T
<1>13. /\ P!Joined(a) = P!FlattenSeq(x) /\ P!Joined(b) = P!FlattenSeq(y)
       /\ P!Joined(c) = P!FlattenSeq(z)
  BY <1>7 DEF P!Joined, Texts
<1> QED BY <1>11, <1>12, <1>13 DEF c

JoinedEach(lists) == [r \in 1..Len(lists) |-> P!Joined(lists[r])]

\* JoinedEach gives the words of every list of parts.
LEMMA JoinedEachType ==
    ASSUME NEW V, \A v \in V : v.words \in Text, NEW lists \in Seq(Seq(V))
    PROVE  /\ JoinedEach(lists) \in Seq(Seq(Word)) /\ Len(JoinedEach(lists)) = Len(lists)
           /\ \A r \in 1..Len(lists) : JoinedEach(lists)[r] = P!Joined(lists[r])
<1> DEFINE n == Len(lists)
           J == JoinedEach(lists)
<1>1. n \in Nat /\ \A r \in 1..n : lists[r] \in Seq(V)
  OBVIOUS
<1>2. \A r \in 1..n : P!Joined(lists[r]) \in Seq(Word)
  BY <1>1, PartsHaveTexts, JoinedIs DEF Text
<1>3. J = [r \in 1..n |-> P!Joined(lists[r])]
  BY DEF JoinedEach
<1> HIDE DEF n, J
<1>4. J \in [1..n -> Seq(Word)]
  BY <1>2, <1>3
<1>5. J \in Seq(Seq(Word)) /\ Len(J) = n
  BY <1>1, <1>3, <1>4
<1> QED BY <1>3, <1>5 DEF n, J

\* The text of lists of sections, one list after the other.
LEMMA JoinedFlatten ==
    ASSUME NEW V, \A v \in V : v.words \in Text, NEW lists \in Seq(Seq(V))
    PROVE  P!Joined(P!FlattenSeq(lists)) = P!FlattenSeq(JoinedEach(lists))
<1> DEFINE n == Len(lists)
           J == JoinedEach(lists)
<1>1. n \in Nat /\ n \in 0..n /\ \A r \in 1..n : lists[r] \in Seq(V)
  OBVIOUS
<1>2. /\ J \in Seq(Seq(Word)) /\ Len(J) = n
      /\ \A r \in 1..n : J[r] = P!Joined(lists[r])
  BY JoinedEachType
<1>3. PICK g \in [0..n -> Seq(V)] : Gathers(g, lists)
  BY GathersExists
<1>4. P!FlattenSeq(lists) = g[n]
  BY <1>3, FlattenIs
<1> HIDE DEF J
<1>5. PICK h \in [0..n -> Seq(Word)] : Gathers(h, J)
  <2>1. \E h \in [0..Len(J) -> Seq(Word)] : Gathers(h, J)
    BY <1>2, GathersExists
  <2> QED BY <1>2, <2>1
<1>6. P!FlattenSeq(J) = h[n]
  BY <1>2, <1>5, FlattenIs
<1> DEFINE S == {m \in 0..n : P!Joined(g[m]) = h[m]}
<1>7. 0 \in S
  <2>1. g[0] = <<>> /\ h[0] = <<>>
    BY <1>3, <1>5 DEF Gathers
  <2> QED BY <1>1, <2>1, JoinedNothing
<1>8. ASSUME NEW m \in 1..n, m - 1 \in S PROVE m \in S
  <2>1. m - 1 \in 0..n /\ m \in 0..n
    BY <1>1
  <2>2. g[m - 1] \in Seq(V) /\ lists[m] \in Seq(V)
    BY <1>1, <1>3, <2>1
  <2>3. g[m] = g[m - 1] \o lists[m]
    BY <1>3 DEF Gathers
  <2>4. h[m] = h[m - 1] \o P!Joined(lists[m])
    BY <1>2, <1>5 DEF Gathers
  <2>5. P!Joined(g[m - 1] \o lists[m]) = P!Joined(g[m - 1]) \o P!Joined(lists[m])
    BY <2>2, JoinedConcat
  <2>6. P!Joined(g[m - 1]) = h[m - 1]
    BY <1>8
  <2> QED BY <2>1, <2>3, <2>4, <2>5, <2>6
<1>9. n \in S
  <2> HIDE DEF S, n
  <2>1. \A m \in 0..n : m \in S
    BY <1>1, <1>7, <1>8, CountUp
  <2> QED BY <1>1, <2>1
<1> QED BY <1>4, <1>6, <1>9 DEF J

\* Lists with two words for each element of sets that are apart.
Counted(lists, C) ==
    /\ \A r \in 1..Len(lists) :
         IsFiniteSet(C[r]) /\ Len(lists[r]) = 2 * Cardinality(C[r])
    /\ \A r, q \in 1..Len(lists) : r # q => C[r] \cap C[q] = {}

AllOf(C, n) == UNION {C[r] : r \in 1..n}

\* If each list has two words for each of its cells, so has their text for all of
\* them.
LEMMA TwoForEach ==
    ASSUME NEW V, NEW lists \in Seq(Seq(V)), NEW C, Counted(lists, C)
    PROVE  /\ IsFiniteSet(AllOf(C, Len(lists)))
           /\ Len(P!FlattenSeq(lists)) = 2 * Cardinality(AllOf(C, Len(lists)))
<1> DEFINE n == Len(lists)
           All(m) == UNION {C[r] : r \in 1..m}
           Right(k, set) == IsFiniteSet(set) /\ k = 2 * Cardinality(set)
<1>0. /\ \A r \in 1..n : IsFiniteSet(C[r]) /\ Len(lists[r]) = 2 * Cardinality(C[r])
      /\ \A r, q \in 1..n : r # q => C[r] \cap C[q] = {}
  BY DEF Counted
<1>1. n \in Nat /\ n \in 0..n /\ \A r \in 1..n : lists[r] \in Seq(V)
  OBVIOUS
<1>2. PICK f \in [0..n -> Seq(V)] : Gathers(f, lists)
  BY GathersExists
<1>3. P!FlattenSeq(lists) = f[n]
  BY <1>2, FlattenIs
<1> DEFINE S == {m \in 0..n : Right(Len(f[m]), All(m))}
<1>4. 0 \in S
  <2>1. f[0] = <<>> /\ Len(<<>>) = 0
    BY <1>2 DEF Gathers
  <2>2. All(0) = {}
    OBVIOUS
  <2>3. Right(0, {})
    BY FS_EmptySet
  <2>4. Len(f[0]) = 0 /\ 0 \in 0..n
    BY <1>1, <2>1
  <2> HIDE DEF All, Right
  <2>5. Right(Len(f[0]), All(0))
    BY <2>2, <2>3, <2>4
  <2> QED BY <2>4, <2>5
<1>5. ASSUME NEW m \in 1..n, m - 1 \in S PROVE m \in S
  <2>1. m - 1 \in 0..n /\ m \in 0..n
    BY <1>1
  <2>2. PICK A, B : A = All(m - 1) /\ B = C[m]
    OBVIOUS
  <2>3. All(m) = A \cup B
    <3>1. \A r \in 1..m : r = m \/ r \in 1..(m - 1)
      BY <1>1
    <3>2. \A r \in 1..(m - 1) : r \in 1..m
      BY <1>1
    <3>3. m \in 1..m
      BY <1>1
    <3> QED BY <2>2, <3>1, <3>2, <3>3
  <2>4. A \cap B = {}
    <3>1. ASSUME NEW x \in A, x \in B PROVE FALSE
      <4>1. PICK r \in 1..(m - 1) : x \in C[r]
        BY <2>2
      <4>2. r \in 1..n /\ m \in 1..n /\ r # m
        BY <1>1, <4>1
      <4> QED BY <1>0, <2>2, <3>1, <4>1, <4>2
    <3> QED BY <3>1
  <2>5. Right(Len(f[m - 1]), A)
    <3> HIDE DEF Right, All
    <3> QED BY <1>5, <2>2
  <2>6. IsFiniteSet(B) /\ Len(lists[m]) = 2 * Cardinality(B)
    BY <1>0, <2>2
  <2>7. Len(f[m]) = Len(f[m - 1]) + Len(lists[m])
    <3>1. f[m] = f[m - 1] \o lists[m] /\ f[m - 1] \in Seq(V) /\ lists[m] \in Seq(V)
      BY <1>1, <1>2, <2>1 DEF Gathers
    <3> QED BY <3>1, ConcatProperties
  <2>8. /\ IsFiniteSet(A \cup B)
        /\ Cardinality(A \cup B) = Cardinality(A) + Cardinality(B) - Cardinality(A \cap B)
    BY <2>5, <2>6, FS_Union
  <2>9. Cardinality(A \cap B) = 0
    BY <2>4, FS_EmptySet
  <2>10. Cardinality(A) \in Nat /\ Cardinality(B) \in Nat
    BY <2>5, <2>6, FS_CardinalityType
  <2>11. Right(Len(f[m]), A \cup B)
    BY <2>5, <2>6, <2>7, <2>8, <2>9, <2>10
  <2> HIDE DEF Right, All
  <2> QED BY <2>1, <2>3, <2>11
<1>6. Right(Len(f[n]), All(n))
  <2>1. n \in S
    <3> HIDE DEF S, n
    <3>1. \A m \in 0..n : m \in S
      BY <1>1, <1>4, <1>5, CountUp
    <3> QED BY <1>1, <3>1
  <2> HIDE DEF Right, All
  <2> QED BY <2>1
<1> QED BY <1>3, <1>6 DEF AllOf

--------------------------------------------------------------------------
\* Sheets

\* A row has two words for each of its cells, behind place off[i - 1].
RowPairs(sheet, row) ==
    [i \in 1..Len(row) |->
        IF row[i] = P!NoCell THEN <<>> ELSE <<P!Header(sheet, i), row[i]>>]

\* A cell of a row makes a header and a value, an empty one makes nothing.
LEMMA RowPairsType ==
    ASSUME NEW sheet \in Seq(Text), Len(sheet) > 0, NEW row \in Text
    PROVE  /\ RowPairs(sheet, row) \in Seq(Seq(Word))
           /\ Len(RowPairs(sheet, row)) = Len(row)
           /\ \A i \in 1..Len(row) :
                /\ row[i] = P!NoCell => Len(RowPairs(sheet, row)[i]) = 0
                /\ row[i] # P!NoCell =>
                     /\ Len(RowPairs(sheet, row)[i]) = 2
                     /\ RowPairs(sheet, row)[i][1] = P!Header(sheet, i)
                     /\ RowPairs(sheet, row)[i][2] = row[i]
<1> DEFINE n == Len(row)
           R == RowPairs(sheet, row)
           pair(i) == IF row[i] = P!NoCell THEN <<>> ELSE <<P!Header(sheet, i), row[i]>>
<1>1. n \in Nat /\ \A i \in 1..n : row[i] \in Word
  BY DEF Text
<1>2. PICK top \in Text : top = sheet[1]
  BY DEF Text
<1>3. \A i \in 1..Len(top) : top[i] \in Word
  BY DEF Text
<1>4. ASSUME NEW i \in 1..n PROVE P!Header(sheet, i) \in Word
  <2>1. 900 + i \in Nat
    BY <1>1
  <2>2. i <= Len(top) => i \in 1..Len(top)
    <3>1. Len(top) \in Nat
      BY DEF Text
    <3> QED BY <1>1, <3>1
  <2> QED BY <1>2, <1>3, <2>1, <2>2 DEF P!Header, P!ColumnNumber, Word
<1>5. \A i \in 1..n : pair(i) \in Seq(Word)
  <2>1. ASSUME NEW i \in 1..n PROVE pair(i) \in Seq(Word)
    <3>1. PICK h \in Word, w \in Word : h = P!Header(sheet, i) /\ w = row[i]
      BY <1>1, <1>4
    <3>2. <<>> \in Seq(Word) /\ <<h, w>> \in Seq(Word)
      OBVIOUS
    <3> QED BY <3>1, <3>2
  <2> QED BY <2>1
<1>6. R = [i \in 1..n |-> pair(i)]
  BY DEF RowPairs
<1>7. \A i \in 1..n : /\ row[i] = P!NoCell => Len(pair(i)) = 0
                      /\ row[i] # P!NoCell =>
                           /\ Len(pair(i)) = 2
                           /\ pair(i)[1] = P!Header(sheet, i) /\ pair(i)[2] = row[i]
  OBVIOUS
<1> HIDE DEF n, R, pair
<1>8. R \in [1..n -> Seq(Word)] /\ \A i \in 1..n : R[i] = pair(i)
  BY <1>5, <1>6
<1>9. R \in Seq(Seq(Word)) /\ Len(R) = n
  BY <1>1, <1>8
<1> QED BY <1>7, <1>8, <1>9 DEF n, R

RowWords(sheet, r) == P!RowText(sheet, sheet[r])

\* The section of a row.
LEMMA RowSectionIs ==
    ASSUME NEW sheet \in Seq(Text), NEW r \in 1..Len(sheet)
    PROVE  LET section == P!RowSection(sheet, r)
           IN  /\ section \in Section
               /\ section.words = RowWords(sheet, r) /\ section.title = r - 1
               /\ RowWords(sheet, r) \in Text
               /\ \E off : Laid(off, RowPairs(sheet, sheet[r]), RowWords(sheet, r))
               /\ RowWords(sheet, r) # <<>> /\ NoneTwice(RowWords(sheet, r)) => Whole(section)
<1> DEFINE text == RowWords(sheet, r)
           sentence == [words |-> text]
           para == [words |-> text, sentences |-> <<sentence>>]
           section == P!RowSection(sheet, r)
<1>1. /\ Len(sheet) \in Nat /\ Len(sheet) > 0 /\ sheet[r] \in Text
      /\ r \in Nat /\ r - 1 \in Nat
  OBVIOUS
<1>2. text = P!FlattenSeq(RowPairs(sheet, sheet[r]))
  BY DEF RowWords, P!RowText, RowPairs
<1>3. text \in Text /\ \E off : Laid(off, RowPairs(sheet, sheet[r]), text)
  <2>1. RowPairs(sheet, sheet[r]) \in Seq(Seq(Word))
    BY <1>1, RowPairsType
  <2> QED BY <1>2, <2>1, FlattenLays DEF Text
<1>4. section = P!NewSection(r - 1, <<para>>)
  BY DEF P!RowSection, RowWords
<1> HIDE DEF text, section
<1>5. sentence \in Sentence /\ sentence.words = text
  BY <1>3 DEF Sentence
<1>6. /\ para \in Paragraph /\ para.words = text /\ para.sentences = <<sentence>>
  <2>1. <<sentence>> \in Seq(Sentence)
    BY <1>5
  <2> QED BY <1>3, <2>1 DEF Paragraph
<1> HIDE DEF sentence, para
<1>7. P!Joined(<<para>>) = text
  BY <1>3, <1>6, JoinedOne
<1>8. section = [words |-> text, title |-> r - 1, paragraphs |-> <<para>>]
  BY <1>4, <1>7 DEF P!NewSection
<1>9. section \in Section
  <2>1. <<para>> \in Seq(Paragraph) /\ r - 1 \in Word
    BY <1>1, <1>6 DEF Word
  <2> QED BY <1>3, <1>8, <2>1 DEF Section
<1>10. ASSUME text # <<>>, NoneTwice(text) PROVE Whole(section)
  <2>1. HaveTexts(<<sentence>>) /\ P!Joined(<<sentence>>) = text
    <3>1. Len(<<sentence>>) = 1 /\ <<sentence>>[1] = sentence /\ \A i \in 1..1 : i = 1
      OBVIOUS
    <3>2. sentence.words \in Text
      BY <1>3, <1>5
    <3>3. HaveTexts(<<sentence>>)
      BY <3>1, <3>2 DEF HaveTexts
    <3> QED BY <1>5, <3>2, <3>3, JoinedOne
  <2>2. Cover(<<sentence>>, text, 0, Len(text))
    BY <2>1, JoinedIs
  <2>3. WholeParagraph(para)
    <3>1. Len(<<sentence>>) = 1 /\ <<sentence>>[1] = sentence /\ \A i \in 1..1 : i = 1
      OBVIOUS
    <3> QED BY <1>5, <1>6, <1>10, <2>2, <3>1 DEF WholeParagraph
  <2>4. /\ <<para>> \in Seq(Paragraph) /\ \A i \in 1..Len(<<para>>) : WholeParagraph(<<para>>[i])
    <3>1. <<para>> \in Seq(Paragraph) /\ Len(<<para>>) = 1 /\ <<para>>[1] = para
      BY <1>6
    <3> QED BY <2>3, <3>1
  <2>5. r - 1 \in Word
    BY <1>1 DEF Word
  <2>6. NoneTwice(P!Joined(<<para>>))
    BY <1>7, <1>10
  <2> QED BY <1>4, <2>4, <2>5, <2>6, SectionOfParagraphs
<1> QED BY <1>3, <1>8, <1>9, <1>10 DEF text, section

\* The rows of a sheet below the first, as sections, with and without text.
RowSections(sheet) == [r \in 1..(Len(sheet) - 1) |-> P!RowSection(sheet, r + 1)]

\* Every row below the first is made a section.
LEMMA RowSectionsType ==
    ASSUME NEW sheet \in Seq(Text), Len(sheet) > 0
    PROVE  /\ RowSections(sheet) \in Seq(Section)
           /\ Len(RowSections(sheet)) = Len(sheet) - 1
           /\ \A r \in 1..(Len(sheet) - 1) :
                r + 1 \in 2..Len(sheet) /\ RowSections(sheet)[r] = P!RowSection(sheet, r + 1)
<1> DEFINE n == Len(sheet) - 1
           R == RowSections(sheet)
<1>1. n \in Nat /\ \A r \in 1..n : r + 1 \in 2..Len(sheet) /\ r + 1 \in 1..Len(sheet)
  OBVIOUS
<1>2. R = [r \in 1..n |-> P!RowSection(sheet, r + 1)]
  BY DEF RowSections
<1> HIDE DEF n, R
<1>3. \A r \in 1..n : P!RowSection(sheet, r + 1) \in Section
  BY <1>1, RowSectionIs
<1>4. R \in [1..n -> Section] /\ \A r \in 1..n : R[r] = P!RowSection(sheet, r + 1)
  BY <1>2, <1>3
<1>5. R \in Seq(Section) /\ Len(R) = n
  BY <1>1, <1>4
<1> QED BY <1>1, <1>4, <1>5 DEF n, R

\* The sections of a sheet: whole, with the words of all rows, and one for each row
\* with a word.
LEMMA SheetSectionsAre ==
    ASSUME NEW sheet \in Seq(Text), Len(sheet) > 0
    PROVE  /\ P!SheetSections(sheet) \in Seq(Section)
           /\ P!Joined(P!SheetSections(sheet)) = P!Joined(RowSections(sheet))
           /\ (\A r \in 2..Len(sheet) : NoneTwice(RowWords(sheet, r))) =>
                \A i \in 1..Len(P!SheetSections(sheet)) : Whole(P!SheetSections(sheet)[i])
           /\ \A r \in 2..Len(sheet) : RowWords(sheet, r) # <<>> =>
                \E i \in 1..Len(P!SheetSections(sheet)) :
                    P!SheetSections(sheet)[i] = P!RowSection(sheet, r)
<1> DEFINE n == Len(sheet) - 1
           R == RowSections(sheet)
           K == P!SheetSections(sheet)
<1>1. /\ R \in Seq(Section) /\ Len(R) = n
      /\ \A r \in 1..n : r + 1 \in 2..Len(sheet) /\ R[r] = P!RowSection(sheet, r + 1)
  BY RowSectionsType
<1>2. K = P!WithText(R)
  BY DEF P!SheetSections, RowSections
<1> HIDE DEF R, K
<1>3. HaveTexts(R)
  <2>1. \A p \in Section : p.words \in Text
    BY DEF Section
  <2> QED BY <1>1, <2>1, PartsHaveTexts
<1>4. /\ K \in Seq(Section) /\ P!Joined(K) = P!Joined(R)
      /\ \A i \in 1..Len(K) : \E j \in 1..Len(R) : K[i] = R[j] /\ R[j].words # <<>>
      /\ \A j \in 1..Len(R) : R[j].words # <<>> => \E i \in 1..Len(K) : K[i] = R[j]
  BY <1>1, <1>2, <1>3, WithTextKeeps
<1>5. \A r \in 2..Len(sheet) :
        /\ r \in 1..Len(sheet) /\ r - 1 \in 1..n /\ (r - 1) + 1 = r
  OBVIOUS
<1> HIDE DEF n
<1>6. ASSUME NEW i \in 1..Len(K), \A r \in 2..Len(sheet) : NoneTwice(RowWords(sheet, r))
      PROVE  Whole(K[i])
  <2>1. PICK j \in 1..n : K[i] = R[j] /\ R[j].words # <<>>
    BY <1>1, <1>4
  <2>2. PICK r \in 2..Len(sheet) : r = j + 1
    BY <1>1
  <2>3. K[i] = P!RowSection(sheet, r) /\ P!RowSection(sheet, r).words # <<>>
    BY <1>1, <2>1, <2>2
  <2>4. r \in 1..Len(sheet) /\ NoneTwice(RowWords(sheet, r))
    BY <1>5, <1>6
  <2> QED BY <2>3, <2>4, RowSectionIs
<1>7. ASSUME NEW r \in 2..Len(sheet), RowWords(sheet, r) # <<>>
      PROVE  \E i \in 1..Len(K) : K[i] = P!RowSection(sheet, r)
  <2>1. PICK j \in 1..n : j = r - 1
    BY <1>5
  <2>2. R[j] = P!RowSection(sheet, r)
    BY <1>1, <1>5, <2>1
  <2>3. R[j].words # <<>>
    BY <1>5, <1>7, <2>2, RowSectionIs
  <2> QED BY <1>1, <1>4, <2>2, <2>3
<1> QED BY <1>4, <1>6, <1>7 DEF R, K

\* The sections of the sheets, one list for each.
BodySections(body) ==
    [n \in 1..Len(body) |-> IF body[n] = <<>> THEN <<>> ELSE P!SheetSections(body[n])]

\* The sections of each sheet, none of one without a row.
LEMMA BodySectionsType ==
    ASSUME NEW body \in Seq(Seq(Text))
    PROVE  /\ BodySections(body) \in Seq(Seq(Section))
           /\ Len(BodySections(body)) = Len(body)
           /\ \A n \in 1..Len(body) :
                /\ body[n] \in Seq(Text)
                /\ body[n] = <<>> => BodySections(body)[n] = <<>>
                /\ body[n] # <<>> =>
                     Len(body[n]) > 0 /\ BodySections(body)[n] = P!SheetSections(body[n])
<1> DEFINE z == Len(body)
           B == BodySections(body)
           list(n) == IF body[n] = <<>> THEN <<>> ELSE P!SheetSections(body[n])
<1>1. z \in Nat
  OBVIOUS
<1>2. ASSUME NEW n \in 1..z
      PROVE  body[n] \in Seq(Text) /\ (body[n] # <<>> => Len(body[n]) > 0)
  <2>1. PICK sheet \in Seq(Text) : sheet = body[n]
    OBVIOUS
  <2>2. sheet # <<>> => Len(sheet) > 0
    OBVIOUS
  <2> QED BY <2>1, <2>2
<1>3. ASSUME NEW n \in 1..z PROVE list(n) \in Seq(Section)
  <2>1. CASE body[n] = <<>>
    <3>1. <<>> \in Seq(Section)
      OBVIOUS
    <3> QED BY <2>1, <3>1
  <2>2. CASE body[n] # <<>>
    <3>1. P!SheetSections(body[n]) \in Seq(Section)
      BY <1>2, <2>2, SheetSectionsAre
    <3> QED BY <2>2, <3>1
  <2> QED BY <2>1, <2>2
<1>4. B = [n \in 1..z |-> list(n)]
  BY DEF BodySections
<1>5. \A n \in 1..z : /\ body[n] = <<>> => list(n) = <<>>
                      /\ body[n] # <<>> => list(n) = P!SheetSections(body[n])
  OBVIOUS
<1> HIDE DEF z, B, list
<1>6. B \in [1..z -> Seq(Section)] /\ \A n \in 1..z : B[n] = list(n)
  BY <1>3, <1>4
<1>7. B \in Seq(Seq(Section)) /\ Len(B) = z
  BY <1>1, <1>6
<1> QED BY <1>2, <1>5, <1>6, <1>7 DEF z, B

\* Every section of a sheet is in the document, and no other.
LEMMA BodySectionsLie ==
    ASSUME NEW body \in Seq(Seq(Text))
    PROVE  LET all == P!FlattenSeq(BodySections(body))
           IN  /\ all \in Seq(Section)
               /\ \A p \in 1..Len(all) : \E n \in 1..Len(body) :
                    /\ Len(body[n]) > 0
                    /\ \E i \in 1..Len(P!SheetSections(body[n])) :
                         all[p] = P!SheetSections(body[n])[i]
               /\ \A n \in 1..Len(body) : Len(body[n]) > 0 =>
                    \A i \in 1..Len(P!SheetSections(body[n])) :
                        \E p \in 1..Len(all) : all[p] = P!SheetSections(body[n])[i]
<1> DEFINE z == Len(body)
           all == P!FlattenSeq(BodySections(body))
<1>1. PICK B : B = BodySections(body)
  OBVIOUS
<1>2. /\ B \in Seq(Seq(Section)) /\ Len(B) = z
      /\ \A n \in 1..z :
           /\ body[n] = <<>> => B[n] = <<>>
           /\ body[n] # <<>> => Len(body[n]) > 0 /\ B[n] = P!SheetSections(body[n])
  BY <1>1, BodySectionsType
<1>3. all \in Seq(Section) /\ \E off : Laid(off, B, all)
  BY <1>1, <1>2, FlattenLays
<1>4. PICK off : Laid(off, B, all)
  BY <1>3
<1> HIDE DEF all, z
<1>5. ASSUME NEW p \in 1..Len(all)
      PROVE  \E n \in 1..z : /\ Len(body[n]) > 0
                             /\ \E i \in 1..Len(P!SheetSections(body[n])) :
                                  all[p] = P!SheetSections(body[n])[i]
  <2>1. PICK n \in 1..z : \E i \in 1..Len(B[n]) : p = off[n - 1] + i
    BY <1>2, <1>4 DEF Laid
  <2>2. PICK i \in 1..Len(B[n]) : p = off[n - 1] + i
    BY <2>1
  <2>3. all[p] = B[n][i]
    BY <1>2, <1>4, <2>2 DEF Laid
  <2>4. body[n] # <<>>
    <3>1. Len(<<>>) = 0 /\ \A k \in 1..0 : FALSE
      OBVIOUS
    <3> QED BY <1>2, <2>2, <3>1
  <2>5. Len(body[n]) > 0 /\ B[n] = P!SheetSections(body[n])
    BY <1>2, <2>4
  <2> QED BY <2>2, <2>3, <2>5
<1>6. ASSUME NEW n \in 1..z, Len(body[n]) > 0, NEW i \in 1..Len(P!SheetSections(body[n]))
      PROVE  \E p \in 1..Len(all) : all[p] = P!SheetSections(body[n])[i]
  <2>1. body[n] # <<>>
    <3>1. ~(Len(<<>>) > 0)
      OBVIOUS
    <3> QED BY <1>6, <3>1
  <2>2. B[n] = P!SheetSections(body[n])
    BY <1>2, <2>1
  <2>3. i \in 1..Len(B[n])
    BY <2>2
  <2>4. off[n - 1] + i \in 1..Len(all) /\ all[off[n - 1] + i] = B[n][i]
    BY <1>2, <1>4, <2>3 DEF Laid
  <2> QED BY <2>2, <2>4
<1> QED BY <1>3, <1>5, <1>6 DEF all, z

\* The sections of all sheets are whole.
LEMMA RowsMakeWholes ==
    ASSUME NEW body \in Seq(Seq(Text)),
           \A n \in 1..Len(body) : \A r \in 2..Len(body[n]) : NoneTwice(RowWords(body[n], r))
    PROVE  AllWholeIn(P!FlattenSeq(BodySections(body)))
<1> DEFINE all == P!FlattenSeq(BodySections(body))
<1>1. /\ all \in Seq(Section)
      /\ \A p \in 1..Len(all) : \E n \in 1..Len(body) :
           /\ Len(body[n]) > 0
           /\ \E i \in 1..Len(P!SheetSections(body[n])) :
                all[p] = P!SheetSections(body[n])[i]
  BY BodySectionsLie
<1> HIDE DEF all
<1>2. ASSUME NEW p \in 1..Len(all) PROVE Whole(all[p])
  <2>1. PICK n \in 1..Len(body) :
          /\ Len(body[n]) > 0
          /\ \E i \in 1..Len(P!SheetSections(body[n])) :
               all[p] = P!SheetSections(body[n])[i]
    BY <1>1
  <2>2. PICK sheet \in Seq(Text) : sheet = body[n]
    BY <2>1
  <2>3. Len(sheet) > 0 /\ \A r \in 2..Len(sheet) : NoneTwice(RowWords(sheet, r))
    BY <2>1, <2>2
  <2>4. \A i \in 1..Len(P!SheetSections(sheet)) : Whole(P!SheetSections(sheet)[i])
    BY <2>3, SheetSectionsAre
  <2> QED BY <2>1, <2>2, <2>4
<1> QED BY <1>1, <1>2 DEF AllWholeIn, all

\* Every cell is in the section of its row, behind the name of its column.
LEMMA CellsAreKept ==
    ASSUME file.body \in Seq(Seq(Text)), document = P!FlattenSeq(BodySections(file.body)),
           NEW c \in Cells
    PROVE  \E i \in 1..Len(document) : \E k \in 2..Len(document[i].words) :
               /\ document[i].title = c[2] - 1
               /\ document[i].words[k] = file.body[c[1]][c[2]][c[3]]
               /\ document[i].words[k - 1] = ColumnName(c)
<1>1. PICK n \in 1..Len(file.body) : \E r \in 2..Len(file.body[n]) :
        \E i \in Filled(file.body[n][r]) : c = <<n, r, i>>
  BY DEF Cells
<1>2. PICK r \in 2..Len(file.body[n]) : \E i \in Filled(file.body[n][r]) : c = <<n, r, i>>
  BY <1>1
<1>3. PICK i \in Filled(file.body[n][r]) : c = <<n, r, i>>
  BY <1>2
<1>4. PICK sheet \in Seq(Text) : sheet = file.body[n]
  OBVIOUS
<1>5. r \in 2..Len(sheet) /\ r \in 1..Len(sheet) /\ Len(sheet) > 0
  <2>1. Len(sheet) \in Nat /\ r \in 2..Len(sheet)
    BY <1>2, <1>4
  <2> QED BY <2>1
<1>6. PICK row \in Text : row = sheet[r]
  BY <1>5
<1>7. i \in 1..Len(row) /\ row[i] # P!NoCell
  BY <1>3, <1>4, <1>6 DEF Filled
<1>8. PICK text \in Text, section \in Section :
        /\ text = RowWords(sheet, r) /\ section = P!RowSection(sheet, r)
        /\ section.words = text /\ section.title = r - 1
        /\ \E off : Laid(off, RowPairs(sheet, row), text)
  BY <1>5, <1>6, RowSectionIs
<1>9. PICK off : Laid(off, RowPairs(sheet, row), text)
  BY <1>8
<1>10. PICK R : R = RowPairs(sheet, row)
  OBVIOUS
<1>11. Len(R) = Len(row) /\ Len(R[i]) = 2 /\ R[i][1] = P!Header(sheet, i) /\ R[i][2] = row[i]
  BY <1>5, <1>7, <1>10, RowPairsType
<1>12. i - 1 \in 0..Len(R)
  BY <1>7, <1>11 DEF Text
<1>13. PICK a \in Nat : a = off[i - 1]
  BY <1>9, <1>10, <1>12 DEF Laid
<1>14. \A k \in 1..2 : a + k \in 1..Len(text) /\ text[a + k] = R[i][k]
  <2>1. i \in 1..Len(R)
    BY <1>7, <1>11
  <2>2. \A k \in 1..Len(R[i]) :
          off[i - 1] + k \in 1..Len(text) /\ text[off[i - 1] + k] = R[i][k]
    <3>1. \A q \in 1..Len(R) : \A k \in 1..Len(R[q]) :
            off[q - 1] + k \in 1..Len(text) /\ text[off[q - 1] + k] = R[q][k]
      BY <1>9, <1>10, Zenon DEF Laid
    <3> QED BY <2>1, <3>1
  <2> QED BY <1>11, <1>13, <2>2
<1>15. /\ a + 2 \in 2..Len(text) /\ text[a + 2] = row[i]
       /\ text[(a + 2) - 1] = P!Header(sheet, i)
  <2>1. 1 \in 1..2 /\ 2 \in 1..2 /\ (a + 2) - 1 = a + 1
    OBVIOUS
  <2>2. a + 2 \in 1..Len(text) /\ text[a + 2] = row[i] /\ text[a + 1] = P!Header(sheet, i)
    BY <1>11, <1>14, <2>1
  <2>3. a + 2 \in 2..Len(text)
    BY <2>2 DEF Text
  <2> QED BY <2>1, <2>2, <2>3
<1>16. text # <<>>
  <2>1. Len(<<>>) = 0
    OBVIOUS
  <2>2. Len(text) \in Nat /\ Len(text) > 0
    BY <1>15 DEF Text
  <2> QED BY <2>1, <2>2
<1>17. PICK j \in 1..Len(P!SheetSections(sheet)) : P!SheetSections(sheet)[j] = section
  BY <1>5, <1>8, <1>16, SheetSectionsAre
<1>18. PICK p \in 1..Len(document) : document[p] = section
  BY <1>4, <1>5, <1>17, BodySectionsLie
<1>19. ColumnName(c) = P!Header(sheet, i)
  BY <1>3, <1>4 DEF ColumnName, P!Header
<1>20. c[1] = n /\ c[2] = r /\ c[3] = i
  BY <1>3
<1>21. /\ document[p].title = c[2] - 1
       /\ document[p].words[a + 2] = file.body[c[1]][c[2]][c[3]]
       /\ document[p].words[(a + 2) - 1] = ColumnName(c)
       /\ a + 2 \in 2..Len(document[p].words)
  BY <1>4, <1>6, <1>8, <1>15, <1>18, <1>19, <1>20
<1> QED BY <1>21

\* Two words for each cell of a row, a sheet, the file.
RowCells(n, r) == {<<n, r, i>> : i \in Filled(file.body[n][r])}

SheetCells(n) == UNION {RowCells(n, r) : r \in 2..Len(file.body[n])}

\* A row has two words for each of its cells.
LEMMA RowCounts ==
    ASSUME file.body \in Seq(Seq(Text)), NEW n \in 1..Len(file.body),
           NEW r \in 1..Len(file.body[n])
    PROVE  /\ IsFiniteSet(RowCells(n, r))
           /\ Len(RowWords(file.body[n], r)) = 2 * Cardinality(RowCells(n, r))
<1>1. PICK sheet \in Seq(Text) : sheet = file.body[n]
  OBVIOUS
<1>2. r \in 1..Len(sheet) /\ Len(sheet) > 0
  BY <1>1
<1>3. PICK row \in Text : row = sheet[r]
  BY <1>2
<1>4. PICK R : R = RowPairs(sheet, row)
  OBVIOUS
<1> DEFINE C == [i \in 1..Len(row) |-> IF row[i] = P!NoCell THEN {} ELSE {<<n, r, i>>}]
<1>5. /\ R \in Seq(Seq(Word)) /\ Len(R) = Len(row)
      /\ \A i \in 1..Len(row) : /\ row[i] = P!NoCell => Len(R[i]) = 0
                                /\ row[i] # P!NoCell => Len(R[i]) = 2
  BY <1>2, <1>4, RowPairsType
<1>6. \A i \in 1..Len(row) : /\ row[i] = P!NoCell => C[i] = {}
                             /\ row[i] # P!NoCell => C[i] = {<<n, r, i>>}
                             /\ C[i] \subseteq {<<n, r, i>>}
  OBVIOUS
<1>7. AllOf(C, Len(R)) = RowCells(n, r)
  <2>1. RowCells(n, r) = {<<n, r, i>> : i \in {i \in 1..Len(row) : row[i] # P!NoCell}}
    BY <1>1, <1>3 DEF RowCells, Filled
  <2> QED BY <1>5, <1>6, <2>1 DEF AllOf
<1> HIDE DEF C
<1>8. ASSUME NEW i \in 1..Len(R) PROVE IsFiniteSet(C[i]) /\ Len(R[i]) = 2 * Cardinality(C[i])
  <2>1. CASE row[i] = P!NoCell
    <3>1. C[i] = {} /\ Len(R[i]) = 0
      BY <1>5, <1>6, <2>1
    <3> QED BY <3>1, FS_EmptySet
  <2>2. CASE row[i] # P!NoCell
    <3>1. C[i] = {<<n, r, i>>} /\ Len(R[i]) = 2
      BY <1>5, <1>6, <2>2
    <3>2. IsFiniteSet({<<n, r, i>>}) /\ Cardinality({<<n, r, i>>}) = 1
      BY FS_Singleton
    <3> QED BY <3>1, <3>2
  <2> QED BY <2>1, <2>2
<1>9. \A i, q \in 1..Len(R) : i # q => C[i] \cap C[q] = {}
  <2>1. SUFFICES ASSUME NEW i \in 1..Len(R), NEW q \in 1..Len(R), NEW x \in C[i], x \in C[q]
                 PROVE  i = q
    OBVIOUS
  <2>2. x = <<n, r, i>> /\ x = <<n, r, q>>
    BY <1>5, <1>6, <2>1
  <2> QED BY <2>2
<1>10. P!FlattenSeq(R) = RowWords(file.body[n], r)
  BY <1>1, <1>3, <1>4 DEF RowWords, P!RowText, RowPairs
<1>11. Counted(R, C)
  BY <1>8, <1>9 DEF Counted
<1>12. /\ IsFiniteSet(RowCells(n, r))
       /\ Len(P!FlattenSeq(R)) = 2 * Cardinality(RowCells(n, r))
  BY <1>5, <1>7, <1>11, TwoForEach
<1> QED BY <1>10, <1>12

\* A sheet has two words for each of its cells below the first row.
LEMMA SheetCounts ==
    ASSUME file.body \in Seq(Seq(Text)), NEW n \in 1..Len(file.body)
    PROVE  /\ IsFiniteSet(SheetCells(n))
           /\ Len(P!Joined(BodySections(file.body)[n])) = 2 * Cardinality(SheetCells(n))
<1>1. PICK sheet \in Seq(Text) : sheet = file.body[n]
  OBVIOUS
<1>2. CASE sheet = <<>>
  <2>1. BodySections(file.body)[n] = <<>>
    BY <1>1, <1>2, BodySectionsType
  <2>2. SheetCells(n) = {}
    <3>1. Len(<<>>) = 0 /\ \A r \in 2..0 : FALSE
      OBVIOUS
    <3>2. \A r \in 2..Len(file.body[n]) : FALSE
      BY <1>1, <1>2, <3>1
    <3> QED BY <3>2 DEF SheetCells
  <2>3. Len(P!Joined(BodySections(file.body)[n])) = 0
    BY <2>1, JoinedNothing
  <2> QED BY <2>2, <2>3, FS_EmptySet
<1>3. CASE sheet # <<>>
  <2> DEFINE z == Len(sheet) - 1
  <2>1. Len(sheet) > 0 /\ BodySections(file.body)[n] = P!SheetSections(sheet)
    BY <1>1, <1>3, BodySectionsType
  <2>2. PICK K : K = RowSections(sheet)
    OBVIOUS
  <2>3. /\ K \in Seq(Section) /\ Len(K) = z
        /\ \A r \in 1..z : r + 1 \in 2..Len(sheet) /\ K[r] = P!RowSection(sheet, r + 1)
    BY <2>1, <2>2, RowSectionsType
  <2>4. P!Joined(P!SheetSections(sheet)) = P!Joined(K)
    BY <2>1, <2>2, SheetSectionsAre
  <2>5. HaveTexts(K)
    <3>1. \A p \in Section : p.words \in Text
      BY DEF Section
    <3> QED BY <2>3, <3>1, PartsHaveTexts
  <2>6. PICK T : T = Texts(K)
    OBVIOUS
  <2>7. T \in Seq(Seq(Word)) /\ Len(T) = z /\ \A r \in 1..z : T[r] = K[r].words
    BY <2>3, <2>5, <2>6, TextsType
  <2> DEFINE C == [r \in 1..z |-> RowCells(n, r + 1)]
  <2>8. \A r \in 1..z : C[r] = RowCells(n, r + 1) /\ r \in Nat
    OBVIOUS
  <2>9. /\ \A r \in 1..z : r + 1 \in 2..Len(sheet) /\ r + 1 \in 1..Len(sheet)
        /\ \A r \in 2..Len(sheet) : r - 1 \in 1..z /\ (r - 1) + 1 = r
    <3>1. Len(sheet) \in Nat
      OBVIOUS
    <3> QED BY <3>1
  <2> HIDE DEF C, z
  <2>10. ASSUME NEW r \in 1..Len(T)
         PROVE  IsFiniteSet(C[r]) /\ Len(T[r]) = 2 * Cardinality(C[r])
    <3>1. r \in 1..z
      BY <2>7
    <3>2. PICK q \in 1..Len(sheet) : q = r + 1
      BY <2>9, <3>1
    <3>3. T[r] = RowWords(sheet, q)
      <4>1. P!RowSection(sheet, q).words = RowWords(sheet, q)
        BY RowSectionIs
      <4> QED BY <2>3, <2>7, <3>1, <3>2, <4>1
    <3>4. /\ IsFiniteSet(RowCells(n, q))
          /\ Len(RowWords(file.body[n], q)) = 2 * Cardinality(RowCells(n, q))
      BY <1>1, RowCounts
    <3> QED BY <1>1, <2>8, <3>1, <3>2, <3>3, <3>4
  <2>11. \A r, q \in 1..Len(T) : r # q => C[r] \cap C[q] = {}
    <3>1. SUFFICES ASSUME NEW r \in 1..z, NEW q \in 1..z, NEW x \in C[r], x \in C[q]
                   PROVE  r = q
      BY <2>7
    <3>2. PICK i : x = <<n, r + 1, i>>
      BY <2>8 DEF RowCells
    <3>3. PICK j : x = <<n, q + 1, j>>
      BY <2>8, <3>1 DEF RowCells
    <3>4. r + 1 = q + 1
      BY <3>2, <3>3
    <3> QED BY <2>8, <3>4
  <2>12. AllOf(C, Len(T)) = SheetCells(n)
    <3>1. ASSUME NEW r \in 1..z, NEW x \in C[r] PROVE x \in SheetCells(n)
      <4>1. PICK q \in 2..Len(file.body[n]) : q = r + 1
        BY <1>1, <2>9
      <4>2. x \in RowCells(n, q)
        BY <2>8, <4>1
      <4> QED BY <4>2 DEF SheetCells
    <3>2. ASSUME NEW x \in SheetCells(n) PROVE \E r \in 1..z : x \in C[r]
      <4>1. PICK q \in 2..Len(sheet) : x \in RowCells(n, q)
        BY <1>1 DEF SheetCells
      <4>2. PICK r \in 1..z : r + 1 = q
        BY <2>9
      <4> QED BY <2>8, <4>1, <4>2
    <3> QED BY <2>7, <3>1, <3>2 DEF AllOf
  <2>13. IsFiniteSet(SheetCells(n)) /\ Len(P!FlattenSeq(T)) = 2 * Cardinality(SheetCells(n))
    <3>1. Counted(T, C)
      BY <2>10, <2>11 DEF Counted
    <3> QED BY <2>7, <2>12, <3>1, TwoForEach
  <2>14. P!Joined(K) = P!FlattenSeq(T)
    BY <2>6 DEF P!Joined, Texts
  <2> QED BY <2>1, <2>4, <2>13, <2>14
<1> QED BY <1>2, <1>3

\* The file has two words for each of its cells.
LEMMA CellsAreCounted ==
    ASSUME file.body \in Seq(Seq(Text)), document = P!FlattenSeq(BodySections(file.body))
    PROVE  Len(Extracted) = 2 * Cardinality(Cells)
<1> DEFINE z == Len(file.body)
<1>1. PICK B : B = BodySections(file.body)
  OBVIOUS
<1>2. B \in Seq(Seq(Section)) /\ Len(B) = z
  BY <1>1, BodySectionsType
<1>3. PICK J : J = JoinedEach(B)
  OBVIOUS
<1>4. \A p \in Section : p.words \in Text
  BY DEF Section
<1>5. J \in Seq(Seq(Word)) /\ Len(J) = z /\ \A n \in 1..z : J[n] = P!Joined(B[n])
  BY <1>2, <1>3, <1>4, JoinedEachType
<1>6. Extracted = P!FlattenSeq(J)
  BY <1>1, <1>2, <1>3, <1>4, JoinedFlatten DEF Extracted
<1> DEFINE C == [n \in 1..z |-> SheetCells(n)]
<1>7. \A n \in 1..z : C[n] = SheetCells(n)
  OBVIOUS
<1> HIDE DEF C
<1>8. \A n \in 1..z : IsFiniteSet(C[n]) /\ Len(J[n]) = 2 * Cardinality(C[n])
  BY <1>1, <1>5, <1>7, SheetCounts
<1>9. \A m, n \in 1..z : m # n => C[m] \cap C[n] = {}
  <2>1. SUFFICES ASSUME NEW m \in 1..z, NEW n \in 1..z, NEW x \in C[m], x \in C[n]
                 PROVE  m = n
    OBVIOUS
  <2>2. PICK r, i : x = <<m, r, i>>
    BY <1>7 DEF SheetCells, RowCells
  <2>3. PICK q, j : x = <<n, q, j>>
    BY <1>7, <2>1 DEF SheetCells, RowCells
  <2> QED BY <2>2, <2>3
<1>10. AllOf(C, Len(J)) = Cells
  <2>1. Cells = UNION {SheetCells(n) : n \in 1..z}
    BY DEF Cells, SheetCells, RowCells
  <2>2. UNION {C[n] : n \in 1..z} = UNION {SheetCells(n) : n \in 1..z}
    BY <1>7
  <2> QED BY <1>5, <2>1, <2>2 DEF AllOf
<1>11. Len(P!FlattenSeq(J)) = 2 * Cardinality(Cells)
  <2>1. Counted(J, C)
    BY <1>5, <1>8, <1>9 DEF Counted
  <2> QED BY <1>5, <1>10, <2>1, TwoForEach
<1> QED BY <1>6, <1>11

--------------------------------------------------------------------------
\* Files of every type

\* What the parser of each type returns.
LEMMA ParseDocumentIs ==
    ASSUME WellFormed(file)
    PROVE  /\ ~file.readable => P!ParseDocument(file) = <<>>
           /\ file.readable =>
                /\ file.type \in {"pdf", "other"} =>
                     P!ParseDocument(file) = P!WithText(file.body)
                /\ file.type = "docx" =>
                     P!ParseDocument(file) = P!Saved(P!Reading(file.body)[Len(file.body)])
                /\ file.type = "xlsx" =>
                     P!ParseDocument(file) = P!FlattenSeq(BodySections(file.body))
                /\ file.type = "txt" =>
                     P!ParseDocument(file) =
                       IF P!Joined(file.body) = <<>> THEN <<>>
                       ELSE <<P!NewSection(P!NoTitle, P!Stripped(file.body))>>
<1>1. /\ file.readable \in BOOLEAN
      /\ file.type \in {"pdf", "other", "txt", "docx", "xlsx"}
  BY DEF WellFormed
<1>2. ASSUME NEW sections, P!Dispatch(file) = P!Swallowed(file, sections)
      PROVE  P!ParseDocument(file) = IF file.readable THEN sections ELSE <<>>
  <2>1. /\ P!Dispatch(file).raised = FALSE
        /\ P!Dispatch(file).sections = IF file.readable THEN sections ELSE <<>>
    BY <1>2 DEF P!Swallowed, P!Returned
  <2> QED BY <2>1 DEF P!ParseDocument
<1>3. CASE file.type \in {"pdf", "other"}
  <2>1. P!Dispatch(file) = P!Swallowed(file, P!WithText(file.body))
    BY <1>3 DEF P!Dispatch, P!ParsePdf
  <2> QED BY <1>1, <1>2, <1>3, <2>1
<1>4. CASE file.type = "docx"
  <2>1. P!Dispatch(file) =
          P!Swallowed(file, P!Saved(P!Reading(file.body)[Len(file.body)]))
    BY <1>4 DEF P!Dispatch, P!ParseDocx
  <2> QED BY <1>1, <1>2, <1>4, <2>1
<1>5. CASE file.type = "xlsx"
  <2>1. P!Dispatch(file) = P!Swallowed(file, P!FlattenSeq(BodySections(file.body)))
    BY <1>5 DEF P!Dispatch, P!ParseExcel, BodySections
  <2> QED BY <1>1, <1>2, <1>5, <2>1
<1>6. CASE file.type = "txt"
  <2>1. P!Dispatch(file) =
          P!Swallowed(file, IF P!Joined(file.body) = <<>> THEN <<>>
                            ELSE <<P!NewSection(P!NoTitle, P!Stripped(file.body))>>)
    BY <1>6 DEF P!Dispatch, P!ParseText
  <2> QED BY <1>1, <1>2, <1>6, <2>1
<1> QED BY <1>1, <1>3, <1>4, <1>5, <1>6

\* No sections are whole sections.
LEMMA NothingIsWhole == AllWholeIn(<<>>)
<1>1. <<>> \in Seq(Section) /\ Len(<<>>) = 0 /\ \A k \in 1..0 : FALSE
  OBVIOUS
<1> QED BY <1>1 DEF AllWholeIn

\* The sections that are parsed are whole.
LEMMA ParsedAreWhole ==
    ASSUME WellFormed(file), document = P!ParseDocument(file)
    PROVE  AllWholeIn(document)
<1>1. CASE ~file.readable
  BY <1>1, ParseDocumentIs, NothingIsWhole
<1>2. CASE file.readable /\ file.type \in {"pdf", "other"}
  <2>1. AllWholeIn(file.body)
    BY <1>2 DEF WellFormed, AllWholeIn
  <2> QED BY <1>2, <2>1, ParseDocumentIs, ElementsAreKept
<1>3. CASE file.readable /\ file.type = "docx"
  <2>1. /\ file.body \in Seq(DocxLine) /\ DifferentWords(file.body)
        /\ \A i \in 1..Len(file.body) : WholeParagraph(file.body[i])
    BY <1>3 DEF WellFormed
  <2> QED BY <1>3, <2>1, ParseDocumentIs, LinesMakeWholes
<1>4. CASE file.readable /\ file.type = "xlsx"
  <2>1. /\ file.body \in Seq(Seq(Text))
        /\ \A n \in 1..Len(file.body) : \A r \in 2..Len(file.body[n]) :
             NoneTwice(RowWords(file.body[n], r))
    BY <1>4 DEF WellFormed, RowWords
  <2> QED BY <1>4, <2>1, ParseDocumentIs, RowsMakeWholes
<1>5. CASE file.readable /\ file.type = "txt"
  <2>1. /\ file.body \in Seq(Paragraph) /\ DifferentWords(file.body)
        /\ \A i \in 1..Len(file.body) : WholeParagraph(file.body[i])
    BY <1>5 DEF WellFormed
  <2>2. CASE P!Joined(file.body) = <<>>
    BY <1>5, <2>2, ParseDocumentIs, NothingIsWhole
  <2>3. CASE P!Joined(file.body) # <<>>
    BY <1>5, <2>1, <2>3, ParseDocumentIs, TextIsKept
  <2> QED BY <2>2, <2>3
<1> QED BY <1>1, <1>2, <1>3, <1>4, <1>5 DEF WellFormed

\* They keep what the file says.
LEMMA ParsedKeepsBody ==
    ASSUME WellFormed(file), document = P!ParseDocument(file)
    PROVE  SectionsKeepBody
<1>1. CASE ~file.readable
  BY <1>1 DEF SectionsKeepBody
<1>2. CASE file.readable /\ file.type \in {"pdf", "other"}
  <2>1. AllWholeIn(file.body)
    BY <1>2 DEF WellFormed, AllWholeIn
  <2>2. Extracted = P!Joined(file.body)
    BY <1>2, <2>1, ParseDocumentIs, ElementsAreKept DEF Extracted
  <2> QED BY <1>2, <2>2 DEF SectionsKeepBody
<1>3. CASE file.readable /\ file.type = "docx"
  <2>1. file.body \in Seq(DocxLine)
    BY <1>3 DEF WellFormed
  <2>2. P!FlattenSeq(LinesOf(file.body)) = Lines
    BY DEF Lines, LineWords, LinesOf
  <2>3. Extracted = Lines
    BY <1>3, <2>1, <2>2, ParseDocumentIs, LinesAreKept DEF Extracted
  <2> QED BY <1>3, <2>3 DEF SectionsKeepBody
<1>4. CASE file.readable /\ file.type = "xlsx"
  <2>1. file.body \in Seq(Seq(Text))
    BY <1>4 DEF WellFormed
  <2>2. document = P!FlattenSeq(BodySections(file.body))
    BY <1>4, ParseDocumentIs
  <2>3. \A c \in Cells :
          \E i \in 1..Len(document) : \E k \in 2..Len(document[i].words) :
              /\ document[i].title = c[2] - 1
              /\ document[i].words[k] = file.body[c[1]][c[2]][c[3]]
              /\ document[i].words[k - 1] = ColumnName(c)
    BY <2>1, <2>2, CellsAreKept
  <2>4. Len(Extracted) = 2 * Cardinality(Cells)
    BY <2>1, <2>2, CellsAreCounted
  <2> QED BY <1>4, <2>3, <2>4, Zenon DEF SectionsKeepBody
<1>5. CASE file.readable /\ file.type = "txt"
  <2>1. /\ file.body \in Seq(Paragraph) /\ DifferentWords(file.body)
        /\ \A i \in 1..Len(file.body) : WholeParagraph(file.body[i])
    BY <1>5 DEF WellFormed
  <2>2. CASE P!Joined(file.body) = <<>>
    <3>1. Extracted = <<>>
      BY <1>5, <2>2, ParseDocumentIs, JoinedNothing DEF Extracted
    <3> QED BY <1>5, <2>2, <3>1 DEF SectionsKeepBody
  <2>3. CASE P!Joined(file.body) # <<>>
    <3>1. Extracted = P!Joined(file.body)
      BY <1>5, <2>1, <2>3, ParseDocumentIs, TextIsKept DEF Extracted
    <3> QED BY <1>5, <3>1 DEF SectionsKeepBody
  <2> QED BY <2>2, <2>3
<1> QED BY <1>1, <1>2, <1>3, <1>4, <1>5 DEF WellFormed

\* The sections of a Word document have the titles of the headings above their lines.
LEMMA ParsedHasTitles ==
    ASSUME WellFormed(file), document = P!ParseDocument(file)
    PROVE  TitleIsLastHeading
<1>1. CASE ~(file.type = "docx" /\ file.readable)
  BY <1>1 DEF TitleIsLastHeading
<1>2. CASE file.type = "docx" /\ file.readable
  <2>1. file.body \in Seq(DocxLine) /\ DifferentWords(file.body)
    BY <1>2 DEF WellFormed
  <2>2. document = P!Saved(P!Reading(file.body)[Len(file.body)])
    BY <1>2, ParseDocumentIs
  <2> QED BY <2>1, <2>2, LinesAreHome
<1> QED BY <1>1, <1>2

\* The chunker starts with the sections of the file, and neither changes.
Parsed == WellFormed(file) /\ document = P!ParseDocument(file)

\* Parsed is an invariant.
LEMMA ParsedStays == ExtractionSpec => []Parsed
<1>1. WellFormed(file) /\ Parse => Parsed
  BY DEF Parse, Parsed
<1>2. ASSUME Parsed, [ExtractionNext]_<<vars, file>> PROVE Parsed'
  <2>1. file' = file
    BY <1>2 DEF ExtractionNext, vars
  <2>2. document' = document
    BY <1>2 DEF ExtractionNext, vars, Next, NextSection, AllRead,
      NextParagraph, EndOfSection, NextSentence, EndOfParagraph
  <2> QED BY <1>2, <2>1, <2>2 DEF Parsed, WellFormed
<1> QED BY <1>1, <1>2, PTL DEF ExtractionSpec

\* After the parser, the worker is the chunker on whole sections.
LEMMA ExtractionIsChunking == ExtractionSpec => Spec /\ AllWhole
<1>1. WellFormed(file) /\ Parse => Init /\ AllWhole
  BY ParsedAreWhole DEF Parse, Init, AllWholeIn, AllWhole
<1>2. [ExtractionNext]_<<vars, file>> => [Next]_vars
  BY DEF ExtractionNext
<1> QED BY <1>1, <1>2, PTL DEF ExtractionSpec, Spec

\* Of every file, of every type and shape, the chunks are the words of the
\* sections its parser made of it, in order, none lost and none repeated beyond
\* the overlap: what the parsers return is whole, as the chunker needs it
\* (parsers.py:25-67, 107-132, 148-175, chunker.py:97-139, 162-198, 212-221).
THEOREM FilesAreCovered == ExtractionSpec => []ChunksCoverSection
BY ExtractionIsChunking, SectionsAreCovered

\* No text of a readable file is lost or moved on its way into the sections, and every
\* cell of a sheet is in the section of its row behind the name of its column,
\* for files of every length (parsers.py:25-42, 53-67, 107-132, 148-175).
THEOREM BodyIsKept == ExtractionSpec => []SectionsKeepBody
<1>1. Parsed => SectionsKeepBody
  BY ParsedKeepsBody DEF Parsed
<1> QED BY <1>1, ParsedStays, PTL

\* A line of a Word document is in one section, which has the title of the last
\* heading above it, and shares it with the lines below the same heading and
\* with no other, in documents of every length (parsers.py:107-132).
THEOREM TitlesAreRight == ExtractionSpec => []TitleIsLastHeading
<1>1. Parsed => TitleIsLastHeading
  BY ParsedHasTitles DEF Parsed
<1> QED BY <1>1, ParsedStays, PTL
=============================================================================
