------------------------------- MODULE Chunking -------------------------------
(* The three chunkers of taxguide.chunking.  A document is what they see of   *)
(* it: sections of paragraphs of sentences, each sentence a span of tokens,   *)
(* numbered from 1.  A chunk is a span with the path of the section it was    *)
(* cut from; its text is the tokens of the span.                              *)
EXTENDS Integers, Sequences, SequencesExt

Span(first, last) == [from |-> first, to |-> last]
Size(s) == s.to - s.from + 1
Join(first, last) == Span(first.from, last.to)
TokensOf(s) == s.from .. s.to

ParagraphSpan(p) == Join(Head(p), Last(p))
SectionSpan(s) == Join(ParagraphSpan(Head(s)), ParagraphSpan(Last(s)))
DocumentSpan(d) ==
  IF d.sections = << >> THEN Span(1, 0)
  ELSE Join(SectionSpan(Head(d.sections)), SectionSpan(Last(d.sections)))

\* What ingestion leaves of a page: text throughout, in sentences, paragraphs
\* and sections that follow one another (a page without text is refused).
Spans == [from : Nat, to : Nat]
Contiguous(spans) ==
  /\ spans # << >> /\ \A i \in DOMAIN spans : spans[i].from <= spans[i].to
  /\ \A i \in 1 .. Len(spans) - 1 : spans[i + 1].from = spans[i].to + 1
IsParagraph(p) == p \in Seq(Spans) /\ Contiguous(p)
IsSection(s) ==
  /\ s \in Seq(Seq(Spans)) /\ \A i \in DOMAIN s : IsParagraph(s[i])
  /\ Contiguous([i \in DOMAIN s |-> ParagraphSpan(s[i])])
IsDocument(d) ==
  /\ d.rates \in BOOLEAN
  /\ d.sections \in Seq(Seq(Seq(Spans))) /\ \A i \in DOMAIN d.sections : IsSection(d.sections[i])
  /\ Contiguous([i \in DOMAIN d.sections |-> SectionSpan(d.sections[i])])

\* One list after the other.
Extend(list, more) == list \o more
Joined(lists) == FoldLeft(Extend, << >>, lists)

\* tokens[start : start + max] for start in range(0, len(tokens), step)
Windows(s, max, step) ==
  [k \in 1 .. (Size(s) + step - 1) \div step |->
     LET start == s.from + (k - 1) * step
     IN  Span(start, Min({start + max - 1, s.to}))]

\* A last window no longer than the overlap carries no new token.
FixedPieces(d, max, overlap) ==
  LET windows == Windows(DocumentSpan(d), max, max - overlap)
  IN  IF Len(windows) > 1 /\ Size(Last(windows)) <= overlap
      THEN Front(windows) ELSE windows

-----------------------------------------------------------------------------
\* RecursiveChunker._split, one operator per level: what fits is kept, the
\* rest is split at headings, then at blank lines, then after sentences, then
\* into windows.  A level that finds nothing to split passes the text on.

SplitSentence(s, max) == Windows(s, max, max)
SplitParagraph(p, max) ==
  IF Size(ParagraphSpan(p)) <= max THEN << ParagraphSpan(p) >>
  ELSE Joined([i \in DOMAIN p |-> SplitSentence(p[i], max)])
SplitSection(s, max) ==
  IF Size(SectionSpan(s)) <= max THEN << SectionSpan(s) >>
  ELSE Joined([i \in DOMAIN s |-> SplitParagraph(s[i], max)])
SplitDocument(d, max) ==
  IF Size(DocumentSpan(d)) \in 1 .. max THEN << DocumentSpan(d) >>
  ELSE Joined([i \in DOMAIN d.sections |-> SplitSection(d.sections[i], max)])

\* _pack: neighbouring pieces share a chunk as long as they fit.
AddPiece(packed, piece) ==
  LET groups == packed.groups
  IN  IF groups # << >> /\ Size(Last(groups)) + Size(piece) <= packed.max
      THEN [packed EXCEPT !.groups = Append(Front(groups), Join(Last(groups), piece))]
      ELSE [packed EXCEPT !.groups = Append(groups, piece)]
Pack(pieces, max) == FoldLeft(AddPiece, [max |-> max, groups |-> << >>], pieces).groups

RecursivePieces(d, max) == Pack(SplitDocument(d, max), max)

-----------------------------------------------------------------------------
\* StructuralChunker._split_paragraphs fills what is left of the open chunk
\* from the next paragraph and closes it when it is full: the chunks of a
\* section are the windows of its tokens.
SectionPieces(s, max) == Windows(SectionSpan(s), max, max)

\* A short annual rate page is one chunk.
IsShortRatePage(d, max) == d.rates /\ Size(DocumentSpan(d)) \in 1 .. max

Root == 0
WithPath(pieces, path) ==
  [i \in DOMAIN pieces |-> [path |-> path, from |-> pieces[i].from, to |-> pieces[i].to]]

StructuralChunks(d, max) ==
  IF IsShortRatePage(d, max) THEN WithPath(<< DocumentSpan(d) >>, Root)
  ELSE Joined([i \in DOMAIN d.sections |->
                     WithPath(SectionPieces(d.sections[i], max), i)])

\* The configured chunker; the path of a section stands for its headings.
Chunks(d, s) ==
  CASE s.strategy = "fixed"      -> WithPath(FixedPieces(d, s.max, s.overlap), Root)
    [] s.strategy = "recursive"  -> WithPath(RecursivePieces(d, s.max), Root)
    [] s.strategy = "structural" -> StructuralChunks(d, s.max)

=============================================================================
