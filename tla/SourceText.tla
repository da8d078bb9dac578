----------------------------- MODULE SourceText -----------------------------
(***************************************************************************)
(* What app/utils/text.py makes of a document: normalised lines, an        *)
(* outline, chunks of bounded size under their headings, and the chunks    *)
(* that share a word with a query.                                         *)
(*                                                                         *)
(* A document is a sequence of lines.  Of a line counts how long it is,    *)
(* which words it has, and whether it is blank, a heading, a line of       *)
(* hashes alone, or body.  The texts of blocks and chunks are sequences of *)
(* line numbers, 0 standing for a blank line put in.  Scores are floating  *)
(* point and only order the results: here they may come in any order.      *)
(***************************************************************************)
EXTENDS Integers, SequencesExt

CONSTANTS
  Lines,        \* the lines documents are made of
  StopWords,    \* _STOPWORDS
  MinChunk, MaxChunk,  \* MIN_CHUNK_CHARS, MAX_CHUNK_CHARS
  MaxSections,  \* max_sections
  MaxLines      \* bound on the documents looked at

Line == [kind : {"blank", "bare", "heading", "body"}, size : Nat, words : SUBSET STRING]

ASSUME TextAssumption ==
  /\ Lines \subseteq Line
  /\ \A l \in Lines : l.kind = "blank" <=> l.size = 0
  /\ MinChunk \in Nat /\ MaxChunk \in Nat /\ MaxSections \in Nat /\ MaxLines \in Nat

Blank(l) == l.kind = "blank"

\* What op makes of the items of a sequence, one after the other.
Fold(op(_, _), base, items) ==
  LET after[n \in 0 .. Len(items)] == IF n = 0 THEN base ELSE op(after[n - 1], items[n])
  IN  after[Len(items)]

Select(items, S) ==
  LET put(out, x) == IF x \in S THEN Append(out, x) ELSE out
  IN  Fold(put, <<>>, items)

UpTo(n) == [i \in 1 .. n |-> i]

Squeezed(doc) ==
  LET put(out, l) == IF Blank(l) /\ (out = <<>> \/ Blank(Last(out))) THEN out ELSE Append(out, l)
  IN  Fold(put, <<>>, doc)

\* normalize_whitespace.
Tidy(doc) ==
  LET out == Squeezed(doc)
  IN  IF out # <<>> /\ Blank(Last(out)) THEN Front(out) ELSE out

-----------------------------------------------------------------------------
(* Headings.  The white space of _HEADING runs over line ends: hashes alone *)
(* take the next line for their title, and such hashes after a title are    *)
(* taken for its closing ones.                                              *)

\* The next line that is not blank, or 0.
NextInk(doc, i) ==
  LET after == {j \in i + 1 .. Len(doc) : ~Blank(doc[j])}
  IN  IF after = {} THEN 0 ELSE Min(after)

TitleLine(doc, i) ==
  CASE doc[i].kind = "heading" -> i
    [] doc[i].kind = "bare"    -> NextInk(doc, i)
    [] OTHER                   -> 0

ClosingLine(doc, title) ==
  LET next == NextInk(doc, title)
  IN  IF next # 0 /\ doc[next].kind = "bare" THEN next ELSE title

\* _HEADING.finditer: where each match starts, its title, and where it ends.
HeadingsAt(doc, lines) ==
  LET match(i, title) == [from |-> i, title |-> title, to |-> ClosingLine(doc, title)]
      find(found, i) ==
        IF TitleLine(doc, i) = 0 \/ (found # <<>> /\ i <= Last(found).to) THEN found
        ELSE Append(found, match(i, TitleLine(doc, i)))
  IN  Fold(find, <<>>, lines)

Headings(doc) == HeadingsAt(doc, UpTo(Len(doc)))

\* build_outline: the titles, as far as there is room for them.
Outline(doc) ==
  LET found == Headings(doc)
      n == Min({Len(found), MaxSections})
  IN  [i \in 1 .. n |-> doc[found[i].title].words]

-----------------------------------------------------------------------------
(* Chunks.                                                                 *)

\* Lines a to b, less the blank ones at both ends.
Strip(doc, a, b) ==
  LET ink == {i \in a .. b : ~Blank(doc[i])}
  IN  IF ink = {} THEN <<>>
      ELSE [i \in 1 .. Max(ink) - Min(ink) + 1 |-> Min(ink) + i - 1]

\* len of a text: its lines, and the ends between them.
Size(doc, part) ==
  LET add(n, i) == n + 1 + IF i = 0 THEN 0 ELSE doc[i].size
  IN  Fold(add, -1, part)

NoHeading == <<>>
Plain(doc, to) == [heading |-> NoHeading, text |-> Strip(doc, 1, to)]

Section(doc, found, k) ==
  LET to == IF k < Len(found) THEN found[k + 1].from - 1 ELSE Len(doc)
  IN  [heading |-> <<doc[found[k].title].words>>, text |-> Strip(doc, found[k].to + 1, to)]

Filled(blocks) == Select(blocks, {b \in ToSet(blocks) : b.text # <<>>})

\* Mutant: the text before the first heading is passed over.
SectionsFromHeading(doc, found) ==
  IF found = <<>> THEN <<>>
  ELSE Filled([k \in 1 .. Len(found) |-> Section(doc, found, k)])

\* _split_by_heading: the text before the first heading, and what follows
\* each; a heading that nothing follows is left out.
Sections(doc, found) ==
  IF found = <<>> THEN <<>>
  ELSE Filled(<<Plain(doc, found[1].from - 1)>>
              \o [k \in 1 .. Len(found) |-> Section(doc, found, k)])

\* A document that gives no block is one.
Blocks(doc) ==
  IF Sections(doc, Headings(doc)) = <<>> /\ doc # <<>> THEN <<Plain(doc, Len(doc))>>
  ELSE Sections(doc, Headings(doc))

Paragraphs(doc, part) ==
  LET put(out, i) == IF i = 0 \/ Blank(doc[i]) THEN Append(out, <<>>)
                     ELSE Append(Front(out), Append(Last(out), i))
  IN  Fold(put, << <<>> >>, part)

Join(a, b) == IF a = <<>> THEN b ELSE a \o <<0>> \o b

\* Mutant: only the first piece ends when it is full.
GroupedOnce(doc, paragraphs) ==
  LET put(acc, p) ==
        IF acc.size + Size(doc, p) > MaxChunk /\ acc.text # <<>> /\ acc.out = <<>>
        THEN [out |-> Append(acc.out, acc.text), text |-> p, size |-> Size(doc, p) + 2]
        ELSE [out |-> acc.out, text |-> Join(acc.text, p), size |-> acc.size + Size(doc, p) + 2]
  IN  Fold(put, [out |-> <<>>, text |-> <<>>, size |-> 0], paragraphs)

\* Paragraphs together as long as they fit.
Grouped(doc, paragraphs) ==
  LET put(acc, p) ==
        IF acc.size + Size(doc, p) > MaxChunk /\ acc.text # <<>>
        THEN [out |-> Append(acc.out, acc.text), text |-> p, size |-> Size(doc, p) + 2]
        ELSE [out |-> acc.out, text |-> Join(acc.text, p), size |-> acc.size + Size(doc, p) + 2]
  IN  Fold(put, [out |-> <<>>, text |-> <<>>, size |-> 0], paragraphs)

\* _split_long_block.
Pieces(doc, part) ==
  LET end == Grouped(doc, Paragraphs(doc, part))
  IN  IF Size(doc, part) <= MaxChunk THEN <<part>> ELSE Append(end.out, end.text)

\* _merge_small_chunks: a short piece takes in the next one of its heading.
Merge(doc, chunks) ==
  LET put(out, c) ==
        IF out # <<>> /\ Size(doc, Last(out).text) < MinChunk /\ Last(out).heading = c.heading
        THEN Append(Front(out), [heading |-> Last(out).heading, text |-> Join(Last(out).text, c.text)])
        ELSE Append(out, c)
  IN  Fold(put, <<>>, chunks)

Under(heading, texts) ==
  [i \in 1 .. Len(texts) |-> [heading |-> heading, text |-> texts[i]]]

Cuts(doc, blocks) ==
  LET cut(out, b) == out \o Under(b.heading, Pieces(doc, b.text))
  IN  Fold(cut, <<>>, blocks)

\* chunk_document, of a normalised document.
Chunks(doc) == Merge(doc, Cuts(doc, Blocks(doc)))

-----------------------------------------------------------------------------
(* Search.                                                                 *)

\* tokenize.
Tokens(words) == words \ StopWords

ChunkWords(doc, c) ==
  UNION {doc[i].words : i \in ToSet(c.text) \ {0}} \cup UNION ToSet(c.heading)

\* Mutant: a candidate needs a positive score, which a word has only as long
\* as most chunks lack it.
SharingByScore(doc, chunks, tokens) ==
  LET having(w) == {k \in 1 .. Len(chunks) : w \in ChunkWords(doc, chunks[k])}
  IN  {k \in 1 .. Len(chunks) :
         \E w \in tokens : k \in having(w) /\ 2 * Cardinality(having(w)) < Len(chunks)}

\* The chunks that share a token with the query.
Sharing(doc, chunks, tokens) ==
  {k \in 1 .. Len(chunks) : tokens \cap Tokens(ChunkWords(doc, chunks[k])) # {}}

Candidates(doc, query) == Sharing(doc, Chunks(doc), Tokens(query))

\* search_chunks: the best candidates, whichever those are.
Best(limit, found) == kSubset(Min({limit, Cardinality(found)}), found)
Results(doc, query, limit) == Best(limit, Candidates(doc, query))

-----------------------------------------------------------------------------
(* What chunks and search hold of one document.                            *)

InHeading(doc, i) == \E h \in ToSet(Headings(doc)) : i \in h.from .. h.to

\* What is written in a document.
Written(doc) == Select(doc, {l \in ToSet(doc) : ~Blank(l)})

Ink(doc) == {i \in 1 .. Len(doc) : ~Blank(doc[i])}
Body(doc) == {i \in Ink(doc) : ~InHeading(doc, i)}

\* Where a line belongs: under the last heading that ends before it.
Governing(doc, i) ==
  LET found == Headings(doc)
      above == {k \in 1 .. Len(found) : found[k].to < i}
  IN  IF above = {} THEN NoHeading ELSE <<doc[found[Max(above)].title].words>>

\* The lines of texts, but for the blank ones.
Kept(doc, texts) ==
  LET put(out, part) == out \o Select(part, Ink(doc))
  IN  Fold(put, <<>>, texts)

TextsOf(chunks) == [k \in 1 .. Len(chunks) |-> chunks[k].text]

LinesAreKept(doc) ==
  Kept(doc, TextsOf(Chunks(doc)))
    = Select(UpTo(Len(doc)), IF Body(doc) = {} THEN Ink(doc) ELSE Body(doc))

LinesKeepTheirHeading(doc) ==
  \A c \in ToSet(Chunks(doc)) : \A i \in ToSet(c.text) \ {0} :
    i \in Body(doc) => Governing(doc, i) = c.heading

ChunksAreShort(doc) ==
  \A c \in ToSet(Chunks(doc)) :
    \/ Size(doc, c.text) <= MaxChunk + MinChunk + 1
    \/ \E p \in ToSet(Paragraphs(doc, c.text)) : Size(doc, p) > MaxChunk

ChunksAreLong(doc) ==
  LET cs == Chunks(doc)
  IN  \A k \in 1 .. Len(cs) - 1 :
        Size(doc, cs[k].text) < MinChunk => cs[k].heading # cs[k + 1].heading

WordsFindTheirLines(doc) ==
  \A i \in Body(doc) : \A w \in Tokens(doc[i].words) :
    \E k \in Candidates(doc, {w}) : i \in ToSet(Chunks(doc)[k].text)

StopWordsFindNothing(doc) == Candidates(doc, StopWords) = {}

\* The same of every document there may be.
Documents == BoundedSeq(Lines, MaxLines)

TidyLosesNothing == \A d \in Documents : Written(Tidy(d)) = Written(d)
AllLinesAreKept == \A d \in Documents : LinesAreKept(Tidy(d)) /\ LinesKeepTheirHeading(Tidy(d))
AllChunksFit == \A d \in Documents : ChunksAreShort(Tidy(d)) /\ ChunksAreLong(Tidy(d))
AllWordsAreFound == \A d \in Documents : WordsFindTheirLines(Tidy(d)) /\ StopWordsFindNothing(Tidy(d))
=============================================================================
