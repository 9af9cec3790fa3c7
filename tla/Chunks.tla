-------------------------------- MODULE Chunks --------------------------------
(***************************************************************************)
(* From a parsed document to the chunks the rag service embeds: the items of  *)
(* the document are put together into pages, and every page, with the last   *)
(* words of the page before it in front, is cut into chunks by a strategy.   *)
(*                                                                          *)
(* A text is a sequence of characters; " " stands for white space (the text  *)
(* is normalised), "." ends a sentence, Upper are capital letters.  Settings *)
(* are a record: size, overlap (characters), tail (page_overlap_tokens) and  *)
(* probe, the number of characters of the tail that a chunk is compared to.  *)
(***************************************************************************)
EXTENDS Naturals, Sequences, FiniteSets, SequencesExt

Upper == {"X", "Y"}
\* SEPARATORS, those the alphabet has.
Separators == <<<<".", " ">>, <<" ">>, <<>>>>

Strip(text) ==
    LET in == {i \in DOMAIN text : text[i] # " "}
    IN  IF in = {} THEN <<>>
        ELSE SubSeq(text, CHOOSE i \in in : \A j \in in : i <= j,
                          CHOOSE i \in in : \A j \in in : i >= j)

\* str.split and str.join.
Places(sep, text) ==
    {i \in 1 .. (Len(text) + 1 - Len(sep)) : SubSeq(text, i, i + Len(sep) - 1) = sep}
RECURSIVE Split(_, _)
Split(text, sep) ==
    IF sep = <<>> THEN [i \in DOMAIN text |-> <<text[i]>>]
    ELSE LET at == Places(sep, text) IN
         IF at = {} THEN <<text>>
         ELSE LET i == CHOOSE i \in at : \A j \in at : i <= j
              IN  <<SubSeq(text, 1, i - 1)>> \o Split(SubSeq(text, i + Len(sep), Len(text)), sep)
Join(texts, sep) ==
    FoldLeft(LAMBDA a, t : IF a = <<>> THEN t ELSE a \o sep \o t, <<>>, texts)
Words(text) == SelectSeq(Split(text, <<" ">>), LAMBDA w : w # <<>>)

LastOf(s, n) == SubSeq(s, Len(s) + 1 - (IF n < Len(s) THEN n ELSE Len(s)), Len(s))

-----------------------------------------------------------------------------
(* RecursiveChunkerStrategy.                                                *)

\* Characters of the chunk before in front of a chunk, where they fit.
OverlapAlways(c, chunks) ==                         \* mutant: not compared
    [i \in DOMAIN chunks |->
        IF i = 1 THEN chunks[1]
        ELSE Strip(LastOf(chunks[i - 1], c.overlap) \o <<" ">> \o chunks[i])]
ApplyOverlap(c, chunks) ==
    [i \in DOMAIN chunks |->
        LET longer == Strip(LastOf(chunks[i - 1], c.overlap) \o <<" ">> \o chunks[i])
        IN  IF i = 1 \/ Len(longer) > c.size THEN chunks[i] ELSE longer]

Overlapped(c, chunks) ==
    IF c.overlap > 0 /\ Len(chunks) > 1 THEN ApplyOverlap(c, chunks) ELSE chunks

\* A chunk in the making is finished; the chunks, with the one in the making.
Finished(a) == IF a.current = <<>> THEN a.done ELSE Append(a.done, a.current)

\* The next piece: with the chunk in the making if they fit, the start of the
\* next if it fits alone, else in pieces of its own (deeper).
MergePiece(c, a, one, both, deeper) ==
    IF Len(both) <= c.size THEN [done |-> a.done, current |-> both]
    ELSE IF Len(one) <= c.size THEN [done |-> Finished(a), current |-> one]
    ELSE [done |-> Finished(a) \o deeper, current |-> <<>>]

\* The largest separator the text has cuts it; neighbours are put together
\* again while they fit, and what is too long alone is cut by the next.
FirstSeparator(text, seps) ==
    CHOOSE k \in DOMAIN seps :
        /\ seps[k] = <<>> \/ Places(seps[k], text) # {}
        /\ \A j \in 1 .. (k - 1) : Places(seps[j], text) = {}
RECURSIVE SplitBy(_, _, _, _)
SplitRecursive(c, text, seps) ==
    IF Len(text) <= c.size THEN SelectSeq(<<Strip(text)>>, LAMBDA t : t # <<>>)
    ELSE SplitBy(c, text, seps, FirstSeparator(text, seps))
SplitBy(c, text, seps, k) ==
    LET Merge(a, piece) ==
            MergePiece(c, a, Strip(piece),
                       Strip(IF a.current = <<>> THEN piece ELSE a.current \o seps[k] \o piece),
                       SplitRecursive(c, Strip(piece), SubSeq(seps, k + 1, Len(seps))))
    IN  Overlapped(c, Finished(FoldLeft(Merge, [done |-> <<>>, current |-> <<>>],
                                        Split(text, seps[k]))))

-----------------------------------------------------------------------------
(* SentenceChunkerStrategy.                                                 *)

\* A sentence ends where a full stop, a space and a capital follow.
SplitSentences(text) ==
    LET ends == {i \in DOMAIN text : i + 2 <= Len(text) /\ text[i] = "."
                                     /\ text[i + 1] = " " /\ text[i + 2] \in Upper}
        cuts == SetToSortSeq(ends, <)
        from == <<1>> \o [i \in DOMAIN cuts |-> cuts[i] + 2]
        to == cuts \o <<Len(text)>>
    IN  SelectSeq([i \in DOMAIN from |-> Strip(SubSeq(text, from[i], to[i]))],
                  LAMBDA s : s # <<>>)

\* The spaces between sentences are not counted.
AddSentence(c, a, s) ==
    IF Len(FlattenSeq(a.current)) + Len(s) > c.size /\ a.current # <<>>
    THEN [done |-> Append(a.done, a.current), current |-> <<s>>]
    ELSE [a EXCEPT !.current = Append(@, s)]
Grouped(c, text) ==
    Finished(FoldLeft(LAMBDA a, s : AddSentence(c, a, s),
                      [done |-> <<>>, current |-> <<>>], SplitSentences(text)))

\* The last sentence of the chunk before in front of a chunk, where it fits.
Repeated(c, before, chunk) ==
    IF before = <<>> \/ Len(Last(before) \o <<" ">> \o chunk) > c.size THEN chunk
    ELSE Last(before) \o <<" ">> \o chunk
RepeatSentences(c, chunks) ==
    [i \in DOMAIN chunks |->
        IF i = 1 \/ c.overlap = 0 THEN chunks[i]
        ELSE Repeated(c, SplitSentences(chunks[i - 1]), chunks[i])]
Joined(groups) == [i \in DOMAIN groups |-> Join(groups[i], <<" ">>)]
ChunkSentences(c, text) == RepeatSentences(c, Joined(Grouped(c, text)))

\* TextChunker picks the strategy; the semantic one is a library.
Chunk(c, text) == IF c.strategy = "sentence" THEN ChunkSentences(c, text)
                  ELSE SplitRecursive(c, text, Separators)

-----------------------------------------------------------------------------
(* Pages.                                                                   *)

\* The items of a document, put together by the page they are on; page 0 has
\* no number.
ExtractPages(items) ==
    LET numbers == SetToSortSeq({items[i].page : i \in DOMAIN items}, <)
    IN  [k \in DOMAIN numbers |->
            [page |-> numbers[k],
             text |-> LET on == SelectSeq(items, LAMBDA it : it.page = numbers[k])
                      IN  Join([i \in DOMAIN on |-> on[i].text], <<" ">>)]]

\* A chunk that begins as the tail does loses as many characters as it has.
WithoutTailAlways(c, tail, chunk) ==                \* mutant: not compared
    IF tail # <<>> THEN Strip(SubSeq(chunk, Len(tail) + 1, Len(chunk))) ELSE chunk
BeginsAs(c, tail, chunk) ==
    tail # <<>> /\ IsPrefix(SubSeq(tail, 1, IF c.probe < Len(tail) THEN c.probe ELSE Len(tail)), chunk)
WithoutTail(c, tail, chunk) ==
    IF BeginsAs(c, tail, chunk)
    THEN Strip(SubSeq(chunk, Len(tail) + 1, Len(chunk)))
    ELSE chunk

WithTail(tail, text) == IF tail = <<>> THEN text ELSE tail \o <<" ">> \o text
PageTail(c, text) == LET w == Words(text)
                   IN  IF Len(w) > c.tail THEN Join(LastOf(w, c.tail), <<" ">>) ELSE text

\* Every page but the blank ones, with the tail of the text before it.
KeptOf(c, tail, cut) ==
    SelectSeq([i \in DOMAIN cut |-> WithoutTail(c, tail, cut[i])], LAMBDA t : t # <<>>)
OnPage(page, texts) == [i \in DOMAIN texts |-> [page |-> page, text |-> texts[i]]]
AddCut(c, a, p, text, cut) ==
    [chunks |-> a.chunks \o OnPage(p.page, KeptOf(c, a.tail, cut)),
     tail |-> PageTail(c, text),
     repeats |-> a.repeats \/ \E i \in 2 .. Len(cut) : BeginsAs(c, a.tail, cut[i])]
AddText(c, a, p, text) == AddCut(c, a, p, text, Chunk(c, text))
AddPage(c, a, p) ==
    IF p.text = <<>> THEN a ELSE AddText(c, a, p, WithTail(a.tail, p.text))
ChunkDocument(c, items) ==
    FoldLeft(LAMBDA a, p : AddPage(c, a, p),
             [chunks |-> <<>>, tail |-> <<>>, repeats |-> FALSE], ExtractPages(items))
ChunkPages(c, items) == ChunkDocument(c, items).chunks

-----------------------------------------------------------------------------
(* Properties.                                                              *)

Letters(text) == SelectSeq(text, LAMBDA ch : ch \notin {" ", "."})
Within(s, t) ==                 \* s, with other letters between
    Len(s) = FoldLeft(LAMBDA k, x : IF k < Len(s) /\ s[k + 1] = x THEN k + 1 ELSE k, 0, t)

\* Whatever the text, no chunk of the recursive strategy is longer than
\* chunk_size, the characters repeated from the chunk before it included, and
\* without overlap the chunks are the text, no letter lost or said twice.
Fit(c, text, chunks) ==
    /\ \A i \in DOMAIN chunks : chunks[i] # <<>> /\ Len(chunks[i]) <= c.size
    /\ c.overlap = 0 => Letters(FlattenSeq(chunks)) = Letters(text)
ChunksFitIn(c, text) == Fit(c, text, SplitRecursive(c, text, Separators))

\* What is on a page of the document is in the chunks of that page, in its
\* order, unless a chunk that is not the page's first begins like the tail of
\* the page before and loses its beginning with it.
TextOn(page, chunks) ==
    FlattenSeq([i \in DOMAIN chunks |-> IF chunks[i].page = page THEN chunks[i].text ELSE <<>>])
Kept(pages, doc) ==
    ~doc.repeats =>
        \A p \in ToSet(pages) : Within(Letters(p.text), Letters(TextOn(p.page, doc.chunks)))
PagesKeptIn(c, items) == Kept(ExtractPages(items), ChunkDocument(c, items))
=============================================================================
