------------------------------ MODULE Chunking ------------------------------
(***************************************************************************)
(* How a document becomes the passages that are retrieved                  *)
(* (knowledge/chunking.py): its lines are read into blocks that are not    *)
(* to be broken, the blocks are cut where they are too long, and the       *)
(* pieces are packed into chunks, each cited by a section and begun with   *)
(* the end of the one before.                                              *)
(*                                                                         *)
(* Text is a sequence of units, numbered through the document: a sentence  *)
(* of prose, a sentence of a dosage row, a row of a table.  A unit has its *)
(* estimated tokens, and estimates add up.                                 *)
(***************************************************************************)
EXTENDS Integers, Sequences, SequencesExt, FiniteSetsExt

CONSTANTS
    MinTokens, MaxTokens,
    OverlapPercent,   \* OVERLAP_RATIO
    MinMergeDepth,
    Headings,         \* headings a document may have: level and title
    Texts,            \* its other lines: kind, and tokens of their sentences
    MaxLines          \* lines of a document (bound)

VARIABLES
    phase,
    lines,      \* lines read
    units,      \* the units of the document: tokens, and whether a sentence ends
    path,       \* of parse_blocks
    buffer,     \* its units, and their kind
    kind,
    blocks,
    pieces,     \* what is still to be packed
    current,    \* of chunk_markdown: pieces, their section and their size
    currentPath,
    size,
    tail,       \* overlap_tail
    chunks

parsing == <<lines, units, path, buffer, kind, blocks>>
packing == <<pieces, current, currentPath, size, tail, chunks>>
vars == <<phase, parsing, packing>>

\* A document has a title and a first section, at least.
Init ==
    /\ phase = "parse"
    /\ lines = 0 /\ units = <<>> /\ path = <<"title", "section">>
    /\ buffer = <<>> /\ kind = "paragraph" /\ blocks = <<>>
    /\ pieces = <<>> /\ current = <<>> /\ currentPath = <<>> /\ size = 0
    /\ tail = <<>> /\ chunks = <<>>

-----------------------------------------------------------------------------
(* parse_blocks                                                            *)

TokensOf(text) ==
    LET sum[i \in 0..Len(text)] == IF i = 0 THEN 0 ELSE sum[i - 1] + units[text[i]].tokens
    IN  sum[Len(text)]

\* Mutant: a table that is too long is cut like prose.
AnyBlock(block) == TRUE

Splittable(block) == block.kind \notin {"table", "dose"}

\* flush.
Flushed == IF buffer = <<>> THEN blocks
           ELSE Append(blocks, [text |-> buffer, kind |-> kind, path |-> path])

ReadHeading ==
    /\ phase = "parse" /\ lines < MaxLines
    /\ \E h \in Headings :
          path' = Append(SubSeq(path, 1, Min({h.level - 1, Len(path)})), h.title)
    /\ blocks' = Flushed
    /\ buffer' = <<>> /\ kind' = "paragraph"
    /\ lines' = lines + 1
    /\ UNCHANGED <<phase, units, packing>>

\* A blank line ends a paragraph but not a table.
ReadBlank ==
    /\ phase = "parse" /\ lines < MaxLines /\ buffer # <<>>
    /\ IF kind = "table" THEN UNCHANGED <<blocks, buffer, kind>>
       ELSE blocks' = Flushed /\ buffer' = <<>> /\ kind' = "paragraph"
    /\ lines' = lines + 1
    /\ UNCHANGED <<phase, units, path, packing>>

\* A dosage row following prose stays with the prose that introduces it.
StaysWith(block, line) == block = line \/ (block = "paragraph" /\ line = "dose")

ReadText ==
    /\ phase = "parse" /\ lines < MaxLines
    /\ \E t \in Texts :
          LET n == Len(units)
              read == [i \in 1..Len(t.tokens) |-> n + i]
              stays == buffer = <<>> \/ StaysWith(kind, t.kind)
          IN  /\ units' = units \o [i \in 1..Len(t.tokens) |->
                             [tokens |-> t.tokens[i], stops |-> t.kind # "table"]]
              /\ blocks' = IF stays THEN blocks ELSE Flushed
              /\ buffer' = IF stays THEN buffer \o read ELSE read
              /\ kind' = t.kind
    /\ lines' = lines + 1
    /\ UNCHANGED <<phase, path, packing>>

-----------------------------------------------------------------------------
(* _split_long                                                             *)

\* What a block is cut into: its sentences, packed up to the window.
Cut(text) ==
    LET Add(cut, u) ==
            IF cut # <<>> /\ TokensOf(Last(cut)) + units[u].tokens <= MaxTokens
            THEN [cut EXCEPT ![Len(cut)] = Append(@, u)]
            ELSE Append(cut, <<u>>)
        cuts[i \in 0..Len(text)] == IF i = 0 THEN <<>> ELSE Add(cuts[i - 1], text[i])
    IN  cuts[Len(text)]

SplitLong(block) ==
    IF Splittable(block) /\ TokensOf(block.text) > MaxTokens
    THEN Cut(block.text) ELSE <<block.text>>

Parsed ==
    /\ phase = "parse"
    /\ phase' = "pack"
    /\ blocks' = Flushed
    /\ buffer' = <<>> /\ kind' = "paragraph"
    /\ pieces' = FlattenSeq([b \in DOMAIN blocks' |->
                     [i \in DOMAIN SplitLong(blocks'[b]) |->
                         [text |-> SplitLong(blocks'[b])[i], path |-> blocks'[b].path]]])
    /\ UNCHANGED <<lines, units, path, current, currentPath, size, tail, chunks>>

-----------------------------------------------------------------------------
(* chunk_markdown                                                          *)

Text(packed) == FlattenSeq([i \in DOMAIN packed |-> packed[i].text])

\* _tail: the last sentences of a text, to a number of tokens.  A sentence ends
\* where it stops, so that a table is one with the sentence that follows it.
Tail15(text) ==
    LET wanted == (TokensOf(text) * OverlapPercent) \div 100
        starts == {i \in DOMAIN text : i = 1 \/ units[text[i - 1]].stops}
        From(i) == SubSeq(text, i, Len(text))
        enough == {i \in starts : TokensOf(From(i)) >= wanted}
    IN  IF wanted <= 0 THEN <<>> ELSE From(Max(enough))

\* emit.
Emitted == Append(chunks, [body |-> current, tail |-> tail, path |-> currentPath])

\* _common_path: none, if it would be no more than the title of the document.
CommonPath(left, right) ==
    LET same == {n \in 0..Min({Len(left), Len(right)}) :
                    SubSeq(left, 1, n) = SubSeq(right, 1, n)}
    IN  IF Max(same) < MinMergeDepth THEN <<>> ELSE SubSeq(left, 1, Max(same))

Pack ==
    /\ phase = "pack" /\ pieces # <<>>
    /\ LET piece == Head(pieces)
           cost == TokensOf(piece.text)
           overflows == current # <<>> /\ size + cost > MaxTokens
           elsewhere == current # <<>> /\ ~overflows /\ piece.path # currentPath
           shared == CommonPath(currentPath, piece.path)
           merges == elsewhere /\ size < MinTokens /\ shared # <<>>
           ends == overflows \/ (elsewhere /\ ~merges)
           label == IF overflows THEN currentPath ELSE IF merges THEN shared ELSE piece.path
           body == IF ends THEN <<piece>> ELSE Append(current, piece)
           total == IF ends THEN cost ELSE size + cost
           before == IF ends THEN Tail15(Text(current)) ELSE tail
           emitted == IF ends THEN Emitted ELSE chunks
       IN  /\ currentPath' = label
           /\ IF total >= MaxTokens
              THEN /\ chunks' = Append(emitted, [body |-> body, tail |-> before, path |-> label])
                   /\ tail' = Tail15(Text(body))
                   /\ current' = <<>> /\ size' = 0
              ELSE /\ chunks' = emitted /\ tail' = before
                   /\ current' = body /\ size' = total
    /\ pieces' = Tail(pieces)
    /\ UNCHANGED <<phase, parsing>>

Finish ==
    /\ phase = "pack" /\ pieces = <<>>
    /\ phase' = "done"
    /\ chunks' = IF current = <<>> THEN chunks ELSE Emitted
    /\ UNCHANGED <<parsing, pieces, current, currentPath, size, tail>>

Next ==
    \/ ReadHeading \/ ReadBlank \/ ReadText \/ Parsed
    \/ Pack \/ Finish

Spec == Init /\ [][Next]_vars

-----------------------------------------------------------------------------
(* Properties                                                              *)

Done == phase = "done"
\* What a reader needs in one piece.
Whole(block) == block.kind \in {"table", "dose"}

Bodies == FlattenSeq([c \in DOMAIN chunks |-> chunks[c].body])

\* The chunks, without what they repeat of each other, are the document: nothing is
\* lost, doubled or out of order; a table and a dosage row are in one chunk, whole;
\* and a chunk exceeds the window only to keep one of them or one sentence whole.
ChunksCarryTheDocument ==
    Done =>
        /\ Text(Bodies) = [u \in 1..Len(units) |-> u]
        /\ \A b \in DOMAIN blocks : Whole(blocks[b]) =>
              \E p \in DOMAIN Bodies : Bodies[p].text = blocks[b].text
        /\ \A c \in DOMAIN chunks :
              LET body == chunks[c].body
              IN  TokensOf(Text(body)) > MaxTokens =>
                    Len(body) = 1 /\ (Len(body[1].text) = 1 \/
                        \E b \in DOMAIN blocks :
                            blocks[b].text = body[1].text /\ Whole(blocks[b]))

\* (violated) A chunk is cited by a section that all its text is of.  One that is
\* begun because the last one was full keeps the section of the last one.
CitedAsItsSection ==
    Done => \A c \in DOMAIN chunks : \A p \in DOMAIN chunks[c].body :
                IsPrefix(chunks[c].path, chunks[c].body[p].path)

\* (violated) A chunk repeats dosage rows and tables whole or not at all.  What it
\* repeats is cut at the end of a sentence, wherever that is.
RepeatsWholeBlocks ==
    Done => \A c \in DOMAIN chunks, b \in DOMAIN blocks :
        Whole(blocks[b]) /\ Range(chunks[c].tail) \cap Range(blocks[b].text) # {}
            => Range(blocks[b].text) \subseteq Range(chunks[c].tail)
=============================================================================
