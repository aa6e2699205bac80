------------------------------ MODULE Chunking ------------------------------
(***************************************************************************)
(* How a text is cut into chunks (structure_chunks, rag/service.py): line  *)
(* by line, a paragraph is collected up to a heading or an empty line and  *)
(* then cut into windows of WindowSize words (180 in the code), each under *)
(* the heading in force.                                                   *)
(***************************************************************************)
EXTENDS Integers, Sequences, SequencesExt

CONSTANT WindowSize

ASSUME WindowAssumption == WindowSize \in Nat \ {0}

\* A stripped line: a heading ("#") with the words of its title, an empty line
\* or a line of text with its words.
Kinds == {"heading", "empty", "text"}

-----------------------------------------------------------------------------
Start(default) == [heading |-> default, buffer |-> <<>>, sections |-> <<>>]

Least(a, b) == IF a < b THEN a ELSE b

\* words[start : start + 180] for start in range(0, len(words), 180)
WindowsOf(words) ==
    [k \in 1 .. (Len(words) + WindowSize - 1) \div WindowSize |->
        SubSeq(words, (k - 1) * WindowSize + 1, Least(k * WindowSize, Len(words)))]

Flush(state) ==
    LET windows == WindowsOf(state.buffer) IN
    [state EXCEPT !.buffer = <<>>,
                  !.sections = @ \o [k \in 1 .. Len(windows) |->
                                        [heading |-> state.heading, words |-> windows[k]]]]

\* A heading without a title ends the paragraph and leaves the heading in force.
AfterLine(state, line) ==
    CASE line.kind = "heading" ->
            [Flush(state) EXCEPT !.heading = IF line.words = <<>> THEN @ ELSE line.words]
      [] line.kind = "empty" -> Flush(state)
      [] line.kind = "text" -> [state EXCEPT !.buffer = @ \o line.words]

StructureChunks(lines, default) ==
    Flush(FoldLeft(AfterLine, Start(default), lines)).sections

-----------------------------------------------------------------------------
(* What a retrieved chunk is taken for: a passage of the text under its     *)
(* heading.  The words of a line are told apart by line and place.          *)

Labelled(lines) ==
    [i \in 1 .. Len(lines) |->
        [kind |-> lines[i].kind, words |-> [j \in 1 .. lines[i].words |-> <<i, j>>]]]

TextOf(lines) ==
    FlattenSeq([i \in 1 .. Len(lines) |->
                    IF lines[i].kind = "text" THEN lines[i].words ELSE <<>>])

\* The title a line stands under.
HeadingAt(lines, i, default) ==
    LET titles == {k \in 1 .. (i - 1) : lines[k].kind = "heading" /\ lines[k].words # <<>>}
    IN  IF titles = {} THEN default
        ELSE lines[CHOOSE k \in titles : \A m \in titles : m <= k].words

SameParagraph(lines, i, j) == \A k \in i .. j : lines[k].kind = "text"

FirstLine(chunk) == Head(chunk.words)[1]
LastLine(chunk) == Last(chunk.words)[1]

\* The chunks are the text, word for word and in order; each is part of one
\* paragraph under the heading it names and no longer than the window, and a
\* paragraph is cut only where a window is full.
PassagesOf(lines, default, chunks) ==
    /\ FlattenSeq([n \in 1 .. Len(chunks) |-> chunks[n].words]) = TextOf(lines)
    /\ \A n \in 1 .. Len(chunks) :
        /\ Len(chunks[n].words) \in 1 .. WindowSize
        /\ SameParagraph(lines, FirstLine(chunks[n]), LastLine(chunks[n]))
        /\ chunks[n].heading = HeadingAt(lines, FirstLine(chunks[n]), default)
        /\ n < Len(chunks) /\ Len(chunks[n].words) < WindowSize
            => ~SameParagraph(lines, LastLine(chunks[n]), FirstLine(chunks[n + 1]))
=============================================================================
