------------------------------ MODULE PatchText ------------------------------
(***************************************************************************)
(* How the chunks of an Update File hunk change the lines of a file.       *)
(*                                                                         *)
(* A line is <<text, n>>: it differs from the plain <<text, 1>> by spaces  *)
(* at its end (2), at its start (3), or by look-alike punctuation (4), so  *)
(* at level n of the search the two are alike.  Indices count from 0, as   *)
(* in the code.                                                            *)
(***************************************************************************)
EXTENDS Integers, SequencesExt

CONSTANTS
  FileLines,    \* the lines that files are made of
  PatchLines,   \* the lines that old lines of chunks are made of
  MaxLines,     \* bound: lines of a file
  MaxOld,       \* bound: old lines of a chunk
  MaxChunks     \* bound: chunks of a hunk

ASSUME PatchTextAssumption == MaxLines \in Nat /\ MaxOld \in Nat /\ MaxChunks \in Nat

Blank == <<"", 1>>
NotFound == -1
Look(line, level) == IF line[2] <= level THEN <<line[1], 1>> ELSE line

LinesMatch(lines, pattern, i, level) ==
  \A j \in 1 .. Len(pattern) : Look(lines[i + j], level) = Look(pattern[j], level)

\* The first match from `start`, of the strictest of the four levels that has
\* one; a chunk at the end of the file is sought there only.
SeekSequence(lines, pattern, start, eof) ==
  LET from == IF eof THEN Len(lines) - Len(pattern) ELSE start
      at(level) == {i \in from .. Len(lines) - Len(pattern) :
                      LinesMatch(lines, pattern, i, level)}
      levels == {level \in 1 .. 4 : at(level) # {}} IN
  IF pattern = <<>> THEN start
  ELSE IF Len(pattern) > Len(lines) \/ levels = {} THEN NotFound
  ELSE Min(at(Min(levels)))

\* A chunk without old lines goes to the end, before a last blank line.
Insertion(lines) ==
  IF lines # <<>> /\ Last(lines) = Blank THEN Len(lines) - 1 ELSE Len(lines)

DropBlank(s) == IF s # <<>> /\ Last(s) = Blank THEN Front(s) ELSE s

Replacement(start, old, new) == [start |-> start, oldLen |-> Len(old), newLines |-> new]

\* One round of computeReplacements: what was found so far, and lineIndex.
Compute(lines, found, chunk) ==
  LET context == SeekSequence(lines, chunk.context, found.index, FALSE)
      index   == IF chunk.context = <<>> THEN found.index ELSE context + 1
      whole   == SeekSequence(lines, chunk.old, index, chunk.eof)
      short   == SeekSequence(lines, DropBlank(chunk.old), index, chunk.eof)
      place(start, old, new) ==
        [ok |-> TRUE, index |-> start + Len(old),
         list |-> Append(found.list, Replacement(start, old, new))]
      failed == [found EXCEPT !.ok = FALSE] IN
  IF ~found.ok \/ context = NotFound THEN failed
  ELSE IF chunk.old = <<>>
  THEN [place(Insertion(lines), <<>>, chunk.new) EXCEPT !.index = index]
  ELSE IF whole # NotFound THEN place(whole, chunk.old, chunk.new)
  ELSE IF Last(chunk.old) = Blank /\ short # NotFound
  THEN place(short, DropBlank(chunk.old), DropBlank(chunk.new))
  ELSE failed

ComputeReplacements(lines, chunks) ==
  FoldLeft(LAMBDA found, chunk : Compute(lines, found, chunk),
           [ok |-> TRUE, index |-> 0, list |-> <<>>], chunks)

Panic == [panic |-> TRUE, lines |-> <<>>]

\* Old lines are taken out as far as there are any; a start beyond the end is
\* a slice out of range.
ApplyOne(updated, item) ==
  LET cut == SubSeq(updated.lines, 1, item.start)
             \o SubSeq(updated.lines, item.start + item.oldLen + 1, Len(updated.lines)) IN
  IF updated.panic \/ item.start > Len(updated.lines) THEN Panic
  ELSE [panic |-> FALSE, lines |-> SubSeq(cut, 1, item.start) \o item.newLines
                                   \o SubSeq(cut, item.start + 1, Len(cut))]

ApplyInOrder(lines, list) ==  \* mutant: the first replacement is applied first
  FoldLeft(ApplyOne, [panic |-> FALSE, lines |-> lines], list)

\* From the last replacement to the first, in the order of the chunks.
ApplyReplacements(lines, list) ==
  FoldLeft(ApplyOne, [panic |-> FALSE, lines |-> lines], Reverse(list))

\* The lines of the text that is written: each ends with a newline, and a
\* blank last line stands for the newline of the line before it.
DeriveUpdatedContents(lines, chunks) ==
  DropBlank(ApplyReplacements(lines, ComputeReplacements(lines, chunks).list).lines)

-----------------------------------------------------------------------------
(* The inputs, one line and one chunk after the other.                     *)

VARIABLES
  original,  \* the lines of the file
  chunks     \* the chunks of the hunk

textVars == <<original, chunks>>

Chunks == [context : {<<>>} \cup {<<line>> : line \in PatchLines},
           old : UNION {[1 .. n -> PatchLines] : n \in 0 .. MaxOld},
           new : {<<>>, <<<<"new", 1>>>>}, eof : BOOLEAN]

TextInit == original = <<>> /\ chunks = <<>>

\* A chunk that was read has one line at least, of either kind.
AddLine == \E line \in FileLines :
  /\ chunks = <<>> /\ Len(original) < MaxLines
  /\ original' = Append(original, line)
  /\ UNCHANGED chunks
AddChunk == \E chunk \in Chunks :
  /\ Len(chunks) < MaxChunks /\ Len(chunk.old) + Len(chunk.new) > 0
  /\ chunks' = Append(chunks, chunk)
  /\ UNCHANGED original

TextNext == AddLine \/ AddChunk
TextSpec == TextInit /\ [][TextNext]_textVars

-----------------------------------------------------------------------------
(* Properties.                                                             *)

\* All replacements at once, on the lines as they were.
Spliced(lines, list) ==
  LET start(i) == IF i > Len(list) THEN Len(lines) ELSE list[i].start
      end(i) == IF i = 0 THEN 0 ELSE list[i].start + list[i].oldLen
      new(i) == IF i = 0 THEN <<>> ELSE list[i].newLines IN
  FlattenSeq([k \in 1 .. Len(list) + 1 |->
    new(k - 1) \o SubSeq(lines, end(k - 1) + 1, start(k))])

\* Places that lie within a file of n lines; places each behind the one before it.
Within(list, n) == \A k \in 1 .. Len(list) : list[k].start + list[k].oldLen <= n
Following(list) ==
  \A k \in 2 .. Len(list) : list[k - 1].start + list[k - 1].oldLen <= list[k].start

\* Chunks whose place is sought where the one before them ended.
Sought == Len(chunks) <= 1 \/ \A i \in DOMAIN chunks : chunks[i].old # <<>> /\ ~chunks[i].eof

\* Whatever the chunks, every place that is found lies within the file.  Places that
\* follow one another do not move each other: the lines become what all replacements at
\* once make of them, and none is out of range.  The places do follow one another when
\* every chunk is sought from where the one before it ended; a chunk without old lines,
\* or marked as the end of the file, may be placed before its predecessor, and of the
\* lines that this makes nothing is said.
ChunksSplice ==
  LET found == ComputeReplacements(original, chunks) IN
  found.ok =>
    /\ Within(found.list, Len(original))
    /\ Sought => Following(found.list)
    /\ Following(found.list) =>
         ApplyReplacements(original, found.list) =
           [panic |-> FALSE, lines |-> Spliced(original, found.list)]
=============================================================================
