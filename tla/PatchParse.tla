------------------------------ MODULE PatchParse ------------------------------
(***************************************************************************)
(* How the text of an apply_patch call is read.  A line is its kind; what  *)
(* it says is named by its number among the lines between the markers.     *)
(***************************************************************************)
EXTENDS Naturals, SequencesExt

CONSTANT MaxText  \* bound: lines between the markers

ASSUME PatchParseAssumption == MaxText \in Nat

Headers == {"add", "delete", "update"}
Markers == {"@@", "@@ context"}
Starred == Headers \cup {"move", "eof"}            \* the lines that begin with ***
Old == {"-", " ", ""}                              \* the lines a chunk looks for, ...
New == {"+", " ", ""}                              \* ... and those it puts there
PatchLineKinds == Starred \cup Markers \cup Old \cup New \cup {"junk"}

Hunk(kind, i) == [kind |-> kind, path |-> i, movedTo |-> 0, contents |-> <<>>, chunks |-> <<>>]
Chunk(context) == [context |-> context, old |-> <<>>, new |-> <<>>, eof |-> FALSE]

Failed == [at |-> "error", hunks |-> <<>>]
OnLast(s, at, hunk) == [at |-> at, hunks |-> Append(Front(s.hunks), hunk)]
LastChunk(hunk) == Last(hunk.chunks)
OnLastChunk(hunk, chunk) == [hunk EXCEPT !.chunks = Append(Front(@), chunk)]
Started(chunk) == chunk.old # <<>> \/ chunk.new # <<>>

\* A hunk begins, and with it the one before it ends.
ParseHeader(s, line, i) ==
  IF line \in Headers THEN [at |-> line, hunks |-> Append(s.hunks, Hunk(line, i))] ELSE Failed

\* What may follow a chunk: the next one, or the next hunk.
ParseNext(s, line, i) ==
  LET hunk == Last(s.hunks) IN
  IF line \in Starred THEN IF hunk.chunks = <<>> THEN Failed ELSE ParseHeader(s, line, i)
  ELSE IF line \in Markers
  THEN OnLast(s, "chunk", [hunk EXCEPT !.chunks =
                             Append(@, Chunk(IF line = "@@" THEN 0 ELSE i))])
  ELSE Failed

ParseChunkUnended(s, line, i) ==   \* mutant: the chunk goes on after the end of the file
  LET hunk == Last(s.hunks)  chunk == LastChunk(hunk) IN
  IF line \in Old \cup New
  THEN OnLast(s, "chunk", OnLastChunk(hunk,
         [chunk EXCEPT !.old = IF line \in Old THEN Append(@, i) ELSE @,
                       !.new = IF line \in New THEN Append(@, i) ELSE @]))
  ELSE IF ~Started(chunk) THEN Failed
  ELSE IF line = "eof" THEN OnLast(s, "chunk", OnLastChunk(hunk, [chunk EXCEPT !.eof = TRUE]))
  ELSE ParseNext(s, line, i)

\* parseUpdateChunk: a line of the chunk, its end of file, or what ends it.
ParseChunk(s, line, i) ==
  LET hunk == Last(s.hunks)  chunk == LastChunk(hunk) IN
  IF line \in Old \cup New
  THEN OnLast(s, "chunk", OnLastChunk(hunk,
         [chunk EXCEPT !.old = IF line \in Old THEN Append(@, i) ELSE @,
                       !.new = IF line \in New THEN Append(@, i) ELSE @]))
  ELSE IF ~Started(chunk) THEN Failed
  ELSE IF line = "eof" THEN OnLast(s, "chunks", OnLastChunk(hunk, [chunk EXCEPT !.eof = TRUE]))
  ELSE ParseNext(s, line, i)

\* Between the chunks of an Update File hunk; only the first may lack its marker.
ParseUpdate(s, line, i) ==
  LET hunk == Last(s.hunks) IN
  IF s.at = "update" /\ line = "move" THEN OnLast(s, "chunks", [hunk EXCEPT !.movedTo = i])
  ELSE IF line = "" THEN OnLast(s, "chunks", hunk)
  ELSE IF hunk.chunks = <<>> /\ line \notin Starred \cup Markers
  THEN ParseChunk(OnLast(s, "chunk", [hunk EXCEPT !.chunks = <<Chunk(0)>>]), line, i)
  ELSE ParseNext(s, line, i)

ParseOneHunk(s, line, i) ==
  CASE s.at = "error" -> Failed
    [] s.at = "add" /\ line = "+" ->
         OnLast(s, "add", [Last(s.hunks) EXCEPT !.contents = Append(@, i)])
    [] s.at = "chunk" -> ParseChunk(s, line, i)
    [] s.at \in {"update", "chunks"} -> ParseUpdate(s, line, i)
    [] OTHER -> ParseHeader(s, line, i)

BoundariesOK(lines) == lines # <<>> /\ Head(lines) = "begin" /\ Last(lines) = "end"

\* The lines between the markers; a here-document around them is taken off.
PatchBody(lines) ==
  LET inner == IF ~BoundariesOK(lines) /\ Len(lines) >= 4 /\ Head(lines) = "<<EOF"
                  /\ Last(lines) = "EOF"
               THEN Front(Tail(lines)) ELSE lines IN
  IF BoundariesOK(inner) THEN Front(Tail(inner)) ELSE <<"junk">>

ReadLines(body) ==
  FoldLeftDomain(LAMBDA s, i : ParseOneHunk(s, body[i], i), [at |-> "start", hunks |-> <<>>], body)

\* The hunks of a patch, none when it is refused.
ParsePatch(lines) ==
  LET end == ReadLines(PatchBody(lines))  last == Last(end.hunks) IN
  IF end.hunks = <<>> THEN <<>>
  ELSE IF last.kind = "update" /\ (last.chunks = <<>> \/ ~Started(LastChunk(last))) THEN <<>>
  ELSE end.hunks

-----------------------------------------------------------------------------
(* The inputs, line by line.                                               *)

VARIABLE patchText  \* the lines between the markers

ParseInit == patchText = <<>>
ParseNextLine == \E line \in PatchLineKinds :
  /\ Len(patchText) < MaxText
  /\ patchText = <<>> => line \in Headers
  /\ patchText' = Append(patchText, line)
ParseSpec == ParseInit /\ [][ParseNextLine]_patchText

-----------------------------------------------------------------------------
(* What the lines say, from where they stand.                              *)

\* s has the members of S in ascending order.
Ascending(s, S) == Range(s) = S /\ \A j, k \in DOMAIN s : j < k => s[j] < s[k]

HeaderLines(text) == {i \in DOMAIN text : text[i] \in Headers}

\* The lines of the hunk at line i: up to the next header.
HunkLines(text, i) == {k \in i .. Len(text) : \A j \in i + 1 .. k : text[j] \notin Headers}

\* Neither blank nor the new path.
Says(text, i, k) == text[k] # "" /\ ~(k = i + 1 /\ text[k] = "move")

\* The lines that begin the chunks of the hunk at line i: its markers, and its
\* first line that says something.
ChunkLines(text, i) ==
  {j \in HunkLines(text, i) \ {i} :
     \/ text[j] \in Markers
     \/ Says(text, i, j) /\ \A k \in i + 1 .. j - 1 : ~Says(text, i, k)}

\* The lines of the chunk at line j of that hunk, ...
ChunkPart(text, i, j) ==
  {k \in HunkLines(text, i) : k >= j /\ \A m \in ChunkLines(text, i) : m > j => m > k}

\* ... and those of some kinds that come before its end of file.
ChunkSays(text, i, j, kinds) ==
  {k \in ChunkPart(text, i, j) : text[k] \in kinds /\ \A m \in j .. k : text[m] # "eof"}

IsChunk(chunk, text, i, j) ==
  /\ chunk.context = IF text[j] = "@@ context" THEN j ELSE 0
  /\ Ascending(chunk.old, ChunkSays(text, i, j, Old))
  /\ Ascending(chunk.new, ChunkSays(text, i, j, New))
  /\ chunk.eof <=> \E k \in ChunkPart(text, i, j) : text[k] = "eof"

AreChunks(chunks, text, i) == \E starts \in [DOMAIN chunks -> ChunkLines(text, i)] :
  /\ Ascending(starts, ChunkLines(text, i))
  /\ \A n \in DOMAIN chunks : IsChunk(chunks[n], text, i, starts[n])

IsHunk(hunk, text, i) ==
  /\ hunk.kind = text[i] /\ hunk.path = i
  /\ hunk.movedTo = IF /\ text[i] = "update" /\ i + 1 \in HunkLines(text, i)
                       /\ text[i + 1] = "move"
                    THEN i + 1 ELSE 0
  /\ IF text[i] = "add" THEN Ascending(hunk.contents, HunkLines(text, i) \ {i})
     ELSE hunk.contents = <<>>
  /\ IF text[i] = "update" THEN AreChunks(hunk.chunks, text, i) ELSE hunk.chunks = <<>>

\* Every line after the header of a hunk has its place in it.
HunkFormed(text, i) ==
  LET lines == HunkLines(text, i) \ {i} IN
  CASE text[i] = "add"    -> \A k \in lines : text[k] = "+"
    [] text[i] = "delete" -> lines = {}
    [] text[i] = "update" ->
         /\ ChunkLines(text, i) # {}
         /\ \A j \in ChunkLines(text, i) : ChunkSays(text, i, j, Old \cup New) # {}
         /\ \A k \in lines :
              \/ text[k] \in Old \cup New \cup Markers \cup {"eof"}
              \/ text[k] = "move" /\ k = i + 1
         /\ \A k, m \in lines :  \* after the end of the file: blanks, or a marker
              /\ text[k] = "eof" /\ k < m
              /\ \A j \in k + 1 .. m : text[j] \notin Markers
              => text[m] = ""

WellFormed(text) == text # <<>> /\ \A i \in HeaderLines(text) : HunkFormed(text, i)

\* The hunks are those of the text, one for each header and in their order.
AreHunks(hunks, text) ==
  /\ Ascending([n \in DOMAIN hunks |-> hunks[n].path], HeaderLines(text))
  /\ \A n \in DOMAIN hunks : IsHunk(hunks[n], text, hunks[n].path)

\* A patch is read as its lines say, with and without a here-document around
\* it, and refused when a line has no place.
ReadAsWritten ==
  \A lines \in {<<"begin">> \o patchText \o <<"end">>,
                <<"<<EOF", "begin">> \o patchText \o <<"end", "EOF">>} :
    LET hunks == ParsePatch(lines) IN
    IF WellFormed(patchText) THEN AreHunks(hunks, patchText) ELSE hunks = <<>>
=============================================================================
