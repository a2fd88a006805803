---------------------------- MODULE HeadTailBuffer ----------------------------
(***************************************************************************)
(* headTailBuffer: what a process printed since the last read, cut to a    *)
(* prefix and a suffix, with a count of the bytes left out between them.   *)
(* A buffer is a value; the operators return the buffer that the code      *)
(* changes in place.                                                       *)
(***************************************************************************)
EXTENDS Integers, Sequences

Least(a, b) == IF a <= b THEN a ELSE b
Most(a, b)  == IF a >= b THEN a ELSE b

Take(s, n) == SubSeq(s, 1, n)            \* s[:n]
Skip(s, n) == SubSeq(s, n + 1, Len(s))   \* s[n:]

NewBuffer(maxBytes) ==
  [maxBytes |-> Most(maxBytes, 0), head |-> << >>, tail |-> << >>, omitted |-> 0]

HeadBudget(maxBytes) == maxBytes \div 2
TailBudget(maxBytes) == maxBytes - HeadBudget(maxBytes)

PushChunkKeepingTail(buffer, chunk) ==     \* mutant: a long chunk is not cut
  LET headLength == Least(Len(chunk), Most(HeadBudget(buffer.maxBytes) - Len(buffer.head), 0))
      rest       == Skip(chunk, headLength)
      room       == Most(TailBudget(buffer.maxBytes) - Len(buffer.tail), 0)
      excess     == Most(Len(rest) - room, 0)
  IN [buffer EXCEPT
        !.head    = @ \o Take(chunk, headLength),
        !.omitted = @ + excess,
        !.tail    = IF excess < Len(@) THEN Skip(@, excess) \o rest ELSE rest]

\* Fill the head, then push out the oldest of the tail, and when that is not
\* enough the first bytes of the chunk itself.
PushChunk(buffer, chunk) ==
  LET headLength == Least(Len(chunk), Most(HeadBudget(buffer.maxBytes) - Len(buffer.head), 0))
      rest       == Skip(chunk, headLength)
      room       == Most(TailBudget(buffer.maxBytes) - Len(buffer.tail), 0)
      excess     == Most(Len(rest) - room, 0)
  IN [buffer EXCEPT
        !.head    = @ \o Take(chunk, headLength),
        !.omitted = @ + excess,
        !.tail    = IF excess < Len(@) THEN Skip(@, excess) \o rest
                    ELSE Skip(rest, excess - Len(@))]

TotalBytes(buffer) == Len(buffer.head) + Len(buffer.tail) + buffer.omitted

\* The budget of one tool result, applied to what was drained.
WithLimit(buffer, maxBytes) ==
  IF maxBytes >= Len(buffer.head) + Len(buffer.tail) THEN buffer
  ELSE LET limited == PushChunk(PushChunk(NewBuffer(maxBytes), buffer.head), buffer.tail)
       IN [limited EXCEPT !.omitted = @ + buffer.omitted]

-----------------------------------------------------------------------------
\* The reference: what a buffer of maxBytes must hold of everything printed.
HeadTail(printed, maxBytes) ==
  LET h == Least(Len(printed), HeadBudget(maxBytes))
      t == Least(Len(printed) - h, TailBudget(maxBytes))
  IN [maxBytes |-> maxBytes,
      head     |-> Take(printed, h),
      tail     |-> Skip(printed, Len(printed) - t),
      omitted  |-> Len(printed) - h - t]
=============================================================================
