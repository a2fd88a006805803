------------------------------ MODULE PatchProofs ------------------------------
(***************************************************************************)
(* Proofs about patches.  Of PatchText, for any lines and chunks:          *)
(* replacing the chunks of a hunk one after the other is replacing them    *)
(* all at once.  Of PatchParse, for any text: what is read is what its     *)
(* lines say.  Of ApplyPatch, for any patches on any files: while no two   *)
(* of them work on one path at a time, no edit is lost but those of the    *)
(* file that a failing write has cut.                                      *)
(***************************************************************************)
EXTENDS PatchText, PatchParse, ApplyPatch, SequenceFacts, HeadTailBufferProofs

-----------------------------------------------------------------------------
(* The lines of a patched file.                                            *)

\* The least of some numbers.
LEMMA LeastOf ==
  ASSUME NEW S, S \subseteq Nat, S # {}
  PROVE  Min(S) \in S /\ \A y \in S : Min(S) <= y
<1>1. PICK x \in S : \A y \in S : ~(<<y, x>> \in OpToRel(<, Nat))
  BY NatLessThanWellFounded, WFMin
<1>2. x \in Nat /\ \A y \in S : y \in Nat
  OBVIOUS
<1>3. \A y \in S : ~(y < x)
  BY <1>1, <1>2 DEF OpToRel
<1>4. \A y \in S : x <= y
  BY <1>2, <1>3
<1> QED
  BY <1>4 DEF Min

\* Where a pattern is found it fits in, and not before the line to start from.
LEMMA SeekFits ==
  ASSUME NEW A, NEW lines \in Seq(A), NEW pattern \in Seq(A), pattern # <<>>,
         NEW start \in Nat, NEW eof \in BOOLEAN,
         SeekSequence(lines, pattern, start, eof) # NotFound
  PROVE  /\ SeekSequence(lines, pattern, start, eof) \in Nat
         /\ SeekSequence(lines, pattern, start, eof) + Len(pattern) <= Len(lines)
         /\ ~eof => start <= SeekSequence(lines, pattern, start, eof)
<1> DEFINE from   == IF eof THEN Len(lines) - Len(pattern) ELSE start
           at(level) == {i \in from .. Len(lines) - Len(pattern) :
                           LinesMatch(lines, pattern, i, level)}
           levels == {level \in 1 .. 4 : at(level) # {}}
           best   == at(Min(levels))
<1>1. Len(lines) \in Nat /\ Len(pattern) \in Nat
  BY LenProperties
<1>2. /\ Len(pattern) <= Len(lines) /\ levels # {}
      /\ SeekSequence(lines, pattern, start, eof) = Min(best)
  BY <1>1 DEF SeekSequence
<1>3. from \in Nat /\ (~eof => from = start)
  BY <1>1, <1>2
<1>4. levels \subseteq Nat
  OBVIOUS
<1> HIDE DEF from
<1>5. Min(levels) \in levels
  <2> HIDE DEF levels
  <2> QED
    BY <1>2, <1>4, LeastOf
<1>6. best # {} /\ best \subseteq from .. Len(lines) - Len(pattern)
  BY <1>5
<1> HIDE DEF best
<1>7. best \subseteq Nat
  BY <1>1, <1>3, <1>6
<1>8. Min(best) \in best
  BY <1>6, <1>7, LeastOf
<1>9. Min(best) \in from .. Len(lines) - Len(pattern)
  BY <1>6, <1>8
<1> QED
  BY <1>1, <1>2, <1>3, <1>9

LEMMA DropIs ==
  ASSUME NEW A, NEW s \in Seq(A)
  PROVE  DropBlank(s) \in Seq(A) /\ Len(DropBlank(s)) \in Nat
<1>1. CASE s # <<>> /\ Last(s) = Blank
  <2>1. Front(s) \in Seq(A)
    <3>1. Len(s) \in Nat /\ \A i \in 1 .. Len(s) - 1 : s[i] \in A
      BY LenProperties, ElementOfSeq
    <3>2. 1 \in Int /\ Len(s) - 1 \in Int
      BY <3>1
    <3> QED
      BY <3>1, <3>2, SubSeqProperties DEF Front
  <2>2. DropBlank(s) = Front(s)
    BY <1>1 DEF DropBlank
  <2> QED
    BY <2>1, <2>2, LenProperties
<1>2. CASE ~(s # <<>> /\ Last(s) = Blank)
  <2>1. DropBlank(s) = s
    BY <1>2 DEF DropBlank
  <2> QED
    BY <2>1, LenProperties
<1> QED
  BY <1>1, <1>2

\* What computeReplacements finds: places in a file of n lines, ...
Places(A) == [start : Nat, oldLen : Nat, newLines : Seq(A)]
\* ... that lie within it one after the other.
InOrder(list, n) ==
  /\ \A k \in 1 .. Len(list) : list[k].start + list[k].oldLen <= n
  /\ \A k \in 2 .. Len(list) : list[k - 1].start + list[k - 1].oldLen <= list[k].start

\* A round that begins behind all places that were found.
Behind(found, A, n) ==
  /\ found \in [ok : BOOLEAN, index : 0 .. n, list : Seq(Places(A))]
  /\ InOrder(found.list, n)
  /\ \A k \in 1 .. Len(found.list) : found.list[k].start + found.list[k].oldLen <= found.index

ChunkOf(A) == [context : Seq(A), old : Seq(A), new : Seq(A), eof : BOOLEAN]

LEMMA OneMorePlace ==
  ASSUME NEW A, NEW n \in Nat, NEW list \in Seq(Places(A)), InOrder(list, n),
         NEW place \in Places(A), place.start + place.oldLen <= n,
         \A k \in 1 .. Len(list) : list[k].start + list[k].oldLen <= place.start,
         NEW more, more = Append(list, place)
  PROVE  /\ more \in Seq(Places(A)) /\ InOrder(more, n)
         /\ Len(more) = Len(list) + 1
         /\ \A k \in 1 .. Len(list) + 1 :
              more[k].start + more[k].oldLen <= place.start + place.oldLen
<1>1. Len(list) \in Nat /\ \A k \in 1 .. Len(list) : list[k] \in Places(A)
  BY LenProperties, ElementOfSeq
<1>2. more \in Seq(Places(A))
  BY AppendProperties
<1>3. /\ Len(more) = Len(list) + 1 /\ more[Len(list) + 1] = place
      /\ \A k \in 1 .. Len(list) : more[k] = list[k]
  BY AppendProperties
<1>4. /\ place.start \in Nat /\ place.oldLen \in Nat
      /\ \A k \in 1 .. Len(list) : list[k].start \in Nat /\ list[k].oldLen \in Nat
  BY <1>1 DEF Places
<1>5. \A k \in 1 .. Len(list) + 1 : more[k].start + more[k].oldLen <= place.start + place.oldLen
  BY <1>1, <1>3, <1>4
<1>6. \A k \in 1 .. Len(more) : more[k].start + more[k].oldLen <= n
  BY <1>1, <1>3, <1>4 DEF InOrder
<1>7. \A k \in 2 .. Len(more) : more[k - 1].start + more[k - 1].oldLen <= more[k].start
  <2> SUFFICES ASSUME NEW k \in 2 .. Len(more)
               PROVE  more[k - 1].start + more[k - 1].oldLen <= more[k].start
    OBVIOUS
  <2>1. k - 1 \in 1 .. Len(list) /\ more[k - 1] = list[k - 1]
    BY <1>1, <1>3
  <2>2. CASE k = Len(list) + 1
    BY <2>1, <2>2, <1>3
  <2>3. CASE k # Len(list) + 1
    BY <2>1, <2>3, <1>1, <1>3 DEF InOrder
  <2> QED
    BY <2>2, <2>3
<1> QED
  BY <1>2, <1>3, <1>5, <1>6, <1>7 DEF InOrder

\* Where the chunk's place is sought from: behind its context, if it has one.
LEMMA ContextFound ==
  ASSUME NEW A, NEW lines \in Seq(A), NEW context \in Seq(A), NEW start \in 0 .. Len(lines),
         NEW found, found = SeekSequence(lines, context, start, FALSE), found # NotFound
  PROVE  IF context = <<>> THEN TRUE ELSE found + 1 \in start .. Len(lines)
<1> SUFFICES ASSUME context # <<>> PROVE found + 1 \in start .. Len(lines)
  OBVIOUS
<1>1. Len(lines) \in Nat /\ Len(context) \in Nat /\ Len(context) # 0 /\ start \in Nat
  BY LenProperties, EmptySeq
<1>2. FALSE \in BOOLEAN
  OBVIOUS
<1>3. found \in Nat /\ found + Len(context) <= Len(lines) /\ start <= found
  BY <1>1, <1>2, SeekFits
<1>4. \A f, s, c, n \in Nat : c # 0 /\ f + c <= n /\ s <= f => f + 1 \in s .. n
  OBVIOUS
<1> QED
  BY <1>1, <1>3, <1>4

\* One round of computeReplacements.
LEMMA Computed ==
  ASSUME NEW A, NEW lines \in Seq(A), NEW chunk \in ChunkOf(A), NEW found,
         Behind(found, A, Len(lines)), NEW r, r = Compute(lines, found, chunk), r.ok,
         (chunk.old # <<>> /\ ~chunk.eof) \/ Len(found.list) = 0
  PROVE  /\ found.ok
         /\ r \in [ok : BOOLEAN, index : Nat, list : Seq(Places(A))]
         /\ Len(r.list) = Len(found.list) + 1
         /\ InOrder(r.list, Len(lines))
         /\ chunk.old # <<>> => Behind(r, A, Len(lines))
<1> DEFINE context == SeekSequence(lines, chunk.context, found.index, FALSE)
           index   == IF chunk.context = <<>> THEN found.index ELSE context + 1
           full   == SeekSequence(lines, chunk.old, index, chunk.eof)
           short   == SeekSequence(lines, DropBlank(chunk.old), index, chunk.eof)
           place(start, old, new) ==
             [ok |-> TRUE, index |-> start + Len(old),
              list |-> Append(found.list, Replacement(start, old, new))]
           failed  == [found EXCEPT !.ok = FALSE]
           n       == Len(lines)
<1>1. n \in Nat /\ found \in [ok : BOOLEAN, index : 0 .. n, list : Seq(Places(A))]
  BY LenProperties DEF Behind
<1>2. /\ chunk.context \in Seq(A) /\ chunk.old \in Seq(A) /\ chunk.new \in Seq(A)
      /\ chunk.eof \in BOOLEAN
  BY DEF ChunkOf
<1>3. failed.ok = FALSE
  BY <1>1
<1>4. r = IF ~found.ok \/ context = NotFound THEN failed
          ELSE IF chunk.old = <<>>
          THEN [place(Insertion(lines), <<>>, chunk.new) EXCEPT !.index = index]
          ELSE IF full # NotFound THEN place(full, chunk.old, chunk.new)
          ELSE IF Last(chunk.old) = Blank /\ short # NotFound
          THEN place(short, DropBlank(chunk.old), DropBlank(chunk.new))
          ELSE failed
  BY DEF Compute
<1> HIDE DEF failed
<1>5. found.ok /\ context # NotFound
  BY <1>3, <1>4
<1>6. index \in found.index .. n /\ index \in Nat
  <2>1. found.index \in 0 .. n
    BY <1>1
  <2>2. IF chunk.context = <<>> THEN TRUE ELSE context + 1 \in found.index .. n
    BY <1>2, <1>5, <2>1, ContextFound
  <2> HIDE DEF context, n
  <2> QED
    BY <1>1, <2>1, <2>2
<1> HIDE DEF index, context
\* A place that was found, with the lines it takes out, and what that makes of the round.
<1>7. ASSUME NEW start \in Nat, NEW old \in Seq(A), NEW new \in Seq(A),
             start + Len(old) <= n, index <= start \/ Len(found.list) = 0
      PROVE  /\ place(start, old, new) \in [ok : BOOLEAN, index : Nat, list : Seq(Places(A))]
             /\ Len(place(start, old, new).list) = Len(found.list) + 1
             /\ InOrder(place(start, old, new).list, n)
             /\ Behind(place(start, old, new), A, n)
  <2> DEFINE p == Replacement(start, old, new)
  <2>1. Len(old) \in Nat
    BY <1>7, LenProperties
  <2>2. p \in Places(A) /\ p.start = start /\ p.oldLen = Len(old)
    BY <1>7, <2>1 DEF Replacement, Places
  <2>3. \A k \in 1 .. Len(found.list) : found.list[k].start + found.list[k].oldLen <= p.start
    <3>1. /\ \A k \in 1 .. Len(found.list) :
               found.list[k].start + found.list[k].oldLen <= found.index
          /\ Len(found.list) \in Nat
      BY <1>1, LenProperties DEF Behind
    <3>2. \A k \in 1 .. Len(found.list) :
            found.list[k].start \in Nat /\ found.list[k].oldLen \in Nat
      <4>1. \A k \in 1 .. Len(found.list) : found.list[k] \in Places(A)
        BY <1>1, ElementOfSeq
      <4> QED
        BY <4>1 DEF Places
    <3>3. CASE Len(found.list) = 0
      BY <3>3
    <3>4. CASE index <= start
      <4>1. found.index \in Nat /\ found.index <= index
        BY <1>1, <1>6
      <4>2. found.index <= p.start /\ p.start \in Nat
        BY <1>6, <1>7, <2>2, <3>4, <4>1
      <4> HIDE DEF p, n
      <4> TAKE k \in 1 .. Len(found.list)
      <4>5. found.list[k].start \in Nat /\ found.list[k].oldLen \in Nat
        BY <3>2
      <4>6. found.list[k].start + found.list[k].oldLen \in Nat
        <5>1. \A s, o \in Nat : s + o \in Nat
          OBVIOUS
        <5> QED
          BY ONLY <4>5, <5>1
      <4>7. found.list[k].start + found.list[k].oldLen <= found.index
        BY <3>1
      <4>3. PICK e \in Nat : /\ e = found.list[k].start + found.list[k].oldLen
                             /\ e <= found.index
        BY <4>6, <4>7
      <4>4. e <= p.start
        BY <4>1, <4>2, <4>3
      <4> QED
        BY <4>3, <4>4
    <3> QED
      BY <1>7, <3>3, <3>4
  <2> HIDE DEF p
  <2>4. InOrder(found.list, n)
    BY DEF Behind
  <2> DEFINE more == Append(found.list, p)
  <2>5. /\ more \in Seq(Places(A)) /\ InOrder(more, n) /\ Len(more) = Len(found.list) + 1
        /\ \A k \in 1 .. Len(found.list) + 1 : more[k].start + more[k].oldLen <= start + Len(old)
    <3> HIDE DEF n
    <3>0. PICK l : l = found.list
      OBVIOUS
    <3>1. n \in Nat /\ l \in Seq(Places(A)) /\ p \in Places(A)
      BY <1>1, <2>2, <3>0
    <3>2. p.start + p.oldLen <= n
      BY <1>7, <2>2
    <3>3. /\ more = Append(l, p) /\ InOrder(l, n)
          /\ \A k \in 1 .. Len(l) : l[k].start + l[k].oldLen <= p.start
      BY <2>3, <2>4, <3>0
    <3> HIDE DEF more
    <3>4. more \in Seq(Places(A)) /\ Len(more) = Len(l) + 1
      BY <3>1, <3>3, AppendProperties
    <3>5. InOrder(more, n)
      BY <3>1, <3>2, <3>3, OneMorePlace
    <3>6. \A k \in 1 .. Len(l) + 1 : more[k].start + more[k].oldLen <= p.start + p.oldLen
      BY <3>1, <3>2, <3>3, OneMorePlace
    <3> QED
      BY <2>2, <3>0, <3>4, <3>5, <3>6
  <2>6. place(start, old, new) = [ok |-> TRUE, index |-> start + Len(old), list |-> more]
    BY DEF p
  <2> HIDE DEF more, place
  <2>7. start + Len(old) \in 0 .. n /\ start + Len(old) \in Nat
    BY <1>1, <1>7, <2>1
  <2> HIDE DEF n
  <2> QED
    BY <2>5, <2>6, <2>7 DEF Behind
<1> HIDE DEF place
<1>8. CASE chunk.old = <<>>
  <2>1. r = [place(Insertion(lines), <<>>, chunk.new) EXCEPT !.index = index]
    BY <1>4, <1>5, <1>8
  <2>2. Insertion(lines) \in 0 .. n
    <3>1. lines # <<>> => n # 0
      BY EmptySeq
    <3> QED
      BY <1>1, <3>1 DEF Insertion
  <2>3. Len(found.list) = 0
    BY <1>8
  <2> DEFINE q == place(Insertion(lines), <<>>, chunk.new)
  <2>4. <<>> \in Seq(A) /\ Len(<<>>) = 0
    BY EmptySeq
  <2>5. Insertion(lines) \in Nat /\ Insertion(lines) + Len(<<>>) <= n
    BY <1>1, <2>2, <2>4
  <2>6. /\ q \in [ok : BOOLEAN, index : Nat, list : Seq(Places(A))]
        /\ Len(q.list) = Len(found.list) + 1 /\ InOrder(q.list, n)
    BY <1>2, <1>7, <2>3, <2>4, <2>5
  <2> HIDE DEF q
  <2>7. r = [q EXCEPT !.index = index]
    BY <2>1 DEF q
  <2> QED
    BY <1>5, <1>6, <1>8, <2>6, <2>7
<1>9. CASE chunk.old # <<>> /\ full # NotFound
  <2>1. r = place(full, chunk.old, chunk.new)
    BY <1>4, <1>5, <1>9
  <2>2. full \in Nat /\ full + Len(chunk.old) <= n /\ (~chunk.eof => index <= full)
    BY <1>2, <1>6, <1>9, SeekFits
  <2> HIDE DEF full
  <2>3. index <= full \/ Len(found.list) = 0
    BY <2>2
  <2> QED
    BY <1>2, <1>5, <1>7, <2>1, <2>2, <2>3
<1>10. CASE chunk.old # <<>> /\ full = NotFound
  <2>1. /\ Last(chunk.old) = Blank /\ short # NotFound
        /\ r = place(short, DropBlank(chunk.old), DropBlank(chunk.new))
    <3> HIDE DEF short, full
    <3> QED
      BY <1>3, <1>4, <1>5, <1>10
  <2>2. /\ DropBlank(chunk.old) \in Seq(A) /\ DropBlank(chunk.new) \in Seq(A)
        /\ Len(DropBlank(chunk.old)) \in Nat
    BY <1>2, DropIs
  <2> DEFINE old == DropBlank(chunk.old)
  <2>3. short \in Nat /\ short + Len(old) <= n /\ (~chunk.eof => index <= short)
    <3>1. CASE old = <<>>
      <4>1. short = index /\ Len(old) = 0
        BY <3>1 DEF SeekSequence
      <4> HIDE DEF short, old, n
      <4> QED
        BY <1>1, <1>6, <4>1
    <3>2. CASE old # <<>>
      <4> HIDE DEF old
      <4> QED
        BY <1>2, <1>6, <2>1, <2>2, <3>2, SeekFits DEF old
    <3> QED
      BY <3>1, <3>2
  <2> HIDE DEF short
  <2>4. index <= short \/ Len(found.list) = 0
    BY <2>3
  <2> QED
    BY <1>5, <1>7, <2>1, <2>2, <2>3, <2>4
<1> QED
  BY <1>8, <1>9, <1>10

-----------------------------------------------------------------------------
(* The three folds: over chunks, over replacements, and over the lines of  *)
(* a patch.                                                                *)

\* A round of one of them.
Round(of, lines, x, e) ==
  CASE of = "chunks"       -> Compute(lines, x, e)
    [] of = "replacements" -> ApplyOne(x, e)
    [] of = "lines"        -> ParseOneHunk(x, lines[e], e)

\* What the recursive function in FoldLeft computes, for any set of indices up to n.
Folded(f, of, lines, base, seq, n) ==
  f = [s \in SUBSET (1 .. n) |->
         IF s = {} THEN base ELSE Round(of, lines, f[s \ {Max(s)}], seq[Max(s)])]

LEMMA MaxIsLast ==
  ASSUME NEW n \in Nat, NEW s, s \subseteq 1 .. n, n \in s
  PROVE  Max(s) = n
<1>1. \A y \in s : n >= y
  OBVIOUS
<1>2. Max(s) \in s /\ Max(s) >= n
  BY <1>1 DEF Max
<1>3. Max(s) \in 1 .. n
  BY <1>2
<1> QED
  BY <1>2, <1>3

\* There is such a function,
LEMMA FoldExists ==
  ASSUME NEW of, NEW lines, NEW base, NEW seq, NEW n \in Nat
  PROVE  \E f : Folded(f, of, lines, base, seq, n)
<1> DEFINE P == {m \in Nat : \E f : Folded(f, of, lines, base, seq, m)}
<1>1. 0 \in P
  <2>1. \A s \in SUBSET (1 .. 0) : s = {}
    OBVIOUS
  <2>2. Folded([s \in SUBSET (1 .. 0) |-> base], of, lines, base, seq, 0)
    BY <2>1 DEF Folded
  <2> QED
    BY <2>2
<1>2. ASSUME NEW m \in P PROVE m + 1 \in P
  <2>0. m \in Nat /\ m + 1 \in Nat
    OBVIOUS
  <2>1. PICK f : Folded(f, of, lines, base, seq, m)
    OBVIOUS
  <2> DEFINE g == [s \in SUBSET (1 .. m + 1) |->
                     IF m + 1 \in s THEN Round(of, lines, f[s \ {m + 1}], seq[m + 1]) ELSE f[s]]
             rec(s) == IF s = {} THEN base
                       ELSE Round(of, lines, g[s \ {Max(s)}], seq[Max(s)])
  <2>2. \A s \in SUBSET (1 .. m + 1) :
          g[s] = IF m + 1 \in s THEN Round(of, lines, f[s \ {m + 1}], seq[m + 1]) ELSE f[s]
    OBVIOUS
  <2>3. \A s \in SUBSET (1 .. m) : s \in SUBSET (1 .. m + 1) /\ m + 1 \notin s /\ g[s] = f[s]
    <3>1. 1 .. m \subseteq 1 .. m + 1 /\ m + 1 \notin 1 .. m
      BY <2>0
    <3> HIDE DEF g
    <3> QED
      BY <2>2, <3>1
  <2>4. g = [s \in SUBSET (1 .. m + 1) |-> g[s]]
    OBVIOUS
  <2> HIDE DEF g
  <2>5. ASSUME NEW s \in SUBSET (1 .. m + 1) PROVE g[s] = rec(s)
    <3>1. CASE m + 1 \in s
      <4>1. Max(s) = m + 1
        BY <2>0, <3>1, MaxIsLast
      <4>2. s \ {m + 1} \in SUBSET (1 .. m)
        BY <2>0
      <4>3. g[s] = Round(of, lines, f[s \ {m + 1}], seq[m + 1])
        BY <2>2, <3>1
      <4>4. g[s \ {m + 1}] = f[s \ {m + 1}]
        BY <2>3, <4>2
      <4> QED
        BY <3>1, <4>1, <4>3, <4>4
    <3>2. CASE m + 1 \notin s
      <4>0. s \subseteq 1 .. m
        <5>1. \A x \in 1 .. m + 1 : x # m + 1 => x \in 1 .. m
          BY <2>0
        <5> QED
          BY <3>2, <5>1
      <4>1. s \in SUBSET (1 .. m) /\ s \ {Max(s)} \in SUBSET (1 .. m)
        BY <4>0
      <4>2. f[s] = IF s = {} THEN base ELSE Round(of, lines, f[s \ {Max(s)}], seq[Max(s)])
        BY <2>1, <4>1 DEF Folded
      <4>3. g[s] = f[s] /\ g[s \ {Max(s)}] = f[s \ {Max(s)}]
        BY <2>3, <4>1
      <4> QED
        BY <4>2, <4>3
    <3> QED
      BY <3>1, <3>2
  <2>6. g = [s \in SUBSET (1 .. m + 1) |-> rec(s)]
    <3> HIDE DEF rec
    <3> QED
      BY <2>4, <2>5
  <2> QED
    BY <2>0, <2>6 DEF Folded
<1> HIDE DEF P
<1>3. n \in P
  BY <1>1, <1>2, Induction
<1> QED
  BY <1>3 DEF P

\* and it goes through the sequence from its first element to its last.
Goes(f, of, lines, base, seq, n) ==
  /\ f[1 .. 0] = base
  /\ \A i \in 1 .. n : f[1 .. i] = Round(of, lines, f[1 .. i - 1], seq[i])

LEMMA FoldGoes ==
  ASSUME NEW of, NEW lines, NEW base, NEW seq, NEW n \in Nat, NEW f,
         Folded(f, of, lines, base, seq, n)
  PROVE  Goes(f, of, lines, base, seq, n)
<1>1. \A s \in SUBSET (1 .. n) :
        f[s] = IF s = {} THEN base ELSE Round(of, lines, f[s \ {Max(s)}], seq[Max(s)])
  BY DEF Folded
<1>2. f[1 .. 0] = base
  <2>1. 1 .. 0 = {} /\ {} \in SUBSET (1 .. n)
    OBVIOUS
  <2> QED
    BY <1>1, <2>1
<1>3. ASSUME NEW i \in 1 .. n
      PROVE  f[1 .. i] = Round(of, lines, f[1 .. i - 1], seq[i])
  <2>1. i \in Nat /\ 1 .. i \in SUBSET (1 .. n) /\ i \in 1 .. i /\ 1 .. i # {}
    OBVIOUS
  <2>2. Max(1 .. i) = i
    BY <2>1, MaxIsLast
  <2>3. (1 .. i) \ {i} = 1 .. i - 1
    BY <2>1
  <2> QED
    BY <1>1, <2>1, <2>2, <2>3
<1> QED
  BY <1>2, <1>3 DEF Goes

NothingFound == [ok |-> TRUE, index |-> 0, list |-> <<>>]

\* The rounds of computeReplacements.
LEMMA ComputeGoes ==
  ASSUME NEW lines, NEW T, NEW seq \in Seq(T)
  PROVE  \E h : /\ h[0] = NothingFound
                /\ \A i \in 1 .. Len(seq) : h[i] = Compute(lines, h[i - 1], seq[i])
                /\ ComputeReplacements(lines, seq) = h[Len(seq)]
<1> DEFINE D == DOMAIN seq
           rec(f) == [s \in SUBSET D |->
                        IF s = {} THEN NothingFound
                        ELSE LET x == Max(s) IN Compute(lines, f[s \ {x}], seq[x])]
           iter == CHOOSE f : f = rec(f)
           n    == Len(seq)
           h    == [i \in 0 .. n |-> iter[1 .. i]]
<1>1. D = 1 .. n /\ n \in Nat
  BY LenProperties
<1>2. ComputeReplacements(lines, seq) = iter[D]
  BY DEF ComputeReplacements, FoldLeft, MapThenFoldSet, NothingFound
<1>3. PICK f : Folded(f, "chunks", lines, NothingFound, seq, n)
  BY <1>1, FoldExists
<1>4. f = rec(f)
  BY <1>1, <1>3 DEF Folded, Round
<1>5. iter = rec(iter)
  <2> HIDE DEF rec
  <2> QED
    BY <1>4
<1> HIDE DEF iter
<1>6. Folded(iter, "chunks", lines, NothingFound, seq, n)
  BY <1>1, <1>5 DEF Folded, Round
<1>7. /\ iter[1 .. 0] = NothingFound
      /\ \A i \in 1 .. n : iter[1 .. i] = Round("chunks", lines, iter[1 .. i - 1], seq[i])
  BY <1>1, <1>6, FoldGoes DEF Goes
<1>8. \A i \in 0 .. n : h[i] = iter[1 .. i]
  OBVIOUS
<1>9. \A i \in 1 .. n : i \in 0 .. n /\ i - 1 \in 0 .. n
  BY <1>1
<1>10. 0 \in 0 .. n /\ n \in 0 .. n
  BY <1>1
<1> HIDE DEF h, n, D
<1>11. /\ h[0] = NothingFound
       /\ \A i \in 1 .. n : h[i] = Compute(lines, h[i - 1], seq[i])
       /\ ComputeReplacements(lines, seq) = h[n]
  BY <1>1, <1>2, <1>7, <1>8, <1>9, <1>10 DEF Round
<1> QED
  BY <1>11 DEF n

\* The rounds of applyReplacements, from the last replacement to the first.
LEMMA ApplyGoes ==
  ASSUME NEW lines, NEW T, NEW list \in Seq(T)
  PROVE  \E h : /\ h[0] = [panic |-> FALSE, lines |-> lines]
                /\ \A i \in 1 .. Len(list) : h[i] = ApplyOne(h[i - 1], list[Len(list) - i + 1])
                /\ ApplyReplacements(lines, list) = h[Len(list)]
<1> DEFINE items  == Reverse(list)
           D    == DOMAIN items
           full == [panic |-> FALSE, lines |-> lines]
           rec(f) == [s \in SUBSET D |->
                        IF s = {} THEN full
                        ELSE LET x == Max(s) IN ApplyOne(f[s \ {x}], items[x])]
           iter == CHOOSE f : f = rec(f)
           m    == Len(list)
           h    == [i \in 0 .. m |-> iter[1 .. i]]
<1>1. m \in Nat /\ D = 1 .. m /\ \A i \in 1 .. m : items[i] = list[(m - i) + 1]
  BY LenProperties DEF Reverse
<1>2. ApplyReplacements(lines, list) = iter[D]
  BY DEF ApplyReplacements, FoldLeft, MapThenFoldSet
<1> HIDE DEF items, m
<1>3. PICK f : Folded(f, "replacements", lines, full, items, m)
  <2> HIDE DEF full
  <2> QED
    BY <1>1, FoldExists
<1>4. f = rec(f)
  BY <1>1, <1>3 DEF Folded, Round
<1>5. iter = rec(iter)
  <2> HIDE DEF rec
  <2> QED
    BY <1>4
<1> HIDE DEF iter
<1> HIDE DEF full, D
<1>6. Folded(iter, "replacements", lines, full, items, m)
  BY <1>1, <1>5 DEF Folded, Round
<1> HIDE DEF h, rec
<1>7. /\ iter[1 .. 0] = full
      /\ \A i \in 1 .. m : iter[1 .. i] = Round("replacements", lines, iter[1 .. i - 1], items[i])
  <2>1. Goes(iter, "replacements", lines, full, items, m)
    BY <1>1, <1>6, FoldGoes
  <2> QED
    BY <2>1 DEF Goes
<1>8. \A i \in 0 .. m : h[i] = iter[1 .. i]
  BY DEF h
<1>9. \A i \in 1 .. m : i \in 0 .. m /\ i - 1 \in 0 .. m
  BY <1>1
<1>10. 0 \in 0 .. m /\ m \in 0 .. m
  BY <1>1
<1>11. /\ h[0] = full
       /\ \A i \in 1 .. m : h[i] = ApplyOne(h[i - 1], list[m - i + 1])
       /\ ApplyReplacements(lines, list) = h[m]
  BY <1>1, <1>2, <1>7, <1>8, <1>9, <1>10 DEF Round
<1> QED
  BY <1>11 DEF m, full

-----------------------------------------------------------------------------
(* What computeReplacements finds is in order.                             *)

\* A round that finds nothing leaves what was found.
LEMMA ComputeFails ==
  ASSUME NEW lines, NEW found, NEW chunk, NEW r, r = Compute(lines, found, chunk), ~r.ok
  PROVE  r = [found EXCEPT !.ok = FALSE]
<1> DEFINE context == SeekSequence(lines, chunk.context, found.index, FALSE)
           index   == IF chunk.context = <<>> THEN found.index ELSE context + 1
           full   == SeekSequence(lines, chunk.old, index, chunk.eof)
           short   == SeekSequence(lines, DropBlank(chunk.old), index, chunk.eof)
           place(start, old, new) ==
             [ok |-> TRUE, index |-> start + Len(old),
              list |-> Append(found.list, Replacement(start, old, new))]
           failed  == [found EXCEPT !.ok = FALSE]
<1>1. r = IF ~found.ok \/ context = NotFound THEN failed
          ELSE IF chunk.old = <<>>
          THEN [place(Insertion(lines), <<>>, chunk.new) EXCEPT !.index = index]
          ELSE IF full # NotFound THEN place(full, chunk.old, chunk.new)
          ELSE IF Last(chunk.old) = Blank /\ short # NotFound
          THEN place(short, DropBlank(chunk.old), DropBlank(chunk.new))
          ELSE failed
  BY DEF Compute
<1> HIDE DEF failed, context, full, short, index
<1>2. \A start, old, new : place(start, old, new).ok = TRUE
  OBVIOUS
<1>3. \A start, old, new, i : [place(start, old, new) EXCEPT !.index = i].ok = TRUE
  OBVIOUS
<1> HIDE DEF place
<1>4. r = failed
  BY <1>1, <1>2, <1>3
<1> QED
  BY <1>4 DEF failed

\* What was found, within a file of n lines, in whatever order.
FoundIn(found, A, n) ==
  /\ found \in [ok : BOOLEAN, index : 0 .. n, list : Seq(Places(A))]
  /\ Within(found.list, n)

\* One round of computeReplacements, for any chunk.
LEMMA ComputedWithin ==
  ASSUME NEW A, NEW lines \in Seq(A), NEW chunk \in ChunkOf(A), NEW found,
         FoundIn(found, A, Len(lines)), NEW r, r = Compute(lines, found, chunk), r.ok
  PROVE  FoundIn(r, A, Len(lines))
<1> DEFINE context == SeekSequence(lines, chunk.context, found.index, FALSE)
           index   == IF chunk.context = <<>> THEN found.index ELSE context + 1
           full   == SeekSequence(lines, chunk.old, index, chunk.eof)
           short   == SeekSequence(lines, DropBlank(chunk.old), index, chunk.eof)
           place(start, old, new) ==
             [ok |-> TRUE, index |-> start + Len(old),
              list |-> Append(found.list, Replacement(start, old, new))]
           failed  == [found EXCEPT !.ok = FALSE]
           n       == Len(lines)
<1>1. n \in Nat /\ found \in [ok : BOOLEAN, index : 0 .. n, list : Seq(Places(A))]
  BY LenProperties DEF FoundIn
<1>2. /\ chunk.context \in Seq(A) /\ chunk.old \in Seq(A) /\ chunk.new \in Seq(A)
      /\ chunk.eof \in BOOLEAN
  BY DEF ChunkOf
<1>3. failed.ok = FALSE
  BY <1>1
<1>4. r = IF ~found.ok \/ context = NotFound THEN failed
          ELSE IF chunk.old = <<>>
          THEN [place(Insertion(lines), <<>>, chunk.new) EXCEPT !.index = index]
          ELSE IF full # NotFound THEN place(full, chunk.old, chunk.new)
          ELSE IF Last(chunk.old) = Blank /\ short # NotFound
          THEN place(short, DropBlank(chunk.old), DropBlank(chunk.new))
          ELSE failed
  BY DEF Compute
<1> HIDE DEF failed
<1>5. found.ok /\ context # NotFound
  BY <1>3, <1>4
<1>6. index \in 0 .. n /\ index \in Nat
  <2>1. found.index \in 0 .. n
    BY <1>1
  <2>2. IF chunk.context = <<>> THEN TRUE ELSE context + 1 \in found.index .. n
    BY <1>2, <1>5, <2>1, ContextFound
  <2> HIDE DEF context, n
  <2> QED
    BY <1>1, <2>1, <2>2
<1> HIDE DEF index, context
\* A place that was found, and what that makes of the round.
<1>7. ASSUME NEW start \in Nat, NEW old \in Seq(A), NEW new \in Seq(A), start + Len(old) <= n
      PROVE  FoundIn(place(start, old, new), A, n)
  <2> DEFINE p    == Replacement(start, old, new)
             more == Append(found.list, p)
  <2>1. Len(old) \in Nat
    BY <1>7, LenProperties
  <2>2. p \in Places(A) /\ p.start = start /\ p.oldLen = Len(old)
    BY <1>7, <2>1 DEF Replacement, Places
  <2>3. place(start, old, new) = [ok |-> TRUE, index |-> start + Len(old), list |-> more]
    OBVIOUS
  <2> HIDE DEF p, place, n
  <2>4. Len(found.list) \in Nat /\ found.list \in Seq(Places(A))
    BY <1>1, LenProperties
  <2>5. /\ more \in Seq(Places(A)) /\ Len(more) = Len(found.list) + 1
        /\ more[Len(found.list) + 1] = p
        /\ \A k \in 1 .. Len(found.list) : more[k] = found.list[k]
    BY <2>2, <2>4, AppendProperties
  <2>6. \A k \in 1 .. Len(found.list) : found.list[k].start + found.list[k].oldLen <= n
    BY DEF FoundIn, Within, n
  <2> HIDE DEF more
  <2>7. \A k \in 1 .. Len(more) : more[k].start + more[k].oldLen <= n
    <3> TAKE k \in 1 .. Len(more)
    <3>1. CASE k = Len(found.list) + 1
      BY <1>7, <2>2, <2>5, <3>1
    <3>2. CASE k # Len(found.list) + 1
      <4>1. k \in 1 .. Len(found.list)
        BY <2>4, <2>5, <3>2
      <4> QED
        BY <2>5, <2>6, <4>1
    <3> QED
      BY <3>1, <3>2
  <2>8. start + Len(old) \in 0 .. n
    BY <1>1, <1>7, <2>1
  <2> QED
    BY <2>3, <2>5, <2>7, <2>8 DEF FoundIn, Within
<1> HIDE DEF place
<1>8. CASE chunk.old = <<>>
  <2> DEFINE q == place(Insertion(lines), <<>>, chunk.new)
  <2>1. r = [q EXCEPT !.index = index]
    BY <1>4, <1>5, <1>8
  <2>2. Insertion(lines) \in 0 .. n
    <3>1. lines # <<>> => n # 0
      BY EmptySeq
    <3> QED
      BY <1>1, <3>1 DEF Insertion
  <2>3. <<>> \in Seq(A) /\ Len(<<>>) = 0
    BY EmptySeq
  <2>4. Insertion(lines) \in Nat /\ Insertion(lines) + Len(<<>>) <= n
    BY <1>1, <2>2, <2>3
  <2>5. FoundIn(q, A, n)
    BY <1>2, <1>7, <2>3, <2>4
  <2> HIDE DEF q, n
  <2> QED
    BY <1>6, <2>1, <2>5 DEF FoundIn, n
<1>9. CASE chunk.old # <<>> /\ full # NotFound
  <2>1. r = place(full, chunk.old, chunk.new)
    BY <1>4, <1>5, <1>9
  <2>2. full \in Nat /\ full + Len(chunk.old) <= n
    BY <1>2, <1>6, <1>9, SeekFits
  <2> HIDE DEF full
  <2> QED
    BY <1>2, <1>7, <2>1, <2>2
<1>10. CASE chunk.old # <<>> /\ full = NotFound
  <2>1. /\ Last(chunk.old) = Blank /\ short # NotFound
        /\ r = place(short, DropBlank(chunk.old), DropBlank(chunk.new))
    <3> HIDE DEF short, full
    <3> QED
      BY <1>3, <1>4, <1>5, <1>10
  <2>2. /\ DropBlank(chunk.old) \in Seq(A) /\ DropBlank(chunk.new) \in Seq(A)
        /\ Len(DropBlank(chunk.old)) \in Nat
    BY <1>2, DropIs
  <2> DEFINE old == DropBlank(chunk.old)
  <2>3. short \in Nat /\ short + Len(old) <= n
    <3>1. CASE old = <<>>
      <4>1. short = index /\ Len(old) = 0
        BY <3>1 DEF SeekSequence
      <4> HIDE DEF short, old, n
      <4> QED
        BY <1>1, <1>6, <4>1
    <3>2. CASE old # <<>>
      <4> HIDE DEF old
      <4> QED
        BY <1>2, <1>6, <2>1, <2>2, <3>2, SeekFits DEF old
    <3> QED
      BY <3>1, <3>2
  <2> HIDE DEF short
  <2> QED
    BY <1>7, <2>1, <2>2, <2>3
<1> QED
  BY <1>8, <1>9, <1>10

LEMMA ReplacementsWithin ==
  ASSUME NEW A, NEW lines \in Seq(A), NEW chs \in Seq(ChunkOf(A)),
         NEW found, found = ComputeReplacements(lines, chs), found.ok
  PROVE  found.list \in Seq(Places(A)) /\ Within(found.list, Len(lines))
<1>1. Len(lines) \in Nat /\ Len(chs) \in Nat
  BY LenProperties
<1>2. PICK h : /\ h[0] = NothingFound
               /\ \A i \in 1 .. Len(chs) : h[i] = Compute(lines, h[i - 1], chs[i])
               /\ found = h[Len(chs)]
  BY ComputeGoes
<1> DEFINE P == {m \in Nat : m <= Len(chs) => FoundIn(h[m], A, Len(lines))}
<1>3. 0 \in P
  <2>1. << >> \in Seq(Places(A)) /\ Len(<< >>) = 0 /\ 0 \in 0 .. Len(lines)
    BY <1>1, EmptySeq
  <2>2. Within(<< >>, Len(lines))
    BY <2>1 DEF Within
  <2>3. NothingFound \in [ok : BOOLEAN, index : 0 .. Len(lines), list : Seq(Places(A))]
    BY <2>1 DEF NothingFound
  <2>4. NothingFound.list = << >>
    BY DEF NothingFound
  <2>5. FoundIn(h[0], A, Len(lines))
    BY <1>2, <2>2, <2>3, <2>4 DEF FoundIn
  <2> QED
    BY <2>5
<1>4. ASSUME NEW m \in P PROVE m + 1 \in P
  <2> SUFFICES ASSUME m + 1 <= Len(chs) PROVE FoundIn(h[m + 1], A, Len(lines))
    OBVIOUS
  <2>1. m \in Nat /\ m + 1 \in 1 .. Len(chs) /\ (m + 1) - 1 = m
    BY <1>1
  <2>2. FoundIn(h[m], A, Len(lines))
    BY <1>1, <2>1
  <2>3. h[m + 1] = Compute(lines, h[m], chs[m + 1]) /\ chs[m + 1] \in ChunkOf(A)
    BY <1>2, <2>1, ElementOfSeq
  <2>4. CASE h[m + 1].ok
    BY <2>2, <2>3, <2>4, ComputedWithin
  <2>5. CASE ~h[m + 1].ok
    <3>1. h[m + 1] = [h[m] EXCEPT !.ok = FALSE]
      BY <2>3, <2>5, ComputeFails
    <3> QED
      BY <2>2, <3>1 DEF FoundIn
  <2> QED
    BY <2>4, <2>5
<1> HIDE DEF P
<1>5. Len(chs) \in P
  BY <1>1, <1>3, <1>4, Induction
<1>6. FoundIn(found, A, Len(lines))
  BY <1>1, <1>2, <1>5 DEF P
<1> QED
  BY <1>6 DEF FoundIn

\* Chunks whose place is sought where the one before them ended.
SoughtIn(chs) == \A i \in 1 .. Len(chs) : chs[i].old # <<>> /\ ~chs[i].eof

LEMMA ReplacementsInOrder ==
  ASSUME NEW A, NEW lines \in Seq(A), NEW chs \in Seq(ChunkOf(A)),
         Len(chs) <= 1 \/ SoughtIn(chs),
         NEW found, found = ComputeReplacements(lines, chs), found.ok
  PROVE  found.list \in Seq(Places(A)) /\ InOrder(found.list, Len(lines))
<1>1. Len(lines) \in Nat /\ Len(chs) \in Nat
  BY LenProperties
<1>2. PICK h : /\ h[0] = NothingFound
               /\ \A i \in 1 .. Len(chs) : h[i] = Compute(lines, h[i - 1], chs[i])
               /\ found = h[Len(chs)]
  BY ComputeGoes
<1>3. \A i \in 1 .. Len(chs) : chs[i] \in ChunkOf(A)
  BY ElementOfSeq
<1>4. Behind(h[0], A, Len(lines)) /\ Len(h[0].list) = 0
  <2>1. << >> \in Seq(Places(A)) /\ Len(<< >>) = 0
    BY EmptySeq
  <2>2. 0 \in 0 .. Len(lines)
    BY <1>1
  <2>3. InOrder(<< >>, Len(lines))
    BY <2>1 DEF InOrder
  <2>4. NothingFound \in [ok : BOOLEAN, index : 0 .. Len(lines), list : Seq(Places(A))]
    BY <2>1, <2>2 DEF NothingFound
  <2>5. NothingFound.list = << >>
    BY DEF NothingFound
  <2> QED
    BY <1>2, <2>1, <2>3, <2>4, <2>5 DEF Behind
<1>5. CASE Len(chs) = 0
  BY <1>2, <1>4, <1>5 DEF Behind
<1>6. CASE Len(chs) = 1
  <2>1. found = Compute(lines, h[0], chs[1]) /\ chs[1] \in ChunkOf(A)
    BY <1>2, <1>3, <1>6
  <2> QED
    BY <1>4, <2>1, Computed
<1>7. CASE SoughtIn(chs)
  <2> DEFINE P == {m \in Nat : m <= Len(chs) => Behind(h[m], A, Len(lines))}
  <2>1. 0 \in P
    BY <1>4
  <2>2. ASSUME NEW m \in P PROVE m + 1 \in P
    <3> SUFFICES ASSUME m + 1 <= Len(chs) PROVE Behind(h[m + 1], A, Len(lines))
      OBVIOUS
    <3>1. m \in Nat /\ m + 1 \in 1 .. Len(chs) /\ (m + 1) - 1 = m
      BY <1>1
    <3>2. Behind(h[m], A, Len(lines))
      BY <1>1, <3>1
    <3>3. h[m + 1] = Compute(lines, h[m], chs[m + 1]) /\ chs[m + 1] \in ChunkOf(A)
      BY <1>2, <1>3, <3>1
    <3>4. CASE h[m + 1].ok
      <4>1. chs[m + 1].old # <<>> /\ ~chs[m + 1].eof
        BY <1>7, <3>1 DEF SoughtIn
      <4> QED
        BY <3>2, <3>3, <3>4, <4>1, Computed
    <3>5. CASE ~h[m + 1].ok
      <4>1. h[m + 1] = [h[m] EXCEPT !.ok = FALSE]
        BY <3>3, <3>5, ComputeFails
      <4> QED
        BY <3>2, <4>1 DEF Behind
    <3> QED
      BY <3>4, <3>5
  <2> HIDE DEF P
  <2>3. Len(chs) \in P
    BY <1>1, <2>1, <2>2, Induction
  <2>4. Behind(found, A, Len(lines))
    BY <1>1, <1>2, <2>3 DEF P
  <2> QED
    BY <2>4 DEF Behind
<1>8. Len(chs) = 0 \/ Len(chs) = 1 \/ SoughtIn(chs)
  <2>1. \A k \in Nat : k <= 1 => k = 0 \/ k = 1
    OBVIOUS
  <2>2. Len(chs) <= 1 \/ SoughtIn(chs)
    OBVIOUS
  <2> QED
    BY <1>1, <2>1, <2>2
<1> QED
  BY <1>5, <1>6, <1>7, <1>8

-----------------------------------------------------------------------------
(* What applyReplacements makes of it.                                     *)

\* The lines between two places.
Between(lines, from, to) == SubSeq(lines, from + 1, to)

LEMMA BetweenIs ==
  ASSUME NEW A, NEW lines \in Seq(A), NEW from \in 0 .. Len(lines), NEW to \in from .. Len(lines)
  PROVE  /\ Between(lines, from, to) \in Seq(A)
         /\ Take(lines, from) \in Seq(A) /\ Len(Take(lines, from)) = from
         /\ Take(lines, from) \o Between(lines, from, to) = Take(lines, to)
<1>1. Len(lines) \in Nat /\ from \in Nat /\ to \in Nat
  BY LenProperties
<1>2. Take(lines, from) \in Seq(A) /\ Len(Take(lines, from)) = from
  BY TakeIs
<1>3. Between(lines, from, to) \in Seq(A)
  <2>1. \A i \in from + 1 .. to : lines[i] \in A
    BY <1>1, ElementOfSeq
  <2>2. from + 1 \in Int /\ to \in Int
    BY <1>1
  <2> QED
    BY <2>1, <2>2, SubSeqProperties DEF Between
<1>4. Take(lines, from) \o Between(lines, from, to) = Take(lines, to)
  <2>1. 1 \in 1 .. Len(lines) + 1 /\ from \in 1 - 1 .. Len(lines)
    BY <1>1
  <2> QED
    BY <2>1, ConcatAdjacentSubSeq DEF Take, Between
<1> QED
  BY <1>2, <1>3, <1>4

\* Where a text is cut within its first part, or where that ends.
LEMMA CutWithin ==
  ASSUME NEW A, NEW s \in Seq(A), NEW t \in Seq(A), NEW n \in 0 .. Len(s)
  PROVE  Take(s \o t, n) = Take(s, n) /\ Skip(s \o t, n) = Skip(s, n) \o t
<1>1. Len(s) \in Nat /\ Len(t) \in Nat
  BY LenProperties
<1>2. n \in 0 .. Len(s) + Len(t) /\ n <= Len(s)
  BY <1>1
<1>3. Take(s \o t, n) = IF n <= Len(s) THEN Take(s, n) ELSE s \o Take(t, n - Len(s))
  BY <1>2, TakeConcat
<1>4. Skip(s \o t, n) = IF n <= Len(s) THEN Skip(s, n) \o t ELSE Skip(t, n - Len(s))
  BY <1>2, SkipConcat
<1> QED
  BY <1>2, <1>3, <1>4

LEMMA CutAtSeam ==
  ASSUME NEW A, NEW s \in Seq(A), NEW t \in Seq(A), NEW n, n = Len(s)
  PROVE  Take(s \o t, n) = s /\ Skip(s \o t, n) = t
<1>1. n \in 0 .. Len(s)
  BY LenProperties
<1>2. Take(s \o t, n) = Take(s, n) /\ Skip(s \o t, n) = Skip(s, n) \o t
  BY <1>1, CutWithin
<1>3. Take(s, n) = s /\ Skip(s, n) = << >>
  BY Ends
<1> QED
  BY <1>2, <1>3, ConcatEmptySeq

\* A prefix of the file is taken up to `to`; its lines from `from` on are those between.
LEMMA SkipOfTake ==
  ASSUME NEW A, NEW lines \in Seq(A), NEW from \in 0 .. Len(lines), NEW to \in from .. Len(lines)
  PROVE  Skip(Take(lines, to), from) = Between(lines, from, to)
<1>1. Len(lines) \in Nat /\ from \in Nat /\ to \in Nat /\ to \in 0 .. Len(lines)
      /\ from \in 0 .. to
  BY LenProperties
<1>2. /\ Take(lines, from) \in Seq(A) /\ Len(Take(lines, from)) = from
      /\ Between(lines, from, to) \in Seq(A)
      /\ Take(lines, from) \o Between(lines, from, to) = Take(lines, to)
  BY BetweenIs
<1>3. PICK s, t : s = Take(lines, from) /\ t = Between(lines, from, to)
  OBVIOUS
<1>4. s \in Seq(A) /\ t \in Seq(A) /\ from = Len(s) /\ s \o t = Take(lines, to)
  BY <1>2, <1>3
<1>5. Skip(s \o t, from) = t
  BY <1>4, CutAtSeam
<1> QED
  BY <1>3, <1>4, <1>5

\* One replacement: what is before its place, its new lines, and what is behind it.
LEMMA ApplyOneIs ==
  ASSUME NEW A, NEW text \in Seq(A), NEW item \in Places(A), item.start + item.oldLen <= Len(text)
  PROVE  ApplyOne([panic |-> FALSE, lines |-> text], item) =
           [panic |-> FALSE,
            lines |-> Take(text, item.start) \o item.newLines \o Skip(text, item.start + item.oldLen)]
<1> DEFINE from == item.start
           to   == item.start + item.oldLen
           cut  == Take(text, from) \o Skip(text, to)
<1>1. /\ Len(text) \in Nat /\ from \in Nat /\ to \in Nat /\ from <= to
      /\ from \in 0 .. Len(text) /\ to \in 0 .. Len(text)
  BY LenProperties DEF Places
<1>2. /\ Take(text, from) \in Seq(A) /\ Len(Take(text, from)) = from
      /\ Skip(text, to) \in Seq(A) /\ Len(Skip(text, to)) \in Nat
  BY <1>1, TakeIs, SkipIs, LenProperties
<1>3. SubSeq(text, 1, from) \o SubSeq(text, to + 1, Len(text)) = cut
  BY DEF Take, Skip
<1>4. Take(cut, from) = Take(text, from) /\ Skip(cut, from) = Skip(text, to)
  <2> HIDE DEF from, to
  <2> QED
    BY <1>2, CutAtSeam
<1>5. SubSeq(cut, 1, from) \o item.newLines \o SubSeq(cut, from + 1, Len(cut))
        = Take(cut, from) \o item.newLines \o Skip(cut, from)
  BY DEF Take, Skip
<1> DEFINE old == [panic |-> FALSE, lines |-> text]
<1>6. old.panic = FALSE /\ old.lines = text /\ ~(item.start > Len(text))
  BY <1>1
<1> HIDE DEF old, cut
<1>7. ApplyOne(old, item) =
        [panic |-> FALSE, lines |-> SubSeq(cut, 1, from) \o item.newLines
                                    \o SubSeq(cut, from + 1, Len(cut))]
  BY <1>3, <1>6 DEF ApplyOne
<1> QED
  BY <1>4, <1>5, <1>7 DEF old

\* Joining the two halves of a text joins what lies in its middle.
Joined(a, b, c, d) == (a \o b) \o (c \o d) = a \o ((b \o c) \o d)

LEMMA FourParts ==
  ASSUME NEW A, NEW a \in Seq(A), NEW b \in Seq(A), NEW c \in Seq(A), NEW d \in Seq(A)
  PROVE  Joined(a, b, c, d)
<1>1. c \o d \in Seq(A)
  BY ConcatProperties
<1>2. (a \o b) \o (c \o d) = a \o (b \o (c \o d))
  BY <1>1, ConcatAssociative
<1>3. (b \o c) \o d = b \o (c \o d)
  BY ConcatAssociative
<1> QED
  BY <1>2, <1>3 DEF Joined

\* ... in a text that is still that of the file up to line `to`.
LEMMA ApplyOneBefore ==
  ASSUME NEW A, NEW lines \in Seq(A), NEW rest \in Seq(A), NEW to \in 0 .. Len(lines),
         NEW item \in Places(A), item.start + item.oldLen <= to
  PROVE  ApplyOne([panic |-> FALSE, lines |-> Take(lines, to) \o rest], item) =
           [panic |-> FALSE,
            lines |-> Take(lines, item.start)
                      \o ((item.newLines \o Between(lines, item.start + item.oldLen, to)) \o rest)]
<1> DEFINE from == item.start
           end  == item.start + item.oldLen
           text == Take(lines, to) \o rest
           new  == item.newLines
           gap  == Between(lines, end, to)
<1>1. /\ Len(lines) \in Nat /\ from \in Nat /\ end \in Nat /\ from <= end /\ to \in Nat
      /\ from \in 0 .. Len(lines) /\ end \in 0 .. Len(lines) /\ to \in end .. Len(lines)
      /\ from \in 0 .. to /\ end \in 0 .. to
      /\ new \in Seq(A)
  BY LenProperties DEF Places
<1>2. /\ Take(lines, to) \in Seq(A) /\ Len(Take(lines, to)) = to
      /\ Take(lines, from) \in Seq(A) /\ gap \in Seq(A)
  <2> HIDE DEF from, end
  <2> QED
    BY <1>1, TakeIs, BetweenIs
<1>3. text \in Seq(A) /\ Len(text) = to + Len(rest) /\ Len(rest) \in Nat
  BY <1>2, ConcatProperties, LenProperties
<1>4. Take(text, from) = Take(lines, from)
  <2> HIDE DEF from, end
  <2>1. from \in 0 .. Len(Take(lines, to))
    BY <1>1, <1>2
  <2>2. Take(text, from) = Take(Take(lines, to), from)
    BY <1>2, <2>1, CutWithin
  <2> QED
    BY <1>1, <2>2, TakeTake
<1>5. Skip(text, end) = gap \o rest
  <2> HIDE DEF from, end
  <2>1. end \in 0 .. Len(Take(lines, to))
    BY <1>1, <1>2
  <2>2. Skip(text, end) = Skip(Take(lines, to), end) \o rest
    BY <1>2, <2>1, CutWithin
  <2> QED
    BY <1>1, <2>2, SkipOfTake
<1>6. ApplyOne([panic |-> FALSE, lines |-> text], item) =
        [panic |-> FALSE, lines |-> Take(text, from) \o new \o Skip(text, end)]
  <2>1. item.start + item.oldLen <= Len(text)
    BY <1>1, <1>3
  <2> HIDE DEF text
  <2> QED
    BY <1>3, <2>1, ApplyOneIs
<1> HIDE DEF from, end, new, gap, text
<1>7. (Take(lines, from) \o new) \o (gap \o rest) = Take(lines, from) \o ((new \o gap) \o rest)
  <2>1. PICK a, b, c : a = Take(lines, from) /\ b = new /\ c = gap
    OBVIOUS
  <2>2. a \in Seq(A) /\ b \in Seq(A) /\ c \in Seq(A)
    BY <1>1, <1>2, <2>1
  <2>3. (a \o b) \o (c \o rest) = a \o ((b \o c) \o rest)
    <3>1. Joined(a, b, c, rest)
      BY <2>2, FourParts
    <3> QED
      BY <3>1 DEF Joined
  <2> QED
    BY <2>1, <2>3
<1>8. ApplyOne([panic |-> FALSE, lines |-> text], item) =
        [panic |-> FALSE, lines |-> Take(lines, from) \o ((new \o gap) \o rest)]
  BY <1>4, <1>5, <1>6, <1>7
<1> QED
  BY <1>8 DEF from, end, new, gap, text

\* The text between the places is what is kept: part k is what replacement k - 1 puts
\* there, and the lines from its end to the start of replacement k.
StartOf(lines, list, i) == IF i > Len(list) THEN Len(lines) ELSE list[i].start
EndAt(list, i) == IF i = 0 THEN 0 ELSE list[i].start + list[i].oldLen
NewAt(list, i) == IF i = 0 THEN <<>> ELSE list[i].newLines
Part(lines, list, k) ==
  NewAt(list, k - 1) \o Between(lines, EndAt(list, k - 1), StartOf(lines, list, k))
Pieces(lines, list) == [k \in 1 .. Len(list) + 1 |-> Part(lines, list, k)]

LEMMA SplicedIsFlat ==
  ASSUME NEW lines, NEW list
  PROVE  Spliced(lines, list) = FlattenSeq(Pieces(lines, list))
<1>1. Pieces(lines, list) =
        [k \in 1 .. Len(list) + 1 |->
          NewAt(list, k - 1) \o SubSeq(lines, EndAt(list, k - 1) + 1, StartOf(lines, list, k))]
  BY DEF Pieces, Part, Between
<1> QED
  BY <1>1 DEF Spliced, NewAt, EndAt, StartOf

LEMMA PartsAre ==
  ASSUME NEW A, NEW lines \in Seq(A), NEW list \in Seq(Places(A)), InOrder(list, Len(lines)),
         NEW k \in 1 .. Len(list) + 1
  PROVE  /\ EndAt(list, k - 1) \in 0 .. Len(lines)
         /\ StartOf(lines, list, k) \in EndAt(list, k - 1) .. Len(lines)
         /\ NewAt(list, k - 1) \in Seq(A) /\ Part(lines, list, k) \in Seq(A)
<1>1. Len(lines) \in Nat /\ Len(list) \in Nat
  BY LenProperties
<1>2. \A i \in 1 .. Len(list) :
        /\ list[i].start \in Nat /\ list[i].oldLen \in Nat /\ list[i].newLines \in Seq(A)
        /\ list[i].start + list[i].oldLen <= Len(lines)
  <2>1. \A i \in 1 .. Len(list) : list[i] \in Places(A)
    BY ElementOfSeq
  <2> QED
    BY <2>1 DEF Places, InOrder
<1>3. k \in Nat /\ (k # 1 => k - 1 \in 1 .. Len(list)) /\ (k = 1 => k - 1 = 0)
  BY <1>1
<1>4. EndAt(list, k - 1) \in 0 .. Len(lines)
  BY <1>1, <1>2, <1>3 DEF EndAt
<1>5. StartOf(lines, list, k) \in EndAt(list, k - 1) .. Len(lines)
  <2>1. CASE k > Len(list)
    BY <1>1, <1>4, <2>1 DEF StartOf
  <2>2. CASE k <= Len(list) /\ k = 1
    BY <1>1, <1>2, <1>3, <2>2 DEF StartOf, EndAt
  <2>3. CASE k <= Len(list) /\ k # 1
    <3>1. k \in 2 .. Len(list) /\ k \in 1 .. Len(list)
      BY <1>1, <1>3, <2>3
    <3>2. list[k - 1].start + list[k - 1].oldLen <= list[k].start
      BY <3>1 DEF InOrder
    <3> QED
      BY <1>1, <1>2, <1>3, <2>3, <3>1, <3>2 DEF StartOf, EndAt
  <2> QED
    BY <1>1, <1>3, <2>1, <2>2, <2>3
<1>6. NewAt(list, k - 1) \in Seq(A)
  BY <1>2, <1>3, EmptySeq DEF NewAt
<1>7. Between(lines, EndAt(list, k - 1), StartOf(lines, list, k)) \in Seq(A)
  BY <1>4, <1>5, BetweenIs
<1> QED
  BY <1>4, <1>5, <1>6, <1>7, ConcatProperties DEF Part

\* The replacements, made one after the other from the last, are all made at once: when
\* only the first k - 1 are left to make, the text is the file's up to the start of the
\* k-th, and then what the parts behind it are.
LEMMA ReplacementsSplice ==
  ASSUME NEW A, NEW lines \in Seq(A), NEW list \in Seq(Places(A)), InOrder(list, Len(lines))
  PROVE  ApplyReplacements(lines, list) = [panic |-> FALSE, lines |-> Spliced(lines, list)]
<1> DEFINE m     == Len(list)
           parts == Pieces(lines, list)
           st(k) == StartOf(lines, list, k)
<1>1. Len(lines) \in Nat /\ m \in Nat /\ m + 1 \in Nat
  BY LenProperties
<1>2. /\ parts \in Seq(Seq(A)) /\ Len(parts) = m + 1
      /\ \A k \in 1 .. m + 1 : parts[k] = Part(lines, list, k)
  <2>1. parts \in [1 .. m + 1 -> Seq(A)]
    BY PartsAre DEF Pieces
  <2> HIDE DEF m
  <2>2. parts \in Seq(Seq(A)) /\ Len(parts) = m + 1
    BY <1>1, <2>1, SeqDef, LenProperties
  <2> QED
    BY <2>2 DEF Pieces, m
<1>3. \A k \in 1 .. m : list[k] \in Places(A)
  BY ElementOfSeq
<1>4. PICK h : /\ h[0] = [panic |-> FALSE, lines |-> lines]
               /\ \A i \in 1 .. m : h[i] = ApplyOne(h[i - 1], list[m - i + 1])
               /\ ApplyReplacements(lines, list) = h[m]
  BY ApplyGoes
<1> HIDE DEF m, parts
<1>5. PICK g \in [1 .. m + 1 -> Seq(A)] : IsFlat(g, parts, m + 1)
  <2>1. m + 1 \in 0 .. Len(parts)
    BY <1>1, <1>2
  <2> QED
    BY <1>2, <2>1, FlattenExists
<1>6. Spliced(lines, list) = g[m + 1]
  <2>1. Len(parts) > 0 /\ IsFlat(g, parts, Len(parts))
    BY <1>1, <1>2, <1>5
  <2>2. FlattenSeq(parts) = g[m + 1]
    BY <1>2, <2>1, FlattenIs
  <2> QED
    BY <2>2, SplicedIsFlat DEF parts
<1>7. /\ g[1] = Part(lines, list, 1)
      /\ \A k \in 1 .. m : g[k + 1] = g[k] \o Part(lines, list, k + 1)
  <2>1. 1 \in 1 .. m + 1 /\ \A k \in 1 .. m : k + 1 \in 1 .. m + 1 /\ k + 1 # 1 /\ (k + 1) - 1 = k
    BY <1>1
  <2> QED
    BY <1>2, <1>5, <2>1 DEF IsFlat
<1> DEFINE Left(j, rest) ==
             /\ h[j] = [panic |-> FALSE, lines |-> Take(lines, st(m + 1 - j)) \o rest]
             /\ g[m + 1 - j] \o rest = g[m + 1]
           P == {j \in Nat : j <= m => \E rest \in Seq(A) : Left(j, rest)}
<1>8. 0 \in P
  <2>1. st(m + 1) = Len(lines)
    BY <1>1 DEF StartOf, m
  <2>2. Take(lines, Len(lines)) \o << >> = lines
    BY Ends, ConcatEmptySeq
  <2>3. g[m + 1] \o << >> = g[m + 1]
    <3>1. g[m + 1] \in Seq(A)
      BY <1>1, <1>5
    <3> QED
      BY <3>1, ConcatEmptySeq
  <2>4. << >> \in Seq(A) /\ m + 1 - 0 = m + 1
    BY <1>1, EmptySeq
  <2>5. Left(0, << >>)
    BY <1>4, <2>1, <2>2, <2>3, <2>4
  <2> HIDE DEF Left
  <2> QED
    BY <2>4, <2>5
<1>9. ASSUME NEW j \in P PROVE j + 1 \in P
  <2>0. j \in Nat /\ j + 1 \in Nat /\ (j <= m => \E rest \in Seq(A) : Left(j, rest))
    <3> HIDE DEF Left
    <3> QED
      BY DEF P
  <2> SUFFICES ASSUME j + 1 <= m PROVE \E rest \in Seq(A) : Left(j + 1, rest)
    <3> HIDE DEF Left
    <3> QED
      BY <2>0
  <2>1. j \in Nat /\ j <= m
    BY <1>1, <2>0
  <2>2. PICK rest \in Seq(A) : Left(j, rest)
    <3> HIDE DEF Left, P
    <3> QED
      BY <2>0, <2>1
  <2>3. PICK k : k = m - j
    OBVIOUS
  <2>4. /\ k \in 1 .. m /\ k + 1 \in 1 .. m + 1 /\ m + 1 - j = k + 1 /\ m + 1 - (j + 1) = k
        /\ j + 1 \in 1 .. m /\ (j + 1) - 1 = j /\ m - (j + 1) + 1 = k
        /\ k \in 1 .. m + 1 /\ (k + 1) - 1 = k /\ k # 0 /\ ~(k > m)
    BY <1>1, <2>1, <2>3
  <2>5. /\ h[j] = [panic |-> FALSE, lines |-> Take(lines, st(k + 1)) \o rest]
        /\ g[k + 1] \o rest = g[m + 1]
    BY <2>2, <2>4
  <2>6. h[j + 1] = ApplyOne(h[j], list[k])
    BY <1>4, <2>4
  <2>7. /\ EndAt(list, k) = list[k].start + list[k].oldLen /\ NewAt(list, k) = list[k].newLines
        /\ st(k) = list[k].start
    BY <2>4 DEF EndAt, NewAt, StartOf, m
  <2>8. /\ EndAt(list, k) \in 0 .. Len(lines) /\ st(k + 1) \in EndAt(list, k) .. Len(lines)
        /\ Part(lines, list, k + 1) \in Seq(A)
    <3>1. k + 1 \in 1 .. Len(list) + 1
      BY <2>4 DEF m
    <3> QED
      BY <2>4, <3>1, PartsAre
  <2> DEFINE piece == Part(lines, list, k + 1)
  <2>9. piece = list[k].newLines \o Between(lines, list[k].start + list[k].oldLen, st(k + 1))
    BY <2>4, <2>7 DEF Part
  <2>10. h[j + 1] = [panic |-> FALSE, lines |-> Take(lines, st(k)) \o (piece \o rest)]
    <3>1. list[k] \in Places(A)
      BY <1>3, <2>4
    <3>2. /\ st(k + 1) \in 0 .. Len(lines) /\ list[k].start + list[k].oldLen <= st(k + 1)
      BY <1>1, <2>7, <2>8
    <3>3. PICK to : to = st(k + 1)
      OBVIOUS
    <3>4. PICK item : item = list[k]
      OBVIOUS
    <3>5. ApplyOne([panic |-> FALSE, lines |-> Take(lines, to) \o rest], item) =
            [panic |-> FALSE,
             lines |-> Take(lines, item.start)
                       \o ((item.newLines \o Between(lines, item.start + item.oldLen, to)) \o rest)]
      BY <3>1, <3>2, <3>3, <3>4, ApplyOneBefore
    <3> HIDE DEF piece
    <3> QED
      BY <2>5, <2>6, <2>7, <2>9, <3>3, <3>4, <3>5
  <2> HIDE DEF piece, st
  <2>11. piece \o rest \in Seq(A) /\ g[k] \o (piece \o rest) = g[m + 1]
    <3>1. piece \in Seq(A) /\ g[k] \in Seq(A)
      BY <1>5, <2>4, <2>8 DEF piece
    <3>2. g[k + 1] = g[k] \o piece
      BY <1>7, <2>4 DEF piece
    <3>3. (g[k] \o piece) \o rest = g[k] \o (piece \o rest)
      <4>1. \A a, b \in Seq(A) : (a \o b) \o rest = a \o (b \o rest)
        <5> TAKE a, b \in Seq(A)
        <5> QED
          BY ConcatAssociative, SMTT(30)
      <4>2. PICK a, b : a = g[k] /\ b = piece
        OBVIOUS
      <4>3. a \in Seq(A) /\ b \in Seq(A)
        BY <3>1, <4>2
      <4>4. (a \o b) \o rest = a \o (b \o rest)
        BY <4>1, <4>3
      <4> QED
        BY <4>2, <4>4
    <3> QED
      BY <2>5, <3>1, <3>2, <3>3, ConcatProperties
  <2>12. Left(j + 1, piece \o rest)
    BY <2>4, <2>10, <2>11
  <2> HIDE DEF Left
  <2> QED
    BY <2>11, <2>12
<1>10. m \in P
  <2> HIDE DEF P
  <2> QED
    BY <1>1, <1>8, <1>9, Induction
<1>11. PICK rest \in Seq(A) : Left(m, rest)
  <2> HIDE DEF Left
  <2> QED
    BY <1>1, <1>10
<1>12. m + 1 - m = 1
  BY <1>1
<1>13. g[1] = Take(lines, st(1))
  <2>1. 1 \in 1 .. Len(list) + 1 /\ 1 - 1 = 0
    BY <1>1 DEF m
  <2>2. EndAt(list, 0) = 0 /\ NewAt(list, 0) = << >>
    BY DEF EndAt, NewAt
  <2>3. st(1) \in 0 .. Len(lines)
    BY <2>1, <2>2, PartsAre
  <2>4. Between(lines, 0, st(1)) = Take(lines, st(1)) /\ Take(lines, st(1)) \in Seq(A)
    BY <2>3, TakeIs DEF Between, Take
  <2>5. g[1] = << >> \o Between(lines, 0, st(1))
    BY <1>7, <2>1, <2>2 DEF Part
  <2> QED
    BY <2>4, <2>5, ConcatEmptySeq
<1>14. h[m] = [panic |-> FALSE, lines |-> g[m + 1]]
  BY <1>11, <1>12, <1>13
<1> QED
  BY <1>4, <1>6, <1>14

TextTyped == original \in Seq(FileLines) /\ chunks \in Seq(Chunks)

TextLines == FileLines \cup PatchLines \cup {<<"new", 1>>}

LEMMA OneLine ==
  ASSUME NEW A, NEW a \in A
  PROVE  <<a>> \in Seq(A)
OBVIOUS

LEMMA ChunksAreOf == Chunks \subseteq [context : Seq(TextLines), old : Seq(TextLines),
                                      new : Seq(TextLines), eof : BOOLEAN]
<1> SUFFICES ASSUME NEW chunk \in Chunks
             PROVE  chunk \in [context : Seq(TextLines), old : Seq(TextLines),
                               new : Seq(TextLines), eof : BOOLEAN]
  OBVIOUS
<1>1. chunk.context \in Seq(TextLines)
  <2>1. chunk.context = <<>> \/ \E line \in PatchLines : chunk.context = <<line>>
    BY DEF Chunks
  <2>2. CASE chunk.context = <<>>
    BY <2>2, EmptySeq
  <2>3. ASSUME NEW line \in PatchLines, chunk.context = <<line>>
        PROVE  chunk.context \in Seq(TextLines)
    <3>1. line \in TextLines
      BY DEF TextLines
    <3> QED
      BY <2>3, <3>1, OneLine
  <2> QED
    BY <2>1, <2>2, <2>3
<1>2. chunk.old \in Seq(TextLines)
  <2>1. PICK n \in 0 .. MaxOld : chunk.old \in [1 .. n -> PatchLines]
    BY DEF Chunks
  <2>2. n \in Nat /\ chunk.old \in [1 .. n -> TextLines]
    BY <2>1, PatchTextAssumption DEF TextLines
  <2> QED
    BY <2>2, SeqDef
<1>3. chunk.new \in Seq(TextLines)
  <2>1. chunk.new = <<>> \/ chunk.new = <<<<"new", 1>>>>
    BY DEF Chunks
  <2>2. CASE chunk.new = <<>>
    BY <2>2, EmptySeq
  <2>3. CASE chunk.new = <<<<"new", 1>>>>
    <3>1. PICK line : line = <<"new", 1>>
      OBVIOUS
    <3>2. line \in TextLines
      BY <3>1 DEF TextLines
    <3> QED
      BY <2>3, <3>1, <3>2, OneLine
  <2> QED
    BY <2>1, <2>2, <2>3
<1> QED
  BY <1>1, <1>2, <1>3 DEF Chunks

\* Every place that computeReplacements finds for a chunk lies within the file.  Places
\* that follow one another, as those of chunks that have old lines and are not sought at
\* the end of the file do, are replaced from the last to the first as if all were
\* replaced at once, and never reach beyond the end of what is left
\* (computeReplacements and applyReplacements, apply_patch_format.go:333-390).
THEOREM ChunksAreSpliced == TextSpec => []ChunksSplice
<1>1. TextInit => TextTyped
  BY DEF TextInit, TextTyped
<1>2. TextTyped /\ [TextNext]_textVars => TextTyped'
  <2> SUFFICES ASSUME TextTyped, [TextNext]_textVars PROVE TextTyped'
    OBVIOUS
  <2>1. CASE AddLine
    BY <2>1 DEF AddLine, TextTyped
  <2>2. CASE AddChunk
    <3> HIDE DEF Chunks
    <3>1. PICK chunk \in Chunks : chunks' = Append(chunks, chunk) /\ original' = original
      BY <2>2 DEF AddChunk
    <3> QED
      BY <3>1 DEF TextTyped
  <2>3. CASE UNCHANGED textVars
    BY <2>3 DEF textVars, TextTyped
  <2> QED
    BY <2>1, <2>2, <2>3 DEF TextNext
<1>3. TextTyped => ChunksSplice
  <2> DEFINE found == ComputeReplacements(original, chunks)
  <2> HIDE DEF found
  <2> SUFFICES ASSUME TextTyped, found.ok
               PROVE  /\ Within(found.list, Len(original))
                      /\ Sought => Following(found.list)
                      /\ Following(found.list) =>
                           ApplyReplacements(original, found.list) =
                             [panic |-> FALSE, lines |-> Spliced(original, found.list)]
    BY DEF ChunksSplice, found
  <2>1. original \in Seq(TextLines)
    <3>1. Len(original) \in Nat /\ original \in [1 .. Len(original) -> FileLines]
      BY LenProperties DEF TextTyped
    <3>2. original \in [1 .. Len(original) -> TextLines]
      BY <3>1 DEF TextLines
    <3> QED
      BY <3>1, <3>2, SeqDef
  <2>2. chunks \in Seq(ChunkOf(TextLines)) /\ DOMAIN chunks = 1 .. Len(chunks)
    <3>1. Len(chunks) \in Nat /\ chunks \in [1 .. Len(chunks) -> Chunks]
      BY LenProperties DEF TextTyped
    <3>2. chunks \in [1 .. Len(chunks) -> ChunkOf(TextLines)]
      BY <3>1, ChunksAreOf DEF ChunkOf
    <3> QED
      BY <3>1, <3>2, SeqDef
  <2>3. found = ComputeReplacements(original, chunks)
    BY DEF found
  <2>4. found.list \in Seq(Places(TextLines)) /\ Within(found.list, Len(original))
    BY <2>1, <2>2, <2>3, ReplacementsWithin
  <2>5. ASSUME Sought PROVE Following(found.list)
    <3>1. Len(chunks) <= 1 \/ SoughtIn(chunks)
      BY <2>2, <2>5 DEF Sought, SoughtIn
    <3>2. InOrder(found.list, Len(original))
      BY <2>1, <2>2, <2>3, <3>1, ReplacementsInOrder
    <3> QED
      BY <3>2 DEF InOrder, Following
  <2>6. ASSUME Following(found.list)
        PROVE  ApplyReplacements(original, found.list) =
                 [panic |-> FALSE, lines |-> Spliced(original, found.list)]
    <3>1. InOrder(found.list, Len(original))
      BY <2>4, <2>6 DEF InOrder, Within, Following
    <3> QED
      BY <2>1, <2>4, <3>1, ReplacementsSplice
  <2> QED
    BY <2>4, <2>5, <2>6
<1> QED
  BY <1>1, <1>2, <1>3, PTL DEF TextSpec

-----------------------------------------------------------------------------
(* Reading the text of a patch.                                            *)

Texts == Seq(PatchLineKinds)

ParsedChunk == [context : Nat, old : Seq(Nat), new : Seq(Nat), eof : BOOLEAN]
ParsedHunk == [kind : Headers, path : Nat, movedTo : Nat, contents : Seq(Nat),
               chunks : Seq(ParsedChunk)]

\* The text u begins with t.
Begins(t, u) == Len(t) <= Len(u) /\ \A k \in 1 .. Len(t) : u[k] = t[k]

\* It is t and the line x.
LineMore(t, x, u) == Begins(t, u) /\ Len(u) = Len(t) + 1 /\ u[Len(t) + 1] = x

\* Replacing the last element.
LEMMA LastReplaced ==
  ASSUME NEW A, NEW q \in Seq(A), q # <<>>, NEW e \in A
  PROVE  /\ Append(Front(q), e) \in Seq(A) /\ Len(Append(Front(q), e)) = Len(q)
         /\ Append(Front(q), e) # <<>> /\ Last(Append(Front(q), e)) = e
         /\ \A k \in 1 .. Len(q) - 1 : Append(Front(q), e)[k] = q[k]
         /\ Append(Front(q), e)[Len(q)] = e
         /\ Front(Append(Front(q), e)) = Front(q)
<1> DEFINE f == Front(q)  r == Append(f, e)
<1>1. Len(q) \in Nat /\ Len(q) >= 1
  BY EmptySeq
<1>2. f \in Seq(A) /\ Len(f) = Len(q) - 1 /\ \A k \in 1 .. Len(q) - 1 : f[k] = q[k]
  <2>1. \A k \in 1 .. Len(q) - 1 : q[k] \in A
    BY <1>1, ElementOfSeq
  <2>2. PICK m \in Int : m = Len(q) - 1
    BY <1>1
  <2>3. \A k \in 1 .. m : q[k] \in A
    BY <2>1, <2>2
  <2>4. /\ SubSeq(q, 1, m) \in Seq(A) /\ Len(SubSeq(q, 1, m)) = IF 1 <= m THEN m - 1 + 1 ELSE 0
        /\ \A k \in 1 .. m - 1 + 1 : SubSeq(q, 1, m)[k] = q[1 + k - 1]
    BY <2>3, SubSeqProperties
  <2>5. f = SubSeq(q, 1, m)
    BY <2>2 DEF Front
  <2> HIDE DEF f
  <2> QED
    BY <1>1, <2>2, <2>4, <2>5
<1> HIDE DEF f
<1>3. /\ r \in Seq(A) /\ Len(r) = Len(q) /\ r[Len(q)] = e
      /\ \A k \in 1 .. Len(q) - 1 : r[k] = q[k]
  BY <1>1, <1>2, AppendProperties
<1>4. r # <<>>
  BY <1>1, <1>3, EmptySeq
<1> HIDE DEF r
<1>5. Front(r) = f
  <2>1. \A k \in 1 .. Len(q) - 1 : r[k] \in A
    BY <1>1, <1>3, ElementOfSeq
  <2>2. Front(r) \in Seq(A) /\ Len(Front(r)) = Len(q) - 1 /\ \A k \in 1 .. Len(q) - 1 : Front(r)[k] = r[k]
    BY <1>1, <1>3, <2>1, SubSeqProperties DEF Front
  <2> QED
    BY <1>2, <1>3, <2>2, SeqEqual
<1>6. Last(r) = e
  BY <1>3 DEF Last
<1> QED
  BY <1>3, <1>4, <1>5, <1>6 DEF r, f

LEMMA NothingAscends == Ascending(<<>>, {})
BY DEF Ascending, Range

LEMMA OneMoreAscends ==
  ASSUME NEW q \in Seq(Nat), NEW S, Ascending(q, S), NEW n \in Nat, \A k \in S : k < n
  PROVE  Append(q, n) \in Seq(Nat) /\ Ascending(Append(q, n), S \cup {n})
<1> DEFINE r == Append(q, n)  m == Len(q)
<1>1. m \in Nat /\ DOMAIN q = 1 .. m
  BY LenProperties
<1>2. /\ r \in Seq(Nat) /\ Len(r) = m + 1 /\ r[m + 1] = n
      /\ \A k \in 1 .. m : r[k] = q[k]
  BY <1>1, AppendProperties
<1> HIDE DEF r
<1>3. DOMAIN r = 1 .. m + 1
  BY <1>2, LenProperties
<1> HIDE DEF m
<1>4. \A k \in 1 .. m : q[k] \in S
  BY <1>1 DEF Ascending, Range
<1>5. \A j, k \in 1 .. m + 1 : j < k => r[j] < r[k]
  <2> SUFFICES ASSUME NEW j \in 1 .. m + 1, NEW k \in 1 .. m + 1, j < k PROVE r[j] < r[k]
    OBVIOUS
  <2>1. j \in 1 .. m /\ r[j] = q[j] /\ q[j] \in S
    BY <1>1, <1>2, <1>4
  <2>2. CASE k = m + 1
    BY <1>2, <2>1, <2>2
  <2>3. CASE k \in 1 .. m
    BY <1>1, <1>2, <2>1, <2>3 DEF Ascending
  <2> QED
    BY <1>1, <2>2, <2>3
<1>6. \A v : v \in Range(r) <=> v \in S \cup {n}
  <2> TAKE v
  <2>1. v \in Range(r) <=> \E k \in 1 .. m + 1 : v = r[k]
    BY <1>3 DEF Range
  <2>2. v \in S <=> \E k \in 1 .. m : v = q[k]
    BY <1>1 DEF Ascending, Range
  <2>3. (\E k \in 1 .. m + 1 : v = r[k]) <=> (\E k \in 1 .. m : v = q[k]) \/ v = n
    <3>1. \A k \in 1 .. m + 1 : k \in 1 .. m \/ k = m + 1
      BY <1>1
    <3>2. \A k \in 1 .. m : k \in 1 .. m + 1
      BY <1>1
    <3>3. m + 1 \in 1 .. m + 1
      BY <1>1
    <3> QED
      BY <1>2, <3>1, <3>2, <3>3
  <2> QED
    BY <2>1, <2>2, <2>3
<1> QED
  BY <1>2, <1>3, <1>5, <1>6 DEF Ascending, r

\* A chunks is empty when it lists nothing.
LEMMA SomethingAscends ==
  ASSUME NEW q \in Seq(Nat), NEW S, Ascending(q, S)
  PROVE  q = <<>> <=> S = {}
<1>1. DOMAIN q = 1 .. Len(q) /\ Len(q) \in Nat
  BY LenProperties
<1>2. CASE q = <<>>
  BY <1>1, <1>2 DEF Ascending, Range
<1>3. CASE q # <<>>
  <2>1. 1 \in DOMAIN q
    BY <1>1, <1>3, EmptySeq
  <2> QED
    BY <1>3, <2>1 DEF Ascending, Range
<1> QED
  BY <1>2, <1>3

\* What was read of a text does not depend on the lines that follow.
LEMMA PrefixRead ==
  ASSUME NEW t \in Texts, NEW u \in Texts, Begins(t, u), NEW i \in 1 .. Len(t)
  PROVE  /\ HeaderLines(t) = HeaderLines(u) \cap (1 .. Len(t))
         /\ HunkLines(t, i) = HunkLines(u, i) \cap (1 .. Len(t))
         /\ ChunkLines(t, i) = ChunkLines(u, i) \cap (1 .. Len(t))
         /\ \A j \in 1 .. Len(t) :
              /\ ChunkPart(t, i, j) = ChunkPart(u, i, j) \cap (1 .. Len(t))
              /\ \A kinds : ChunkSays(t, i, j, kinds) = ChunkSays(u, i, j, kinds) \cap (1 .. Len(t))
<1> DEFINE n == Len(t)
<1>1. n \in Nat /\ Len(u) \in Nat /\ n <= Len(u) /\ DOMAIN t = 1 .. n /\ DOMAIN u = 1 .. Len(u)
  BY LenProperties DEF Texts, Begins
<1>2. \A k \in 1 .. n : u[k] = t[k]
  BY DEF Begins
<1> HIDE DEF n
<1>3. HeaderLines(t) = HeaderLines(u) \cap (1 .. n)
  BY <1>1, <1>2 DEF HeaderLines
<1>i. i \in 1 .. n
  BY DEF n
<1>4. \A k : k \in HunkLines(t, i) <=> k \in HunkLines(u, i) /\ k \in 1 .. n
  <2> TAKE k
  <2>1. k \in HunkLines(t, i) <=> k \in i .. n /\ \A j \in i + 1 .. k : t[j] \notin Headers
    BY DEF HunkLines, n
  <2>2. k \in HunkLines(u, i) <=> k \in i .. Len(u) /\ \A j \in i + 1 .. k : u[j] \notin Headers
    BY DEF HunkLines
  <2>3. CASE k \in i .. n
    <3>1. \A j \in i + 1 .. k : j \in 1 .. n
      BY <1>1, <1>i, <2>3
    <3> QED
      BY <1>1, <1>2, <1>i, <2>1, <2>2, <2>3, <3>1
  <2>4. CASE k \notin i .. n
    BY <1>1, <1>i, <2>1, <2>2, <2>4
  <2> QED
    BY <2>3, <2>4
<1>5. \A k : k \in ChunkLines(t, i) <=> k \in ChunkLines(u, i) /\ k \in 1 .. n
  <2> TAKE k
  <2>1. CASE k \in HunkLines(t, i) \ {i}
    <3>1. k \in HunkLines(u, i) \ {i} /\ k \in 1 .. n
      BY <1>4, <2>1
    <3>2. \A j \in i + 1 .. k - 1 : Says(t, i, j) <=> Says(u, i, j)
      <4>1. \A j \in i + 1 .. k - 1 : j \in 1 .. n
        BY <1>1, <1>i, <3>1
      <4> QED
        BY <1>2, <4>1 DEF Says
    <3>3. (Says(t, i, k) <=> Says(u, i, k)) /\ t[k] = u[k]
      BY <1>2, <3>1 DEF Says
    <3> QED
      BY <2>1, <3>1, <3>2, <3>3 DEF ChunkLines
  <2>2. CASE k \notin HunkLines(t, i) \ {i}
    BY <1>4, <2>2 DEF ChunkLines
  <2> QED
    BY <2>1, <2>2
<1>6. ASSUME NEW j \in 1 .. n
      PROVE  \A k : k \in ChunkPart(t, i, j) <=> k \in ChunkPart(u, i, j) /\ k \in 1 .. n
  <2> TAKE k
  <2>1. CASE k \in HunkLines(t, i)
    <3>1. k \in HunkLines(u, i) /\ k \in 1 .. n
      BY <1>4, <2>1
    <3>2. (\A m \in ChunkLines(t, i) : m > j => m > k) <=> (\A m \in ChunkLines(u, i) : m > j => m > k)
      <4>1. \A m \in ChunkLines(u, i) : m \in Nat /\ (m \notin 1 .. n => m > n)
        BY <1>1, <1>i DEF ChunkLines, HunkLines
      <4> QED
        BY <1>1, <1>5, <3>1, <4>1
    <3> QED
      BY <2>1, <3>1, <3>2 DEF ChunkPart
  <2>2. CASE k \notin HunkLines(t, i)
    BY <1>4, <2>2 DEF ChunkPart
  <2> QED
    BY <2>1, <2>2
<1>7. ASSUME NEW j \in 1 .. n, NEW kinds
      PROVE  \A k : k \in ChunkSays(t, i, j, kinds) <=> k \in ChunkSays(u, i, j, kinds) /\ k \in 1 .. n
  <2> TAKE k
  <2>1. CASE k \in ChunkPart(t, i, j)
    <3>1. k \in ChunkPart(u, i, j) /\ k \in 1 .. n
      BY <1>6, <2>1
    <3>2. t[k] = u[k] /\ \A m \in j .. k : t[m] = u[m]
      <4>1. \A m \in j .. k : m \in 1 .. n
        BY <1>1, <3>1
      <4> QED
        BY <1>2, <3>1, <4>1
    <3> QED
      BY <2>1, <3>1, <3>2 DEF ChunkSays
  <2>2. CASE k \notin ChunkPart(t, i, j)
    BY <1>6, <2>2 DEF ChunkSays
  <2> QED
    BY <2>1, <2>2
<1> QED
  BY <1>3, <1>4, <1>5, <1>6, <1>7 DEF n

\* A chunk, or a hunk, whose lines are all there stays what it was.
LEMMA ChunkStays ==
  ASSUME NEW t \in Texts, NEW u \in Texts, Begins(t, u), NEW i \in 1 .. Len(t),
         NEW j \in 1 .. Len(t), ChunkPart(u, i, j) \subseteq 1 .. Len(t)
  PROVE  /\ ChunkPart(u, i, j) = ChunkPart(t, i, j)
         /\ \A kinds : ChunkSays(u, i, j, kinds) = ChunkSays(t, i, j, kinds)
         /\ \A chunk : IsChunk(chunk, u, i, j) <=> IsChunk(chunk, t, i, j)
<1>1. ChunkPart(t, i, j) = ChunkPart(u, i, j) \cap (1 .. Len(t))
  BY PrefixRead
<1>2. ChunkPart(u, i, j) = ChunkPart(t, i, j)
  BY <1>1
<1>3. ASSUME NEW kinds PROVE ChunkSays(u, i, j, kinds) = ChunkSays(t, i, j, kinds)
  <2>1. ChunkSays(t, i, j, kinds) = ChunkSays(u, i, j, kinds) \cap (1 .. Len(t))
    BY PrefixRead
  <2>2. ChunkSays(u, i, j, kinds) \subseteq 1 .. Len(t)
    BY DEF ChunkSays
  <2> QED
    BY <2>1, <2>2
<1>4. \A k \in 1 .. Len(t) : u[k] = t[k]
  BY DEF Begins
<1>5. ASSUME NEW chunk PROVE IsChunk(chunk, u, i, j) <=> IsChunk(chunk, t, i, j)
  <2>1. u[j] = t[j] /\ \A k \in ChunkPart(t, i, j) : u[k] = t[k]
    BY <1>2, <1>4
  <2>2. (\E k \in ChunkPart(u, i, j) : u[k] = "eof") <=> (\E k \in ChunkPart(t, i, j) : t[k] = "eof")
    BY <1>2, <2>1
  <2> QED
    BY <1>3, <2>1, <2>2 DEF IsChunk
<1> QED
  BY <1>2, <1>3, <1>5

LEMMA HunkStays ==
  ASSUME NEW t \in Texts, NEW u \in Texts, Begins(t, u), NEW i \in 1 .. Len(t),
         HunkLines(u, i) \subseteq 1 .. Len(t)
  PROVE  /\ HunkLines(u, i) = HunkLines(t, i) /\ ChunkLines(u, i) = ChunkLines(t, i)
         /\ \A g : IsHunk(g, u, i) <=> IsHunk(g, t, i)
         /\ HunkFormed(u, i) <=> HunkFormed(t, i)
<1>1. HunkLines(u, i) = HunkLines(t, i) /\ ChunkLines(u, i) = ChunkLines(t, i)
  <2>1. /\ HunkLines(t, i) = HunkLines(u, i) \cap (1 .. Len(t))
        /\ ChunkLines(t, i) = ChunkLines(u, i) \cap (1 .. Len(t))
    BY PrefixRead
  <2>2. ChunkLines(u, i) \subseteq HunkLines(u, i)
    BY DEF ChunkLines
  <2> QED
    BY <2>1, <2>2
<1>2. \A k \in 1 .. Len(t) : u[k] = t[k]
  BY DEF Begins
<1>3. \A k \in HunkLines(t, i) : u[k] = t[k] /\ k \in 1 .. Len(t)
  BY <1>1, <1>2
<1>4. ASSUME NEW j \in ChunkLines(t, i)
      PROVE  /\ \A kinds : ChunkSays(u, i, j, kinds) = ChunkSays(t, i, j, kinds)
             /\ \A chunk : IsChunk(chunk, u, i, j) <=> IsChunk(chunk, t, i, j)
  <2>1. j \in 1 .. Len(t)
    BY <1>3 DEF ChunkLines
  <2>2. ChunkPart(u, i, j) \subseteq 1 .. Len(t)
    BY DEF ChunkPart
  <2> QED
    BY <2>1, <2>2, ChunkStays
<1>5. ASSUME NEW list PROVE AreChunks(list, u, i) <=> AreChunks(list, t, i)
  <2> DEFINE Started1(starts) == /\ Ascending(starts, ChunkLines(t, i))
                                 /\ \A n \in DOMAIN list : IsChunk(list[n], t, i, starts[n])
             Started2(starts) == /\ Ascending(starts, ChunkLines(t, i))
                                 /\ \A n \in DOMAIN list : IsChunk(list[n], u, i, starts[n])
  <2>1. ASSUME NEW starts \in [DOMAIN list -> ChunkLines(t, i)]
        PROVE  Started1(starts) <=> Started2(starts)
    <3>1. \A n \in DOMAIN list : starts[n] \in ChunkLines(t, i)
      OBVIOUS
    <3> QED
      BY <1>4, <3>1
  <2>2. AreChunks(list, t, i) <=> \E starts \in [DOMAIN list -> ChunkLines(t, i)] : Started1(starts)
    BY DEF AreChunks
  <2>3. AreChunks(list, u, i) <=> \E starts \in [DOMAIN list -> ChunkLines(t, i)] : Started2(starts)
    BY <1>1 DEF AreChunks
  <2> HIDE DEF Started1, Started2
  <2> QED
    BY <2>1, <2>2, <2>3
<1>6. t[i] = u[i]
  BY <1>2
<1>7. ASSUME NEW g PROVE IsHunk(g, u, i) <=> IsHunk(g, t, i)
  <2>1. i + 1 \in HunkLines(t, i) => u[i + 1] = t[i + 1]
    BY <1>3
  <2> QED
    BY <1>1, <1>5, <1>6, <2>1 DEF IsHunk
<1>8. HunkFormed(u, i) <=> HunkFormed(t, i)
  <2>1. \A k, m \in HunkLines(t, i) : \A j \in k + 1 .. m : j \in 1 .. Len(t) /\ u[j] = t[j]
    <3>1. Len(t) \in Nat
      BY LenProperties DEF Texts
    <3>2. \A k, m \in HunkLines(t, i) : \A j \in k + 1 .. m : j \in 1 .. Len(t)
      BY <1>3, <3>1
    <3> QED
      BY <1>2, <3>2
  <2>2. ASSUME NEW k \in HunkLines(t, i), NEW m \in HunkLines(t, i)
        PROVE  (\A j \in k + 1 .. m : u[j] \notin Markers) <=> (\A j \in k + 1 .. m : t[j] \notin Markers)
    BY <2>1
  <2>3. (\A j \in ChunkLines(u, i) : ChunkSays(u, i, j, Old \cup New) # {})
          <=> (\A j \in ChunkLines(t, i) : ChunkSays(t, i, j, Old \cup New) # {})
    BY <1>1, <1>4
  <2> HIDE DEF Old, New, Markers
  <2> QED
    BY <1>1, <1>3, <1>6, <2>2, <2>3 DEF HunkFormed
<1> QED
  BY <1>1, <1>7, <1>8

-----------------------------------------------------------------------------
(* The hunk that is being read.                                            *)

\* No line says anything after the header.
Silent(t, i) == \A k \in i + 1 .. Len(t) : ~Says(t, i, k)

LastChunkAt(t, i, j) == j \in ChunkLines(t, i) /\ \A m \in ChunkLines(t, i) : m <= j

LinesPlaced(t, i) == \A k \in i + 1 .. Len(t) :
  \/ t[k] \in Old \cup New \cup Markers \cup {"eof"}
  \/ t[k] = "move" /\ k = i + 1

EndsPlaced(t, i) == \A k, m \in i + 1 .. Len(t) :
  t[k] = "eof" /\ k < m /\ (\A j \in k + 1 .. m : t[j] \notin Markers) => t[m] = ""

\* Where the reader is in an update, by the lines: what it has read fits so far.
InUpdate(at, t, i) ==
  /\ LinesPlaced(t, i) /\ EndsPlaced(t, i)
  /\ \/ at = "update" /\ Len(t) = i
     \/ at = "chunks" /\ Len(t) > i /\ Silent(t, i)
     \/ \E j \in 1 .. Len(t) :
          /\ LastChunkAt(t, i, j)
          /\ \A m \in ChunkLines(t, i) \ {j} : ChunkSays(t, i, m, Old \cup New) # {}
          /\ \/ at = "chunk" /\ \A k \in j .. Len(t) : t[k] # "eof"
             \/ /\ at = "chunks" /\ ChunkSays(t, i, j, Old \cup New) # {}
                /\ \E k \in j .. Len(t) : t[k] = "eof"

InHunk(at, h, t) ==
  /\ h \in ParsedHunk /\ h.path \in HeaderLines(t) /\ HunkLines(t, h.path) = h.path .. Len(t)
  /\ IsHunk(h, t, h.path)
  /\ \/ h.kind = "add" /\ at = "add" /\ \A k \in h.path + 1 .. Len(t) : t[k] = "+"
     \/ h.kind = "delete" /\ at = "delete" /\ Len(t) = h.path
     \/ h.kind = "update" /\ InUpdate(at, t, h.path)

\* Nothing that follows can make the text well formed.
NeverFormed(t) == \A u \in Texts : Begins(t, u) => ~WellFormed(u)

LEMMA RefusedBy ==
  ASSUME NEW t \in Texts, NEW i \in HeaderLines(t),
         \A u \in Texts : Begins(t, u) => ~HunkFormed(u, i)
  PROVE  NeverFormed(t)
<1> SUFFICES ASSUME NEW u \in Texts, Begins(t, u) PROVE ~WellFormed(u)
  BY DEF NeverFormed
<1>1. i \in 1 .. Len(t)
  BY LenProperties DEF Texts, HeaderLines
<1>2. i \in HeaderLines(u)
  BY <1>1, PrefixRead
<1> QED
  BY <1>2 DEF WellFormed

\* One line more.
LEMMA LineAdded ==
  ASSUME NEW t \in Texts, NEW x, NEW u \in Texts, LineMore(t, x, u), NEW i \in 1 .. Len(t),
         HunkLines(t, i) = i .. Len(t)
  PROVE  /\ Len(t) \in Nat /\ Len(t) + 1 \in 1 .. Len(u) /\ i \in Nat
         /\ \A k \in 1 .. Len(t) : u[k] = t[k]
         /\ x \in Headers => HunkLines(u, i) = i .. Len(t)
         /\ x \notin Headers => HunkLines(u, i) = i .. Len(t) + 1
<1> DEFINE n == Len(t)
<1>1. n \in Nat /\ i \in 1 .. n /\ i \in Nat /\ Len(u) = n + 1 /\ u[n + 1] = x
      /\ \A k \in 1 .. n : u[k] = t[k]
  BY LenProperties DEF Texts, LineMore, Begins
<1>2. Begins(t, u)
  BY DEF LineMore
<1>3. HunkLines(t, i) = HunkLines(u, i) \cap (1 .. n)
  BY <1>2, PrefixRead
<1>4. HunkLines(t, i) = i .. n
  OBVIOUS
<1> HIDE DEF n
<1>5. HunkLines(u, i) = {k \in i .. n + 1 : \A j \in i + 1 .. k : u[j] \notin Headers}
  BY <1>1 DEF HunkLines
<1>6. CASE x \in Headers
  <2>1. n + 1 \notin HunkLines(u, i)
    BY <1>1, <1>5, <1>6
  <2>2. \A k : k \in HunkLines(u, i) <=> k \in i .. n
    <3>1. \A k \in HunkLines(u, i) : k \in 1 .. n \/ k = n + 1
      BY <1>1, <1>5
    <3> QED
      BY <1>1, <1>3, <1>4, <2>1, <3>1
  <2>3. HunkLines(u, i) = i .. n
    BY <2>2
  <2> QED
    BY <1>1, <1>6, <2>3 DEF n
<1>7. CASE x \notin Headers
  <2>1. n + 1 \in HunkLines(u, i)
    <3>1. \A j \in i + 1 .. n + 1 : u[j] \notin Headers
      <4> SUFFICES ASSUME NEW j \in i + 1 .. n + 1 PROVE u[j] \notin Headers
        OBVIOUS
      <4>1. CASE j = n + 1
        BY <1>1, <1>7, <4>1
      <4>2. CASE j \in i .. n
        <5>1. j \in HunkLines(u, i) /\ j \in i + 1 .. j
          BY <1>1, <1>3, <1>4, <4>2
        <5> QED
          BY <1>5, <5>1
      <4> QED
        BY <1>1, <4>1, <4>2
    <3> QED
      BY <1>1, <1>5, <3>1
  <2>2. \A k : k \in HunkLines(u, i) <=> k \in i .. n + 1
    <3>1. \A k \in HunkLines(u, i) : k \in 1 .. n \/ k = n + 1
      BY <1>1, <1>5
    <3> QED
      BY <1>1, <1>3, <1>4, <2>1, <3>1
  <2>3. HunkLines(u, i) = i .. n + 1
    BY <2>2
  <2> QED
    BY <1>1, <1>7, <2>3 DEF n
<1> QED
  BY <1>6, <1>7

\* A line begins a chunk when it is a marker or the first to say something.
LEMMA ChunkBegun ==
  ASSUME NEW t \in Texts, NEW x, NEW u \in Texts, LineMore(t, x, u), x \notin Headers,
         NEW i \in 1 .. Len(t), HunkLines(t, i) = i .. Len(t)
  PROVE  /\ x \in Markers \/ (Says(u, i, Len(t) + 1) /\ Silent(t, i)) =>
              ChunkLines(u, i) = ChunkLines(t, i) \cup {Len(t) + 1}
         /\ ~(x \in Markers \/ (Says(u, i, Len(t) + 1) /\ Silent(t, i))) =>
              ChunkLines(u, i) = ChunkLines(t, i)
         /\ Len(t) + 1 \notin ChunkLines(t, i)
<1> DEFINE n == Len(t)
<1>0. Begins(t, u) /\ u[n + 1] = x
  BY DEF LineMore
<1>1. /\ n \in Nat /\ i \in 1 .. n /\ \A k \in 1 .. n : u[k] = t[k]
      /\ HunkLines(u, i) = i .. n + 1
  BY LineAdded
<1>2. ChunkLines(t, i) = ChunkLines(u, i) \cap (1 .. n)
  BY <1>0, PrefixRead
<1>3. Silent(t, i) <=> \A k \in i + 1 .. n : ~Says(u, i, k)
  <2>1. \A k \in i + 1 .. n : k \in 1 .. n
    BY <1>1
  <2>2. \A k \in i + 1 .. n : Says(u, i, k) <=> Says(t, i, k)
    BY <1>1, <2>1 DEF Says
  <2> QED
    BY <2>2 DEF Silent
<1> HIDE DEF n
<1>4. n + 1 \in ChunkLines(u, i) <=> x \in Markers \/ (Says(u, i, n + 1) /\ Silent(t, i))
  <2>1. n + 1 \in HunkLines(u, i) \ {i} /\ (n + 1) - 1 = n
    BY <1>1
  <2> QED
    BY <1>0, <1>3, <2>1 DEF ChunkLines
<1>5. \A k \in ChunkLines(u, i) : k \in 1 .. n \/ k = n + 1
  BY <1>1 DEF ChunkLines
<1>6. n + 1 \notin ChunkLines(t, i)
  BY <1>1, <1>2
<1> QED
  BY <1>2, <1>4, <1>5, <1>6 DEF n

\* The lines of the last chunk are all that follow, and those of a chunk before it
\* do not change.
LEMMA LastChunkLines ==
  ASSUME NEW t \in Texts, NEW i \in 1 .. Len(t), NEW j, LastChunkAt(t, i, j),
         HunkLines(t, i) = i .. Len(t)
  PROVE  /\ ChunkPart(t, i, j) = j .. Len(t) /\ j \in i + 1 .. Len(t) /\ j \in 1 .. Len(t)
         /\ t[j] \in Markers \/ Says(t, i, j)
<1>1. Len(t) \in Nat
  BY LenProperties DEF Texts
<1>2. j \in i + 1 .. Len(t) /\ (t[j] \in Markers \/ Says(t, i, j))
  BY <1>1 DEF LastChunkAt, ChunkLines
<1>3. \A k : k \in ChunkPart(t, i, j) <=> k \in j .. Len(t)
  BY <1>1, <1>2 DEF ChunkPart, LastChunkAt
<1>4. ChunkPart(t, i, j) = j .. Len(t)
  BY <1>3
<1>5. j \in 1 .. Len(t)
  BY <1>1, <1>2
<1> QED
  BY <1>2, <1>4, <1>5

LEMMA EarlierChunk ==
  ASSUME NEW t \in Texts, NEW u \in Texts, Begins(t, u), NEW i \in 1 .. Len(t),
         NEW m \in 1 .. Len(t), NEW j \in ChunkLines(u, i), m < j, j <= Len(t) + 1
  PROVE  /\ ChunkPart(u, i, m) \subseteq 1 .. Len(t)
         /\ \A kinds : ChunkSays(u, i, m, kinds) = ChunkSays(t, i, m, kinds)
         /\ \A chunk : IsChunk(chunk, u, i, m) <=> IsChunk(chunk, t, i, m)
<1>1. Len(t) \in Nat /\ j \in Nat
  BY LenProperties DEF Texts, ChunkLines, HunkLines
<1>2. ChunkPart(u, i, m) \subseteq 1 .. Len(t)
  BY <1>1 DEF ChunkPart, HunkLines
<1> QED
  BY <1>2, ChunkStays

\* Some line of a chunk is one of it.
LEMMA ChunkStarted ==
  ASSUME NEW chunk \in ParsedChunk, NEW t, NEW i, NEW j, IsChunk(chunk, t, i, j)
  PROVE  Started(chunk) <=> ChunkSays(t, i, j, Old \cup New) # {}
<1>1. ChunkSays(t, i, j, Old \cup New) = ChunkSays(t, i, j, Old) \cup ChunkSays(t, i, j, New)
  <2> HIDE DEF Old, New
  <2> QED
    BY DEF ChunkSays
<1>2. chunk.old \in Seq(Nat) /\ chunk.new \in Seq(Nat)
  BY DEF ParsedChunk
<1>3. /\ chunk.old = <<>> <=> ChunkSays(t, i, j, Old) = {}
      /\ chunk.new = <<>> <=> ChunkSays(t, i, j, New) = {}
  BY <1>2, SomethingAscends DEF IsChunk
<1> QED
  BY <1>1, <1>3 DEF Started

\* The starts of chunks are a sequence, and its last element the last start.
LEMMA StartsOf ==
  ASSUME NEW t \in Texts, NEW i \in 1 .. Len(t), NEW list \in Seq(ParsedChunk),
         NEW starts \in [DOMAIN list -> ChunkLines(t, i)], Ascending(starts, ChunkLines(t, i))
  PROVE  /\ starts \in Seq(Nat) /\ Len(starts) = Len(list) /\ Len(list) \in Nat
         /\ DOMAIN list = 1 .. Len(list)
         /\ \A j : LastChunkAt(t, i, j) =>
              /\ Len(list) \in 1 .. Len(list) /\ starts[Len(list)] = j
              /\ \A k \in 1 .. Len(list) - 1 : starts[k] \in ChunkLines(t, i) /\ starts[k] < j
<1> DEFINE L == Len(list)
<1>1. L \in Nat /\ DOMAIN list = 1 .. L
  BY LenProperties
<1>2. \A k \in ChunkLines(t, i) : k \in Nat
  BY DEF ChunkLines, HunkLines
<1> HIDE DEF L
<1>3. starts \in [1 .. L -> Nat] /\ DOMAIN starts = 1 .. L
  BY <1>1, <1>2
<1>4. starts \in Seq(Nat) /\ Len(starts) = L
  BY <1>1, <1>3, SeqDef, LenProperties
<1>5. ASSUME NEW j, LastChunkAt(t, i, j)
      PROVE  /\ L \in 1 .. L /\ starts[L] = j
             /\ \A k \in 1 .. L - 1 : starts[k] \in ChunkLines(t, i) /\ starts[k] < j
  <2>1. j \in Range(starts) /\ j \in Nat
    BY <1>2, <1>5 DEF LastChunkAt, Ascending
  <2>2. PICK k \in 1 .. L : starts[k] = j
    BY <1>3, <2>1 DEF Range
  <2>3. L \in 1 .. L
    BY <1>1, <2>2
  <2>4. starts[L] \in ChunkLines(t, i) /\ starts[L] <= j /\ starts[L] \in Nat
    BY <1>1, <1>2, <1>5, <2>3 DEF LastChunkAt
  <2>5. k < L => starts[k] < starts[L]
    BY <1>3, <2>3 DEF Ascending
  <2>6. starts[L] = j
    BY <1>1, <2>1, <2>2, <2>4, <2>5
  <2>7. ASSUME NEW m \in 1 .. L - 1 PROVE starts[m] \in ChunkLines(t, i) /\ starts[m] < j
    <3>1. m \in 1 .. L /\ m < L
      BY <1>1
    <3> QED
      BY <1>1, <1>3, <2>3, <2>6, <3>1 DEF Ascending
  <2> QED
    BY <2>3, <2>6, <2>7
<1> QED
  BY <1>1, <1>4, <1>5 DEF L

\* Another reading of the last chunk.
LEMMA ChunksGrow ==
  ASSUME NEW t \in Texts, NEW u \in Texts, Begins(t, u), NEW i \in 1 .. Len(t), NEW j,
         HunkLines(t, i) = i .. Len(t), LastChunkAt(t, i, j), ChunkLines(u, i) = ChunkLines(t, i),
         NEW list \in Seq(ParsedChunk), AreChunks(list, t, i)
  PROVE  /\ list # <<>> /\ Last(list) \in ParsedChunk /\ IsChunk(Last(list), t, i, j)
         /\ \A c \in ParsedChunk : IsChunk(c, u, i, j) =>
              /\ Append(Front(list), c) \in Seq(ParsedChunk)
              /\ AreChunks(Append(Front(list), c), u, i)
<1> DEFINE L == Len(list)
<1>1. PICK starts \in [DOMAIN list -> ChunkLines(t, i)] :
        /\ Ascending(starts, ChunkLines(t, i))
        /\ \A n \in DOMAIN list : IsChunk(list[n], t, i, starts[n])
  BY DEF AreChunks
<1>2. /\ L \in Nat /\ DOMAIN list = 1 .. L /\ L \in 1 .. L /\ starts[L] = j
      /\ \A k \in 1 .. L - 1 : starts[k] \in ChunkLines(t, i) /\ starts[k] < j
  BY <1>1, StartsOf
<1>3. /\ list # <<>> /\ Last(list) = list[L] /\ list[L] \in ParsedChunk
      /\ IsChunk(list[L], t, i, j)
  <2>1. list # <<>>
    BY <1>2, EmptySeq
  <2>2. IsChunk(list[L], t, i, j)
    BY <1>1, <1>2
  <2>3. list[L] \in ParsedChunk
    BY <1>2, ElementOfSeq
  <2> QED
    BY <2>1, <2>2, <2>3 DEF Last
<1>4. ASSUME NEW c \in ParsedChunk, IsChunk(c, u, i, j)
      PROVE  /\ Append(Front(list), c) \in Seq(ParsedChunk)
             /\ AreChunks(Append(Front(list), c), u, i)
  <2> DEFINE r == Append(Front(list), c)
  <2>1. /\ r \in Seq(ParsedChunk) /\ Len(r) = L /\ r[L] = c
        /\ \A k \in 1 .. L - 1 : r[k] = list[k]
    BY <1>3, LastReplaced
  <2> HIDE DEF r, L
  <2>2. DOMAIN r = DOMAIN list
    BY <1>2, <2>1, LenProperties
  <2>3. j \in ChunkLines(u, i) /\ j \in 1 .. Len(t) /\ Len(t) \in Nat
    BY LenProperties, LastChunkLines DEF LastChunkAt, Texts
  <2>4. ASSUME NEW k \in 1 .. L PROVE IsChunk(r[k], u, i, starts[k])
    <3>1. CASE k = L
      BY <1>2, <1>4, <2>1, <3>1
    <3>2. CASE k \in 1 .. L - 1
      <4>1. starts[k] \in ChunkLines(t, i) /\ starts[k] < j /\ starts[k] \in 1 .. Len(t)
        BY <1>2, <2>3, <3>2 DEF ChunkLines, HunkLines
      <4>2. IsChunk(list[k], u, i, starts[k]) <=> IsChunk(list[k], t, i, starts[k])
        BY <2>3, <4>1, EarlierChunk
      <4> QED
        BY <1>1, <1>2, <2>1, <3>2, <4>2
    <3> QED
      BY <1>2, <3>1, <3>2
  <2>5. AreChunks(r, u, i)
    BY <1>1, <1>2, <2>2, <2>4 DEF AreChunks
  <2> QED
    BY <2>1, <2>5 DEF r
<1> QED
  BY <1>3, <1>4

\* One chunk more, which begins on the line that was added.
LEMMA ChunksOpen ==
  ASSUME NEW t \in Texts, NEW u \in Texts, Begins(t, u), NEW i \in 1 .. Len(t),
         HunkLines(t, i) = i .. Len(t), ChunkLines(u, i) = ChunkLines(t, i) \cup {Len(t) + 1},
         NEW list \in Seq(ParsedChunk), AreChunks(list, t, i),
         NEW c \in ParsedChunk, IsChunk(c, u, i, Len(t) + 1)
  PROVE  AreChunks(Append(list, c), u, i) /\ Append(list, c) \in Seq(ParsedChunk)
<1> DEFINE L == Len(list)  r == Append(list, c)  n == Len(t)
<1>1. PICK starts \in [DOMAIN list -> ChunkLines(t, i)] :
        /\ Ascending(starts, ChunkLines(t, i))
        /\ \A k \in DOMAIN list : IsChunk(list[k], t, i, starts[k])
  BY DEF AreChunks
<1>2. starts \in Seq(Nat) /\ Len(starts) = L /\ L \in Nat /\ DOMAIN list = 1 .. L
  BY <1>1, StartsOf
<1>3. r \in Seq(ParsedChunk) /\ Len(r) = L + 1 /\ r[L + 1] = c /\ \A k \in 1 .. L : r[k] = list[k]
  BY <1>2, AppendProperties
<1> HIDE DEF r
<1>4. DOMAIN r = 1 .. L + 1 /\ n \in Nat
  BY <1>3, LenProperties DEF Texts
<1>5. \A k \in ChunkLines(t, i) : k \in 1 .. n /\ k < n + 1
  BY <1>4 DEF ChunkLines, HunkLines
<1> DEFINE more == Append(starts, n + 1)
<1>6. more \in Seq(Nat) /\ Ascending(more, ChunkLines(u, i))
  <2>1. n + 1 \in Nat
    BY <1>4
  <2> HIDE DEF n
  <2>2. PICK m \in Nat : m = n + 1
    BY <2>1
  <2> QED
    BY <1>1, <1>2, <1>5, <2>2, OneMoreAscends DEF n
<1>7. Len(more) = L + 1 /\ more[L + 1] = n + 1 /\ \A k \in 1 .. L : more[k] = starts[k]
  BY <1>2, <1>4, AppendProperties
<1> HIDE DEF more, n, L
<1>8. more \in [DOMAIN r -> ChunkLines(u, i)]
  <2>1. more \in [1 .. L + 1 -> Nat] /\ DOMAIN more = 1 .. L + 1
    BY <1>6, <1>7, LenProperties
  <2>2. \A k \in 1 .. L + 1 : more[k] \in ChunkLines(u, i)
    BY <1>6, <2>1 DEF Ascending, Range
  <2> QED
    BY <1>4, <2>1, <2>2
<1>9. ASSUME NEW k \in 1 .. L + 1 PROVE IsChunk(r[k], u, i, more[k])
  <2>1. CASE k = L + 1
    BY <1>3, <1>7, <2>1 DEF n
  <2>2. CASE k \in 1 .. L
    <3>1. starts[k] \in 1 .. n /\ starts[k] < n + 1 /\ n + 1 \in ChunkLines(u, i) /\ n + 1 <= n + 1
      BY <1>1, <1>2, <1>4, <1>5, <2>2 DEF n
    <3>2. IsChunk(list[k], u, i, starts[k]) <=> IsChunk(list[k], t, i, starts[k])
      BY <3>1, EarlierChunk DEF n
    <3> QED
      BY <1>1, <1>2, <1>3, <1>7, <2>2, <3>2
  <2> QED
    BY <1>2, <2>1, <2>2
<1>10. AreChunks(r, u, i)
  BY <1>4, <1>6, <1>8, <1>9 DEF AreChunks
<1> QED
  BY <1>3, <1>10 DEF r

\* Without chunks.
LEMMA NoChunks ==
  ASSUME NEW t \in Texts, NEW i, ChunkLines(t, i) = {}, NEW list \in Seq(ParsedChunk)
  PROVE  AreChunks(list, t, i) <=> list = <<>>
<1>1. DOMAIN list = 1 .. Len(list) /\ Len(list) \in Nat
  BY LenProperties
<1>2. ASSUME AreChunks(list, t, i) PROVE list = <<>>
  <2>1. PICK starts \in [DOMAIN list -> ChunkLines(t, i)] : TRUE
    BY <1>2 DEF AreChunks
  <2>2. \A k \in DOMAIN list : starts[k] \in ChunkLines(t, i)
    OBVIOUS
  <2>3. Len(list) = 0
    BY <1>1, <2>2
  <2> QED
    BY <2>3, EmptySeq
<1>3. AreChunks(<<>>, t, i)
  <2>1. <<>> \in [DOMAIN <<>> -> ChunkLines(t, i)]
    OBVIOUS
  <2>2. Ascending(<<>>, ChunkLines(t, i))
    BY NothingAscends
  <2> QED
    BY <2>1, <2>2 DEF AreChunks
<1> QED
  BY <1>2, <1>3

LEMMA SilentHasNoChunk ==
  ASSUME NEW t \in Texts, NEW i \in 1 .. Len(t), Silent(t, i)
  PROVE  ChunkLines(t, i) = {}
<1>1. \A k \in HunkLines(t, i) \ {i} : k \in i + 1 .. Len(t)
  <2>1. Len(t) \in Nat
    BY LenProperties DEF Texts
  <2> QED
    BY <2>1 DEF HunkLines
<1>2. \A k \in i + 1 .. Len(t) : ~Says(t, i, k) /\ t[k] \notin Markers
  BY DEF Silent, Says, Markers
<1> QED
  BY <1>1, <1>2 DEF ChunkLines

\* The hunk is well formed as it stands when the reader would let it end here.
LEMMA HunkMayEnd ==
  ASSUME NEW t \in Texts, NEW at, NEW h, InHunk(at, h, t)
  PROVE  HunkFormed(t, h.path) <=>
           (h.kind = "update" => h.chunks # <<>> /\ Started(LastChunk(h)))
<1> DEFINE i == h.path
<1>1. /\ i \in 1 .. Len(t) /\ Len(t) \in Nat /\ HunkLines(t, i) = i .. Len(t) /\ h.kind = t[i]
      /\ h.chunks \in Seq(ParsedChunk)
  BY LenProperties DEF Texts, InHunk, HeaderLines, IsHunk, ParsedHunk
<1>2. HunkLines(t, i) \ {i} = i + 1 .. Len(t)
  BY <1>1
<1>3. CASE h.kind = "add"
  BY <1>1, <1>2, <1>3 DEF InHunk, HunkFormed
<1>4. CASE h.kind = "delete"
  <2>1. i + 1 .. Len(t) = {}
    BY <1>1, <1>4 DEF InHunk
  <2> QED
    BY <1>1, <1>2, <1>4, <2>1 DEF HunkFormed
<1>5. CASE h.kind = "update"
  <2>1. InUpdate(at, t, i) /\ AreChunks(h.chunks, t, i)
    BY <1>1, <1>5 DEF InHunk, IsHunk
  <2>2. HunkFormed(t, i) <=>
          /\ ChunkLines(t, i) # {}
          /\ \A j \in ChunkLines(t, i) : ChunkSays(t, i, j, Old \cup New) # {}
    <3> HIDE DEF i, Old, New, Markers
    <3> QED
      BY <1>1, <1>2, <1>5, <2>1 DEF InUpdate, LinesPlaced, EndsPlaced, HunkFormed
  <2>3. CASE (at = "update" /\ Len(t) = i) \/ (at = "chunks" /\ Len(t) > i /\ Silent(t, i))
    <3>1. Silent(t, i)
      BY <1>1, <2>3 DEF Silent
    <3>2. ChunkLines(t, i) = {}
      BY <1>1, <3>1, SilentHasNoChunk
    <3>3. h.chunks = <<>>
      BY <1>1, <2>1, <3>2, NoChunks
    <3> QED
      BY <1>5, <2>2, <3>2, <3>3
  <2>4. ASSUME NEW j \in 1 .. Len(t), LastChunkAt(t, i, j),
               \A m \in ChunkLines(t, i) \ {j} : ChunkSays(t, i, m, Old \cup New) # {}
        PROVE  HunkFormed(t, h.path) <=>
                 (h.kind = "update" => h.chunks # <<>> /\ Started(LastChunk(h)))
    <3>1. Begins(t, t)
      BY <1>1 DEF Begins
    <3>2. h.chunks # <<>> /\ Last(h.chunks) \in ParsedChunk /\ IsChunk(Last(h.chunks), t, i, j)
      BY <1>1, <2>1, <2>4, <3>1, ChunksGrow
    <3>3. Started(Last(h.chunks)) <=> ChunkSays(t, i, j, Old \cup New) # {}
      BY <3>2, ChunkStarted
    <3>4. HunkFormed(t, i) <=> ChunkSays(t, i, j, Old \cup New) # {}
      BY <2>2, <2>4 DEF LastChunkAt
    <3> QED
      BY <1>5, <3>2, <3>3, <3>4 DEF LastChunk
  <2>5. \/ (at = "update" /\ Len(t) = i) \/ (at = "chunks" /\ Len(t) > i /\ Silent(t, i))
        \/ \E j \in 1 .. Len(t) :
             /\ LastChunkAt(t, i, j)
             /\ \A m \in ChunkLines(t, i) \ {j} : ChunkSays(t, i, m, Old \cup New) # {}
    <3> HIDE DEF i, Old, New
    <3> QED
      BY <2>1 DEF InUpdate
  <2> HIDE DEF i
  <2> QED
    BY <2>3, <2>4, <2>5
<1>6. h.kind \in Headers
  BY DEF InHunk, ParsedHunk
<1> QED
  BY <1>3, <1>4, <1>5, <1>6 DEF Headers

-----------------------------------------------------------------------------
(* One line of a hunk.                                                     *)

\* The hunk goes on with its new line, or the patch is refused whatever follows.
GoesOn(r, q, i, u) ==
  \/ r = Failed /\ NeverFormed(u)
  \/ \E at, h : /\ r = [at |-> at, hunks |-> Append(Front(q), h)]
                /\ InHunk(at, h, u) /\ h.path = i

\* The reader's last hunk is h, and the text goes on with x.
AtLine(s, h, t, x, u) ==
  /\ t \in Texts /\ u \in Texts /\ x \in PatchLineKinds \ Headers /\ LineMore(t, x, u)
  /\ s.hunks \in Seq(ParsedHunk) /\ s.hunks # <<>> /\ h = Last(s.hunks)
  /\ InHunk(s.at, h, t)

LEMMA AtLineFacts ==
  ASSUME NEW s, NEW h, NEW t, NEW x, NEW u, AtLine(s, h, t, x, u)
  PROVE  /\ h \in ParsedHunk /\ h.path \in 1 .. Len(t) /\ h.path \in Nat /\ h.kind = t[h.path]
         /\ Len(t) \in Nat /\ Len(u) = Len(t) + 1 /\ u[Len(t) + 1] = x
         /\ \A k \in 1 .. Len(t) : u[k] = t[k]
         /\ Begins(t, u) /\ u \in Texts /\ t \in Texts
         /\ HunkLines(t, h.path) = h.path .. Len(t)
         /\ HunkLines(u, h.path) = h.path .. Len(t) + 1
         /\ h.path \in HeaderLines(u) /\ h.path \in 1 .. Len(u)
         /\ u[h.path] = t[h.path] /\ IsHunk(h, t, h.path)
<1> DEFINE i == h.path
<1>1. /\ h \in ParsedHunk /\ i \in HeaderLines(t) /\ HunkLines(t, i) = i .. Len(t)
      /\ IsHunk(h, t, i) /\ t \in Texts /\ u \in Texts /\ LineMore(t, x, u) /\ x \notin Headers
  BY DEF AtLine, InHunk
<1> HIDE DEF i
<1>2. Len(t) \in Nat /\ i \in 1 .. Len(t) /\ i \in Nat /\ h.kind = t[i]
  BY <1>1, LenProperties DEF Texts, HeaderLines, IsHunk
<1>3. /\ Begins(t, u) /\ Len(u) = Len(t) + 1 /\ u[Len(t) + 1] = x
      /\ \A k \in 1 .. Len(t) : u[k] = t[k]
  BY <1>1 DEF LineMore, Begins
<1>4. HunkLines(u, i) = i .. Len(t) + 1
  BY <1>1, <1>2, LineAdded
<1>5. i \in HeaderLines(u)
  BY <1>1, <1>2, <1>3, PrefixRead
<1>6. i \in 1 .. Len(u)
  BY <1>2, <1>3
<1>7. u[i] = t[i]
  BY <1>2, <1>3
<1> QED
  BY <1>1, <1>2, <1>3, <1>4, <1>5, <1>6, <1>7 DEF i

\* The lines that are there stay there.
LEMMA LinesStay ==
  ASSUME NEW s, NEW h, NEW t, NEW x, NEW u, AtLine(s, h, t, x, u), NEW v \in Texts, Begins(u, v)
  PROVE  /\ Len(t) + 1 \in HunkLines(v, h.path) \ {h.path} /\ v[Len(t) + 1] = x
         /\ v[h.path] = h.kind /\ Begins(t, v)
         /\ \A k \in 1 .. Len(t) : v[k] = t[k]
         /\ \A k \in h.path .. Len(t) : k \in HunkLines(v, h.path)
         /\ \A k \in ChunkLines(u, h.path) : k \in ChunkLines(v, h.path)
<1> DEFINE i == h.path  n == Len(t)
<1>1. /\ i \in 1 .. n /\ n \in Nat /\ i \in Nat /\ Len(u) = n + 1 /\ u[n + 1] = x /\ i \in 1 .. Len(u)
      /\ (\A k \in 1 .. n : u[k] = t[k]) /\ HunkLines(u, i) = i .. n + 1 /\ h.kind = t[i]
      /\ u \in Texts
  BY AtLineFacts
<1>2. Len(u) <= Len(v) /\ \A k \in 1 .. Len(u) : v[k] = u[k]
  BY DEF Begins
<1>3. /\ HunkLines(u, i) = HunkLines(v, i) \cap (1 .. Len(u))
      /\ ChunkLines(u, i) = ChunkLines(v, i) \cap (1 .. Len(u))
  <2> HIDE DEF i
  <2> QED
    BY <1>1, PrefixRead
<1>4. Len(v) \in Nat
  BY LenProperties DEF Texts
<1> HIDE DEF i, n
<1>5. n + 1 \in HunkLines(v, i) \ {i} /\ \A k \in i .. n : k \in HunkLines(v, i)
  <2>1. \A k \in i .. n + 1 : k \in HunkLines(v, i)
    BY <1>1, <1>3
  <2> QED
    BY <1>1, <2>1
<1>6. v[n + 1] = x /\ \A k \in 1 .. n : v[k] = t[k]
  <2>1. n + 1 \in 1 .. Len(u) /\ \A k \in 1 .. n : k \in 1 .. Len(u)
    BY <1>1
  <2> QED
    BY <1>1, <1>2, <2>1
<1>7. n <= Len(v)
  BY <1>1, <1>2, <1>4
<1> QED
  BY <1>1, <1>3, <1>5, <1>6, <1>7 DEF i, n, Begins

\* The line x has no place in the hunk h.
Misplaced(h, t, x) ==
  \/ h.kind = "add" /\ x # "+"
  \/ h.kind = "delete"
  \/ h.kind = "update" /\ x = "junk"
  \/ h.kind = "update" /\ x = "move" /\ Len(t) # h.path
  \/ \E k \in h.path + 1 .. Len(t) :
       /\ h.kind = "update" /\ x # "" /\ t[k] = "eof" /\ x \notin Markers
       /\ \A m \in k + 1 .. Len(t) : t[m] \notin Markers

LEMMA RefusedLine ==
  ASSUME NEW s, NEW h, NEW t, NEW x, NEW u, AtLine(s, h, t, x, u), Misplaced(h, t, x)
  PROVE  NeverFormed(u)
<1> DEFINE i == h.path  n == Len(t)
<1>1. i \in HeaderLines(u) /\ i \in Nat /\ n \in Nat /\ u \in Texts /\ i \in 1 .. n
  BY AtLineFacts
<1>2. ASSUME NEW v \in Texts, Begins(u, v) PROVE ~HunkFormed(v, i)
  <2>1. /\ n + 1 \in HunkLines(v, i) \ {i} /\ v[n + 1] = x /\ v[i] = h.kind
        /\ (\A k \in 1 .. n : v[k] = t[k]) /\ \A k \in i .. n : k \in HunkLines(v, i)
    BY <1>2, LinesStay
  <2> HIDE DEF i, n
  <2>2. CASE h.kind = "add" /\ x # "+"
    BY <2>1, <2>2 DEF HunkFormed
  <2>3. CASE h.kind = "delete"
    BY <2>1, <2>3 DEF HunkFormed
  <2>4. CASE h.kind = "update" /\ (x = "junk" \/ (x = "move" /\ n # i))
    <3>1. \A k \in HunkLines(v, i) \ {i} : HunkFormed(v, i) =>
             v[k] \in Old \cup New \cup Markers \cup {"eof"} \/ (v[k] = "move" /\ k = i + 1)
      BY <2>1, <2>4 DEF HunkFormed
    <3>2. n + 1 # i + 1 \/ x = "junk"
      BY <1>1, <2>4
    <3> QED
      BY <2>1, <2>4, <3>1, <3>2 DEF Old, New, Markers
  <2>5. ASSUME h.kind = "update", x # "", NEW k \in i + 1 .. n, t[k] = "eof", x \notin Markers,
               \A m \in k + 1 .. n : t[m] \notin Markers
        PROVE  ~HunkFormed(v, i)
    <3>1. \A p, m \in HunkLines(v, i) \ {i} : HunkFormed(v, i) =>
             (v[p] = "eof" /\ p < m /\ (\A j \in p + 1 .. m : v[j] \notin Markers) => v[m] = "")
      BY <2>1, <2>5 DEF HunkFormed
    <3>k. k \in i .. n /\ k \in 1 .. n /\ k # i /\ k < n + 1
      BY <1>1
    <3>2. k \in HunkLines(v, i) \ {i} /\ v[k] = "eof" /\ k < n + 1
      <4>1. v[k] = t[k] /\ k \in HunkLines(v, i)
        BY <2>1, <3>k
      <4> QED
        BY <2>5, <3>k, <4>1
    <3>3. \A j \in k + 1 .. n + 1 : v[j] \notin Markers
      <4> SUFFICES ASSUME NEW j \in k + 1 .. n + 1 PROVE v[j] \notin Markers
        OBVIOUS
      <4>1. CASE j = n + 1
        BY <2>1, <2>5, <4>1
      <4>2. CASE j # n + 1
        <5>1. j \in k + 1 .. n /\ j \in 1 .. n
          BY <1>1, <4>2
        <5> QED
          BY <2>1, <2>5, <5>1
      <4> QED
        BY <4>1, <4>2
    <3> QED
      BY <2>1, <2>5, <3>1, <3>2, <3>3
  <2>6. \/ h.kind = "add" /\ x # "+"
        \/ h.kind = "delete"
        \/ h.kind = "update" /\ (x = "junk" \/ (x = "move" /\ n # i))
        \/ \E k \in i + 1 .. n : /\ h.kind = "update" /\ x # "" /\ t[k] = "eof" /\ x \notin Markers
                                /\ \A m \in k + 1 .. n : t[m] \notin Markers
    BY DEF i, n, Misplaced
  <2> QED
    BY <2>2, <2>3, <2>4, <2>5, <2>6
<1> HIDE DEF i
<1> QED
  BY <1>1, <1>2, RefusedBy

\* A chunk that ends before any line of it, at a marker or at the end of the file.
LEMMA RefusedChunk ==
  ASSUME NEW s, NEW h, NEW t, NEW x, NEW u, AtLine(s, h, t, x, u), h.kind = "update",
         NEW j \in ChunkLines(u, h.path),
         \/ x = "eof"
         \/ j # Len(t) + 1 /\ Len(t) + 1 \in ChunkLines(u, h.path),
         j # Len(t) + 1 => ChunkSays(t, h.path, j, Old \cup New) = {}
  PROVE  NeverFormed(u)
<1> DEFINE i == h.path  n == Len(t)
<1>1. /\ i \in HeaderLines(u) /\ i \in Nat /\ n \in Nat /\ u \in Texts /\ t \in Texts
      /\ i \in 1 .. n /\ HunkLines(u, i) = i .. n + 1
  BY AtLineFacts
<1>2. j \in i + 1 .. n + 1
  BY <1>1 DEF ChunkLines
<1>3. ASSUME NEW v \in Texts, Begins(u, v) PROVE ~HunkFormed(v, i)
  <2>1. v[n + 1] = x /\ v[i] = h.kind /\ Begins(t, v) /\ \A k \in ChunkLines(u, i) : k \in ChunkLines(v, i)
    BY <1>3, LinesStay
  <2>2. ChunkSays(v, i, j, Old \cup New) = {}
    <3>1. CASE x = "eof"
      <4> SUFFICES ASSUME NEW k \in ChunkSays(v, i, j, Old \cup New) PROVE FALSE
        OBVIOUS
      <4>1. k \in Nat /\ k >= j /\ \A m \in j .. k : v[m] # "eof"
        BY <1>1, <1>2 DEF ChunkSays, ChunkPart, HunkLines
      <4>2. k < n + 1
        <5>1. n + 1 \notin j .. k
          BY <2>1, <3>1, <4>1
        <5> QED
          BY <1>1, <1>2, <4>1, <5>1
      <4>3. j \in 1 .. n /\ k \in 1 .. n /\ j # n + 1
        BY <1>1, <1>2, <4>1, <4>2
      <4> HIDE DEF i, n
      <4>4. k \in ChunkSays(t, i, j, Old \cup New)
        <5>1. ChunkSays(t, i, j, Old \cup New) = ChunkSays(v, i, j, Old \cup New) \cap (1 .. Len(t))
          BY <1>1, <2>1, <4>3, PrefixRead DEF n
        <5> QED
          BY <4>3, <5>1 DEF n
      <4> QED
        BY <4>3, <4>4 DEF i, n
    <3>2. CASE j # n + 1 /\ n + 1 \in ChunkLines(u, i)
      <4>1. j \in 1 .. n /\ j < n + 1 /\ n + 1 \in ChunkLines(v, i) /\ n + 1 <= n + 1
        BY <1>1, <1>2, <2>1, <3>2
      <4> HIDE DEF i
      <4>2. ChunkSays(v, i, j, Old \cup New) = ChunkSays(t, i, j, Old \cup New)
        BY <1>1, <2>1, <4>1, EarlierChunk
      <4> QED
        BY <3>2, <4>2 DEF i
    <3> QED
      BY <3>1, <3>2
  <2> HIDE DEF i, n, Old, New
  <2> QED
    BY <2>1, <2>2 DEF HunkFormed, i
<1> HIDE DEF i
<1> QED
  BY <1>1, <1>3, RefusedBy

\* After every end of file comes a marker.
EndsReopened(t, i) == \A k \in i + 1 .. Len(t) :
  t[k] = "eof" => \E m \in k + 1 .. Len(t) : t[m] \in Markers

\* A line that has its place.
Fitting(h, t, x) ==
  \/ x \in Old \cup New \cup Markers \cup {"eof"}
  \/ x = "move" /\ Len(t) = h.path

\* A line that is no line after an end of file.
NotAfterEnd(h, t, x) == x = "" \/ x \in Markers \/ EndsReopened(t, h.path)

\* A line that fits where it is leaves the lines in their places.
LEMMA PlacedLine ==
  ASSUME NEW s, NEW h, NEW t, NEW x, NEW u, AtLine(s, h, t, x, u),
         LinesPlaced(t, h.path), EndsPlaced(t, h.path),
         Fitting(h, t, x),
         NotAfterEnd(h, t, x)
  PROVE  LinesPlaced(u, h.path) /\ EndsPlaced(u, h.path)
<1> DEFINE i == h.path  n == Len(t)
<1>1. /\ n \in Nat /\ i \in 1 .. n /\ Len(u) = n + 1 /\ u[n + 1] = x /\ \A k \in 1 .. n : u[k] = t[k]
  BY AtLineFacts
<1> HIDE DEF i, n
<1>2. \A k \in i + 1 .. n : k \in 1 .. n /\ u[k] = t[k]
  BY <1>1
<1>3. \A k \in i + 1 .. n + 1 : k \in i + 1 .. n \/ k = n + 1
  BY <1>1
<1>4. LinesPlaced(u, i)
  <2> HIDE DEF Old, New, Markers
  <2>1. \A k \in i + 1 .. n :
          t[k] \in Old \cup New \cup Markers \cup {"eof"} \/ (t[k] = "move" /\ k = i + 1)
    BY DEF LinesPlaced, i, n
  <2>2. x \in Old \cup New \cup Markers \cup {"eof"} \/ (x = "move" /\ n = i)
    BY DEF i, n, Fitting
  <2> QED
    BY <1>1, <1>2, <1>3, <2>1, <2>2 DEF LinesPlaced
<1>5. EndsPlaced(u, i)
  <2>1. ASSUME NEW k \in i + 1 .. n + 1, NEW m \in i + 1 .. n + 1, u[k] = "eof", k < m,
               \A j \in k + 1 .. m : u[j] \notin Markers
        PROVE  u[m] = ""
    <3>k. k \in i + 1 .. n
      BY <1>1, <2>1
    <3>t. u[k] = t[k]
      BY <1>2, <3>k
    <3>1. CASE m = n + 1
      <4>1. CASE x = ""
        BY <1>1, <3>1, <4>1
      <4>2. CASE x \in Markers
        <5>1. m \in k + 1 .. m
          BY <1>1, <2>1
        <5> QED
          BY <1>1, <2>1, <3>1, <4>2, <5>1
      <4>3. CASE EndsReopened(t, i)
        <5>1. PICK q \in k + 1 .. n : t[q] \in Markers
          BY <2>1, <3>k, <3>t, <4>3 DEF EndsReopened, n
        <5>2. q \in k + 1 .. m /\ q \in i + 1 .. n
          BY <1>1, <3>1, <3>k
        <5> QED
          BY <1>2, <2>1, <5>1, <5>2
      <4> QED
        BY <4>1, <4>2, <4>3 DEF i, NotAfterEnd
    <3>2. CASE m \in i + 1 .. n
      <4>1. \A j \in k + 1 .. m : j \in i + 1 .. n
        BY <1>1, <3>2, <3>k
      <4>2. \A j \in k + 1 .. m : t[j] \notin Markers
        BY <1>2, <2>1, <4>1
      <4>3. t[m] = ""
        BY <2>1, <3>2, <3>k, <3>t, <4>2 DEF EndsPlaced, i, n
      <4> QED
        BY <1>2, <3>2, <4>3
    <3> QED
      BY <1>3, <3>1, <3>2
  <2> QED
    BY <1>1, <2>1 DEF EndsPlaced
<1> QED
  BY <1>4, <1>5 DEF i

\* The hunk of an update with its new line.
LEMMA UpdateGrows ==
  ASSUME NEW s, NEW h, NEW t, NEW x, NEW u, AtLine(s, h, t, x, u), h.kind = "update",
         NEW h2 \in ParsedHunk, h2.kind = h.kind, h2.path = h.path, h2.contents = h.contents,
         h2.movedTo = IF Len(t) = h.path /\ x = "move" THEN Len(t) + 1 ELSE h.movedTo,
         AreChunks(h2.chunks, u, h.path), NEW at, InUpdate(at, u, h.path)
  PROVE  InHunk(at, h2, u)
<1> DEFINE i == h.path  n == Len(t)
<1>1. /\ n \in Nat /\ i \in 1 .. n /\ Len(u) = n + 1 /\ u[n + 1] = x /\ \A k \in 1 .. n : u[k] = t[k]
      /\ HunkLines(t, i) = i .. n /\ HunkLines(u, i) = i .. n + 1 /\ i \in HeaderLines(u)
      /\ h.kind = t[i] /\ u[i] = t[i] /\ IsHunk(h, t, i)
  BY AtLineFacts
<1>2. /\ h2.kind = "update" /\ h2.path = i /\ h2.contents = h.contents
      /\ h2.movedTo = IF n = i /\ x = "move" THEN n + 1 ELSE h.movedTo
      /\ h.kind = "update"
  OBVIOUS
<1> HIDE DEF i, n
<1>3. h2.movedTo = IF /\ u[i] = "update" /\ i + 1 \in HunkLines(u, i) /\ u[i + 1] = "move"
                   THEN i + 1 ELSE 0
  <2>1. h.movedTo = IF i + 1 \in i .. n /\ t[i + 1] = "move" THEN i + 1 ELSE 0
    BY <1>1, <1>2 DEF IsHunk
  <2>2. CASE n = i
    <3>1. i + 1 \notin i .. n /\ i + 1 \in i .. n + 1 /\ i + 1 = n + 1
      BY <1>1, <2>2
    <3> QED
      BY <1>1, <1>2, <2>1, <2>2, <3>1
  <2>3. CASE n # i
    <3>1. i + 1 \in i .. n /\ i + 1 \in i .. n + 1 /\ i + 1 \in 1 .. n
      BY <1>1, <2>3
    <3> QED
      BY <1>1, <1>2, <2>1, <2>3, <3>1
  <2> QED
    BY <2>2, <2>3
<1>4. h.contents = <<>>
  BY <1>1, <1>2 DEF IsHunk
<1>5. AreChunks(h2.chunks, u, i) /\ InUpdate(at, u, i)
  BY DEF i
<1>6. IsHunk(h2, u, i)
  BY <1>1, <1>2, <1>3, <1>4, <1>5 DEF IsHunk
<1> QED
  BY <1>1, <1>2, <1>5, <1>6 DEF InHunk

\* The hunk that the reader makes of the last one.
LEMMA GoesOnTo ==
  ASSUME NEW s, NEW h, NEW i, NEW u, NEW at, InHunk(at, h, u), h.path = i
  PROVE  GoesOn(OnLast(s, at, h), s.hunks, i, u)
BY DEF GoesOn, OnLast

\* A line of an Add File hunk.
LEMMA AddLineRead ==
  ASSUME NEW s, NEW h, NEW t, NEW x, NEW u, AtLine(s, h, t, x, u), h.kind = "add"
  PROVE  GoesOn(ParseOneHunk(s, x, Len(t) + 1), s.hunks, h.path, u)
<1> DEFINE i == h.path  n == Len(t)
<1>1. /\ n \in Nat /\ i \in 1 .. n /\ Len(u) = n + 1 /\ u[n + 1] = x /\ \A k \in 1 .. n : u[k] = t[k]
      /\ HunkLines(t, i) = i .. n /\ HunkLines(u, i) = i .. n + 1 /\ i \in HeaderLines(u)
      /\ h.kind = t[i] /\ u[i] = t[i] /\ IsHunk(h, t, i) /\ h \in ParsedHunk
  BY AtLineFacts
<1>2. s.at = "add" /\ x \notin Headers /\ h = Last(s.hunks) /\ \A k \in i + 1 .. n : t[k] = "+"
  BY DEF AtLine, InHunk
<1>3. CASE x # "+"
  <2>1. ParseOneHunk(s, x, n + 1) = Failed
    BY <1>2, <1>3 DEF ParseOneHunk, ParseHeader
  <2>2. NeverFormed(u)
    BY <1>3, RefusedLine DEF Misplaced
  <2> QED
    BY <2>1, <2>2 DEF GoesOn
<1>4. CASE x = "+"
  <2> DEFINE h2 == [h EXCEPT !.contents = Append(@, n + 1)]
  <2>1. ParseOneHunk(s, x, n + 1) = OnLast(s, "add", h2)
    BY <1>2, <1>4 DEF ParseOneHunk
  <2>2. /\ h.contents \in Seq(Nat) /\ Ascending(h.contents, HunkLines(t, i) \ {i})
        /\ h.movedTo = 0 /\ h.chunks = <<>>
    BY <1>1 DEF IsHunk, ParsedHunk
  <2> HIDE DEF i, n
  <2>3. /\ Append(h.contents, n + 1) \in Seq(Nat)
        /\ Ascending(Append(h.contents, n + 1), (HunkLines(t, i) \ {i}) \cup {n + 1})
    BY <1>1, <2>2, OneMoreAscends
  <2>4. (HunkLines(t, i) \ {i}) \cup {n + 1} = HunkLines(u, i) \ {i}
    BY <1>1
  <2>5. /\ h2 \in ParsedHunk /\ h2.kind = "add" /\ h2.path = i /\ h2.movedTo = 0 /\ h2.chunks = <<>>
        /\ h2.contents = Append(h.contents, n + 1)
    BY <1>1, <2>2, <2>3 DEF ParsedHunk, i
  <2> HIDE DEF h2
  <2>6. IsHunk(h2, u, i)
    BY <1>1, <2>3, <2>4, <2>5 DEF IsHunk
  <2>7. \A k \in i + 1 .. n + 1 : u[k] = "+"
    <3>1. \A k \in i + 1 .. n + 1 : k = n + 1 \/ (k \in i + 1 .. n /\ k \in 1 .. n)
      BY <1>1
    <3> QED
      BY <1>1, <1>2, <1>4, <3>1 DEF i, n
  <2>8. InHunk("add", h2, u)
    BY <1>1, <2>5, <2>6, <2>7 DEF InHunk
  <2> QED
    BY <2>1, <2>5, <2>8, GoesOnTo DEF i, n
<1> QED
  BY <1>3, <1>4

\* A line of a Delete File hunk, which has none.
LEMMA DeleteLineRead ==
  ASSUME NEW s, NEW h, NEW t, NEW x, NEW u, AtLine(s, h, t, x, u), h.kind = "delete"
  PROVE  GoesOn(ParseOneHunk(s, x, Len(t) + 1), s.hunks, h.path, u)
<1>1. s.at = "delete" /\ x \notin Headers
  BY DEF AtLine, InHunk
<1>2. ParseOneHunk(s, x, Len(t) + 1) = Failed
  BY <1>1 DEF ParseOneHunk, ParseHeader
<1>3. NeverFormed(u)
  BY RefusedLine DEF Misplaced
<1> QED
  BY <1>2, <1>3 DEF GoesOn

\* What is known of an update that is read.
LEMMA UpdateFacts ==
  ASSUME NEW s, NEW h, NEW t, NEW x, NEW u, AtLine(s, h, t, x, u), h.kind = "update"
  PROVE  /\ InUpdate(s.at, t, h.path) /\ LinesPlaced(t, h.path) /\ EndsPlaced(t, h.path)
         /\ h.chunks \in Seq(ParsedChunk) /\ AreChunks(h.chunks, t, h.path)
         /\ h = Last(s.hunks) /\ x \notin Headers
         /\ Silent(t, h.path) => h.chunks = <<>> /\ ChunkLines(t, h.path) = {}
<1>1. h \in ParsedHunk /\ IsHunk(h, t, h.path) /\ h.kind = t[h.path] /\ t \in Texts /\ h.path \in 1 .. Len(t)
  BY AtLineFacts
<1>2. InUpdate(s.at, t, h.path) /\ h = Last(s.hunks) /\ x \notin Headers
  BY DEF AtLine, InHunk
<1>3. h.chunks \in Seq(ParsedChunk) /\ AreChunks(h.chunks, t, h.path)
  BY <1>1 DEF IsHunk, ParsedHunk
<1>4. ASSUME Silent(t, h.path) PROVE h.chunks = <<>> /\ ChunkLines(t, h.path) = {}
  BY <1>1, <1>3, <1>4, SilentHasNoChunk, NoChunks
<1> QED
  BY <1>2, <1>3, <1>4 DEF InUpdate

\* The chunk that a marker begins is empty.
LEMMA MarkerChunk ==
  ASSUME NEW n \in Nat, NEW x \in Markers
  PROVE  LET c == Chunk(IF x = "@@" THEN 0 ELSE n + 1) IN
         /\ c \in ParsedChunk /\ c.old = <<>> /\ c.new = <<>> /\ c.eof = FALSE
         /\ c.context = IF x = "@@ context" THEN n + 1 ELSE 0
<1>1. ASSUME NEW e \in Nat
      PROVE  /\ Chunk(e) \in ParsedChunk /\ Chunk(e).old = <<>> /\ Chunk(e).new = <<>>
             /\ Chunk(e).eof = FALSE /\ Chunk(e).context = e
  <2>1. <<>> \in Seq(Nat)
    OBVIOUS
  <2> QED
    BY <2>1 DEF Chunk, ParsedChunk
<1>2. CASE x = "@@"
  <2>1. (IF x = "@@" THEN 0 ELSE n + 1) = 0 /\ (IF x = "@@ context" THEN n + 1 ELSE 0) = 0
    BY <1>2
  <2> QED
    BY <1>1, <2>1
<1>3. CASE x = "@@ context"
  <2>1. (IF x = "@@" THEN 0 ELSE n + 1) = n + 1 /\ (IF x = "@@ context" THEN n + 1 ELSE 0) = n + 1
    BY <1>3
  <2>2. PICK e \in Nat : e = n + 1
    OBVIOUS
  <2> QED
    BY <1>1, <2>1, <2>2
<1> QED
  BY <1>2, <1>3 DEF Markers

\* A marker opens a chunk behind chunks that say something.
LEMMA MarkerRead ==
  ASSUME NEW s, NEW h, NEW t, NEW x, NEW u, AtLine(s, h, t, x, u), h.kind = "update",
         x \in Markers, \A m \in ChunkLines(t, h.path) : ChunkSays(t, h.path, m, Old \cup New) # {}
  PROVE  GoesOn(ParseNext(s, x, Len(t) + 1), s.hunks, h.path, u)
<1> DEFINE i == h.path  n == Len(t)
           c == Chunk(IF x = "@@" THEN 0 ELSE n + 1)
           h2 == [h EXCEPT !.chunks = Append(@, c)]
<1>1. /\ n \in Nat /\ i \in 1 .. n /\ i \in Nat /\ Len(u) = n + 1 /\ u[n + 1] = x
      /\ HunkLines(t, i) = i .. n /\ HunkLines(u, i) = i .. n + 1
      /\ h \in ParsedHunk /\ t \in Texts /\ u \in Texts /\ Begins(t, u)
  BY AtLineFacts
<1>2. /\ InUpdate(s.at, t, i) /\ LinesPlaced(t, i) /\ EndsPlaced(t, i)
      /\ h.chunks \in Seq(ParsedChunk) /\ AreChunks(h.chunks, t, i) /\ h = Last(s.hunks)
  BY UpdateFacts
<1>3. ParseNext(s, x, n + 1) = OnLast(s, "chunk", h2)
  BY <1>2 DEF ParseNext, Markers, Starred, Headers
<1>m. x # "move"
  BY DEF Markers
<1>4. ChunkLines(u, i) = ChunkLines(t, i) \cup {n + 1}
  <2>1. LineMore(t, x, u) /\ x \notin Headers
    BY DEF AtLine
  <2> HIDE DEF i
  <2> QED
    BY <1>1, <2>1, ChunkBegun
<1>5. /\ c \in ParsedChunk /\ c.old = <<>> /\ c.new = <<>> /\ c.eof = FALSE
      /\ c.context = IF x = "@@ context" THEN n + 1 ELSE 0
  BY <1>1, MarkerChunk
<1> HIDE DEF c
<1>6. \A k \in HunkLines(u, i) : k >= n + 1 => k = n + 1
  BY <1>1
<1>7. \A k \in ChunkPart(u, i, n + 1) : k = n + 1
  BY <1>6 DEF ChunkPart
<1> HIDE DEF i, n
<1>8. IsChunk(c, u, i, n + 1)
  <2>1. x \notin Old /\ x \notin New /\ x # "eof"
    BY DEF Old, New, Markers
  <2>2. ChunkSays(u, i, n + 1, Old) = {} /\ ChunkSays(u, i, n + 1, New) = {}
    <3> HIDE DEF Old, New
    <3> QED
      BY <1>1, <1>7, <2>1 DEF ChunkSays
  <2>3. ~\E k \in ChunkPart(u, i, n + 1) : u[k] = "eof"
    BY <1>1, <1>7, <2>1
  <2> QED
    BY <1>1, <1>5, <2>2, <2>3, NothingAscends DEF IsChunk
<1>9. AreChunks(Append(h.chunks, c), u, i) /\ Append(h.chunks, c) \in Seq(ParsedChunk)
  BY <1>1, <1>2, <1>4, <1>5, <1>8, ChunksOpen DEF n
<1>10. /\ h2 \in ParsedHunk /\ h2.kind = h.kind /\ h2.path = h.path /\ h2.contents = h.contents
       /\ h2.movedTo = h.movedTo /\ h2.chunks = Append(h.chunks, c)
  BY <1>1, <1>9 DEF ParsedHunk
<1> HIDE DEF h2
<1>11. InUpdate("chunk", u, i)
  <2>1. LinesPlaced(u, i) /\ EndsPlaced(u, i)
    <3>1. Fitting(h, t, x) /\ NotAfterEnd(h, t, x)
      BY DEF Fitting, NotAfterEnd
    <3> QED
      BY <1>2, <3>1, PlacedLine DEF i
  <2>2. n + 1 \in 1 .. Len(u) /\ \A k \in n + 1 .. Len(u) : u[k] # "eof"
    <3>1. \A k \in n + 1 .. Len(u) : k = n + 1
      BY <1>1
    <3>2. x # "eof"
      BY DEF Markers
    <3> QED
      BY <1>1, <3>1, <3>2
  <2>3. \A m \in ChunkLines(t, i) : m \in 1 .. n /\ m < n + 1
    BY <1>1 DEF ChunkLines
  <2>4. LastChunkAt(u, i, n + 1)
    BY <1>1, <1>4, <2>3 DEF LastChunkAt
  <2>5. \A m \in ChunkLines(u, i) \ {n + 1} : ChunkSays(u, i, m, Old \cup New) # {}
    <3> SUFFICES ASSUME NEW m \in ChunkLines(t, i) PROVE ChunkSays(u, i, m, Old \cup New) # {}
      BY <1>4
    <3>1. m \in 1 .. n /\ m < n + 1 /\ n + 1 <= n + 1 /\ n + 1 \in ChunkLines(u, i)
      BY <1>1, <1>4, <2>3
    <3>2. ChunkSays(u, i, m, Old \cup New) = ChunkSays(t, i, m, Old \cup New)
      BY <1>1, <3>1, EarlierChunk DEF n
    <3> QED
      BY <3>2 DEF i
  <2> QED
    BY <2>1, <2>2, <2>4, <2>5 DEF InUpdate
<1>12. InHunk("chunk", h2, u)
  BY <1>9, <1>10, <1>11, <1>m, UpdateGrows DEF i
<1> QED
  BY <1>3, <1>10, <1>12, GoesOnTo DEF n, i

\* The line that a chunk takes in.
LEMMA ChunkTakes ==
  ASSUME NEW chunk \in ParsedChunk, NEW n \in Nat, NEW x, x \in Old \cup New, NEW i, NEW j, NEW t, NEW u,
         chunk.context = IF u[j] = "@@ context" THEN j ELSE 0,
         ~chunk.eof, ~\E k \in ChunkPart(u, i, j) : u[k] = "eof",
         \A k \in ChunkSays(t, i, j, Old \cup New) : k < n,
         \A kinds : ChunkSays(u, i, j, kinds) =
           ChunkSays(t, i, j, kinds) \cup (IF x \in kinds THEN {n} ELSE {}),
         Ascending(chunk.old, ChunkSays(t, i, j, Old)), Ascending(chunk.new, ChunkSays(t, i, j, New))
  PROVE  LET c == [chunk EXCEPT !.old = IF x \in Old THEN Append(@, n) ELSE @,
                                !.new = IF x \in New THEN Append(@, n) ELSE @] IN
         c \in ParsedChunk /\ IsChunk(c, u, i, j)
<1> DEFINE old == IF x \in Old THEN Append(chunk.old, n) ELSE chunk.old
           new == IF x \in New THEN Append(chunk.new, n) ELSE chunk.new
           c == [chunk EXCEPT !.old = IF x \in Old THEN Append(@, n) ELSE @,
                              !.new = IF x \in New THEN Append(@, n) ELSE @]
<1>1. chunk.old \in Seq(Nat) /\ chunk.new \in Seq(Nat) /\ chunk.context \in Nat
  BY DEF ParsedChunk
<1> HIDE DEF Old, New
<1>2. /\ \A k \in ChunkSays(t, i, j, Old) : k < n
      /\ \A k \in ChunkSays(t, i, j, New) : k < n
  <2>1. ChunkSays(t, i, j, Old) \subseteq ChunkSays(t, i, j, Old \cup New)
    BY DEF ChunkSays
  <2>2. ChunkSays(t, i, j, New) \subseteq ChunkSays(t, i, j, Old \cup New)
    BY DEF ChunkSays
  <2> QED
    BY <2>1, <2>2
<1>3. old \in Seq(Nat) /\ Ascending(old, ChunkSays(u, i, j, Old))
  <2>1. CASE x \in Old
    <3>1. ChunkSays(u, i, j, Old) = ChunkSays(t, i, j, Old) \cup {n}
      BY <2>1
    <3>2. PICK S : S = ChunkSays(t, i, j, Old)
      OBVIOUS
    <3>3. Append(chunk.old, n) \in Seq(Nat) /\ Ascending(Append(chunk.old, n), S \cup {n})
      BY <1>1, <1>2, <3>2, OneMoreAscends
    <3> QED
      BY <2>1, <3>1, <3>2, <3>3
  <2>2. CASE x \notin Old
    <3>1. ChunkSays(u, i, j, Old) = ChunkSays(t, i, j, Old)
      BY <2>2
    <3> QED
      BY <1>1, <2>2, <3>1
  <2> QED
    BY <2>1, <2>2
<1>4. new \in Seq(Nat) /\ Ascending(new, ChunkSays(u, i, j, New))
  <2>1. CASE x \in New
    <3>1. ChunkSays(u, i, j, New) = ChunkSays(t, i, j, New) \cup {n}
      BY <2>1
    <3>2. PICK S : S = ChunkSays(t, i, j, New)
      OBVIOUS
    <3>3. Append(chunk.new, n) \in Seq(Nat) /\ Ascending(Append(chunk.new, n), S \cup {n})
      BY <1>1, <1>2, <3>2, OneMoreAscends
    <3> QED
      BY <2>1, <3>1, <3>2, <3>3
  <2>2. CASE x \notin New
    <3>1. ChunkSays(u, i, j, New) = ChunkSays(t, i, j, New)
      BY <2>2
    <3> QED
      BY <1>1, <2>2, <3>1
  <2> QED
    BY <2>1, <2>2
<1>5. c = [chunk EXCEPT !.old = old, !.new = new]
  BY DEF ParsedChunk
<1> HIDE DEF old, new, c
<1>6. c \in ParsedChunk /\ c.old = old /\ c.new = new /\ c.context = chunk.context /\ c.eof = chunk.eof
  BY <1>3, <1>4, <1>5 DEF ParsedChunk
<1>7. IsChunk(c, u, i, j)
  BY <1>3, <1>4, <1>6 DEF IsChunk
<1> QED
  BY <1>6, <1>7 DEF c

\* The line x goes to the last chunk, which begins at line j.
GoesToChunk(t, x, u, i, j) ==
    /\ ChunkLines(u, i) = ChunkLines(t, i) /\ LastChunkAt(u, i, j)
    /\ ChunkPart(t, i, j) = j .. Len(t) /\ ChunkPart(u, i, j) = j .. Len(t) + 1
    /\ j \in i + 1 .. Len(t) /\ j \in 1 .. Len(t) /\ u[j] = t[j]
    /\ \A m \in ChunkLines(t, i) \ {j} :
         ChunkSays(u, i, m, Old \cup New) = ChunkSays(t, i, m, Old \cup New)
    /\ \A kinds :
         /\ \A k \in ChunkSays(t, i, j, kinds) : k < Len(t) + 1
         /\ ChunkSays(u, i, j, kinds) = ChunkSays(t, i, j, kinds) \cup
              (IF x \in kinds /\ \A k \in j .. Len(t) + 1 : u[k] # "eof" THEN {Len(t) + 1} ELSE {})

\* Where the last chunk says something, with a line that is not a header and no marker.
LEMMA LastChunkGoesOn ==
  ASSUME NEW s, NEW h, NEW t, NEW x, NEW u, AtLine(s, h, t, x, u), x \notin Markers,
         NEW j, LastChunkAt(t, h.path, j)
  PROVE  GoesToChunk(t, x, u, h.path, j)
<1> DEFINE i == h.path  n == Len(t)
<1>1. /\ n \in Nat /\ i \in 1 .. n /\ i \in Nat /\ Len(u) = n + 1 /\ u[n + 1] = x
      /\ HunkLines(t, i) = i .. n /\ HunkLines(u, i) = i .. n + 1 /\ i \in 1 .. Len(u)
      /\ t \in Texts /\ u \in Texts /\ Begins(t, u) /\ \A k \in 1 .. n : u[k] = t[k]
  BY AtLineFacts
<1> HIDE DEF i
<1>2. /\ ChunkPart(t, i, j) = j .. n /\ j \in i + 1 .. n /\ j \in 1 .. n
      /\ t[j] \in Markers \/ Says(t, i, j)
  BY <1>1, LastChunkLines DEF i
<1>3. ~Silent(t, i)
  <2>1. Says(t, i, j)
    BY <1>2 DEF Says, Markers
  <2> QED
    BY <1>2, <2>1 DEF Silent
<1>4. ChunkLines(u, i) = ChunkLines(t, i)
  <2>1. LineMore(t, x, u) /\ x \notin Headers
    BY DEF AtLine
  <2> QED
    BY <1>1, <1>3, <2>1, ChunkBegun
<1>5. LastChunkAt(u, i, j) /\ j \in ChunkLines(u, i)
  BY <1>4 DEF LastChunkAt, i
<1>6. ChunkPart(u, i, j) = j .. n + 1
  BY <1>1, <1>5, LastChunkLines
<1>7. \A m \in ChunkLines(t, i) \ {j} : ChunkSays(u, i, m, Old \cup New) = ChunkSays(t, i, m, Old \cup New)
  <2> TAKE m \in ChunkLines(t, i) \ {j}
  <2>1. m \in 1 .. n /\ m < j /\ j <= n + 1
    BY <1>1, <1>2 DEF ChunkLines, LastChunkAt, i
  <2> QED
    BY <1>1, <1>5, <2>1, EarlierChunk DEF n
<1>8. ASSUME NEW kinds
      PROVE  /\ \A k \in ChunkSays(t, i, j, kinds) : k < n + 1 /\ k \in 1 .. n
             /\ ChunkSays(u, i, j, kinds) = ChunkSays(t, i, j, kinds) \cup
                  (IF x \in kinds /\ \A k \in j .. n + 1 : u[k] # "eof" THEN {n + 1} ELSE {})
  <2>1. ChunkSays(t, i, j, kinds) = ChunkSays(u, i, j, kinds) \cap (1 .. n)
    BY <1>1, <1>2, PrefixRead DEF n
  <2> HIDE DEF n
  <2>2. \A k \in ChunkSays(u, i, j, kinds) : k \in 1 .. n \/ k = n + 1
    BY <1>1, <1>2, <1>6 DEF ChunkSays
  <2>3. n + 1 \in ChunkSays(u, i, j, kinds) <=> x \in kinds /\ \A k \in j .. n + 1 : u[k] # "eof"
    <3>1. n + 1 \in ChunkPart(u, i, j)
      BY <1>1, <1>2, <1>6
    <3> QED
      BY <1>1, <3>1 DEF ChunkSays
  <2>4. \A k \in 1 .. n : k < n + 1
    BY <1>1
  <2> QED
    BY <2>1, <2>2, <2>3, <2>4
<1>9. GoesToChunk(t, x, u, i, j)
  BY <1>1, <1>2, <1>4, <1>5, <1>6, <1>7, <1>8 DEF n, GoesToChunk
<1> QED
  BY <1>9 DEF i

\* As long as the last chunk has not come to an end of file, none is the last word.
LEMMA NoEndYet ==
  ASSUME NEW t \in Texts, NEW i \in 1 .. Len(t), NEW j, LastChunkAt(t, i, j),
         \A k \in j .. Len(t) : t[k] # "eof"
  PROVE  EndsReopened(t, i)
<1>1. Len(t) \in Nat
  BY LenProperties DEF Texts
<1>2. /\ j \in i + 1 .. Len(t)
      /\ t[j] \in Markers \/ \A k \in i + 1 .. j - 1 : ~Says(t, i, k)
  BY <1>1 DEF LastChunkAt, ChunkLines, HunkLines
<1>3. SUFFICES ASSUME NEW k \in i + 1 .. Len(t), t[k] = "eof"
               PROVE  \E m \in k + 1 .. Len(t) : t[m] \in Markers
  BY DEF EndsReopened
<1>4. k \in i + 1 .. j - 1
  BY <1>1, <1>2, <1>3
<1>5. Says(t, i, k)
  BY <1>3 DEF Says
<1>6. t[j] \in Markers /\ j \in k + 1 .. Len(t)
  <2>1. j \in k + 1 .. Len(t)
    BY <1>1, <1>2, <1>4
  <2> QED
    BY <1>2, <1>4, <1>5, <2>1
<1> QED
  BY <1>6

\* A chunk takes in a line.
LEMMA ChunkLineRead ==
  ASSUME NEW s, NEW h, NEW t, NEW x, NEW u, AtLine(s, h, t, x, u), h.kind = "update",
         x \in Old \cup New, NEW j, LastChunkAt(t, h.path, j),
         \A m \in ChunkLines(t, h.path) \ {j} : ChunkSays(t, h.path, m, Old \cup New) # {},
         \A k \in j .. Len(t) : t[k] # "eof"
  PROVE  GoesOn(ParseChunk(s, x, Len(t) + 1), s.hunks, h.path, u)
<1> DEFINE i == h.path  n == Len(t)
           chunk == Last(h.chunks)
           c == [chunk EXCEPT !.old = IF x \in Old THEN Append(@, n + 1) ELSE @,
                              !.new = IF x \in New THEN Append(@, n + 1) ELSE @]
           h2 == [h EXCEPT !.chunks = Append(Front(@), c)]
<1>1. /\ n \in Nat /\ i \in 1 .. n /\ Len(u) = n + 1 /\ u[n + 1] = x
      /\ HunkLines(t, i) = i .. n /\ h \in ParsedHunk /\ t \in Texts /\ u \in Texts /\ Begins(t, u)
      /\ \A k \in 1 .. n : u[k] = t[k]
  BY AtLineFacts
<1>2. /\ LinesPlaced(t, i) /\ EndsPlaced(t, i)
      /\ h.chunks \in Seq(ParsedChunk) /\ AreChunks(h.chunks, t, i) /\ h = Last(s.hunks)
  BY UpdateFacts
<1>3. ParseChunk(s, x, n + 1) = OnLast(s, "chunk", h2)
  BY <1>2 DEF ParseChunk, OnLastChunk, LastChunk
<1>4. x \notin Markers /\ x # "eof" /\ x # "move"
  BY DEF Old, New, Markers
<1>5. /\ ChunkLines(u, i) = ChunkLines(t, i) /\ LastChunkAt(u, i, j)
      /\ ChunkPart(t, i, j) = j .. n /\ ChunkPart(u, i, j) = j .. n + 1
      /\ j \in 1 .. n /\ u[j] = t[j]
      /\ \A m \in ChunkLines(t, i) \ {j} :
            ChunkSays(u, i, m, Old \cup New) = ChunkSays(t, i, m, Old \cup New)
      /\ \A kinds :
            /\ \A k \in ChunkSays(t, i, j, kinds) : k < n + 1
            /\ ChunkSays(u, i, j, kinds) = ChunkSays(t, i, j, kinds) \cup
                 (IF x \in kinds /\ \A k \in j .. n + 1 : u[k] # "eof" THEN {n + 1} ELSE {})
  <2>1. GoesToChunk(t, x, u, i, j)
    BY <1>4, LastChunkGoesOn
  <2> QED
    BY <2>1 DEF GoesToChunk
<1>6. \A k \in j .. n + 1 : u[k] # "eof"
  <2>1. \A k \in j .. n + 1 : k = n + 1 \/ (k \in j .. n /\ k \in 1 .. n)
    BY <1>1, <1>5
  <2> QED
    BY <1>1, <1>4, <2>1
<1>7. /\ h.chunks # <<>> /\ chunk \in ParsedChunk /\ IsChunk(chunk, t, i, j)
      /\ \A d \in ParsedChunk : IsChunk(d, u, i, j) =>
           /\ Append(Front(h.chunks), d) \in Seq(ParsedChunk)
           /\ AreChunks(Append(Front(h.chunks), d), u, i)
  BY <1>1, <1>2, <1>5, ChunksGrow
<1> HIDE DEF i, n, chunk
<1>8. c \in ParsedChunk /\ IsChunk(c, u, i, j)
  <2>1. n + 1 \in Nat
    BY <1>1
  <2>2. ~chunk.eof /\ ~\E k \in ChunkPart(u, i, j) : u[k] = "eof"
    BY <1>5, <1>6, <1>7 DEF IsChunk, n
  <2>3. \A k \in ChunkSays(t, i, j, Old \cup New) : k < n + 1
    BY <1>5
  <2>4. \A kinds : ChunkSays(u, i, j, kinds) =
                     ChunkSays(t, i, j, kinds) \cup (IF x \in kinds THEN {n + 1} ELSE {})
    BY <1>5, <1>6
  <2>5. /\ chunk.context = IF u[j] = "@@ context" THEN j ELSE 0
        /\ Ascending(chunk.old, ChunkSays(t, i, j, Old)) /\ Ascending(chunk.new, ChunkSays(t, i, j, New))
    BY <1>5, <1>7 DEF IsChunk
  <2> QED
    BY <1>7, <2>1, <2>2, <2>3, <2>4, <2>5, ChunkTakes
<1> HIDE DEF c
<1>9. /\ h2 \in ParsedHunk /\ h2.kind = h.kind /\ h2.path = h.path /\ h2.contents = h.contents
      /\ h2.movedTo = h.movedTo /\ AreChunks(h2.chunks, u, i)
  <2>1. h2.chunks = Append(Front(h.chunks), c)
    BY <1>1 DEF ParsedHunk
  <2> QED
    BY <1>1, <1>7, <1>8, <2>1 DEF ParsedHunk
<1> HIDE DEF h2
<1>10. InUpdate("chunk", u, i)
  <2>1. LinesPlaced(u, i) /\ EndsPlaced(u, i)
    <3>1. EndsReopened(t, i)
      BY <1>1, NoEndYet DEF i, n
    <3>2. Fitting(h, t, x) /\ NotAfterEnd(h, t, x)
      BY <3>1 DEF Fitting, NotAfterEnd, i
    <3> QED
      BY <1>2, <3>2, PlacedLine DEF i
  <2>2. \A m \in ChunkLines(u, i) \ {j} : ChunkSays(u, i, m, Old \cup New) # {}
    BY <1>5 DEF i
  <2>3. j \in 1 .. Len(u) /\ \A k \in j .. Len(u) : u[k] # "eof"
    BY <1>1, <1>5, <1>6
  <2> QED
    BY <1>5, <2>1, <2>2, <2>3 DEF InUpdate
<1>11. InHunk("chunk", h2, u)
  BY <1>4, <1>9, <1>10, UpdateGrows DEF i
<1> QED
  BY <1>3, <1>9, <1>11, GoesOnTo DEF n, i

\* A chunk comes to the end of the file.
LEMMA EndRead ==
  ASSUME NEW s, NEW h, NEW t, NEW x, NEW u, AtLine(s, h, t, x, u), h.kind = "update",
         x = "eof", NEW j, LastChunkAt(t, h.path, j),
         \A m \in ChunkLines(t, h.path) \ {j} : ChunkSays(t, h.path, m, Old \cup New) # {},
         \A k \in j .. Len(t) : t[k] # "eof"
  PROVE  GoesOn(ParseChunk(s, x, Len(t) + 1), s.hunks, h.path, u)
<1> DEFINE i == h.path  n == Len(t)
           chunk == Last(h.chunks)
           c == [chunk EXCEPT !.eof = TRUE]
           h2 == [h EXCEPT !.chunks = Append(Front(@), c)]
<1>1. /\ n \in Nat /\ i \in 1 .. n /\ Len(u) = n + 1 /\ u[n + 1] = x
      /\ HunkLines(t, i) = i .. n /\ h \in ParsedHunk /\ t \in Texts /\ u \in Texts /\ Begins(t, u)
      /\ \A k \in 1 .. n : u[k] = t[k]
  BY AtLineFacts
<1>2. /\ LinesPlaced(t, i) /\ EndsPlaced(t, i)
      /\ h.chunks \in Seq(ParsedChunk) /\ AreChunks(h.chunks, t, i) /\ h = Last(s.hunks)
  BY UpdateFacts
<1>4. x \notin Markers /\ x \notin Old \cup New /\ x \notin Old /\ x \notin New /\ x # "move"
  BY DEF Old, New, Markers
<1>3. ParseChunk(s, x, n + 1) = IF Started(chunk) THEN OnLast(s, "chunks", h2) ELSE Failed
  BY <1>2, <1>4 DEF ParseChunk, OnLastChunk, LastChunk
<1>5. /\ ChunkLines(u, i) = ChunkLines(t, i) /\ LastChunkAt(u, i, j)
      /\ ChunkPart(t, i, j) = j .. n /\ ChunkPart(u, i, j) = j .. n + 1
      /\ j \in 1 .. n /\ u[j] = t[j]
      /\ \A m \in ChunkLines(t, i) \ {j} :
            ChunkSays(u, i, m, Old \cup New) = ChunkSays(t, i, m, Old \cup New)
      /\ \A kinds :
            /\ \A k \in ChunkSays(t, i, j, kinds) : k < n + 1
            /\ ChunkSays(u, i, j, kinds) = ChunkSays(t, i, j, kinds) \cup
                 (IF x \in kinds /\ \A k \in j .. n + 1 : u[k] # "eof" THEN {n + 1} ELSE {})
  <2>1. GoesToChunk(t, x, u, i, j)
    BY <1>4, LastChunkGoesOn
  <2> QED
    BY <2>1 DEF GoesToChunk
<1>6. n + 1 \in ChunkPart(u, i, j) /\ u[n + 1] = "eof"
  BY <1>1, <1>5
<1>7. /\ h.chunks # <<>> /\ chunk \in ParsedChunk /\ IsChunk(chunk, t, i, j)
      /\ \A d \in ParsedChunk : IsChunk(d, u, i, j) =>
           /\ Append(Front(h.chunks), d) \in Seq(ParsedChunk)
           /\ AreChunks(Append(Front(h.chunks), d), u, i)
  BY <1>1, <1>2, <1>5, ChunksGrow
<1>s. Started(chunk) <=> ChunkSays(t, i, j, Old \cup New) # {}
  BY <1>7, ChunkStarted
<1>e. \A kinds : ChunkSays(u, i, j, kinds) = ChunkSays(t, i, j, kinds)
  <2>1. n + 1 \in j .. n + 1 /\ u[n + 1] = "eof"
    BY <1>5, <1>6
  <2> QED
    BY <1>5, <2>1
<1>a. CASE ~Started(chunk)
  <2>1. j \in ChunkLines(u, i) /\ ChunkSays(t, i, j, Old \cup New) = {}
    BY <1>5, <1>a, <1>s DEF LastChunkAt
  <2>2. NeverFormed(u)
    BY <2>1, RefusedChunk
  <2> QED
    BY <1>3, <1>a, <2>2 DEF GoesOn
<1>b. CASE Started(chunk)
  <2> HIDE DEF i, n, chunk
  <2>1. c \in ParsedChunk /\ c.eof = TRUE /\ c.context = chunk.context /\ c.old = chunk.old /\ c.new = chunk.new
    BY <1>7 DEF ParsedChunk
  <2> HIDE DEF c
  <2>2. IsChunk(c, u, i, j)
    BY <1>5, <1>6, <1>7, <1>e, <2>1 DEF IsChunk
  <2>3. /\ h2 \in ParsedHunk /\ h2.kind = h.kind /\ h2.path = h.path /\ h2.contents = h.contents
        /\ h2.movedTo = h.movedTo /\ AreChunks(h2.chunks, u, i)
    <3>1. h2.chunks = Append(Front(h.chunks), c)
      BY <1>1 DEF ParsedHunk
    <3> QED
      BY <1>1, <1>7, <2>1, <2>2, <3>1 DEF ParsedHunk
  <2> HIDE DEF h2
  <2>4. InUpdate("chunks", u, i)
    <3>1. LinesPlaced(u, i) /\ EndsPlaced(u, i)
      <4>1. EndsReopened(t, i)
        BY <1>1, NoEndYet DEF i, n
      <4>2. Fitting(h, t, x) /\ NotAfterEnd(h, t, x)
        BY <4>1 DEF Fitting, NotAfterEnd, i
      <4> QED
        BY <1>2, <4>2, PlacedLine DEF i
    <3>2. \A m \in ChunkLines(u, i) \ {j} : ChunkSays(u, i, m, Old \cup New) # {}
      BY <1>5 DEF i
    <3>3. ChunkSays(u, i, j, Old \cup New) # {}
      BY <1>b, <1>s, <1>e
    <3>4. j \in 1 .. Len(u) /\ \E k \in j .. Len(u) : u[k] = "eof"
      BY <1>1, <1>5, <1>6
    <3> QED
      BY <1>5, <3>1, <3>2, <3>3, <3>4 DEF InUpdate
  <2>5. InHunk("chunks", h2, u)
    BY <1>4, <2>3, <2>4, UpdateGrows DEF i
  <2> QED
    BY <1>3, <1>b, <2>3, <2>5, GoesOnTo DEF n, i
<1> QED
  BY <1>a, <1>b

\* The line x is the first of the hunk to say something, and no marker.
FirstLine(t, x, i) == Silent(t, i) /\ x \in Old \cup New /\ x # ""

\* A chunk without a marker begins with its first line.
LEMMA FirstLineRead ==
  ASSUME NEW s, NEW h, NEW t, NEW x, NEW u, AtLine(s, h, t, x, u), h.kind = "update",
         FirstLine(t, x, h.path)
  PROVE  LET first == [h EXCEPT !.chunks = <<Chunk(0)>>] IN
         GoesOn(ParseChunk(OnLast(s, "chunk", first), x, Len(t) + 1), s.hunks, h.path, u)
<1> DEFINE i == h.path  n == Len(t)
           first == [h EXCEPT !.chunks = <<Chunk(0)>>]
           s2 == OnLast(s, "chunk", first)
           c == [Chunk(0) EXCEPT !.old = IF x \in Old THEN Append(@, n + 1) ELSE @,
                                 !.new = IF x \in New THEN Append(@, n + 1) ELSE @]
           h2 == [first EXCEPT !.chunks = Append(Front(@), c)]
<1>1. /\ n \in Nat /\ i \in 1 .. n /\ i \in Nat /\ Len(u) = n + 1 /\ u[n + 1] = x
      /\ HunkLines(t, i) = i .. n /\ HunkLines(u, i) = i .. n + 1 /\ i \in 1 .. Len(u)
      /\ h \in ParsedHunk /\ t \in Texts /\ u \in Texts /\ Begins(t, u)
      /\ \A k \in 1 .. n : u[k] = t[k]
  BY AtLineFacts
<1>2. /\ LinesPlaced(t, i) /\ EndsPlaced(t, i) /\ h.chunks = <<>> /\ ChunkLines(t, i) = {}
      /\ h.chunks \in Seq(ParsedChunk) /\ AreChunks(h.chunks, t, i)
  BY UpdateFacts DEF FirstLine
<1>q. s.hunks \in Seq(ParsedHunk) /\ s.hunks # <<>> /\ LineMore(t, x, u) /\ x \notin Headers
  BY DEF AtLine
<1>k. x \in Old \cup New
  BY DEF FirstLine
<1>4. x \notin Markers /\ x # "eof" /\ x # "move"
  BY DEF Old, New, Markers, FirstLine
<1>p. x \notin Markers
  BY DEF Old, New, Markers, FirstLine
<1>5. /\ Chunk(0) \in ParsedChunk /\ Chunk(0).old = <<>> /\ Chunk(0).new = <<>>
      /\ Chunk(0).eof = FALSE /\ Chunk(0).context = 0
  <2>1. <<>> \in Seq(Nat)
    OBVIOUS
  <2> QED
    BY <2>1 DEF Chunk, ParsedChunk
<1>6. /\ first \in ParsedHunk /\ first.chunks = <<Chunk(0)>> /\ first.kind = h.kind /\ first.path = h.path
      /\ first.contents = h.contents /\ first.movedTo = h.movedTo
  <2>1. <<Chunk(0)>> \in Seq(ParsedChunk)
    BY <1>5
  <2> QED
    BY <1>1, <2>1 DEF ParsedHunk
<1>7. Last(<<Chunk(0)>>) = Chunk(0) /\ Front(<<Chunk(0)>>) = <<>>
  BY SubSeqEmpty DEF Last, Front
<1>8. /\ s2.hunks = Append(Front(s.hunks), first) /\ Last(s2.hunks) = first
      /\ Front(s2.hunks) = Front(s.hunks)
  <2>1. s2.hunks = Append(Front(s.hunks), first)
    BY DEF OnLast
  <2> HIDE DEF first, s2
  <2> QED
    BY <1>6, <1>q, <2>1, LastReplaced
<1>3. ParseChunk(s2, x, n + 1) = OnLast(s, "chunk", h2)
  <2>1. LastChunk(first) = Chunk(0)
    BY <1>6, <1>7 DEF LastChunk
  <2> HIDE DEF first, s2
  <2>2. ParseChunk(s2, x, n + 1) = OnLast(s2, "chunk", h2)
    BY <1>8, <1>k, <2>1 DEF ParseChunk, OnLastChunk
  <2> HIDE DEF h2
  <2> QED
    BY <1>8, <2>2 DEF OnLast
<1>9. ChunkLines(u, i) = ChunkLines(t, i) \cup {n + 1}
  <2>1. Silent(t, i) /\ Says(u, i, n + 1)
    BY <1>1, <1>4 DEF Says, FirstLine
  <2> HIDE DEF i
  <2> QED
    BY <1>1, <1>q, <2>1, ChunkBegun
<1> HIDE DEF i, n, first, s2
<1>10. ChunkPart(u, i, n + 1) = {n + 1}
  <2>1. \A k : k \in ChunkPart(u, i, n + 1) <=> k = n + 1
    BY <1>1, <1>2, <1>9 DEF ChunkPart
  <2> QED
    BY <2>1
<1>11. c \in ParsedChunk /\ IsChunk(c, u, i, n + 1)
  <2>1. \A kinds : ChunkSays(u, i, n + 1, kinds) = {} \cup (IF x \in kinds THEN {n + 1} ELSE {})
    <3> TAKE kinds
    <3>1. \A k : k \in ChunkSays(u, i, n + 1, kinds) <=> k = n + 1 /\ x \in kinds
      BY <1>1, <1>4, <1>10 DEF ChunkSays
    <3> QED
      BY <3>1
  <2>2. \A kinds : ChunkSays(t, i, n + 1, kinds) = {}
    <3>1. \A k \in HunkLines(t, i) : ~(k >= n + 1)
      BY <1>1
    <3> QED
      BY <3>1 DEF ChunkSays, ChunkPart
  <2>3. n + 1 \in Nat /\ u[n + 1] # "@@ context"
    <3>1. n + 1 \in Nat /\ u[n + 1] \notin Markers
      BY <1>1, <1>4
    <3> QED
      BY <3>1 DEF Markers
  <2>4. ~\E k \in ChunkPart(u, i, n + 1) : u[k] = "eof"
    BY <1>1, <1>4, <1>10
  <2>5. Ascending(Chunk(0).old, {}) /\ Ascending(Chunk(0).new, {})
    BY <1>5, NothingAscends
  <2>6. \A kinds : ChunkSays(u, i, n + 1, kinds) =
                     ChunkSays(t, i, n + 1, kinds) \cup (IF x \in kinds THEN {n + 1} ELSE {})
    BY <2>1, <2>2
  <2>7. PICK chunk \in ParsedChunk : chunk = Chunk(0)
    BY <1>5
  <2>8. /\ chunk.context = IF u[n + 1] = "@@ context" THEN n + 1 ELSE 0
        /\ ~chunk.eof /\ \A k \in ChunkSays(t, i, n + 1, Old \cup New) : k < n + 1
        /\ Ascending(chunk.old, ChunkSays(t, i, n + 1, Old)) /\ Ascending(chunk.new, ChunkSays(t, i, n + 1, New))
    BY <1>5, <2>2, <2>3, <2>5, <2>7
  <2>9. PICK m \in Nat : m = n + 1
    BY <2>3
  <2> HIDE DEF c
  <2>e. /\ chunk.context = IF u[m] = "@@ context" THEN m ELSE 0
        /\ ~chunk.eof
        /\ \A k \in ChunkSays(t, i, m, Old \cup New) : k < m
        /\ Ascending(chunk.old, ChunkSays(t, i, m, Old)) /\ Ascending(chunk.new, ChunkSays(t, i, m, New))
    BY <2>8, <2>9
  <2>n. ~\E k \in ChunkPart(u, i, m) : u[k] = "eof"
    BY <2>4, <2>9
  <2>s. \A kinds : ChunkSays(u, i, m, kinds) =
                     ChunkSays(t, i, m, kinds) \cup (IF x \in kinds THEN {m} ELSE {})
    BY <2>6, <2>9
  <2>10. LET d == [chunk EXCEPT !.old = IF x \in Old THEN Append(@, m) ELSE @,
                               !.new = IF x \in New THEN Append(@, m) ELSE @] IN
         d \in ParsedChunk /\ IsChunk(d, u, i, m)
    BY <1>k, <2>e, <2>n, <2>s, ChunkTakes
  <2> QED
    BY <2>7, <2>9, <2>10 DEF c
<1> HIDE DEF c
<1>12. AreChunks(Append(h.chunks, c), u, i) /\ Append(h.chunks, c) \in Seq(ParsedChunk)
  BY <1>1, <1>2, <1>9, <1>11, ChunksOpen DEF n
<1>13. /\ h2 \in ParsedHunk /\ h2.kind = h.kind /\ h2.path = h.path /\ h2.contents = h.contents
       /\ h2.movedTo = h.movedTo /\ AreChunks(h2.chunks, u, i)
  <2>1. h2.chunks = Append(h.chunks, c)
    BY <1>2, <1>6, <1>7 DEF ParsedHunk
  <2> QED
    BY <1>6, <1>12, <2>1 DEF ParsedHunk
<1> HIDE DEF h2
<1>14. InUpdate("chunk", u, i)
  <2>1. LinesPlaced(u, i) /\ EndsPlaced(u, i)
    <3>1. EndsReopened(t, i)
      BY DEF EndsReopened, Silent, Says, FirstLine, i
    <3>2. Fitting(h, t, x) /\ NotAfterEnd(h, t, x)
      BY <1>k, <3>1 DEF Fitting, NotAfterEnd, i
    <3> QED
      BY <1>2, <3>2, PlacedLine DEF i
  <2>2. n + 1 \in 1 .. Len(u) /\ \A k \in n + 1 .. Len(u) : u[k] # "eof"
    <3>1. \A k \in n + 1 .. Len(u) : k = n + 1
      BY <1>1
    <3> QED
      BY <1>1, <1>4, <3>1
  <2>3. ChunkLines(u, i) = {n + 1} /\ n + 1 <= n + 1
    BY <1>1, <1>2, <1>9
  <2>4. LastChunkAt(u, i, n + 1)
    BY <2>3 DEF LastChunkAt
  <2>5. ChunkLines(u, i) \ {n + 1} = {}
    BY <2>3
  <2> QED
    BY <2>1, <2>2, <2>4, <2>5 DEF InUpdate
<1>15. InHunk("chunk", h2, u)
  BY <1>4, <1>13, <1>14, UpdateGrows DEF i
<1> QED
  BY <1>3, <1>13, <1>15, GoesOnTo DEF n, i, s2, first

\* The lines of an update whose last chunk has come to its end of file.
AtEnd(t, i, j) ==
  /\ LastChunkAt(t, i, j) /\ j \in 1 .. Len(t)
  /\ \A m \in ChunkLines(t, i) : ChunkSays(t, i, m, Old \cup New) # {}
  /\ \E k \in j .. Len(t) : t[k] = "eof"

\* Those of an update whose last chunk goes on.
InChunk(t, i, j) ==
  /\ LastChunkAt(t, i, j)
  /\ \A m \in ChunkLines(t, i) \ {j} : ChunkSays(t, i, m, Old \cup New) # {}
  /\ \A k \in j .. Len(t) : t[k] # "eof"

LEMMA UpdateStates ==
  ASSUME NEW t \in Texts, NEW i \in 1 .. Len(t), NEW at, InUpdate(at, t, i)
  PROVE  \/ at = "update" /\ Len(t) = i /\ Silent(t, i)
         \/ at = "chunks" /\ Len(t) > i /\ Silent(t, i)
         \/ at = "chunk" /\ \E j : InChunk(t, i, j)
         \/ at = "chunks" /\ \E j : AtEnd(t, i, j)
<1>1. InUpdate(at, t, i) /\ Len(t) \in Nat
  BY LenProperties DEF Texts
<1>2. ASSUME Len(t) = i PROVE Silent(t, i)
  BY <1>1, <1>2 DEF Silent
<1> HIDE DEF Old, New
<1>3. ASSUME NEW j \in 1 .. Len(t), LastChunkAt(t, i, j),
             \A m \in ChunkLines(t, i) \ {j} : ChunkSays(t, i, m, Old \cup New) # {},
             \/ at = "chunk" /\ \A k \in j .. Len(t) : t[k] # "eof"
             \/ /\ at = "chunks" /\ ChunkSays(t, i, j, Old \cup New) # {}
                /\ \E k \in j .. Len(t) : t[k] = "eof"
      PROVE  \/ at = "chunk" /\ InChunk(t, i, j)
             \/ at = "chunks" /\ AtEnd(t, i, j)
  <2>1. CASE at = "chunk" /\ \A k \in j .. Len(t) : t[k] # "eof"
    BY <1>3, <2>1 DEF InChunk
  <2>2. CASE /\ at = "chunks" /\ ChunkSays(t, i, j, Old \cup New) # {}
             /\ \E k \in j .. Len(t) : t[k] = "eof"
    BY <1>3, <2>2 DEF AtEnd
  <2> QED
    BY <1>3, <2>1, <2>2
<1> QED
  BY <1>1, <1>2, <1>3 DEF InUpdate

\* The end of the file is the last word of the lines so far.
LEMMA EndIsLast ==
  ASSUME NEW t \in Texts, NEW i \in 1 .. Len(t), HunkLines(t, i) = i .. Len(t), NEW j, AtEnd(t, i, j)
  PROVE  \E k \in i + 1 .. Len(t) : t[k] = "eof" /\ \A m \in k + 1 .. Len(t) : t[m] \notin Markers
<1>1. Len(t) \in Nat /\ LastChunkAt(t, i, j)
  BY LenProperties DEF Texts, AtEnd
<1>2. j \in i + 1 .. Len(t)
  BY <1>1, LastChunkLines
<1>3. PICK k \in j .. Len(t) : t[k] = "eof"
  BY DEF AtEnd
<1>4. ASSUME NEW m \in k + 1 .. Len(t), t[m] \in Markers PROVE FALSE
  <2>1. m \in HunkLines(t, i) \ {i} /\ m > j
    BY <1>1, <1>2
  <2>2. m \in ChunkLines(t, i)
    BY <1>4, <2>1 DEF ChunkLines
  <2> QED
    BY <1>1, <1>2, <2>1, <2>2 DEF LastChunkAt
<1>5. k \in i + 1 .. Len(t)
  BY <1>1, <1>2
<1> QED
  BY <1>3, <1>4, <1>5

\* A sequence is its front and its last element.
LEMMA FrontAndLast ==
  ASSUME NEW A, NEW q \in Seq(A), q # <<>>
  PROVE  Append(Front(q), Last(q)) = q /\ Last(q) \in A
<1>1. Len(q) \in Nat /\ Len(q) >= 1
  BY EmptySeq
<1>2. Last(q) = q[Len(q)] /\ Last(q) \in A
  BY <1>1, ElementOfSeq DEF Last
<1>3. PICK e \in A : e = Last(q)
  BY <1>2
<1> DEFINE r == Append(Front(q), e)
<1>4. /\ r \in Seq(A) /\ Len(r) = Len(q) /\ r[Len(q)] = e
      /\ \A k \in 1 .. Len(q) - 1 : r[k] = q[k]
  BY <1>3, LastReplaced
<1> HIDE DEF r
<1>5. \A k \in 1 .. Len(q) : r[k] = q[k]
  <2>1. \A k \in 1 .. Len(q) : k \in 1 .. Len(q) - 1 \/ k = Len(q)
    BY <1>1
  <2> QED
    BY <1>2, <1>3, <1>4, <2>1
<1>6. r = q
  BY <1>4, <1>5, SeqEqual
<1> QED
  BY <1>2, <1>3, <1>6 DEF r

\* A blank line, or the new path behind the header: no chunk begins.
LEMMA SilentLineRead ==
  ASSUME NEW s, NEW h, NEW t, NEW x, NEW u, AtLine(s, h, t, x, u), h.kind = "update",
         Silent(t, h.path), ~Says(u, h.path, Len(t) + 1),
         NEW h2 \in ParsedHunk, h2.kind = h.kind, h2.path = h.path, h2.contents = h.contents,
         h2.chunks = h.chunks,
         h2.movedTo = IF Len(t) = h.path /\ x = "move" THEN Len(t) + 1 ELSE h.movedTo
  PROVE  GoesOn(OnLast(s, "chunks", h2), s.hunks, h.path, u)
<1> DEFINE i == h.path  n == Len(t)
<1>1. /\ n \in Nat /\ i \in 1 .. n /\ i \in Nat /\ Len(u) = n + 1 /\ u[n + 1] = x
      /\ HunkLines(t, i) = i .. n /\ i \in 1 .. Len(u) /\ u \in Texts
      /\ \A k \in 1 .. n : u[k] = t[k]
  BY AtLineFacts
<1>2. /\ LinesPlaced(t, i) /\ EndsPlaced(t, i) /\ h.chunks = <<>> /\ h.chunks \in Seq(ParsedChunk)
  BY UpdateFacts
<1>3. ~Says(u, i, n + 1) /\ Silent(t, i)
  OBVIOUS
<1> HIDE DEF i, n
<1>4. Silent(u, i)
  <2>1. \A k \in i + 1 .. n + 1 : k = n + 1 \/ (k \in i + 1 .. n /\ k \in 1 .. n)
    BY <1>1
  <2>2. \A k \in i + 1 .. n : ~Says(t, i, k)
    BY <1>3 DEF Silent, n
  <2>3. \A k \in i + 1 .. n : k \in 1 .. n => ~Says(u, i, k)
    BY <1>1, <2>2 DEF Says
  <2> QED
    BY <1>1, <1>3, <2>1, <2>3 DEF Silent
<1>5. ChunkLines(u, i) = {}
  BY <1>1, <1>4, SilentHasNoChunk
<1>6. AreChunks(h2.chunks, u, i)
  BY <1>1, <1>2, <1>5, NoChunks
<1>7. InUpdate("chunks", u, i)
  <2>1. LinesPlaced(u, i) /\ EndsPlaced(u, i)
    <3>1. EndsReopened(t, i)
      BY <1>3 DEF EndsReopened, Silent, Says
    <3>2. Fitting(h, t, x) /\ NotAfterEnd(h, t, x)
      <4>1. x = "" \/ (x = "move" /\ n = i)
        <5>1. u[n + 1] = "" \/ (n + 1 = i + 1 /\ u[n + 1] = "move")
          BY <1>3 DEF Says
        <5>2. n + 1 = i + 1 => n = i
          BY <1>1
        <5>3. u[n + 1] = x
          BY <1>1
        <5> QED
          BY <5>1, <5>2, <5>3
      <4>2. Fitting(h, t, x)
        BY <4>1 DEF Fitting, Old, n, i
      <4> QED
        BY <3>1, <4>2 DEF NotAfterEnd, i
    <3> QED
      BY <1>2, <3>2, PlacedLine DEF i
  <2>2. Len(u) > i
    BY <1>1
  <2> QED
    BY <1>4, <2>1, <2>2 DEF InUpdate
<1>8. InHunk("chunks", h2, u)
  BY <1>6, <1>7, UpdateGrows DEF i, n
<1> QED
  BY <1>8, GoesOnTo DEF i

\* A blank line after the end of the file.
IsBlank(x) == x = ""

LEMMA BlankRead ==
  ASSUME NEW s, NEW h, NEW t, NEW x, NEW u, AtLine(s, h, t, x, u), h.kind = "update",
         IsBlank(x), NEW j, AtEnd(t, h.path, j)
  PROVE  GoesOn(OnLast(s, "chunks", h), s.hunks, h.path, u)
<1> DEFINE i == h.path  n == Len(t)
           chunk == Last(h.chunks)
<1>1. /\ n \in Nat /\ i \in 1 .. n /\ Len(u) = n + 1 /\ u[n + 1] = x
      /\ HunkLines(t, i) = i .. n /\ h \in ParsedHunk /\ t \in Texts /\ u \in Texts /\ Begins(t, u)
      /\ \A k \in 1 .. n : u[k] = t[k]
  BY AtLineFacts
<1>2. /\ LinesPlaced(t, i) /\ EndsPlaced(t, i)
      /\ h.chunks \in Seq(ParsedChunk) /\ AreChunks(h.chunks, t, i)
  BY UpdateFacts
<1>3. /\ LastChunkAt(t, i, j) /\ j \in 1 .. n
      /\ \A m \in ChunkLines(t, i) : ChunkSays(t, i, m, Old \cup New) # {}
      /\ \E k \in j .. n : t[k] = "eof"
  BY DEF AtEnd
<1>4. x \notin Markers /\ x # "eof" /\ x # "move"
  BY DEF Markers, IsBlank
<1>5. /\ ChunkLines(u, i) = ChunkLines(t, i) /\ LastChunkAt(u, i, j)
      /\ ChunkPart(t, i, j) = j .. n /\ ChunkPart(u, i, j) = j .. n + 1
      /\ j \in 1 .. n /\ u[j] = t[j]
      /\ \A m \in ChunkLines(t, i) \ {j} :
            ChunkSays(u, i, m, Old \cup New) = ChunkSays(t, i, m, Old \cup New)
      /\ \A kinds :
            ChunkSays(u, i, j, kinds) = ChunkSays(t, i, j, kinds) \cup
              (IF x \in kinds /\ \A k \in j .. n + 1 : u[k] # "eof" THEN {n + 1} ELSE {})
  <2>1. GoesToChunk(t, x, u, i, j)
    BY <1>3, <1>4, LastChunkGoesOn
  <2> QED
    BY <2>1 DEF GoesToChunk
<1> HIDE DEF i, n, chunk
<1>6. PICK k \in j .. n : t[k] = "eof"
  BY <1>3
<1>7. k \in j .. n + 1 /\ k \in 1 .. n /\ u[k] = "eof"
  BY <1>1, <1>5, <1>6
<1>8. \A kinds : ChunkSays(u, i, j, kinds) = ChunkSays(t, i, j, kinds)
  BY <1>5, <1>7
<1>9. /\ h.chunks # <<>> /\ chunk \in ParsedChunk /\ IsChunk(chunk, t, i, j)
      /\ \A d \in ParsedChunk : IsChunk(d, u, i, j) =>
           AreChunks(Append(Front(h.chunks), d), u, i)
  BY <1>1, <1>2, <1>3, <1>5, ChunksGrow DEF chunk, n
<1>10. IsChunk(chunk, u, i, j)
  <2>1. (\E m \in ChunkPart(t, i, j) : t[m] = "eof") /\ (\E m \in ChunkPart(u, i, j) : u[m] = "eof")
    BY <1>5, <1>6, <1>7
  <2> QED
    BY <1>5, <1>8, <1>9, <2>1 DEF IsChunk
<1>11. AreChunks(h.chunks, u, i)
  <2>1. Append(Front(h.chunks), chunk) = h.chunks
    BY <1>2, <1>9, FrontAndLast DEF chunk
  <2> QED
    BY <1>9, <1>10, <2>1
<1>12. InUpdate("chunks", u, i)
  <2>1. LinesPlaced(u, i) /\ EndsPlaced(u, i)
    <3>1. Fitting(h, t, x) /\ NotAfterEnd(h, t, x)
      BY DEF Fitting, NotAfterEnd, Old, IsBlank
    <3> QED
      BY <1>2, <3>1, PlacedLine DEF i
  <2>2. \A m \in ChunkLines(u, i) : ChunkSays(u, i, m, Old \cup New) # {}
    BY <1>3, <1>5, <1>8
  <2>3. j \in 1 .. Len(u) /\ j \in ChunkLines(u, i) /\ \E m \in j .. Len(u) : u[m] = "eof"
    BY <1>1, <1>5, <1>7 DEF LastChunkAt
  <2> QED
    BY <1>5, <2>1, <2>2, <2>3 DEF InUpdate
<1>13. InHunk("chunks", h, u)
  BY <1>1, <1>4, <1>11, <1>12, UpdateGrows DEF i
<1> QED
  BY <1>13, GoesOnTo DEF i

\* A line that a running chunk reads.
LEMMA ChunkRead ==
  ASSUME NEW s, NEW h, NEW t, NEW x, NEW u, AtLine(s, h, t, x, u), h.kind = "update",
         NEW j, InChunk(t, h.path, j)
  PROVE  GoesOn(ParseChunk(s, x, Len(t) + 1), s.hunks, h.path, u)
<1> DEFINE i == h.path  n == Len(t)
           chunk == Last(h.chunks)
<1>1. /\ n \in Nat /\ i \in 1 .. n /\ HunkLines(t, i) = i .. n /\ h \in ParsedHunk
      /\ t \in Texts /\ u \in Texts /\ Begins(t, u) /\ Begins(t, t)
  BY AtLineFacts DEF Begins
<1>2. /\ h.chunks \in Seq(ParsedChunk) /\ AreChunks(h.chunks, t, i) /\ h = Last(s.hunks)
      /\ x \notin Headers /\ x \in PatchLineKinds
  BY UpdateFacts DEF AtLine
<1>3. /\ LastChunkAt(t, i, j) /\ \A k \in j .. n : t[k] # "eof"
      /\ \A m \in ChunkLines(t, i) \ {j} : ChunkSays(t, i, m, Old \cup New) # {}
  BY DEF InChunk
<1>4. CASE x \in Old \cup New
  BY <1>3, <1>4, ChunkLineRead
<1>5. CASE x = "eof"
  BY <1>3, <1>5, EndRead
<1>6. ASSUME x \in Markers \cup {"move", "junk"}
      PROVE  GoesOn(ParseChunk(s, x, Len(t) + 1), s.hunks, h.path, u)
  <2>1. h.chunks # <<>> /\ chunk \in ParsedChunk /\ IsChunk(chunk, t, i, j)
    BY <1>1, <1>2, <1>3, ChunksGrow
  <2>2. Started(chunk) <=> ChunkSays(t, i, j, Old \cup New) # {}
    BY <2>1, ChunkStarted
  <2>3. x \notin Old \cup New /\ x # "eof"
    BY <1>6 DEF Old, New, Markers
  <2>4. ParseChunk(s, x, n + 1) = IF Started(chunk) THEN ParseNext(s, x, n + 1) ELSE Failed
    BY <1>2, <2>3 DEF ParseChunk, LastChunk
  <2>5. j \in i + 1 .. n
    BY <1>1, <1>3, LastChunkLines
  <2>6. CASE x \in {"move", "junk"}
    <3>1. Misplaced(h, t, x)
      <4>1. n # i
        BY <1>1, <2>5
      <4> QED
        BY <2>6, <4>1 DEF Misplaced
    <3>2. ParseNext(s, x, n + 1) = Failed
      BY <1>2, <2>6 DEF ParseNext, ParseHeader, Starred, Markers, Headers
    <3> QED
      BY <2>4, <3>1, <3>2, RefusedLine DEF GoesOn
  <2>7. CASE x \in Markers
    <3>1. CASE Started(chunk)
      <4>1. \A m \in ChunkLines(t, i) : ChunkSays(t, i, m, Old \cup New) # {}
        BY <1>3, <2>2, <3>1
      <4> QED
        BY <2>4, <2>7, <3>1, <4>1, MarkerRead
    <3>2. CASE ~Started(chunk)
      <4>1. ChunkLines(u, i) = ChunkLines(t, i) \cup {n + 1}
        <5>1. LineMore(t, x, u)
          BY DEF AtLine
        <5> HIDE DEF i
        <5> QED
          BY <1>1, <1>2, <2>7, <5>1, ChunkBegun
      <4>2. j \in ChunkLines(u, i) /\ n + 1 \in ChunkLines(u, i) /\ j # n + 1
        BY <1>1, <1>3, <2>5, <4>1 DEF LastChunkAt
      <4>3. ChunkSays(t, i, j, Old \cup New) = {}
        BY <2>2, <3>2
      <4>4. NeverFormed(u)
        BY <4>2, <4>3, RefusedChunk
      <4> QED
        BY <2>4, <3>2, <4>4 DEF GoesOn
    <3> QED
      BY <3>1, <3>2
  <2> QED
    BY <1>6, <2>6, <2>7
<1> QED
  BY <1>2, <1>4, <1>5, <1>6 DEF PatchLineKinds, Starred

\* A line that is read between the chunks.
LEMMA BetweenRead ==
  ASSUME NEW s, NEW h, NEW t, NEW x, NEW u, AtLine(s, h, t, x, u), h.kind = "update",
         s.at \in {"update", "chunks"}
  PROVE  GoesOn(ParseUpdate(s, x, Len(t) + 1), s.hunks, h.path, u)
<1> DEFINE i == h.path  n == Len(t)
           next == ParseNext(s, x, n + 1)
           first == [h EXCEPT !.chunks = <<Chunk(0)>>]
           begun == ParseChunk(OnLast(s, "chunk", first), x, n + 1)
           moved == [h EXCEPT !.movedTo = n + 1]
<1>1. /\ n \in Nat /\ i \in 1 .. n /\ HunkLines(t, i) = i .. n /\ HunkLines(u, i) = i .. n + 1
      /\ i \in Nat /\ h \in ParsedHunk /\ t \in Texts /\ u \in Texts /\ u[n + 1] = x
  BY AtLineFacts
<1>2. /\ h.chunks \in Seq(ParsedChunk) /\ AreChunks(h.chunks, t, i) /\ h = Last(s.hunks)
      /\ x \notin Headers /\ x \in PatchLineKinds
      /\ Silent(t, i) => h.chunks = <<>> /\ ChunkLines(t, i) = {}
      /\ InUpdate(s.at, t, i)
  BY UpdateFacts DEF AtLine
<1>3. \/ Silent(t, i) /\ (s.at = "update" <=> n = i)
      \/ s.at = "chunks" /\ \E j : AtEnd(t, i, j)
  <2>1. s.at # "chunk"
    OBVIOUS
  <2> QED
    BY <1>1, <1>2, <2>1, UpdateStates
<1>4. ASSUME NEW j, AtEnd(t, i, j)
      PROVE  /\ h.chunks # <<>> /\ n # i
             /\ \A m \in ChunkLines(t, i) : ChunkSays(t, i, m, Old \cup New) # {}
             /\ x # "" /\ x \notin Markers => Misplaced(h, t, x)
  <2>1. LastChunkAt(t, i, j) /\ Begins(t, t)
    BY <1>1, <1>4 DEF AtEnd, Begins
  <2>2. h.chunks # <<>>
    BY <1>1, <1>2, <2>1, ChunksGrow
  <2>3. n # i
    <3>1. j \in i + 1 .. n
      BY <1>1, <2>1, LastChunkLines
    <3> QED
      BY <1>1, <3>1
  <2>4. PICK k \in i + 1 .. n : t[k] = "eof" /\ \A m \in k + 1 .. n : t[m] \notin Markers
    BY <1>1, <1>4, EndIsLast
  <2> QED
    BY <1>4, <2>2, <2>3, <2>4 DEF AtEnd, Misplaced
<1>5. ParseUpdate(s, x, n + 1) =
        IF s.at = "update" /\ x = "move" THEN OnLast(s, "chunks", moved)
        ELSE IF x = "" THEN OnLast(s, "chunks", h)
        ELSE IF h.chunks = <<>> /\ x \notin Starred \cup Markers THEN begun
        ELSE next
  BY <1>2 DEF ParseUpdate
<1>m. ASSUME Misplaced(h, t, x) PROVE NeverFormed(u)
  BY <1>m, RefusedLine
<1>n. ASSUME x \notin Markers PROVE next = Failed
  BY <1>2, <1>n DEF ParseNext, ParseHeader
<1>b. x = "junk" => begun = Failed
  <2>1. /\ Last(OnLast(s, "chunk", first).hunks) = first /\ first.chunks = <<Chunk(0)>>
        /\ first \in ParsedHunk
    <3>1. /\ s.hunks \in Seq(ParsedHunk) /\ s.hunks # <<>>
      BY DEF AtLine
    <3>2. Chunk(0) \in ParsedChunk
      <4>1. <<>> \in Seq(Nat)
        OBVIOUS
      <4> QED
        BY <4>1 DEF Chunk, ParsedChunk
    <3>3. <<Chunk(0)>> \in Seq(ParsedChunk)
      BY <3>2
    <3>4. first \in ParsedHunk /\ first.chunks = <<Chunk(0)>>
      BY <1>1, <3>3 DEF ParsedHunk
    <3> HIDE DEF first
    <3>5. Last(OnLast(s, "chunk", first).hunks) = first
      BY <3>1, <3>4, LastReplaced DEF OnLast
    <3> QED
      BY <3>4, <3>5
  <2>2. ~Started(Last(<<Chunk(0)>>))
    <3>1. Last(<<Chunk(0)>>) = Chunk(0)
      BY DEF Last
    <3>2. Chunk(0).old = <<>> /\ Chunk(0).new = <<>>
      BY DEF Chunk
    <3> QED
      BY <3>1, <3>2 DEF Started
  <2>3. "junk" \notin Old \cup New
    BY DEF Old, New
  <2> HIDE DEF first
  <2> QED
    BY <2>1, <2>2, <2>3 DEF ParseChunk, LastChunk
<1> HIDE DEF begun, next, moved, first
<1>6. CASE x = ""
  <2>1. x # "move"
    BY <1>6
  <2>2. ParseUpdate(s, x, n + 1) = OnLast(s, "chunks", h)
    BY <1>5, <1>6
  <2>3. CASE Silent(t, i)
    <3>1. ~Says(u, i, n + 1)
      <4>1. u[n + 1] = x
        BY <1>1
      <4> QED
        BY <1>6, <4>1 DEF Says
    <3> QED
      BY <1>1, <2>1, <2>2, <2>3, <3>1, SilentLineRead
  <2>4. ASSUME NEW j, AtEnd(t, i, j) PROVE GoesOn(OnLast(s, "chunks", h), s.hunks, i, u)
    <3>1. IsBlank(x)
      BY <1>6 DEF IsBlank
    <3> QED
      BY <2>4, <3>1, BlankRead
  <2> QED
    BY <1>3, <2>2, <2>3, <2>4
<1>7. CASE s.at = "update" /\ x = "move"
  <2>1. ParseUpdate(s, x, n + 1) = OnLast(s, "chunks", moved)
    BY <1>5, <1>7
  <2>2. Silent(t, i) /\ n = i
    BY <1>3, <1>7
  <2>3. ~Says(u, i, n + 1)
    <3>1. u[n + 1] = x
      BY <1>1
    <3> QED
      BY <1>7, <2>2, <3>1 DEF Says
  <2>4. /\ moved \in ParsedHunk /\ moved.kind = h.kind /\ moved.path = h.path
        /\ moved.contents = h.contents /\ moved.chunks = h.chunks /\ moved.movedTo = n + 1
    BY <1>1 DEF ParsedHunk, moved
  <2>5. moved.movedTo = IF Len(t) = h.path /\ x = "move" THEN Len(t) + 1 ELSE h.movedTo
    BY <1>7, <2>2, <2>4
  <2> QED
    BY <2>1, <2>2, <2>3, <2>4, <2>5, SilentLineRead
<1>8. CASE x \in Markers
  <2>1. ParseUpdate(s, x, n + 1) = next
    BY <1>5, <1>8 DEF Markers
  <2>2. \A m \in ChunkLines(t, i) : ChunkSays(t, i, m, Old \cup New) # {}
    BY <1>2, <1>3, <1>4
  <2> QED
    BY <1>8, <2>1, <2>2, MarkerRead DEF next
<1>9. CASE x = "junk"
  <2>1. ParseUpdate(s, x, n + 1) = Failed
    <3>1. next = Failed
      BY <1>9, <1>n DEF Markers
    <3> QED
      BY <1>5, <1>9, <1>b, <3>1
  <2>2. Misplaced(h, t, x)
    BY <1>9 DEF Misplaced
  <2> QED
    BY <1>m, <2>1, <2>2 DEF GoesOn
<1>10. CASE x \in (Old \cup New) \ {""}
  <2>1. x \notin Starred \cup Markers /\ x # "move" /\ x # ""
    BY <1>10 DEF Old, New, Starred, Headers, Markers
  <2>2. CASE Silent(t, i)
    <3>1. ParseUpdate(s, x, n + 1) = begun
      BY <1>2, <1>5, <2>1, <2>2
    <3>2. FirstLine(t, x, i)
      BY <1>10, <2>2 DEF FirstLine
    <3> QED
      BY <3>1, <3>2, FirstLineRead DEF begun, first
  <2>3. ASSUME NEW j, AtEnd(t, i, j) PROVE ParseUpdate(s, x, n + 1) = Failed /\ Misplaced(h, t, x)
    <3>1. h.chunks # <<>> /\ Misplaced(h, t, x)
      BY <1>4, <2>1, <2>3
    <3>2. next = Failed
      BY <1>n, <2>1
    <3> QED
      BY <1>5, <2>1, <3>1, <3>2
  <2> QED
    BY <1>3, <1>m, <2>2, <2>3 DEF GoesOn
<1>11. CASE x = "eof"
  <2>1. ParseUpdate(s, x, n + 1) = Failed
    <3>1. x \in Starred /\ x \notin Markers
      BY <1>11 DEF Starred, Markers
    <3>2. next = Failed
      BY <1>n, <3>1
    <3> QED
      BY <1>5, <1>11, <3>1, <3>2
  <2>2. CASE Silent(t, i)
    <3>1. ChunkLines(u, i) = ChunkLines(t, i) \cup {n + 1}
      <4>1. LineMore(t, x, u)
        BY DEF AtLine
      <4>2. Says(u, i, n + 1)
        BY <1>1, <1>11 DEF Says
      <4> HIDE DEF i
      <4> QED
        BY <1>1, <1>2, <2>2, <4>1, <4>2, ChunkBegun
    <3>2. n + 1 \in ChunkLines(u, i)
      BY <3>1
    <3>3. NeverFormed(u)
      BY <1>11, <3>2, RefusedChunk
    <3> QED
      BY <2>1, <3>3 DEF GoesOn
  <2>3. ASSUME NEW j, AtEnd(t, i, j) PROVE Misplaced(h, t, x)
    <3>1. x # "" /\ x \notin Markers
      BY <1>11 DEF Markers
    <3> QED
      BY <1>4, <2>3, <3>1
  <2> QED
    BY <1>3, <1>m, <2>1, <2>2, <2>3 DEF GoesOn
<1>12. CASE s.at # "update" /\ x = "move"
  <2>1. ParseUpdate(s, x, n + 1) = Failed
    <3>1. x \in Starred /\ x \notin Markers
      BY <1>12 DEF Starred, Markers
    <3>2. next = Failed
      BY <1>n, <3>1
    <3> QED
      BY <1>5, <1>12, <3>1, <3>2
  <2>2. n # i
    BY <1>3, <1>4, <1>12
  <2>3. Misplaced(h, t, x)
    BY <1>12, <2>2 DEF Misplaced
  <2> QED
    BY <1>m, <2>1, <2>3 DEF GoesOn
<1>13. x \in Headers \cup {"move", "eof"} \cup Markers \cup Old \cup New \cup {"junk"}
  BY <1>2 DEF PatchLineKinds, Starred
<1> QED
  BY <1>2, <1>6, <1>7, <1>8, <1>9, <1>10, <1>11, <1>12, <1>13

\* A line that is no header goes to the hunk that is read, or is refused.
LEMMA LineRead ==
  ASSUME NEW s, NEW h, NEW t, NEW x, NEW u, AtLine(s, h, t, x, u)
  PROVE  GoesOn(ParseOneHunk(s, x, Len(t) + 1), s.hunks, h.path, u)
<1>1. h.kind \in {"add", "delete", "update"}
  BY AtLineFacts DEF ParsedHunk, Headers
<1>2. CASE h.kind = "update"
  <2>1. \/ s.at = "chunk" /\ \E j : InChunk(t, h.path, j)
        \/ s.at \in {"update", "chunks"}
    BY <1>2, UpdateFacts, AtLineFacts, UpdateStates
  <2>2. CASE s.at = "chunk"
    <3>1. PICK j : InChunk(t, h.path, j)
      BY <2>1, <2>2
    <3>2. ParseOneHunk(s, x, Len(t) + 1) = ParseChunk(s, x, Len(t) + 1)
      BY <2>2 DEF ParseOneHunk
    <3> QED
      BY <1>2, <3>1, <3>2, ChunkRead
  <2>3. CASE s.at \in {"update", "chunks"}
    <3>1. ParseOneHunk(s, x, Len(t) + 1) = ParseUpdate(s, x, Len(t) + 1)
      BY <2>3 DEF ParseOneHunk
    <3> QED
      BY <1>2, <2>3, <3>1, BetweenRead
  <2> QED
    BY <2>1, <2>2, <2>3
<1> QED
  BY <1>1, <1>2, AddLineRead, DeleteLineRead

\* A header ends the hunk that is read, if it may end there.
LEMMA HeaderRead ==
  ASSUME NEW s, NEW h, NEW t, s.hunks \in Seq(ParsedHunk), s.hunks # <<>>, h = Last(s.hunks),
         t \in Texts, InHunk(s.at, h, t), NEW x \in Headers, NEW n \in Nat
  PROVE  ParseOneHunk(s, x, n) = IF HunkFormed(t, h.path) THEN ParseHeader(s, x, n) ELSE Failed
<1>1. /\ h.kind \in {"add", "delete", "update"} /\ h.chunks \in Seq(ParsedChunk)
      /\ HunkFormed(t, h.path) <=> (h.kind = "update" => h.chunks # <<>> /\ Started(LastChunk(h)))
  BY HunkMayEnd DEF InHunk, ParsedHunk, Headers
<1>2. /\ x \notin Old \cup New /\ x # "+" /\ x # "" /\ x # "move" /\ x # "eof"
      /\ x \in Starred /\ x \notin Markers
  BY DEF Old, New, Headers, Starred, Markers
<1>3. ParseNext(s, x, n) = IF h.chunks = <<>> THEN Failed ELSE ParseHeader(s, x, n)
  BY <1>2 DEF ParseNext
<1>4. CASE h.kind \in {"add", "delete"}
  <2>1. s.at \in {"add", "delete"} /\ h.kind # "update"
    BY <1>4 DEF InHunk
  <2> QED
    BY <1>1, <1>2, <2>1 DEF ParseOneHunk
<1>5. CASE h.kind = "update"
  <2> DEFINE i == h.path
  <2>1. /\ InUpdate(s.at, t, i) /\ i \in 1 .. Len(t) /\ HunkLines(t, i) = i .. Len(t)
        /\ AreChunks(h.chunks, t, i) /\ Begins(t, t)
    BY <1>5, LenProperties DEF InHunk, IsHunk, HeaderLines, Texts, Begins
  <2>2. ASSUME NEW j, LastChunkAt(t, i, j)
        PROVE  /\ h.chunks # <<>>
               /\ Started(LastChunk(h)) <=> ChunkSays(t, i, j, Old \cup New) # {}
    <3>1. h.chunks # <<>> /\ Last(h.chunks) \in ParsedChunk /\ IsChunk(Last(h.chunks), t, i, j)
      BY <1>1, <2>1, <2>2, ChunksGrow
    <3> QED
      BY <3>1, ChunkStarted DEF LastChunk
  <2>3. CASE s.at \in {"update", "chunks"} /\ Silent(t, i)
    <3>1. h.chunks = <<>>
      BY <1>1, <2>1, <2>3, SilentHasNoChunk, NoChunks
    <3>2. ParseOneHunk(s, x, n) = ParseNext(s, x, n)
      BY <1>2, <2>3 DEF ParseOneHunk, ParseUpdate
    <3> QED
      BY <1>1, <1>3, <1>5, <3>1, <3>2
  <2>4. ASSUME s.at = "chunks", NEW j, AtEnd(t, i, j)
        PROVE  ParseOneHunk(s, x, n) = ParseHeader(s, x, n) /\ HunkFormed(t, i)
    <3>1. h.chunks # <<>> /\ Started(LastChunk(h))
      BY <2>2, <2>4 DEF AtEnd, LastChunkAt
    <3>2. ParseOneHunk(s, x, n) = ParseNext(s, x, n)
      BY <1>2, <2>4 DEF ParseOneHunk, ParseUpdate
    <3> QED
      BY <1>1, <1>3, <3>1, <3>2
  <2>5. ASSUME s.at = "chunk", NEW j, InChunk(t, i, j)
        PROVE  ParseOneHunk(s, x, n) = IF HunkFormed(t, i) THEN ParseHeader(s, x, n) ELSE Failed
    <3>1. h.chunks # <<>>
      BY <2>2, <2>5 DEF InChunk
    <3>2. ParseOneHunk(s, x, n) = IF Started(LastChunk(h)) THEN ParseNext(s, x, n) ELSE Failed
      BY <1>2, <2>5 DEF ParseOneHunk, ParseChunk
    <3> QED
      BY <1>1, <1>3, <1>5, <3>1, <3>2
  <2> QED
    BY <2>1, <2>3, <2>4, <2>5, UpdateStates
<1> QED
  BY <1>1, <1>4, <1>5

-----------------------------------------------------------------------------
(* The whole text.                                                         *)

HunkPaths(hunks) == [n \in DOMAIN hunks |-> hunks[n].path]

\* The hunks that are behind the reader.
EarlierHunks(hunks, t) == \A n \in 1 .. Len(hunks) - 1 :
  IsHunk(hunks[n], t, hunks[n].path) /\ HunkFormed(t, hunks[n].path)

\* What has been read of a text is what it says.
ReadSoFar(s, t) ==
  /\ s.hunks \in Seq(ParsedHunk) /\ s.hunks # <<>>
  /\ Ascending(HunkPaths(s.hunks), HeaderLines(t))
  /\ EarlierHunks(s.hunks, t)
  /\ InHunk(s.at, Last(s.hunks), t)

TextRead(s, t) ==
  \/ t = <<>> /\ s = [at |-> "start", hunks |-> <<>>]
  \/ t # <<>> /\ s = Failed /\ NeverFormed(t)
  \/ t # <<>> /\ ReadSoFar(s, t)

\* A hunk ends before the next header.
LEMMA HunkEnds ==
  ASSUME NEW v \in Texts, NEW i \in Nat, NEW m \in HeaderLines(v), i < m
  PROVE  HunkLines(v, i) \subseteq i .. m - 1
<1>1. Len(v) \in Nat /\ m \in 1 .. Len(v) /\ v[m] \in Headers
  BY LenProperties DEF Texts, HeaderLines
<1> SUFFICES ASSUME NEW k \in HunkLines(v, i) PROVE k \in i .. m - 1
  OBVIOUS
<1>2. k \in i .. Len(v) /\ \A j \in i + 1 .. k : v[j] \notin Headers
  BY DEF HunkLines
<1>3. m \notin i + 1 .. k
  BY <1>1, <1>2
<1> QED
  BY <1>1, <1>2, <1>3

\* The paths of the hunks are the header lines, and that of the last one the largest.
LEMMA HeadersOf ==
  ASSUME NEW t \in Texts, NEW hunks \in Seq(ParsedHunk), hunks # <<>>,
         Ascending(HunkPaths(hunks), HeaderLines(t))
  PROVE  /\ Len(hunks) \in Nat /\ Len(hunks) >= 1 /\ HunkPaths(hunks) \in Seq(Nat)
         /\ DOMAIN HunkPaths(hunks) = 1 .. Len(hunks) /\ Len(HunkPaths(hunks)) = Len(hunks)
         /\ \A n \in 1 .. Len(hunks) :
               /\ hunks[n] \in ParsedHunk /\ hunks[n].path \in HeaderLines(t)
               /\ HunkPaths(hunks)[n] = hunks[n].path
               /\ hunks[n].path \in Nat /\ hunks[n].path \in 1 .. Len(t)
         /\ \A i \in HeaderLines(t) : \E n \in 1 .. Len(hunks) : hunks[n].path = i
         /\ Last(hunks) = hunks[Len(hunks)]
         /\ \A n \in 1 .. Len(hunks) - 1 : hunks[n].path < Last(hunks).path
<1> DEFINE L == Len(hunks)  paths == HunkPaths(hunks)
<1>1. L \in Nat /\ L >= 1 /\ DOMAIN hunks = 1 .. L /\ Last(hunks) = hunks[L] /\ Len(t) \in Nat
  BY EmptySeq, LenProperties DEF Last, Texts
<1> HIDE DEF L
<1>2. \A n \in 1 .. L : hunks[n] \in ParsedHunk /\ hunks[n].path \in Nat
  <2>1. \A n \in 1 .. L : hunks[n] \in ParsedHunk
    BY <1>1, ElementOfSeq DEF L
  <2>2. \A g \in ParsedHunk : g.path \in Nat
    BY DEF ParsedHunk
  <2> QED
    BY <2>1, <2>2
<1>3. DOMAIN paths = 1 .. L /\ \A n \in 1 .. L : paths[n] = hunks[n].path
  BY <1>1 DEF HunkPaths
<1>4. paths \in [1 .. L -> Nat]
  BY <1>1, <1>2 DEF HunkPaths
<1> HIDE DEF paths
<1>5. paths \in Seq(Nat) /\ Len(paths) = L
  BY <1>1, <1>4, SeqDef, LenProperties
<1>6. Ascending(paths, HeaderLines(t))
  BY DEF paths
<1>7. \A n \in 1 .. L : hunks[n].path \in HeaderLines(t) /\ hunks[n].path \in 1 .. Len(t)
  <2>1. \A n \in 1 .. L : paths[n] \in HeaderLines(t)
    BY <1>3, <1>6 DEF Ascending, Range
  <2>2. HeaderLines(t) \subseteq 1 .. Len(t)
    BY LenProperties DEF HeaderLines, Texts
  <2> QED
    BY <1>3, <2>1, <2>2
<1>8. \A i \in HeaderLines(t) : \E n \in 1 .. L : hunks[n].path = i
  BY <1>3, <1>6 DEF Ascending, Range
<1>9. ASSUME NEW n \in 1 .. L - 1 PROVE hunks[n].path < hunks[L].path
  <2>1. n \in 1 .. L /\ L \in 1 .. L /\ n < L
    BY <1>1
  <2> QED
    BY <1>3, <1>6, <2>1 DEF Ascending
<1> QED
  BY <1>1, <1>2, <1>3, <1>5, <1>7, <1>8, <1>9 DEF L, paths

\* The header lines of a text with a line more.
LEMMA HeadersMore ==
  ASSUME NEW t \in Texts, NEW x, NEW u \in Texts, LineMore(t, x, u)
  PROVE  /\ Len(t) \in Nat /\ Len(u) = Len(t) + 1 /\ u[Len(t) + 1] = x /\ Begins(t, u)
         /\ HeaderLines(u) = HeaderLines(t) \cup (IF x \in Headers THEN {Len(t) + 1} ELSE {})
         /\ \A i \in HeaderLines(t) : i \in 1 .. Len(t)
<1>1. /\ Len(t) \in Nat /\ Len(u) = Len(t) + 1 /\ u[Len(t) + 1] = x /\ Begins(t, u)
      /\ DOMAIN t = 1 .. Len(t) /\ DOMAIN u = 1 .. Len(t) + 1
      /\ \A k \in 1 .. Len(t) : u[k] = t[k]
  BY LenProperties DEF Texts, LineMore, Begins
<1>2. \A k : k \in 1 .. Len(t) + 1 <=> k \in 1 .. Len(t) \/ k = Len(t) + 1
  BY <1>1
<1> HIDE DEF Headers
<1>3. \A k : k \in HeaderLines(u) <=> k \in HeaderLines(t) \/ (k = Len(t) + 1 /\ x \in Headers)
  BY <1>1, <1>2 DEF HeaderLines
<1> QED
  BY <1>1, <1>3 DEF HeaderLines

\* The hunks that are behind the reader stay what they were.
LEMMA EarlierHunksStay ==
  ASSUME NEW t \in Texts, NEW u \in Texts, Begins(t, u), NEW hunks \in Seq(ParsedHunk), hunks # <<>>,
         Ascending(HunkPaths(hunks), HeaderLines(t)), EarlierHunks(hunks, t)
  PROVE  EarlierHunks(hunks, u)
<1>1. /\ Last(hunks).path \in HeaderLines(t) /\ Last(hunks).path \in 1 .. Len(t)
      /\ \A n \in 1 .. Len(hunks) - 1 :
            hunks[n].path \in 1 .. Len(t) /\ hunks[n].path < Last(hunks).path
  BY HeadersOf
<1>2. Last(hunks).path \in HeaderLines(u)
  BY <1>1, PrefixRead
<1>3. ASSUME NEW n \in 1 .. Len(hunks) - 1
      PROVE  IsHunk(hunks[n], u, hunks[n].path) /\ HunkFormed(u, hunks[n].path)
  <2> DEFINE i == hunks[n].path  m == Last(hunks).path
  <2>1. i \in 1 .. Len(t) /\ i < m /\ m \in 1 .. Len(t) /\ m \in HeaderLines(u) /\ Len(t) \in Nat
    BY <1>1, <1>2, LenProperties DEF Texts
  <2>2. IsHunk(hunks[n], t, i) /\ HunkFormed(t, i)
    BY DEF EarlierHunks
  <2> HIDE DEF i, m
  <2>3. HunkLines(u, i) \subseteq i .. m - 1
    BY <2>1, HunkEnds
  <2>4. HunkLines(u, i) \subseteq 1 .. Len(t)
    BY <2>1, <2>3
  <2>5. IsHunk(hunks[n], u, i) /\ HunkFormed(u, i)
    BY <2>1, <2>2, <2>4, HunkStays
  <2> QED
    BY <2>5 DEF i
<1> QED
  BY <1>3 DEF EarlierHunks

\* The hunk that a header begins.
LEMMA HunkBegun ==
  ASSUME NEW t \in Texts, NEW x \in Headers, NEW u \in Texts, LineMore(t, x, u)
  PROVE  InHunk(x, Hunk(x, Len(t) + 1), u)
<1> DEFINE i == Len(t) + 1  h == Hunk(x, i)
<1>1. i \in Nat /\ Len(u) = i /\ u[i] = x /\ i \in HeaderLines(u) /\ i \in 1 .. Len(u)
  <2>1. /\ Len(t) \in Nat /\ Len(u) = Len(t) + 1 /\ u[Len(t) + 1] = x
        /\ HeaderLines(u) = HeaderLines(t) \cup (IF x \in Headers THEN {Len(t) + 1} ELSE {})
    BY HeadersMore
  <2> QED
    BY <2>1
<1> HIDE DEF i
<1>2. /\ h \in ParsedHunk /\ h.kind = x /\ h.path = i /\ h.movedTo = 0 /\ h.contents = <<>>
      /\ h.chunks = <<>> /\ h.chunks \in Seq(ParsedChunk)
  <2>1. <<>> \in Seq(Nat) /\ <<>> \in Seq(ParsedChunk)
    OBVIOUS
  <2> QED
    BY <1>1, <2>1 DEF Hunk, ParsedHunk
<1> HIDE DEF h
<1>3. HunkLines(u, i) = {i} /\ HunkLines(u, i) = i .. Len(u)
  <2>1. \A k : k \in HunkLines(u, i) <=> k = i
    BY <1>1 DEF HunkLines
  <2>2. \A k : k \in i .. Len(u) <=> k = i
    BY <1>1
  <2> QED
    BY <2>1, <2>2
<1>4. \A k : k \notin i + 1 .. Len(u)
  BY <1>1
<1>5. AreChunks(h.chunks, u, i)
  <2>1. Silent(u, i)
    BY <1>4 DEF Silent
  <2>2. ChunkLines(u, i) = {}
    BY <1>1, <2>1, SilentHasNoChunk
  <2> QED
    BY <1>1, <1>2, <2>2, NoChunks
<1>6. IsHunk(h, u, i)
  <2>1. i + 1 \notin HunkLines(u, i) /\ HunkLines(u, i) \ {i} = {}
    BY <1>1, <1>3
  <2> QED
    BY <1>1, <1>2, <1>5, <2>1, NothingAscends DEF IsHunk
<1>7. InUpdate("update", u, i)
  BY <1>1, <1>4 DEF InUpdate, LinesPlaced, EndsPlaced
<1>8. InHunk(x, h, u)
  <2>1. CASE x = "update"
    BY <1>1, <1>2, <1>3, <1>6, <1>7, <2>1 DEF InHunk
  <2>2. CASE x = "add"
    BY <1>1, <1>2, <1>3, <1>4, <1>6, <2>2 DEF InHunk
  <2>3. CASE x = "delete"
    BY <1>1, <1>2, <1>3, <1>6, <2>3 DEF InHunk
  <2> QED
    BY <2>1, <2>2, <2>3 DEF Headers
<1> QED
  BY <1>8 DEF h, i

\* Every line that is read keeps to it.
LEMMA NextLineRead ==
  ASSUME NEW t \in Texts, NEW x \in PatchLineKinds, NEW u \in Texts, LineMore(t, x, u),
         t = <<>> => x \in Headers, NEW s, TextRead(s, t)
  PROVE  TextRead(ParseOneHunk(s, x, Len(t) + 1), u)
<1> DEFINE n == Len(t)  r == ParseOneHunk(s, x, n + 1)  h == Last(s.hunks)
<1>1. /\ n \in Nat /\ Len(u) = n + 1 /\ u[n + 1] = x /\ Begins(t, u) /\ u # <<>>
      /\ HeaderLines(u) = HeaderLines(t) \cup (IF x \in Headers THEN {n + 1} ELSE {})
      /\ \A i \in HeaderLines(t) : i \in 1 .. n
  BY HeadersMore, EmptySeq
<1>2. CASE t = <<>> /\ s = [at |-> "start", hunks |-> <<>>]
  <2> DEFINE first == Hunk(x, n + 1)  hunks == <<first>>
  <2>1. r = [at |-> x, hunks |-> hunks]
    BY <1>2 DEF ParseOneHunk, ParseHeader
  <2>2. InHunk(x, first, u) /\ first \in ParsedHunk
    BY <1>2, HunkBegun DEF InHunk
  <2>3. first.path = n + 1
    BY DEF Hunk
  <2> HIDE DEF first
  <2>4. hunks \in Seq(ParsedHunk) /\ hunks # <<>> /\ Len(hunks) = 1 /\ Last(hunks) = first
    BY <2>2 DEF Last
  <2>5. Ascending(HunkPaths(hunks), HeaderLines(u))
    <3>1. HeaderLines(t) = {}
      BY <1>2 DEF HeaderLines
    <3>2. HeaderLines(u) = {n + 1}
      BY <1>1, <1>2, <3>1
    <3>3. DOMAIN HunkPaths(hunks) = {1} /\ HunkPaths(hunks)[1] = n + 1
      BY <2>3 DEF HunkPaths
    <3> QED
      BY <3>2, <3>3 DEF Ascending, Range
  <2>6. EarlierHunks(hunks, u)
    BY <2>4 DEF EarlierHunks
  <2> HIDE DEF hunks
  <2> QED
    BY <1>1, <2>1, <2>2, <2>4, <2>5, <2>6 DEF TextRead, ReadSoFar
<1>3. CASE s = Failed /\ NeverFormed(t)
  <2>1. r = Failed
    BY <1>3 DEF ParseOneHunk, Failed
  <2>2. NeverFormed(u)
    <3>1. \A v \in Texts : Begins(u, v) => Begins(t, v)
      <4> SUFFICES ASSUME NEW v \in Texts, Begins(u, v) PROVE Begins(t, v)
        OBVIOUS
      <4>1. Len(v) \in Nat /\ \A k \in 1 .. n : k \in 1 .. Len(u)
        BY <1>1, LenProperties DEF Texts
      <4> QED
        BY <1>1, <4>1 DEF Begins
    <3> QED
      BY <1>3, <3>1 DEF NeverFormed
  <2> QED
    BY <1>1, <2>1, <2>2 DEF TextRead
<1>4. ASSUME ReadSoFar(s, t) PROVE TextRead(r, u)
  <2> DEFINE L == Len(s.hunks)
  <2>1. /\ s.hunks \in Seq(ParsedHunk) /\ s.hunks # <<>> /\ Ascending(HunkPaths(s.hunks), HeaderLines(t))
        /\ EarlierHunks(s.hunks, t) /\ InHunk(s.at, h, t)
    BY <1>4 DEF ReadSoFar
  <2>2. /\ L \in Nat /\ L >= 1 /\ HunkPaths(s.hunks) \in Seq(Nat)
        /\ DOMAIN HunkPaths(s.hunks) = 1 .. L /\ Len(HunkPaths(s.hunks)) = L
        /\ \A m \in 1 .. L : HunkPaths(s.hunks)[m] = s.hunks[m].path
        /\ h = s.hunks[L] /\ DOMAIN s.hunks = 1 .. L
    BY <2>1, HeadersOf, LenProperties
  <2>3. EarlierHunks(s.hunks, u)
    BY <1>1, <2>1, EarlierHunksStay
  <2>4. h.path \in 1 .. n /\ h.path \in HeaderLines(t) /\ h.path \in Nat /\ h.path < n + 1
    <3>1. h.path \in HeaderLines(t)
      BY <2>1 DEF InHunk
    <3> QED
      BY <1>1, <3>1
  <2>5. CASE x \in Headers
    <3>1. n + 1 \in Nat
      BY <1>1
    <3>2. r = IF HunkFormed(t, h.path) THEN ParseHeader(s, x, n + 1) ELSE Failed
      BY <2>1, <2>5, <3>1, HeaderRead
    <3>3. CASE ~HunkFormed(t, h.path)
      <4>1. ASSUME NEW v \in Texts, Begins(u, v) PROVE ~HunkFormed(v, h.path)
        <5>1. Len(v) \in Nat /\ Begins(t, v) /\ n + 1 \in HeaderLines(v)
          <6>1. Len(v) \in Nat /\ DOMAIN v = 1 .. Len(v)
            BY LenProperties DEF Texts
          <6>2. Len(u) <= Len(v) /\ \A k \in 1 .. Len(u) : v[k] = u[k]
            BY <4>1 DEF Begins
          <6>3. n <= Len(u) /\ \A k \in 1 .. n : u[k] = t[k]
            BY <1>1 DEF Begins
          <6>4. n + 1 \in 1 .. Len(v) /\ v[n + 1] = x
            BY <1>1, <6>1, <6>2
          <6>5. Begins(t, v)
            BY <1>1, <6>1, <6>2, <6>3 DEF Begins
          <6> QED
            BY <2>5, <6>1, <6>4, <6>5 DEF HeaderLines
        <5>2. HunkLines(v, h.path) \subseteq 1 .. Len(t)
          <6>1. HunkLines(v, h.path) \subseteq h.path .. (n + 1) - 1
            BY <2>4, <5>1, HunkEnds
          <6> QED
            BY <1>1, <2>4, <6>1
        <5>3. HunkFormed(v, h.path) <=> HunkFormed(t, h.path)
          BY <2>4, <5>1, <5>2, HunkStays
        <5> QED
          BY <3>3, <5>3
      <4>2. h.path \in HeaderLines(u)
        BY <1>1, <2>4
      <4>3. NeverFormed(u)
        BY <4>1, <4>2, RefusedBy
      <4> QED
        BY <1>1, <3>2, <3>3, <4>3 DEF TextRead
    <3>4. CASE HunkFormed(t, h.path)
      <4> DEFINE g == Hunk(x, n + 1)  hunks == Append(s.hunks, g)
      <4>1. r = [at |-> x, hunks |-> hunks]
        BY <2>5, <3>2, <3>4 DEF ParseHeader
      <4>2. InHunk(x, g, u) /\ g \in ParsedHunk
        BY <2>5, HunkBegun DEF InHunk
      <4>3. g.path = n + 1
        BY DEF Hunk
      <4> HIDE DEF g
      <4>4. /\ hunks \in Seq(ParsedHunk) /\ Len(hunks) = L + 1 /\ hunks[L + 1] = g
            /\ \A m \in 1 .. L : hunks[m] = s.hunks[m]
        BY <2>1, <2>2, <4>2, AppendProperties
      <4> HIDE DEF hunks
      <4>5. hunks # <<>> /\ Last(hunks) = g
        BY <2>2, <4>4, EmptySeq DEF Last
      <4>6. Ascending(HunkPaths(hunks), HeaderLines(u))
        <5> DEFINE more == Append(HunkPaths(s.hunks), n + 1)
        <5>1. more \in Seq(Nat) /\ Ascending(more, HeaderLines(t) \cup {n + 1})
          <6>1. \A k \in HeaderLines(t) : k < n + 1
            BY <1>1
          <6>2. PICK e \in Nat : e = n + 1
            BY <3>1
          <6> QED
            BY <2>1, <2>2, <6>1, <6>2, OneMoreAscends
        <5>2. Len(more) = L + 1 /\ more[L + 1] = n + 1 /\ \A m \in 1 .. L : more[m] = s.hunks[m].path
          BY <2>2, <3>1, AppendProperties
        <5>3. \A m \in 1 .. L + 1 : more[m] = hunks[m].path
          <6>1. \A m \in 1 .. L + 1 : m \in 1 .. L \/ m = L + 1
            BY <2>2
          <6> QED
            BY <4>3, <4>4, <5>2, <6>1
        <5> HIDE DEF more
        <5>4. more = HunkPaths(hunks)
          <6>1. DOMAIN more = 1 .. L + 1 /\ more = [m \in DOMAIN more |-> more[m]]
            BY <5>1, <5>2, LenProperties
          <6>2. DOMAIN hunks = 1 .. L + 1
            BY <4>4, LenProperties
          <6>3. HunkPaths(hunks) = [m \in 1 .. L + 1 |-> hunks[m].path]
            BY <6>2 DEF HunkPaths
          <6>4. more = [m \in 1 .. L + 1 |-> more[m]]
            BY <6>1
          <6> QED
            BY <5>3, <6>3, <6>4
        <5> QED
          BY <1>1, <2>5, <5>1, <5>4
      <4>7. EarlierHunks(hunks, u)
        <5> SUFFICES ASSUME NEW m \in 1 .. L
                     PROVE  IsHunk(s.hunks[m], u, s.hunks[m].path) /\ HunkFormed(u, s.hunks[m].path)
          <6>1. Len(hunks) - 1 = L
            BY <2>2, <4>4
          <6> QED
            BY <4>4, <6>1 DEF EarlierHunks
        <5>1. CASE m \in 1 .. L - 1
          BY <2>3, <5>1 DEF EarlierHunks
        <5>2. CASE m = L
          <6>1. HunkLines(u, h.path) \subseteq h.path .. (n + 1) - 1
            <7>1. n + 1 \in HeaderLines(u)
              BY <1>1, <2>5
            <7> QED
              BY <2>4, <7>1, HunkEnds
          <6>2. HunkLines(u, h.path) \subseteq 1 .. Len(t)
            BY <1>1, <2>4, <6>1
          <6>3. (IsHunk(h, u, h.path) <=> IsHunk(h, t, h.path)) /\ (HunkFormed(u, h.path) <=> HunkFormed(t, h.path))
            BY <1>1, <2>4, <6>2, HunkStays
          <6>4. IsHunk(h, t, h.path)
            BY <2>1 DEF InHunk
          <6> QED
            BY <2>2, <3>4, <5>2, <6>3, <6>4
        <5> QED
          BY <2>2, <5>1, <5>2
      <4> QED
        BY <1>1, <4>1, <4>2, <4>4, <4>5, <4>6, <4>7 DEF TextRead, ReadSoFar
    <3> QED
      BY <3>3, <3>4
  <2>6. CASE x \notin Headers
    <3>1. GoesOn(r, s.hunks, h.path, u)
      <4>1. AtLine(s, h, t, x, u)
        BY <2>1, <2>6 DEF AtLine
      <4> QED
        BY <4>1, LineRead
    <3>2. CASE r = Failed /\ NeverFormed(u)
      BY <1>1, <3>2 DEF TextRead
    <3>3. ASSUME NEW at, NEW g, r = [at |-> at, hunks |-> Append(Front(s.hunks), g)],
                 InHunk(at, g, u), g.path = h.path
          PROVE  TextRead(r, u)
      <4> DEFINE hunks == Append(Front(s.hunks), g)
      <4>1. g \in ParsedHunk
        BY <3>3 DEF InHunk
      <4>2. /\ hunks \in Seq(ParsedHunk) /\ Len(hunks) = L /\ hunks # <<>> /\ Last(hunks) = g
            /\ hunks[L] = g /\ \A m \in 1 .. L - 1 : hunks[m] = s.hunks[m]
        BY <2>1, <4>1, LastReplaced
      <4>3. r.at = at /\ r.hunks = hunks
        BY <3>3
      <4> HIDE DEF hunks, L, r
      <4>4. HunkPaths(hunks) = HunkPaths(s.hunks)
        <5>1. DOMAIN hunks = 1 .. L
          BY <4>2, LenProperties
        <5>2. \A m \in 1 .. L : hunks[m].path = s.hunks[m].path
          <6>1. \A m \in 1 .. L : m \in 1 .. L - 1 \/ m = L
            BY <2>2
          <6> QED
            BY <2>2, <3>3, <4>2, <6>1
        <5> QED
          BY <2>2, <5>1, <5>2 DEF HunkPaths
      <4>5. HeaderLines(u) = HeaderLines(t)
        BY <1>1, <2>6
      <4>6. EarlierHunks(hunks, u)
        BY <2>2, <2>3, <4>2 DEF EarlierHunks, L
      <4> QED
        BY <1>1, <2>1, <3>3, <4>2, <4>3, <4>4, <4>5, <4>6 DEF TextRead, ReadSoFar
    <3> QED
      BY <3>1, <3>2, <3>3 DEF GoesOn
  <2> QED
    BY <2>5, <2>6
<1> QED
  BY <1>2, <1>3, <1>4 DEF TextRead

\* The rounds of parsePatch.
LEMMA ReadGoes ==
  ASSUME NEW text \in Texts
  PROVE  \E f : /\ f[0] = [at |-> "start", hunks |-> <<>>]
                /\ \A i \in 1 .. Len(text) : f[i] = ParseOneHunk(f[i - 1], text[i], i)
                /\ ReadLines(text) = f[Len(text)]
<1> DEFINE start == [at |-> "start", hunks |-> <<>>]
           seq == [i \in DOMAIN text |-> i]
           D == DOMAIN seq
           rec(f) == [S \in SUBSET D |->
                        IF S = {} THEN start
                        ELSE LET x == Max(S) IN ParseOneHunk(f[S \ {x}], text[seq[x]], seq[x])]
           iter == CHOOSE f : f = rec(f)
           n    == Len(text)
           f2   == [i \in 0 .. n |-> iter[1 .. i]]
<1>1. D = 1 .. n /\ n \in Nat /\ \A i \in 1 .. n : seq[i] = i
  BY LenProperties DEF Texts
<1>2. ReadLines(text) = iter[D]
  BY DEF ReadLines, FoldLeftDomain, FoldLeft, MapThenFoldSet
<1> HIDE DEF seq
<1>3. PICK f : Folded(f, "lines", text, start, seq, n)
  BY <1>1, FoldExists
<1>4. f = rec(f)
  BY <1>1, <1>3 DEF Folded, Round
<1>5. iter = rec(iter)
  <2> HIDE DEF rec
  <2> QED
    BY <1>4
<1> HIDE DEF iter
<1>6. Folded(iter, "lines", text, start, seq, n)
  BY <1>1, <1>5 DEF Folded, Round
<1> HIDE DEF start, rec
<1>7. /\ iter[1 .. 0] = start
      /\ \A i \in 1 .. n : iter[1 .. i] = Round("lines", text, iter[1 .. i - 1], seq[i])
  BY <1>1, <1>6, FoldGoes DEF Goes
<1>8. \A i \in 0 .. n : f2[i] = iter[1 .. i]
  OBVIOUS
<1>9. \A i \in 1 .. n : i \in 0 .. n /\ i - 1 \in 0 .. n
  BY <1>1
<1>10. 0 \in 0 .. n /\ n \in 0 .. n
  BY <1>1
<1> HIDE DEF f2, n, D
<1>11. /\ f2[0] = start
       /\ \A i \in 1 .. n : f2[i] = ParseOneHunk(f2[i - 1], text[i], i)
       /\ ReadLines(text) = f2[n]
  BY <1>1, <1>2, <1>7, <1>8, <1>9, <1>10 DEF Round
<1> QED
  BY <1>11 DEF n, start

\* All lines are read, one by one.
LEMMA AllRead ==
  ASSUME NEW text \in Texts, text # <<>> => text[1] \in Headers
  PROVE  TextRead(ReadLines(text), text)
<1> DEFINE n == Len(text)  upto(m) == SubSeq(text, 1, m)
<1>1. n \in Nat
  BY LenProperties DEF Texts
<1>2. PICK f : /\ f[0] = [at |-> "start", hunks |-> <<>>]
               /\ \A i \in 1 .. n : f[i] = ParseOneHunk(f[i - 1], text[i], i)
               /\ ReadLines(text) = f[n]
  BY ReadGoes
<1>3. ASSUME NEW m \in 0 .. n
      PROVE  upto(m) \in Texts /\ Len(upto(m)) = m /\ \A k \in 1 .. m : upto(m)[k] = text[k]
  <2>1. \A k \in 1 .. m : text[k] \in PatchLineKinds
    BY <1>1, ElementOfSeq DEF Texts
  <2>2. m \in Int
    BY <1>1
  <2>3. /\ upto(m) \in Seq(PatchLineKinds)
        /\ Len(upto(m)) = IF 1 <= m THEN m - 1 + 1 ELSE 0
        /\ \A k \in 1 .. m - 1 + 1 : upto(m)[k] = text[1 + k - 1]
    BY <2>1, <2>2, SubSeqProperties DEF Texts
  <2> HIDE DEF upto
  <2> QED
    BY <1>1, <2>3 DEF Texts
<1> HIDE DEF upto, n
<1> DEFINE P == {m \in Nat : m <= n => TextRead(f[m], upto(m))}
<1>4. 0 \in P
  <2>1. 0 \in 0 .. n
    BY <1>1
  <2>2. upto(0) = <<>>
    BY <1>3, <2>1, EmptySeq DEF Texts
  <2> QED
    BY <1>2, <2>2 DEF TextRead
<1>5. ASSUME NEW m \in P \cap Nat PROVE m + 1 \in P
  <2> SUFFICES ASSUME m + 1 <= n PROVE TextRead(f[m + 1], upto(m + 1))
    OBVIOUS
  <2>1. m \in 0 .. n /\ m + 1 \in 0 .. n /\ m + 1 \in 1 .. n /\ m \in Nat /\ (m + 1) - 1 = m
    BY <1>1
  <2>2. TextRead(f[m], upto(m))
    BY <1>1, <2>1
  <2>3. f[m + 1] = ParseOneHunk(f[m], text[m + 1], m + 1)
    BY <1>2, <2>1
  <2>4. LineMore(upto(m), text[m + 1], upto(m + 1))
    <3>1. Len(upto(m)) = m /\ \A k \in 1 .. m : upto(m)[k] = text[k]
      BY <1>3, <2>1
    <3>2. Len(upto(m + 1)) = m + 1 /\ \A k \in 1 .. m + 1 : upto(m + 1)[k] = text[k]
      BY <1>3, <2>1
    <3> QED
      BY <2>1, <3>1, <3>2 DEF LineMore, Begins
  <2>5. text[m + 1] \in PatchLineKinds
    BY <2>1, ElementOfSeq DEF Texts, n
  <2>6. upto(m) = <<>> => text[m + 1] \in Headers
    <3>1. ASSUME upto(m) = <<>> PROVE m = 0 /\ text # <<>>
      <4>1. m = 0
        BY <1>3, <2>1, <3>1, EmptySeq DEF Texts
      <4>2. n # 0
        BY <1>1, <2>1
      <4> QED
        BY <4>1, <4>2, EmptySeq DEF n, Texts
    <3> QED
      BY <3>1
  <2>7. upto(m) \in Texts /\ upto(m + 1) \in Texts /\ Len(upto(m)) = m
    BY <1>3, <2>1
  <2> HIDE DEF P
  <2>8. TextRead(ParseOneHunk(f[m], text[m + 1], Len(upto(m)) + 1), upto(m + 1))
    BY <2>2, <2>4, <2>5, <2>6, <2>7, NextLineRead
  <2> QED
    BY <2>3, <2>7, <2>8
<1>6. \A m \in Nat : m \in P
  <2> HIDE DEF P
  <2> QED
    BY <1>4, <1>5, Induction
<1>7. TextRead(f[n], upto(n))
  BY <1>1, <1>6
<1>8. upto(n) = text
  <2>1. n \in 0 .. n
    BY <1>1
  <2>2. upto(n) \in Texts /\ Len(upto(n)) = n /\ \A k \in 1 .. n : upto(n)[k] = text[k]
    BY <1>3, <2>1
  <2> QED
    BY <2>2, SeqEqual DEF Texts, n
<1> QED
  BY <1>2, <1>7, <1>8

\* The first and the last element are taken off.
LEMMA Enclosed ==
  ASSUME NEW A, NEW a \in A, NEW b \in A, NEW q \in Seq(A), NEW r, r = (<<a>> \o q) \o <<b>>
  PROVE  /\ r \in Seq(A) /\ Len(r) = Len(q) + 2 /\ Len(q) \in Nat /\ r # <<>>
         /\ Head(r) = a /\ Last(r) = b /\ Front(Tail(r)) = q
         /\ r[1] = a /\ r[Len(q) + 2] = b /\ \A k \in 1 .. Len(q) : r[k + 1] = q[k]
<1> DEFINE n == Len(q)  p == <<a>> \o q
<1>1. n \in Nat
  BY LenProperties
<1>2. /\ p \in Seq(A) /\ Len(p) = n + 1 /\ p[1] = a /\ \A k \in 1 .. n : p[k + 1] = q[k]
  <2>1. <<a>> \in Seq(A) /\ Len(<<a>>) = 1 /\ <<a>>[1] = a
    OBVIOUS
  <2>2. /\ p \in Seq(A) /\ Len(p) = Len(<<a>>) + n
        /\ \A k \in 1 .. Len(<<a>>) + n :
              p[k] = IF k <= Len(<<a>>) THEN <<a>>[k] ELSE q[k - Len(<<a>>)]
    BY <2>1, ConcatProperties
  <2> HIDE DEF p, n
  <2>3. \A k \in 1 .. n : k + 1 \in 1 .. 1 + n /\ ~(k + 1 <= 1) /\ (k + 1) - 1 = k
    BY <1>1
  <2> QED
    BY <1>1, <2>1, <2>2, <2>3
<1> HIDE DEF p
<1>3. /\ r \in Seq(A) /\ Len(r) = n + 2 /\ r[1] = a /\ r[n + 2] = b
      /\ \A k \in 1 .. n : r[k + 1] = q[k]
  <2>1. r = p \o <<b>> /\ <<b>> \in Seq(A) /\ Len(<<b>>) = 1 /\ <<b>>[1] = b
    BY DEF p
  <2>2. /\ r \in Seq(A) /\ Len(r) = Len(p) + Len(<<b>>)
        /\ \A k \in 1 .. Len(p) + Len(<<b>>) :
              r[k] = IF k <= Len(p) THEN p[k] ELSE <<b>>[k - Len(p)]
    BY <1>2, <2>1, ConcatProperties
  <2> HIDE DEF n
  <2>3. \A k \in 1 .. n : k + 1 \in 1 .. n + 1 + 1 /\ k + 1 <= n + 1
    BY <1>1
  <2>4. 1 \in 1 .. n + 1 + 1 /\ 1 <= n + 1 /\ n + 2 \in 1 .. n + 1 + 1 /\ ~(n + 2 <= n + 1) /\ (n + 2) - (n + 1) = 1
    BY <1>1
  <2> QED
    BY <1>1, <1>2, <2>1, <2>2, <2>3, <2>4
<1>4. r # <<>> /\ Head(r) = a /\ Last(r) = b
  <2>1. r # <<>>
    BY <1>1, <1>3, EmptySeq
  <2> QED
    BY <1>3, <2>1 DEF Last
<1> DEFINE t == Tail(r)
<1>5. t \in Seq(A) /\ Len(t) = n + 1 /\ \A k \in 1 .. n : t[k] = q[k]
  <2>1. t \in Seq(A) /\ Len(t) = Len(r) - 1 /\ \A k \in 1 .. Len(t) : t[k] = r[k + 1]
    BY <1>3, <1>4, HeadTailProperties
  <2> HIDE DEF t, n
  <2>2. \A k \in 1 .. n : k \in 1 .. n + 1
    BY <1>1
  <2>3. Len(t) = n + 1
    BY <1>1, <1>3, <2>1
  <2>4. \A k \in 1 .. n : t[k] = r[k + 1]
    BY <2>1, <2>2, <2>3
  <2> QED
    BY <1>3, <2>1, <2>3, <2>4
<1> HIDE DEF t
<1>6. Front(t) \in Seq(A) /\ Len(Front(t)) = n /\ \A k \in 1 .. n : Front(t)[k] = t[k]
  <2>1. \A k \in 1 .. n : t[k] \in A
    BY <1>1, <1>5, ElementOfSeq
  <2>2. (n + 1) - 1 = n /\ n \in Int
    BY <1>1
  <2>3. Front(t) = SubSeq(t, 1, n)
    BY <1>5, <2>2 DEF Front
  <2> HIDE DEF n
  <2>4. /\ SubSeq(t, 1, n) \in Seq(A) /\ Len(SubSeq(t, 1, n)) = IF 1 <= n THEN n - 1 + 1 ELSE 0
        /\ \A k \in 1 .. n - 1 + 1 : SubSeq(t, 1, n)[k] = t[1 + k - 1]
    BY <2>1, <2>2, SubSeqProperties
  <2> QED
    BY <1>1, <2>3, <2>4
<1>7. Front(t) = q
  BY <1>5, <1>6, SeqEqual
<1> QED
  BY <1>1, <1>3, <1>4, <1>7 DEF t

\* The markers of a patch, and of a here-document around it.
TextMarks == {"begin", "end", "<<EOF", "EOF"}

\* What is around a here-document is taken off.
LEMMA HereBody ==
  ASSUME NEW A, "<<EOF" \in A, "EOF" \in A, NEW p \in Seq(A), BoundariesOK(p),
         NEW here, here = (<<"<<EOF">> \o p) \o <<"EOF">>
  PROVE  PatchBody(here) = Front(Tail(p))
<1>1. /\ here # <<>> /\ Head(here) = "<<EOF" /\ Last(here) = "EOF"
      /\ Front(Tail(here)) = p /\ Len(here) = Len(p) + 2
  <2>1. PICK a \in A, b \in A : a = "<<EOF" /\ b = "EOF"
    OBVIOUS
  <2>2. here = (<<a>> \o p) \o <<b>>
    BY <2>1
  <2>3. /\ here # <<>> /\ Head(here) = a /\ Last(here) = b
        /\ Front(Tail(here)) = p /\ Len(here) = Len(p) + 2
    BY <2>2, Enclosed
  <2> QED
    BY <2>1, <2>3
<1>2. ~BoundariesOK(here)
  BY <1>1 DEF BoundariesOK
<1>3. Len(here) >= 4
  <2>1. Len(p) \in Nat /\ p # <<>> /\ Head(p) = "begin" /\ Last(p) = "end"
    BY LenProperties DEF BoundariesOK
  <2>2. Len(p) # 0 /\ Len(p) # 1
    <3>1. Head(p) = p[1] /\ Last(p) = p[Len(p)]
      BY <2>1, HeadTailProperties DEF Last
    <3>2. Len(p) # 1
      BY <2>1, <3>1
    <3> QED
      BY <2>1, <3>2, EmptySeq
  <2> QED
    BY <1>1, <2>1, <2>2
<1> QED
  BY <1>1, <1>2, <1>3 DEF PatchBody

\* The lines between the markers are the text, in both forms.
LEMMA BodyIsText ==
  ASSUME NEW text \in Texts, NEW plain, plain = <<"begin">> \o text \o <<"end">>,
         NEW here, here = <<"<<EOF", "begin">> \o text \o <<"end", "EOF">>
  PROVE  PatchBody(plain) = text /\ PatchBody(here) = text
<1> DEFINE A == PatchLineKinds \cup TextMarks
<1>1. text \in Seq(A) /\ "begin" \in A /\ "end" \in A /\ "<<EOF" \in A /\ "EOF" \in A
  <2>1. text \in Seq(PatchLineKinds) /\ PatchLineKinds \subseteq A
    BY DEF Texts
  <2>2. text \in [1 .. Len(text) -> A] /\ Len(text) \in Nat
    <3>1. \A k \in 1 .. Len(text) : text[k] \in A
      BY <2>1, ElementOfSeq
    <3>2. DOMAIN text = 1 .. Len(text) /\ text = [k \in DOMAIN text |-> text[k]] /\ Len(text) \in Nat
      BY <2>1, LenProperties
    <3> QED
      BY <3>1, <3>2
  <2>3. text \in Seq(A)
    BY <2>2, SeqDef
  <2> QED
    BY <2>3 DEF TextMarks
<1> HIDE DEF A
<1>2. /\ plain \in Seq(A) /\ plain # <<>> /\ Head(plain) = "begin" /\ Last(plain) = "end"
      /\ Front(Tail(plain)) = text /\ Len(plain) = Len(text) + 2 /\ Len(text) \in Nat
  <2>1. PICK a \in A, b \in A : a = "begin" /\ b = "end"
    BY <1>1
  <2>2. plain = (<<a>> \o text) \o <<b>>
    BY <2>1
  <2>3. /\ plain \in Seq(A) /\ plain # <<>> /\ Head(plain) = a /\ Last(plain) = b
        /\ Front(Tail(plain)) = text /\ Len(plain) = Len(text) + 2 /\ Len(text) \in Nat
    BY <1>1, <2>2, Enclosed
  <2> QED
    BY <2>1, <2>3
<1>3. BoundariesOK(plain)
  BY <1>2 DEF BoundariesOK
<1>4. PatchBody(plain) = text
  BY <1>2, <1>3 DEF PatchBody
<1>5. PICK p : p = plain
  OBVIOUS
<1>6. p \in Seq(A) /\ BoundariesOK(p) /\ Front(Tail(p)) = text
  BY <1>2, <1>3, <1>5
<1>7. here = (<<"<<EOF">> \o p) \o <<"EOF">>
  BY <1>5
<1>8. PatchBody(here) = text
  BY <1>1, <1>6, <1>7, HereBody
<1> QED
  BY <1>4, <1>8

\* What has been read of a text is its hunks, or it is not well formed.
LEMMA PatchRead ==
  ASSUME NEW text \in Texts, text # <<>> => text[1] \in Headers, NEW lines, PatchBody(lines) = text
  PROVE  IF WellFormed(text) THEN AreHunks(ParsePatch(lines), text) ELSE ParsePatch(lines) = <<>>
<1> DEFINE s == ReadLines(text)  h == Last(s.hunks)  r == ParsePatch(lines)
<1> SUFFICES IF WellFormed(text) THEN AreHunks(r, text) ELSE r = <<>>
  OBVIOUS
<1>1. TextRead(s, text)
  BY AllRead
<1>2. r = IF s.hunks = <<>> THEN <<>>
          ELSE IF h.kind = "update" /\ (h.chunks = <<>> \/ ~Started(LastChunk(h))) THEN <<>>
          ELSE s.hunks
  BY DEF ParsePatch
<1> HIDE DEF s, r
<1>3. CASE text = <<>> /\ s = [at |-> "start", hunks |-> <<>>]
  BY <1>2, <1>3 DEF WellFormed
<1>4. CASE s = Failed /\ NeverFormed(text)
  <2>1. Begins(text, text)
    BY LenProperties DEF Begins, Texts
  <2>2. ~WellFormed(text)
    BY <1>4, <2>1 DEF NeverFormed
  <2>3. s.hunks = <<>>
    BY <1>4 DEF Failed
  <2> QED
    BY <1>2, <2>2, <2>3
<1>5. CASE text # <<>> /\ ReadSoFar(s, text)
  <2>1. /\ s.hunks \in Seq(ParsedHunk) /\ s.hunks # <<>>
        /\ Ascending(HunkPaths(s.hunks), HeaderLines(text))
        /\ EarlierHunks(s.hunks, text) /\ InHunk(s.at, h, text)
    BY <1>5 DEF ReadSoFar
  <2>2. HunkFormed(text, h.path) <=> (h.kind = "update" => h.chunks # <<>> /\ Started(LastChunk(h)))
    BY <2>1, HunkMayEnd
  <2>3. h.path \in HeaderLines(text) /\ IsHunk(h, text, h.path)
    BY <2>1 DEF InHunk
  <2>4. CASE HunkFormed(text, h.path)
    <3> DEFINE L == Len(s.hunks)
    <3>1. r = s.hunks
      BY <1>2, <2>1, <2>2, <2>4
    <3>2. /\ L \in Nat /\ L >= 1 /\ h = s.hunks[L] /\ DOMAIN s.hunks = 1 .. L
          /\ \A i \in HeaderLines(text) : \E n \in 1 .. L : s.hunks[n].path = i
      BY <2>1, HeadersOf, LenProperties
    <3>3. \A n \in 1 .. L : IsHunk(s.hunks[n], text, s.hunks[n].path) /\ HunkFormed(text, s.hunks[n].path)
      <4>1. \A n \in 1 .. L : n \in 1 .. L - 1 \/ n = L
        BY <3>2
      <4>2. \A n \in 1 .. L - 1 :
              IsHunk(s.hunks[n], text, s.hunks[n].path) /\ HunkFormed(text, s.hunks[n].path)
        BY <2>1 DEF EarlierHunks
      <4> QED
        BY <2>3, <2>4, <3>2, <4>1, <4>2
    <3>4. WellFormed(text)
      BY <1>5, <3>2, <3>3 DEF WellFormed
    <3>5. AreHunks(s.hunks, text)
      BY <2>1, <3>2, <3>3 DEF AreHunks, HunkPaths
    <3> QED
      BY <3>1, <3>4, <3>5
  <2>5. CASE ~HunkFormed(text, h.path)
    <3>1. r = <<>>
      BY <1>2, <2>1, <2>2, <2>5
    <3>2. ~WellFormed(text)
      BY <2>3, <2>5 DEF WellFormed
    <3> QED
      BY <3>1, <3>2
  <2> QED
    BY <2>4, <2>5
<1>6. \/ text = <<>> /\ s = [at |-> "start", hunks |-> <<>>]
      \/ s = Failed /\ NeverFormed(text)
      \/ text # <<>> /\ ReadSoFar(s, text)
  BY <1>1 DEF TextRead
<1> QED
  BY <1>3, <1>4, <1>5, <1>6

\* The text of a patch: it begins with a header.
TextInv == patchText \in Texts /\ (patchText # <<>> => patchText[1] \in Headers)

\* Any text of a patch, with or without a here-document around it, is read as the
\* hunks and chunks that its lines say, and refused when a line has no place
\* (parsePatch, apply_patch_format.go:52-139).
THEOREM PatchesReadAsWritten == ParseSpec => []ReadAsWritten
<1>1. ParseInit => TextInv
  <2>1. <<>> \in Texts
    BY DEF Texts
  <2> QED
    BY <2>1 DEF ParseInit, TextInv
<1>2. TextInv /\ [ParseNextLine]_patchText => TextInv'
  <2> SUFFICES ASSUME TextInv, [ParseNextLine]_patchText PROVE TextInv'
    OBVIOUS
  <2>1. ASSUME NEW line \in PatchLineKinds, patchText = <<>> => line \in Headers,
               patchText' = Append(patchText, line)
        PROVE  TextInv'
    <3> DEFINE n == Len(patchText)
    <3>1. /\ patchText' \in Texts /\ Len(patchText') = n + 1 /\ patchText'[n + 1] = line
          /\ \A k \in 1 .. n : patchText'[k] = patchText[k]
      BY <2>1, AppendProperties DEF TextInv, Texts
    <3>2. patchText'[1] \in Headers
      <4>1. CASE patchText = <<>>
        BY <2>1, <4>1
      <4>2. CASE patchText # <<>>
        <5>1. 1 \in 1 .. n
          BY <4>2, EmptySeq, LenProperties DEF TextInv, Texts
        <5> QED
          BY <3>1, <4>2, <5>1 DEF TextInv
      <4> QED
        BY <4>1, <4>2
    <3> QED
      BY <3>1, <3>2 DEF TextInv
  <2>2. CASE UNCHANGED patchText
    BY <2>2 DEF TextInv
  <2> QED
    BY <2>1, <2>2 DEF ParseNextLine
<1>3. TextInv => ReadAsWritten
  <2> SUFFICES ASSUME TextInv PROVE ReadAsWritten
    OBVIOUS
  <2> DEFINE plain == <<"begin">> \o patchText \o <<"end">>
             here == <<"<<EOF", "begin">> \o patchText \o <<"end", "EOF">>
  <2>1. patchText \in Texts /\ (patchText # <<>> => patchText[1] \in Headers)
    BY DEF TextInv
  <2>2. PatchBody(plain) = patchText /\ PatchBody(here) = patchText
    BY <2>1, BodyIsText
  <2> HIDE DEF plain, here
  <2>3. ASSUME NEW lines \in {plain, here}
        PROVE  LET hunks == ParsePatch(lines) IN
               IF WellFormed(patchText) THEN AreHunks(hunks, patchText) ELSE hunks = <<>>
    <3>1. PatchBody(lines) = patchText
      BY <2>2
    <3> QED
      BY <2>1, <3>1, PatchRead
  <2> QED
    BY <2>3 DEF ReadAsWritten, plain, here
<1> QED
  BY <1>1, <1>2, <1>3, PTL DEF ParseSpec

-----------------------------------------------------------------------------
(* Patches.                                                                *)

\* What a file may hold: the edits of the calls, after the mark of a write that was cut
\* or not, or the mark of a file that is not there.
Contents == Seq((Patches \cup {"absent"}) \X Nat)
HunkRecord == [pc : {"next", "write", "fill", "remove", "over", "torn"}, adds : BOOLEAN,
               path : Paths \cup {"none"}, dest : Paths \cup {"none"}, read : Contents, n : Nat]

PatchTyped ==
  /\ files \in [Paths -> Contents] /\ whole \in [Paths -> Contents] /\ crossed \in BOOLEAN
  /\ hunk \in [Patches -> HunkRecord]
  /\ \A c \in Patches : hunk[c].n <= MaxHunks

\* A hunk that has begun works on files inside the workspace, and has a number.
BegunOn(h) == h.pc \in {"write", "fill", "remove"} => {h.path, h.dest} \subseteq Paths /\ h.n > 0
HunkInv == \A c \in Patches : BegunOn(hunk[c])

\* The text begins with what a write of c has cut; that write has failed.
CutBy(text, c) == text # <<>> /\ Head(text) = <<c, 0>>
Torn(text) == \E c \in Patches : hunk[c].pc = "torn" /\ CutBy(text, c)

\* While nobody has crossed another's path, the hunks under way are on paths of their
\* own; what one has read is what the finished hunks made of the file, or what a failed
\* write has left of it; and what a call that has not failed cuts is seen in the file
\* that it writes only.
Apart == \A c, d \in Patches : c # d => Busy(c) \cap Busy(d) = {}
FilesKept == \A p \in Paths : files[p] = whole[p] \/ Spoiled(files[p])
ReadKept(h, c) == h.pc \in {"write", "fill"} =>
  /\ IF h.adds THEN h.read = <<>> ELSE h.read = whole[h.path] \/ Torn(h.read)
  /\ h.pc = "fill" => files[h.dest] = Cut(c)
CutsSeen == \A c \in Patches : hunk[c].pc # "torn" =>
  /\ \A p \in Paths : CutBy(files[p], c) => hunk[c].pc = "fill" /\ p = hunk[c].dest
  /\ \A d \in Patches : hunk[d].pc \in {"write", "fill"} => ~CutBy(hunk[d].read, c)
AloneInv ==
  ~crossed => Apart /\ FilesKept /\ (\A c \in Patches : ReadKept(hunk[c], c)) /\ CutsSeen

\* All of it.
PatchInv == PatchTyped /\ HunkInv /\ AloneInv

\* What is not a call's cut: a file that is not there, and an empty one.
LEMMA NotCut ==
  ASSUME NEW c \in Patches, NEW d \in Patches, NEW n \in Nat
  PROVE  /\ ~CutBy(Absent, c) /\ ~CutBy(<<>>, c) /\ CutBy(Cut(c), c)
         /\ CutBy(Cut(d), c) => c = d
         /\ CutBy(<<<<d, n>>>>, c) => n = 0
         /\ Absent \in Contents /\ <<>> \in Contents /\ Cut(c) \in Contents
<1>1. <<c, 0>> \in (Patches \cup {"absent"}) \X Nat
      /\ <<"absent", 0>> \in (Patches \cup {"absent"}) \X Nat
  OBVIOUS
<1>2. Absent \in Contents /\ <<>> \in Contents /\ Cut(c) \in Contents
  BY <1>1 DEF Absent, Cut, Contents
<1>3. /\ Head(Absent) = <<"absent", 0>> /\ Head(Cut(c)) = <<c, 0>> /\ Head(Cut(d)) = <<d, 0>>
      /\ Head(<<<<d, n>>>>) = <<d, n>> /\ Cut(c) # <<>>
  BY DEF Absent, Cut
<1>4. c # "absent"
  BY ApplyPatchAssumption
<1>5. <<c, 0>> # <<"absent", 0>> /\ (<<d, 0>> = <<c, 0>> => c = d) /\ (<<d, n>> = <<c, 0>> => n = 0)
  BY <1>4
<1> QED
  BY <1>2, <1>3, <1>5 DEF CutBy

\* An edit appended to the contents of a file: what they begin with stays, unless there
\* was nothing.
LEMMA EditsAreContents ==
  ASSUME NEW s \in Contents, NEW c \in Patches, NEW n \in Nat, n > 0, NEW d \in Patches
  PROVE  /\ Append(s, <<c, n>>) \in Contents
         /\ CutBy(s, d) <=> CutBy(Append(s, <<c, n>>), d)
<1> DEFINE e == <<c, n>>
<1>1. e \in (Patches \cup {"absent"}) \X Nat /\ e # <<d, 0>>
  OBVIOUS
<1> HIDE DEF e
<1>2. Append(s, e) \in Contents /\ Append(s, e) # <<>>
  BY <1>1 DEF Contents
<1>3. CASE s = <<>>
  <2>1. Head(Append(s, e)) = e
    BY <1>1, <1>3 DEF Contents
  <2> QED
    BY <1>1, <1>2, <1>3, <2>1 DEF CutBy, e
<1>4. CASE s # <<>>
  <2>1. Head(Append(s, e)) = Head(s)
    BY <1>1, <1>4 DEF Contents
  <2> QED
    BY <1>2, <1>4, <2>1 DEF CutBy, e
<1> QED
  BY <1>3, <1>4

\* The first states satisfy the invariant: no hunk has begun.
LEMMA PatchInitial == PatchInit => PatchInv
<1> SUFFICES ASSUME PatchInit PROVE PatchInv
  OBVIOUS
<1>1. Absent \in Contents /\ <<>> \in Contents
  BY DEF Absent, Contents
<1>2. NoHunk \in HunkRecord /\ NoHunk.n = 0 /\ NoHunk.pc = "next"
  BY <1>1 DEF NoHunk, HunkRecord
<1>3. \A c \in Patches : hunk[c] = NoHunk
  BY DEF PatchInit
<1>4. PatchTyped
  <2>1. 0 <= MaxHunks
    BY ApplyPatchAssumption
  <2>2. hunk \in [Patches -> HunkRecord]
    BY <1>2 DEF PatchInit
  <2> QED
    BY <1>1, <1>2, <1>3, <2>1, <2>2 DEF PatchInit, PatchTyped
<1>5. \A c \in Patches : hunk[c].pc = "next"
  BY <1>2, <1>3
<1>6. \A c \in Patches : Busy(c) = {}
  BY <1>5 DEF Busy
<1>7. CutsSeen
  <2>1. \A p \in Paths : files[p] = Absent \/ files[p] = <<>>
    BY DEF PatchInit
  <2> QED
    BY <1>5, <2>1, NotCut DEF CutsSeen
<1> QED
  BY <1>4, <1>5, <1>6, <1>7
  DEF PatchInv, HunkInv, BegunOn, AloneInv, Apart, FilesKept, ReadKept, PatchInit

\* A path that is no other call's: only c's own cut, or that of a write that failed, is
\* in its file.
LEMMA OwnPath ==
  ASSUME PatchInv, ~crossed, NEW c \in Patches, hunk[c].pc # "torn", NEW p \in Paths,
         \A d \in Patches \ {c} : p \notin Busy(d)
  PROVE  /\ \A e \in Patches : hunk[e].pc # "torn" /\ CutBy(files[p], e) =>
              e = c /\ hunk[c].pc = "fill" /\ p = hunk[c].dest
         /\ \/ files[p] = whole[p] \/ Torn(files[p])
            \/ hunk[c].pc = "fill" /\ p = hunk[c].dest
<1>1. ASSUME NEW e \in Patches, hunk[e].pc # "torn", CutBy(files[p], e)
      PROVE  e = c /\ hunk[c].pc = "fill" /\ p = hunk[c].dest
  <2>1. hunk[e].pc = "fill" /\ p = hunk[e].dest
    BY <1>1 DEF PatchInv, AloneInv, CutsSeen
  <2>2. p \in Busy(e)
    BY <2>1 DEF Busy
  <2> QED
    BY <2>1, <2>2
<1>2. files[p] = whole[p] \/ Spoiled(files[p])
  BY DEF PatchInv, AloneInv, FilesKept
<1>3. CASE Spoiled(files[p])
  <2>1. PICK e \in Patches : hunk[e].pc \in {"fill", "torn"} /\ CutBy(files[p], e)
    BY <1>3 DEF Spoiled, CutBy
  <2> QED
    BY <1>1, <2>1 DEF Torn
<1> QED
  BY <1>1, <1>2, <1>3

\* A step of one call on paths that are no other's: what the others have read, and the
\* files elsewhere, stay as they are.
LEMMA StepOfOne ==
  ASSUME PatchInv, NEW c \in Patches, hunk[c].pc # "torn", NEW ps \in SUBSET Paths,
         NEW h \in HunkRecord, h.n <= MaxHunks, BegunOn(h),
         hunk' = [hunk EXCEPT ![c] = h], crossed' \in BOOLEAN,
         files' \in [Paths -> Contents], whole' \in [Paths -> Contents],
         ~crossed' =>
           /\ ~crossed /\ \A d \in Patches \ {c} : Busy(d) \cap ps = {}
           /\ Busy(c) \subseteq ps
           /\ h.pc \in {"write", "fill", "remove"} => {h.path, h.dest} \subseteq ps
           /\ \A p \in Paths \ ps : files'[p] = files[p] /\ whole'[p] = whole[p]
           /\ \A p \in ps : \/ files'[p] = whole'[p] \/ Torn(files'[p])
                            \/ h.pc \in {"fill", "torn"} /\ CutBy(files'[p], c)
           /\ \A p \in ps, e \in Patches :
                hunk'[e].pc # "torn" /\ CutBy(files'[p], e) => e = c /\ h.pc = "fill" /\ p = h.dest
           /\ h.pc \in {"write", "fill"} =>
                /\ IF h.adds THEN h.read = <<>> ELSE h.read = whole'[h.path] \/ Torn(h.read)
                /\ h.pc = "fill" => files'[h.dest] = Cut(c)
                /\ \A e \in Patches : hunk'[e].pc # "torn" => ~CutBy(h.read, e)
  PROVE  PatchInv'
<1> USE DEF PatchInv
<1>1. \A d \in Patches : hunk'[d] = IF d = c THEN h ELSE hunk[d]
  BY DEF PatchTyped
<1>2. PatchTyped'
  <2>1. hunk' \in [Patches -> HunkRecord]
    BY DEF PatchTyped
  <2> QED
    BY <2>1, <1>1 DEF PatchTyped
<1>3. HunkInv'
  BY <1>1 DEF HunkInv, BegunOn
<1>4. AloneInv'
  <2> SUFFICES ASSUME ~crossed' PROVE (Apart /\ FilesKept /\ (\A d \in Patches : ReadKept(hunk[d], d)) /\ CutsSeen)'
    BY DEF AloneInv
  <2>0. /\ ~crossed /\ \A d \in Patches \ {c} : Busy(d) \cap ps = {}
        /\ Apart /\ FilesKept /\ (\A d \in Patches : ReadKept(hunk[d], d)) /\ CutsSeen
    BY DEF AloneInv
  <2>1. Busy(c)' \subseteq ps /\ \A d \in Patches \ {c} : Busy(d)' = Busy(d)
    BY <1>1 DEF Busy
  <2>2. \A s \in Contents : Torn(s) => Torn(s)'
    BY <1>1 DEF Torn, CutBy
  <2>3. Apart'
    BY <2>0, <2>1 DEF Apart
  <2>4. \A p \in Paths \ ps : ~CutBy(files[p], c)
    <3>1. ASSUME NEW p \in Paths, CutBy(files[p], c) PROVE p \in ps
      <4>1. hunk[c].pc = "fill" /\ p = hunk[c].dest
        BY <2>0, <3>1 DEF CutsSeen
      <4> QED
        BY <4>1 DEF Busy
    <3> QED
      BY <3>1
  <2>5. FilesKept'
    <3> SUFFICES ASSUME NEW p \in Paths PROVE files'[p] = whole'[p] \/ Spoiled(files[p])'
      BY DEF FilesKept
    <3>1. CASE p \in ps
      <4>1. CASE Torn(files'[p])
        BY <1>1, <4>1 DEF Torn, Spoiled, CutBy
      <4>2. CASE h.pc \in {"fill", "torn"} /\ CutBy(files'[p], c)
        BY <1>1, <4>2 DEF Spoiled, CutBy
      <4> QED
        BY <3>1, <4>1, <4>2
    <3>2. CASE p \notin ps
      <4>1. files'[p] = files[p] /\ whole'[p] = whole[p]
        BY <3>2
      <4>2. ASSUME Spoiled(files[p]) PROVE Spoiled(files[p])'
        <5>1. PICK e \in Patches : hunk[e].pc \in {"fill", "torn"} /\ CutBy(files[p], e)
          BY <4>2 DEF Spoiled, CutBy
        <5>2. e # c /\ hunk'[e] = hunk[e]
          BY <1>1, <2>4, <3>2, <5>1
        <5> QED
          BY <4>1, <5>1, <5>2 DEF Spoiled, CutBy
      <4> QED
        BY <2>0, <4>1, <4>2 DEF FilesKept
    <3> QED
      BY <3>1, <3>2
  <2>6. ASSUME NEW d \in Patches PROVE ReadKept(hunk[d], d)'
    <3>1. CASE d = c
      <4>1. hunk'[d] = h
        BY <1>1, <3>1
      <4>2. h.read \in Contents
        BY DEF HunkRecord
      <4> QED
        BY <2>2, <3>1, <4>1, <4>2 DEF ReadKept, Cut
    <3>2. CASE d # c /\ hunk[d].pc \in {"write", "fill"}
      <4>1. hunk'[d] = hunk[d] /\ hunk[d].read \in Contents
        BY <1>1, <3>2 DEF PatchTyped, HunkRecord
      <4>2. hunk[d].path \in Paths \ ps /\ hunk[d].dest \in Paths \ ps
        BY <2>0, <3>2 DEF Busy, HunkInv, BegunOn
      <4>3. whole'[hunk[d].path] = whole[hunk[d].path] /\ files'[hunk[d].dest] = files[hunk[d].dest]
        BY <4>2
      <4>4. ReadKept(hunk[d], d)
        BY <2>0
      <4> QED
        BY <2>2, <3>2, <4>1, <4>3, <4>4 DEF ReadKept, Cut
    <3>3. CASE d # c /\ hunk[d].pc \notin {"write", "fill"}
      BY <1>1, <3>3 DEF ReadKept
    <3> QED
      BY <3>1, <3>2, <3>3
  <2>7. CutsSeen'
    <3> SUFFICES ASSUME NEW e \in Patches, hunk'[e].pc # "torn"
                 PROVE  /\ \A p \in Paths : CutBy(files'[p], e) => hunk'[e].pc = "fill" /\ p = hunk'[e].dest
                        /\ \A d \in Patches : hunk'[d].pc \in {"write", "fill"} => ~CutBy(hunk'[d].read, e)
      BY DEF CutsSeen, CutBy
    <3>1. hunk[e].pc # "torn"
      BY <1>1
    <3>2. ASSUME NEW p \in Paths, CutBy(files'[p], e) PROVE hunk'[e].pc = "fill" /\ p = hunk'[e].dest
      <4>1. CASE p \in ps
        BY <1>1, <3>2, <4>1
      <4>2. CASE p \notin ps
        <5>1. CutBy(files[p], e)
          BY <3>2, <4>2
        <5>2. e # c
          BY <2>4, <4>2, <5>1
        <5> QED
          BY <1>1, <2>0, <3>1, <5>1, <5>2 DEF CutsSeen
      <4> QED
        BY <4>1, <4>2
    <3>3. ASSUME NEW d \in Patches, hunk'[d].pc \in {"write", "fill"} PROVE ~CutBy(hunk'[d].read, e)
      <4>1. CASE d = c
        BY <1>1, <3>3, <4>1
      <4>2. CASE d # c
        BY <1>1, <2>0, <3>1, <3>3, <4>2 DEF CutsSeen
      <4> QED
        BY <4>1, <4>2
    <3> QED
      BY <3>2, <3>3
  <2> QED
    BY <2>3, <2>5, <2>6, <2>7
<1> QED
  BY <1>2, <1>3, <1>4

\* A hunk that begins: the call is on no path, and takes these from nobody.
LEMMA HunkBegins ==
  ASSUME PatchInv, NEW c \in Patches, NEW path \in Paths, NEW dest \in Paths, Begin(c, path, dest)
  PROVE  /\ hunk[c].pc = "next" /\ hunk[c] \in HunkRecord /\ Busy(c) = {} /\ crossed' \in BOOLEAN
         /\ hunk[c].n \in Nat /\ hunk[c].n + 1 \in Nat /\ hunk[c].n + 1 > 0 /\ hunk[c].n + 1 <= MaxHunks
         /\ ~crossed' => ~crossed /\ \A d \in Patches \ {c} : Busy(d) \cap {path, dest} = {}
<1>1. hunk[c] \in HunkRecord /\ hunk[c].n \in Nat /\ MaxHunks \in Nat /\ hunk[c].n < MaxHunks
  BY ApplyPatchAssumption DEF PatchInv, PatchTyped, HunkRecord, Begin
<1>2. hunk[c].pc = "next" /\ Busy(c) = {}
  BY DEF Begin, Busy
<1>3. crossed' \in BOOLEAN
  BY DEF Begin, PatchInv, PatchTyped
<1>4. ~crossed' => ~crossed /\ \A d \in Patches \ {c} : Busy(d) \cap {path, dest} = {}
  BY DEF Begin, Crosses
<1> QED
  BY <1>1, <1>2, <1>3, <1>4

\* A file that is added is empty until it is written.
LEMMA AddFileKeeps ==
  ASSUME PatchInv, NEW c \in Patches, NEW path \in Paths, AddFile(c, path)
  PROVE  PatchInv'
<1>0. Begin(c, path, path)
  BY DEF AddFile
<1> DEFINE h == [pc |-> "fill", adds |-> TRUE, path |-> path, dest |-> path, read |-> <<>>,
                 n |-> hunk[c].n + 1]
           ps == {path}
<1>1. hunk' = [hunk EXCEPT ![c] = h]
  BY DEF AddFile
<1>2. /\ h \in HunkRecord /\ h.n <= MaxHunks /\ BegunOn(h)
      /\ h.pc = "fill" /\ h.path = path /\ h.dest = path /\ h.adds /\ h.read = <<>>
  BY <1>0, HunkBegins, NotCut DEF HunkRecord, BegunOn
<1> HIDE DEF h
<1>3. \A d \in Patches : hunk'[d] = IF d = c THEN h ELSE hunk[d]
  BY <1>1 DEF PatchInv, PatchTyped
<1>4. /\ files' \in [Paths -> Contents] /\ whole' \in [Paths -> Contents] /\ files'[path] = Cut(c)
      /\ \A p \in Paths \ ps : files'[p] = files[p] /\ whole'[p] = whole[p]
  BY NotCut DEF AddFile, PatchInv, PatchTyped
<1>5. \A e \in Patches : ~CutBy(h.read, e) /\ (CutBy(files'[path], e) <=> e = c)
  BY <1>2, <1>4, NotCut
<1>6. /\ hunk[c].pc # "torn" /\ ps \in SUBSET Paths /\ crossed' \in BOOLEAN /\ Busy(c) \subseteq ps
      /\ ~crossed' => ~crossed /\ \A d \in Patches \ {c} : Busy(d) \cap ps = {}
  BY <1>0, HunkBegins
<1> HIDE DEF ps
<1>7. \A p \in ps : p = path
  BY DEF ps
<1>8. {h.path, h.dest} \subseteq ps
  BY <1>2 DEF ps
<1> QED
  BY <1>1, <1>2, <1>4, <1>5, <1>6, <1>7, <1>8, StepOfOne

\* A file that is deleted is gone in one step.
LEMMA DeleteFileKeeps ==
  ASSUME PatchInv, NEW c \in Patches, NEW path \in Paths, DeleteFile(c, path)
  PROVE  PatchInv'
<1>0. Begin(c, path, path)
  BY DEF DeleteFile
<1> DEFINE h == [hunk[c] EXCEPT !.n = @ + 1]
           ps == {path}
<1>1. hunk' = [hunk EXCEPT ![c] = h]
  BY DEF DeleteFile
<1>2. h \in HunkRecord /\ h.n <= MaxHunks /\ BegunOn(h) /\ h.pc = "next"
  BY <1>0, HunkBegins DEF HunkRecord, BegunOn
<1> HIDE DEF h
<1>4. /\ files' \in [Paths -> Contents] /\ whole' \in [Paths -> Contents]
      /\ files'[path] = Absent /\ whole'[path] = Absent
      /\ \A p \in Paths \ ps : files'[p] = files[p] /\ whole'[p] = whole[p]
  BY NotCut DEF DeleteFile, PatchInv, PatchTyped
<1>5. \A e \in Patches : ~CutBy(files'[path], e)
  BY <1>4, NotCut
<1>6. /\ hunk[c].pc # "torn" /\ ps \in SUBSET Paths /\ crossed' \in BOOLEAN /\ Busy(c) \subseteq ps
      /\ ~crossed' => ~crossed /\ \A d \in Patches \ {c} : Busy(d) \cap ps = {}
  BY <1>0, HunkBegins
<1> HIDE DEF ps
<1>7. \A p \in ps : p = path
  BY DEF ps
<1> QED
  BY <1>1, <1>2, <1>4, <1>5, <1>6, <1>7, StepOfOne

\* A call that reads a file takes its paths for itself, or has crossed another.
LEMMA ReadFileKeeps ==
  ASSUME PatchInv, NEW c \in Patches, NEW path \in Paths, NEW dest \in Paths,
         ReadFile(c, path, dest)
  PROVE  PatchInv'
<1>0. Begin(c, path, dest)
  BY DEF ReadFile
<1> DEFINE h == [pc |-> "write", adds |-> FALSE, path |-> path, dest |-> dest,
                 read |-> files[path], n |-> hunk[c].n + 1]
           ps == {path, dest}
<1>1. hunk' = [hunk EXCEPT ![c] = h]
  BY DEF ReadFile
<1>2. /\ h \in HunkRecord /\ h.n <= MaxHunks /\ BegunOn(h)
      /\ h.pc = "write" /\ h.path = path /\ h.dest = dest /\ ~h.adds /\ h.read = files[path]
  BY <1>0, HunkBegins DEF HunkRecord, BegunOn, PatchInv, PatchTyped
<1> HIDE DEF h
<1>3. \A d \in Patches : hunk'[d] = IF d = c THEN h ELSE hunk[d]
  BY <1>1 DEF PatchInv, PatchTyped
<1>4. UNCHANGED <<files, whole>> /\ files' \in [Paths -> Contents] /\ whole' \in [Paths -> Contents]
  BY DEF ReadFile, PatchInv, PatchTyped
<1>5. /\ hunk[c].pc = "next" /\ ps \in SUBSET Paths /\ crossed' \in BOOLEAN /\ Busy(c) \subseteq ps
      /\ ~crossed' => ~crossed /\ \A d \in Patches \ {c} : Busy(d) \cap ps = {}
  BY <1>0, HunkBegins
<1>6. path \in ps /\ {h.path, h.dest} \subseteq ps
  BY <1>2
<1> HIDE DEF ps
<1>7. ASSUME ~crossed', NEW p \in ps
      PROVE  /\ \A e \in Patches : hunk[e].pc # "torn" => ~CutBy(files[p], e)
             /\ files[p] = whole[p] \/ Torn(files[p])
  <2>1. p \in Paths /\ \A d \in Patches \ {c} : p \notin Busy(d)
    BY <1>5, <1>7
  <2> QED
    BY <1>5, <1>7, <2>1, OwnPath
<1>8. \A e \in Patches : hunk'[e].pc # "torn" => hunk[e].pc # "torn"
  BY <1>3, <1>5
<1> QED
  BY <1>1, <1>2, <1>4, <1>5, <1>6, <1>7, <1>8, StepOfOne

\* A hunk under way: its paths are its own, and the other files as they were.
LEMMA HunkUnderWay ==
  ASSUME PatchInv, NEW c \in Patches, hunk[c].pc # "torn", NEW p \in Busy(c), ~crossed
  PROVE  /\ p \in Paths /\ \A d \in Patches \ {c} : Busy(d) \cap Busy(c) = {}
         /\ \A e \in Patches : hunk[e].pc # "torn" /\ CutBy(files[p], e) =>
              e = c /\ hunk[c].pc = "fill" /\ p = hunk[c].dest
         /\ \/ files[p] = whole[p] \/ Torn(files[p])
            \/ hunk[c].pc = "fill" /\ p = hunk[c].dest
<1>1. p \in Paths
  BY DEF Busy, PatchInv, HunkInv, BegunOn
<1>2. \A d \in Patches \ {c} : Busy(d) \cap Busy(c) = {}
  BY DEF PatchInv, AloneInv, Apart
<1> QED
  BY <1>1, <1>2, OwnPath

\* The destination is opened: it is empty until it is written.
LEMMA OpenFileKeeps ==
  ASSUME PatchInv, NEW c \in Patches, OpenFile(c)
  PROVE  PatchInv'
<1> DEFINE h == [hunk[c] EXCEPT !.pc = "fill"]
           ps == {hunk[c].path, hunk[c].dest}
<1>0. hunk[c].pc = "write" /\ hunk[c] \in HunkRecord /\ Busy(c) = ps /\ BegunOn(hunk[c])
  BY DEF OpenFile, PatchInv, PatchTyped, HunkInv, Busy
<1>1. hunk' = [hunk EXCEPT ![c] = h] /\ UNCHANGED <<whole, crossed>>
  BY DEF OpenFile
<1>2. /\ h \in HunkRecord /\ h.n = hunk[c].n /\ BegunOn(h) /\ h.pc = "fill"
      /\ h.path = hunk[c].path /\ h.dest = hunk[c].dest /\ h.adds = hunk[c].adds /\ h.read = hunk[c].read
  BY <1>0 DEF HunkRecord, BegunOn
<1> HIDE DEF h
<1>3. \A d \in Patches : hunk'[d] = IF d = c THEN h ELSE hunk[d]
  BY <1>1 DEF PatchInv, PatchTyped
<1>4. ps \in SUBSET Paths /\ h.dest \in ps /\ {h.path, h.dest} \subseteq ps
  BY <1>0, <1>2 DEF BegunOn
<1>5. /\ files' \in [Paths -> Contents] /\ whole' \in [Paths -> Contents]
      /\ files'[h.dest] = Cut(c) /\ \A p \in Paths \ {h.dest} : files'[p] = files[p]
  BY <1>2, <1>4, NotCut DEF OpenFile, PatchInv, PatchTyped
<1> HIDE DEF ps
<1>6. ASSUME ~crossed'
      PROVE  /\ ~crossed /\ \A d \in Patches \ {c} : Busy(d) \cap ps = {}
             /\ \A p \in ps : \/ files'[p] = whole'[p] \/ Torn(files'[p])
                              \/ h.pc \in {"fill", "torn"} /\ CutBy(files'[p], c)
             /\ \A p \in ps, e \in Patches :
                  hunk'[e].pc # "torn" /\ CutBy(files'[p], e) => e = c /\ h.pc = "fill" /\ p = h.dest
  <2>1. ~crossed /\ hunk[c].pc # "torn"
    BY <1>0, <1>1, <1>6
  <2>2. \A d \in Patches \ {c} : Busy(d) \cap ps = {}
    BY <1>0, <1>4, <2>1, HunkUnderWay
  <2>3. ASSUME NEW p \in ps
        PROVE  /\ \/ files'[p] = whole'[p] \/ Torn(files'[p])
                  \/ h.pc \in {"fill", "torn"} /\ CutBy(files'[p], c)
               /\ \A e \in Patches :
                    hunk'[e].pc # "torn" /\ CutBy(files'[p], e) => e = c /\ h.pc = "fill" /\ p = h.dest
    <3>1. CASE p = h.dest
      BY <1>2, <1>5, <3>1, NotCut
    <3>2. CASE p # h.dest
      <4>1. p \in Paths /\ p \in Busy(c) /\ files'[p] = files[p] /\ whole'[p] = whole[p]
        BY <1>0, <1>1, <1>4, <1>5, <2>3, <3>2
      <4>2. \A e \in Patches : hunk'[e].pc # "torn" => hunk[e].pc # "torn"
        BY <1>0, <1>3
      <4> QED
        BY <1>0, <2>1, <4>1, <4>2, HunkUnderWay
    <3> QED
      BY <3>1, <3>2
  <2> QED
    BY <2>1, <2>2, <2>3
<1>7. ASSUME ~crossed'
      PROVE  /\ IF h.adds THEN h.read = <<>> ELSE h.read = whole'[h.path] \/ Torn(h.read)
             /\ \A e \in Patches : hunk'[e].pc # "torn" => ~CutBy(h.read, e)
  <2>1. ReadKept(hunk[c], c) /\ CutsSeen
    BY <1>1, <1>7 DEF PatchInv, AloneInv
  <2>2. \A e \in Patches : hunk'[e].pc # "torn" => hunk[e].pc # "torn"
    BY <1>0, <1>3
  <2> QED
    BY <1>0, <1>1, <1>2, <2>1, <2>2 DEF ReadKept, CutsSeen
<1>8. crossed' \in BOOLEAN /\ h.n <= MaxHunks /\ hunk[c].pc # "torn" /\ Busy(c) \subseteq ps
  BY <1>0, <1>1, <1>2 DEF PatchInv, PatchTyped
<1>9. \A p \in Paths \ ps : files'[p] = files[p] /\ whole'[p] = whole[p]
  BY <1>1, <1>4, <1>5
<1> QED
  BY <1>1, <1>2, <1>4, <1>5, <1>6, <1>7, <1>8, <1>9, StepOfOne

\* A step of a hunk under way that leaves nothing more of it to write: it changes the
\* files of its own paths only, and what it leaves there has no cut of a call that may
\* go on.
LEMMA HunkGoesOn ==
  ASSUME PatchInv, NEW c \in Patches, hunk[c].pc # "torn", NEW next \in {"next", "remove", "over", "torn"},
         next = "remove" => hunk[c].pc = "fill",
         hunk' = [hunk EXCEPT ![c].pc = next], UNCHANGED crossed,
         files' \in [Paths -> Contents], whole' \in [Paths -> Contents],
         ~crossed =>
           /\ \A p \in Paths \ Busy(c) : files'[p] = files[p] /\ whole'[p] = whole[p]
           /\ \A p \in Busy(c) :
                /\ \/ files'[p] = whole'[p] \/ Torn(files'[p])
                   \/ next = "torn" /\ CutBy(files'[p], c)
                /\ \A e \in Patches : hunk[e].pc # "torn" /\ CutBy(files'[p], e) => e = c /\ next = "torn"
  PROVE  PatchInv'
<1> DEFINE h == [hunk[c] EXCEPT !.pc = next]
           ps == Busy(c)
<1>0. hunk[c] \in HunkRecord /\ BegunOn(hunk[c])
  BY DEF PatchInv, PatchTyped, HunkInv
<1>1. hunk' = [hunk EXCEPT ![c] = h]
  OBVIOUS
<1>2. /\ h \in HunkRecord /\ h.n = hunk[c].n /\ BegunOn(h) /\ h.pc = next
      /\ h.path = hunk[c].path /\ h.dest = hunk[c].dest
  BY <1>0 DEF HunkRecord, BegunOn
<1> HIDE DEF h
<1>3. \A d \in Patches : hunk'[d] = IF d = c THEN h ELSE hunk[d]
  BY <1>1 DEF PatchInv, PatchTyped
<1>4. ps \in SUBSET Paths /\ crossed' \in BOOLEAN /\ h.n <= MaxHunks
  BY <1>0, <1>2 DEF Busy, BegunOn, PatchInv, PatchTyped
<1>5. h.pc \in {"write", "fill", "remove"} => {h.path, h.dest} \subseteq ps
  BY <1>2 DEF Busy
<1>6. h.pc \notin {"write", "fill"}
  BY <1>2
<1>7. ~crossed => \A d \in Patches \ {c} : Busy(d) \cap ps = {}
  BY DEF PatchInv, AloneInv, Apart
<1>8. ASSUME ~crossed, NEW p \in ps, NEW e \in Patches, hunk'[e].pc # "torn", CutBy(files'[p], e)
      PROVE  FALSE
  <2>1. hunk[e].pc # "torn" /\ (e = c => next # "torn")
    BY <1>2, <1>3, <1>8
  <2> QED
    BY <1>8, <2>1
<1>9. ~crossed => \A p \in ps : \/ files'[p] = whole'[p] \/ Torn(files'[p])
                                \/ h.pc \in {"fill", "torn"} /\ CutBy(files'[p], c)
  BY <1>2
<1>10. ~crossed => \A p \in Paths \ ps : files'[p] = files[p] /\ whole'[p] = whole[p]
  OBVIOUS
<1> HIDE DEF ps
<1>11. Busy(c) \subseteq ps
  BY DEF ps
<1> QED
  BY <1>1, <1>2, <1>4, <1>5, <1>6, <1>7, <1>8, <1>9, <1>10, <1>11, StepOfOne

\* The new lines come from what was read, which is what the finished hunks made of the
\* source, or what a failed write has left of it.
LEMMA WriteFileKeeps ==
  ASSUME PatchInv, NEW c \in Patches, WriteFile(c)
  PROVE  PatchInv'
<1> DEFINE from == IF hunk[c].adds THEN <<>> ELSE whole[hunk[c].path]
           text == Append(hunk[c].read, Edit(c))
           dest == hunk[c].dest
           next == IF hunk[c].path = dest THEN "next" ELSE "remove"
<1>1. /\ hunk[c].pc = "fill" /\ hunk[c].path \in Paths /\ dest \in Paths
      /\ hunk[c].read \in Contents /\ hunk[c].n \in Nat /\ hunk[c].n > 0 /\ from \in Contents
  BY NotCut DEF WriteFile, PatchInv, HunkInv, BegunOn, PatchTyped, HunkRecord
<1>2. text \in Contents /\ Append(from, Edit(c)) \in Contents
  BY <1>1, EditsAreContents DEF Edit
<1>3. /\ hunk' = [hunk EXCEPT ![c].pc = next] /\ UNCHANGED crossed /\ next \in {"next", "remove"}
      /\ whole' = [whole EXCEPT ![dest] = Append(from, Edit(c))]
  BY DEF WriteFile
<1>4. PICK left \in Written(c, text) : files' = [files EXCEPT ![dest] = left]
  BY DEF WriteFile
<1>5. left \in {text, files[dest], Cut(c), Absent}
  BY <1>4 DEF Written
<1>6. files' \in [Paths -> Contents] /\ whole' \in [Paths -> Contents]
  BY <1>1, <1>2, <1>3, <1>4, <1>5, NotCut DEF PatchInv, PatchTyped
<1>7. Busy(c) = {hunk[c].path, dest}
  BY <1>1 DEF Busy
<1>8. ASSUME ~crossed
      PROVE  /\ \A p \in Paths \ Busy(c) : files'[p] = files[p] /\ whole'[p] = whole[p]
             /\ \A p \in Busy(c) :
                  /\ files'[p] = whole'[p] \/ Torn(files'[p])
                  /\ \A e \in Patches : hunk[e].pc # "torn" => ~CutBy(files'[p], e)
  <2>1. ReadKept(hunk[c], c) /\ CutsSeen
    BY <1>8 DEF PatchInv, AloneInv
  <2>2. files[dest] = Cut(c)
    BY <1>1, <2>1 DEF ReadKept
  <2>3. left = text
    <3> HIDE DEF text
    <3>1. Written(c, text) = {text}
      BY <2>2 DEF Written
    <3> QED
      BY <1>4, <3>1
  <2>4. files'[dest] = text /\ whole'[dest] = Append(from, Edit(c))
    BY <1>1, <1>3, <1>4, <2>3 DEF PatchInv, PatchTyped
  <2>5. \A p \in Paths \ {dest} : files'[p] = files[p] /\ whole'[p] = whole[p]
    BY <1>3, <1>4 DEF PatchInv, PatchTyped
  <2>6. \A e \in Patches : CutBy(hunk[c].read, e) <=> CutBy(text, e)
    BY <1>1, EditsAreContents DEF Edit
  <2>7. hunk[c].read = from \/ Torn(hunk[c].read)
    BY <1>1, <2>1 DEF ReadKept
  <2>8. text = Append(from, Edit(c)) \/ Torn(text)
    BY <2>6, <2>7 DEF Torn
  <2>9. \A e \in Patches : hunk[e].pc # "torn" => ~CutBy(text, e)
    BY <1>1, <2>1, <2>6 DEF CutsSeen
  <2> HIDE DEF text, from, dest
  <2>10. ASSUME NEW p \in Busy(c), p # dest
         PROVE  /\ files'[p] = whole'[p] \/ Torn(files'[p])
                /\ \A e \in Patches : hunk[e].pc # "torn" => ~CutBy(files'[p], e)
    <3>1. p \in Paths /\ files'[p] = files[p] /\ whole'[p] = whole[p]
      BY <1>1, <1>7, <2>5, <2>10
    <3>2. p # hunk[c].dest
      BY <2>10 DEF dest
    <3> QED
      BY <1>1, <1>8, <2>10, <3>1, <3>2, HunkUnderWay
  <2> QED
    BY <1>7, <2>4, <2>5, <2>8, <2>9, <2>10
<1> HIDE DEF next
<1> QED
  BY <1>1, <1>3, <1>6, <1>8, HunkGoesOn

\* A move removes its source after the destination is there.
LEMMA RemoveSourceKeeps ==
  ASSUME PatchInv, NEW c \in Patches, RemoveSource(c)
  PROVE  PatchInv'
<1> DEFINE path == hunk[c].path
<1>1. hunk[c].pc = "remove" /\ path \in Paths /\ path \in Busy(c) /\ Busy(c) \subseteq Paths
  BY DEF RemoveSource, PatchInv, HunkInv, BegunOn, Busy
<1>2. hunk' = [hunk EXCEPT ![c].pc = "next"] /\ UNCHANGED crossed
  BY DEF RemoveSource
<1>3. /\ files' \in [Paths -> Contents] /\ whole' \in [Paths -> Contents]
      /\ files'[path] = Absent /\ whole'[path] = Absent
      /\ \A p \in Paths \ {path} : files'[p] = files[p] /\ whole'[p] = whole[p]
  BY <1>1, NotCut DEF RemoveSource, PatchInv, PatchTyped
<1> HIDE DEF path
<1>4. ASSUME ~crossed, NEW p \in Busy(c)
      PROVE  /\ files'[p] = whole'[p] \/ Torn(files'[p])
             /\ \A e \in Patches : hunk[e].pc # "torn" => ~CutBy(files'[p], e)
  <2>1. CASE p = path
    BY <1>3, <2>1, NotCut
  <2>2. CASE p # path
    <3>1. p \in Paths /\ files'[p] = files[p] /\ whole'[p] = whole[p]
      BY <1>1, <1>3, <1>4, <2>2
    <3> QED
      BY <1>1, <1>4, <3>1, HunkUnderWay
  <2> QED
    BY <2>1, <2>2
<1>5. \A p \in Paths \ Busy(c) : files'[p] = files[p] /\ whole'[p] = whole[p]
  BY <1>1, <1>3
<1> QED
  BY <1>1, <1>2, <1>3, <1>4, <1>5, HunkGoesOn

\* A call that ends leaves the files as they are; one that ends in a write has failed in it.
LEMMA EndPatchKeeps ==
  ASSUME PatchInv, NEW c \in Patches, EndPatch(c)
  PROVE  PatchInv'
<1> DEFINE next == IF hunk[c].pc = "fill" THEN "torn" ELSE "over"
<1>1. /\ hunk' = [hunk EXCEPT ![c].pc = next] /\ hunk[c].pc # "torn" /\ next \in {"over", "torn"}
      /\ UNCHANGED <<files, whole, crossed>>
  BY DEF EndPatch
<1>2. files' \in [Paths -> Contents] /\ whole' \in [Paths -> Contents]
  BY <1>1 DEF PatchInv, PatchTyped
<1>3. ASSUME ~crossed, NEW p \in Busy(c)
      PROVE  /\ \/ files'[p] = whole'[p] \/ Torn(files'[p])
                \/ next = "torn" /\ CutBy(files'[p], c)
             /\ \A e \in Patches : hunk[e].pc # "torn" /\ CutBy(files'[p], e) => e = c /\ next = "torn"
  <2>1. /\ \A e \in Patches : hunk[e].pc # "torn" /\ CutBy(files[p], e) =>
             e = c /\ hunk[c].pc = "fill" /\ p = hunk[c].dest
        /\ \/ files[p] = whole[p] \/ Torn(files[p])
           \/ hunk[c].pc = "fill" /\ p = hunk[c].dest
    BY <1>1, <1>3, HunkUnderWay
  <2>2. ASSUME hunk[c].pc = "fill", p = hunk[c].dest PROVE CutBy(files[p], c)
    <3>1. files[p] = Cut(c)
      BY <1>3, <2>2 DEF PatchInv, AloneInv, ReadKept
    <3> QED
      BY <3>1, NotCut
  <2> QED
    BY <1>1, <2>1, <2>2
<1>4. \A p \in Paths \ Busy(c) : files'[p] = files[p] /\ whole'[p] = whole[p]
  BY <1>1
<1> HIDE DEF next
<1> QED
  BY <1>1, <1>2, <1>3, <1>4, HunkGoesOn

\* Every step keeps the invariant.
LEMMA PatchStep == PatchInv /\ [PatchNext]_patchVars => PatchInv'
<1> SUFFICES ASSUME PatchInv, [PatchNext]_patchVars PROVE PatchInv'
  OBVIOUS
<1>1. CASE UNCHANGED patchVars
  <2>1. (PatchTyped /\ HunkInv)'
    BY <1>1 DEF patchVars, PatchInv, PatchTyped, HunkInv, BegunOn
  <2>2. files' = files /\ hunk' = hunk /\ whole' = whole /\ crossed' = crossed
    BY <1>1 DEF patchVars
  <2>3. Apart => Apart'
    BY <2>2 DEF Apart, Busy
  <2>4. FilesKept => FilesKept'
    BY <2>2 DEF FilesKept, Spoiled
  <2>5. ASSUME NEW c \in Patches, ReadKept(hunk[c], c) PROVE ReadKept(hunk[c], c)'
    BY <2>2, <2>5 DEF ReadKept, Torn, CutBy
  <2>6. CutsSeen => CutsSeen'
    BY <2>2 DEF CutsSeen, CutBy
  <2>7. AloneInv'
    BY <2>2, <2>3, <2>4, <2>5, <2>6 DEF PatchInv, AloneInv
  <2> QED
    BY <2>1, <2>7 DEF PatchInv
<1>2. CASE \E c \in Patches : \E path \in Paths : AddFile(c, path) \/ DeleteFile(c, path)
  BY <1>2, AddFileKeeps, DeleteFileKeeps
<1>3. CASE \E c \in Patches : \E path, dest \in Paths : ReadFile(c, path, dest)
  BY <1>3, ReadFileKeeps
<1>4. CASE \E c \in Patches : OpenFile(c) \/ WriteFile(c) \/ RemoveSource(c) \/ EndPatch(c)
  BY <1>4, OpenFileKeeps, WriteFileKeeps, RemoveSourceKeeps, EndPatchKeeps
<1> QED
  BY <1>1, <1>2, <1>3, <1>4 DEF PatchNext

\* The invariant holds, whatever the bound on the hunks.
LEMMA PatchHolds == PatchSpec => []PatchInv
BY PatchInitial, PatchStep, PTL DEF PatchSpec

\* Every variable of the patches keeps its type, and no patch has more hunks than it may.
THEOREM PatchTypeCorrect == PatchSpec => []PatchType
<1>1. PatchInv => PatchType
  BY DEF PatchInv, PatchTyped, PatchType, HunkRecord
<1> QED
  BY <1>1, PatchHolds, PTL

\* While no two calls work on one path at a time, every file is what its finished hunks
\* make of it one after the other, wherever a call fails or is killed, but for the file
\* that a write under way has emptied or a failed write has left cut
\* (tools/apply_patch.go:145-201).
THEOREM PatchesKeepEdits == PatchSpec => []EditsAreKept
<1>1. PatchInv => EditsAreKept
  BY DEF PatchInv, AloneInv, FilesKept, EditsAreKept
<1> QED
  BY <1>1, PatchHolds, PTL
=============================================================================
