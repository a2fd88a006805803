---------------------------- MODULE RolloutProofs ----------------------------
(***************************************************************************)
(* Proofs about Rollout, for any number of items, turns and sessions.      *)
(*                                                                         *)
(* Of the file: a line that was cut short is never followed by another,    *)
(* every other line carries its place in the file, and so the cursors of   *)
(* event readers skip and repeat nothing.  Of the session: what a reader   *)
(* would restore is the history it has, the prompts made of that pair      *)
(* calls and outputs, items are read under the turn that recorded them,    *)
(* and a stored turn is in progress if it runs or was left unended.        *)
(***************************************************************************)
EXTENDS Rollout, SequenceFacts

\* A line as recordItem builds one, which a reader can parse.
Whole(line) ==
  /\ line = [type |-> line.type, ordinal |-> line.ordinal,
             turn |-> line.turn, items |-> line.items]
  /\ line.type # "torn"

IsFile == \E S : file \in Seq(S)

RecorderTyped == recorder \in [up : BOOLEAN, ordinal : Nat, err : BOOLEAN]

NothingCut == \A k \in 1 .. Len(file) : file[k].type # "torn"

\* Ordinals are places, counted from 0.
Placed == \A k \in 1 .. Len(file) : file[k].type # "torn" => file[k].ordinal = k - 1

\* Only a recorder that has not failed may append, and it knows the place.
Appendable ==
  recorder.up /\ ~recorder.err => NothingCut /\ recorder.ordinal = Len(file)

FileInv == IsFile /\ RecorderTyped /\ Placed /\ CutLineIsLast /\ Appendable

-----------------------------------------------------------------------------
(* Appending.                                                              *)

LEMMA LineIsWhole ==
  ASSUME NEW type, type # "torn", NEW items, NEW t
  PROVE  Whole(Line(type, items, t))
BY DEF Whole, Line

\* What recordItem does to the file: some of the lines, and perhaps a part of the next.
Appended(r, lines, k, torn) ==
  /\ IF r.err THEN k = 0 /\ ~torn ELSE k = Len(lines) \/ Faulty
  /\ torn => k < Len(lines)
  /\ recorder' = [r EXCEPT !.ordinal = @ + k, !.err = @ \/ k < Len(lines)]
  /\ IsFile' /\ Len(file') = Len(file) + k + (IF torn THEN 1 ELSE 0)
  /\ \A i \in 1 .. Len(file') :
       \/ i <= Len(file) /\ file'[i] = file[i]
       \/ i > Len(file) /\ i <= Len(file) + k
            /\ file'[i] = [lines[i - Len(file)] EXCEPT !.ordinal = r.ordinal + (i - Len(file)) - 1]
       \/ torn /\ i = Len(file) + k + 1 /\ file'[i] = Torn

LEMMA WriteAppends ==
  ASSUME NEW S, file \in Seq(S), NEW r, NEW T, NEW lines \in Seq(T), Write(r, lines)
  PROVE  \E k \in 0 .. Len(lines), torn \in BOOLEAN : Appended(r, lines, k, torn)
<1>1. PICK k \in 0 .. Len(lines), torn \in BOOLEAN :
        /\ IF r.err THEN k = 0 /\ ~torn ELSE k = Len(lines) \/ Faulty
        /\ torn => k < Len(lines)
        /\ file' = file \o [i \in 1 .. k |-> [lines[i] EXCEPT !.ordinal = r.ordinal + i - 1]]
                        \o (IF torn THEN <<Torn>> ELSE << >>)
        /\ recorder' = [r EXCEPT !.ordinal = @ + k, !.err = @ \/ k < Len(lines)]
  BY DEF Write
<1> DEFINE new == [i \in 1 .. k |-> [lines[i] EXCEPT !.ordinal = r.ordinal + i - 1]]
           U   == {new[i] : i \in 1 .. k}
           cut == IF torn THEN <<Torn>> ELSE << >>
           l   == Len(file)
<1>2. k \in Nat /\ Len(lines) \in Nat /\ k <= Len(lines) /\ l \in Nat
  BY <1>1, LenProperties
<1>3. new \in Seq(U) /\ Len(new) = k
  <2>1. new \in [1 .. k -> U]
    OBVIOUS
  <2>2. new \in Seq(U)
    <3> HIDE DEF new, U
    <3> QED
      BY <1>2, <2>1, SeqDef
  <2>3. DOMAIN new = 1 .. k
    OBVIOUS
  <2> HIDE DEF new, U
  <2> QED
    BY <1>2, <2>2, <2>3, LenProperties
<1>4. cut \in Seq({Torn}) /\ Len(cut) = (IF torn THEN 1 ELSE 0) /\ (torn => cut[1] = Torn)
  <2>1. CASE torn
    <3>1. cut = <<Torn>>
      BY <2>1
    <3> HIDE DEF cut
    <3> QED
      BY <2>1, <3>1
  <2>2. CASE ~torn
    <3>1. cut = << >>
      BY <2>2
    <3> HIDE DEF cut
    <3> QED
      BY <2>2, <3>1
  <2> QED
    BY <2>1, <2>2
<1>5. \A i \in 1 .. k : new[i] = [lines[i] EXCEPT !.ordinal = r.ordinal + i - 1]
  OBVIOUS
<1> HIDE DEF new, U, cut
<1>6. file' = (file \o new) \o cut
  BY <1>1 DEF new, cut
<1> DEFINE all == S \union U \union {Torn}
<1>7. file \in Seq(all) /\ new \in Seq(all) /\ cut \in Seq(all)
  <2>1. S \subseteq all /\ U \subseteq all /\ {Torn} \subseteq all
    OBVIOUS
  <2> HIDE DEF all
  <2> QED
    BY <1>3, <1>4, <2>1, SeqMonotonic
<1> HIDE DEF all
<1>8. file \o new \in Seq(all) /\ Len(file \o new) = l + k
      /\ \A i \in 1 .. l + k : (file \o new)[i] = IF i <= l THEN file[i] ELSE new[i - l]
  <2>1. Len(file \o new) = l + k
    BY <1>3, <1>7, ConcatProperties
  <2> QED
    BY <1>2, <1>3, <1>7, <2>1, ConcatProperties
<1>9. file' \in Seq(all) /\ Len(file') = l + k + Len(cut)
      /\ \A i \in 1 .. l + k + Len(cut) :
           file'[i] = IF i <= l + k THEN (file \o new)[i] ELSE cut[i - (l + k)]
  <2>1. Len(cut) \in Nat
    BY <1>4
  <2>2. Len(file') = l + k + Len(cut)
    BY <1>6, <1>7, <1>8, ConcatProperties
  <2> QED
    BY <1>2, <1>6, <1>7, <1>8, <2>1, <2>2, ConcatProperties
<1>10. \A i \in 1 .. Len(file') :
         \/ i <= l /\ file'[i] = file[i]
         \/ i > l /\ i <= l + k
              /\ file'[i] = [lines[i - l] EXCEPT !.ordinal = r.ordinal + (i - l) - 1]
         \/ torn /\ i = l + k + 1 /\ file'[i] = Torn
  <2> TAKE i \in 1 .. Len(file')
  <2>1. CASE i <= l
    BY <1>2, <1>8, <1>9, <2>1
  <2>2. CASE i > l /\ i <= l + k
    <3>1. i - l \in 1 .. k /\ i \in 1 .. l + k
      BY <1>2, <2>2
    <3>2. file'[i] = (file \o new)[i] /\ (file \o new)[i] = new[i - l]
      BY <1>8, <1>9, <2>2, <3>1
    <3> QED
      BY <1>5, <2>2, <3>1, <3>2
  <2>3. CASE i > l + k
    <3>1. torn /\ i = l + k + 1
      BY <1>2, <1>4, <1>9, <2>3
    <3>2. l + k \in Nat /\ Len(cut) = 1
      BY <1>2, <1>4, <3>1
    <3>3. i \in 1 .. l + k + Len(cut) /\ ~(i <= l + k) /\ i - (l + k) = 1
      BY <3>1, <3>2
    <3>4. file'[i] = cut[i - (l + k)]
      BY <1>9, <3>3
    <3> QED
      BY <1>4, <3>1, <3>3, <3>4
  <2>4. i \in Int /\ l \in Int /\ k \in Int
    <3>1. Len(file') \in Nat
      BY <1>9, LenProperties
    <3> QED
      BY <1>2, <3>1
  <2> QED
    BY <2>1, <2>2, <2>3, <2>4
<1>11. Len(file') = l + k + (IF torn THEN 1 ELSE 0)
  BY <1>4, <1>9
<1>12. IsFile'
  BY <1>9 DEF IsFile
<1> QED
  BY <1>1, <1>10, <1>11, <1>12 DEF Appended

\* What that keeps, whatever is appended.
LEMMA WriteKeeps ==
  ASSUME NEW S, file \in Seq(S), Placed, CutLineIsLast,
         NEW r \in [up : BOOLEAN, ordinal : Nat, err : BOOLEAN],
         r.err \/ (NothingCut /\ r.ordinal = Len(file)),
         NEW T, NEW lines \in Seq(T),
         \A i \in 1 .. Len(lines) : Whole(lines[i]),
         Write(r, lines)
  PROVE  FileInv'
<1> DEFINE l == Len(file)
<1>1. PICK k \in 0 .. Len(lines), torn \in BOOLEAN : Appended(r, lines, k, torn)
  BY WriteAppends
<1>2. k \in Nat /\ Len(lines) \in Nat /\ k <= Len(lines) /\ l \in Nat
  BY <1>1, LenProperties
<1>9. IsFile' /\ Len(file') \in Nat /\ DOMAIN file' = 1 .. Len(file')
  <2>1. PICK Z : file' \in Seq(Z)
    BY <1>1 DEF Appended, IsFile
  <2> QED
    BY <1>1, <2>1, LenProperties DEF Appended
<1>10. \A i \in 1 .. Len(file') :
         \/ i <= l /\ file'[i] = file[i]
         \/ i > l /\ i <= l + k /\ file'[i].type # "torn"
              /\ file'[i].ordinal = r.ordinal + (i - l) - 1
         \/ torn /\ i = l + k + 1 /\ file'[i] = Torn
  <2> TAKE i \in 1 .. Len(file')
  <2>1. CASE i > l /\ i <= l + k
            /\ file'[i] = [lines[i - l] EXCEPT !.ordinal = r.ordinal + (i - l) - 1]
    <3>1. i - l \in 1 .. Len(lines)
      BY <1>2, <2>1
    <3>2. PICK line : line = lines[i - l]
      OBVIOUS
    <3>3. Whole(line)
      BY <3>1, <3>2
    <3>4. file'[i] = [line EXCEPT !.ordinal = r.ordinal + (i - l) - 1]
      BY <2>1, <3>2
    <3>5. file'[i].type # "torn" /\ file'[i].ordinal = r.ordinal + (i - l) - 1
      BY <3>3, <3>4 DEF Whole
    <3> QED
      BY <2>1, <3>5
  <2> QED
    BY <1>1, <2>1 DEF Appended
<1>11. Torn.type = "torn"
  BY DEF Torn
<1>12. ~r.err \/ (k = 0 /\ ~torn)
  BY <1>1 DEF Appended
<1>13. Len(file') = l + k + (IF torn THEN 1 ELSE 0)
  BY <1>1 DEF Appended
<1>14. IsFile'
  BY <1>9
<1>15. RecorderTyped'
  <2>1. r.ordinal + k \in Nat /\ (r.err \/ k < Len(lines)) \in BOOLEAN
    BY <1>2
  <2>2. recorder' = [r EXCEPT !.ordinal = r.ordinal + k, !.err = r.err \/ k < Len(lines)]
    BY <1>1 DEF Appended
  <2> QED
    BY <2>1, <2>2, Zenon DEF RecorderTyped
<1>16. Placed'
  <2> SUFFICES ASSUME NEW i \in 1 .. Len(file'), file'[i].type # "torn"
               PROVE  file'[i].ordinal = i - 1
    BY DEF Placed
  <2>1. CASE i <= l
    BY <1>2, <1>10, <2>1 DEF Placed
  <2>2. CASE i > l
    <3>1. i <= l + k /\ file'[i].ordinal = r.ordinal + (i - l) - 1
      <4>1. file'[i] # Torn /\ ~(i <= l)
        BY <1>2, <1>9, <1>11, <2>2
      <4> QED
        BY <1>10, <4>1
    <3>2. r.ordinal = l
      BY <1>2, <1>12, <2>2, <3>1
    <3> QED
      BY <1>2, <3>1, <3>2
  <2> QED
    BY <1>2, <2>1, <2>2
<1>17. \A i \in 1 .. Len(file') : file'[i].type = "torn" => i = Len(file')
  <2> TAKE i \in 1 .. Len(file')
  <2>1. CASE i <= l /\ file'[i] = file[i]
    <3>1. HAVE file'[i].type = "torn"
    <3>2. i \in DOMAIN file /\ file[i].type = "torn"
      BY <1>2, <2>1, <3>1, LenProperties
    <3>3. i = l /\ ~NothingCut
      BY <1>2, <2>1, <3>2 DEF CutLineIsLast, NothingCut
    <3> QED
      BY <1>2, <1>12, <1>13, <3>3
  <2>2. CASE ~(i <= l /\ file'[i] = file[i])
    BY <1>2, <1>10, <1>13, <2>2
  <2> QED
    BY <2>1, <2>2
<1>18. CutLineIsLast'
  BY <1>9, <1>17 DEF CutLineIsLast
<1>19. Appendable'
  <2> SUFFICES ASSUME recorder'.up, ~recorder'.err
               PROVE  NothingCut' /\ recorder'.ordinal = Len(file')
    BY DEF Appendable
  <2>1. ~r.err /\ k = Len(lines) /\ ~torn
    BY <1>1, <1>2 DEF Appended
  <2>2. NothingCut /\ r.ordinal = l
    BY <2>1
  <2>3. recorder'.ordinal = Len(file')
    BY <1>1, <1>2, <1>13, <2>1, <2>2 DEF Appended
  <2>4. NothingCut'
    BY <1>2, <1>10, <2>1, <2>2 DEF NothingCut
  <2> QED
    BY <2>3, <2>4
<1> QED
  BY <1>14, <1>15, <1>16, <1>18, <1>19 DEF FileInv

\* The same for the recorder of the session that is up.
LEMMA SessionWriteKeeps ==
  ASSUME FileInv, recorder.up,
         NEW T, NEW lines \in Seq(T),
         \A i \in 1 .. Len(lines) : Whole(lines[i]),
         Write(recorder, lines)
  PROVE  FileInv'
<1>1. PICK S : file \in Seq(S)
  BY DEF FileInv, IsFile
<1>2. recorder \in [up : BOOLEAN, ordinal : Nat, err : BOOLEAN]
  BY DEF FileInv, RecorderTyped
<1>3. recorder.err \/ (NothingCut /\ recorder.ordinal = Len(file))
  BY <1>2 DEF FileInv, Appendable
<1> QED
  BY <1>1, <1>2, <1>3, WriteKeeps DEF FileInv

\* What an action appends is a sequence of whole lines, of some types.
AreWhole(lines, types) ==
  /\ \E T : lines \in Seq(T)
  /\ \A i \in 1 .. Len(lines) : Whole(lines[i]) /\ lines[i].type \in types

\* The types of lines that neither start nor end a turn.
Quiet == {"session_meta", "turn_context", "event", "response_item", "compacted"}

LEMMA FewLinesAreWhole ==
  ASSUME NEW types, NEW a, NEW b, Whole(a), Whole(b), a.type \in types, b.type \in types
  PROVE  AreWhole(<< >>, types) /\ AreWhole(<<a>>, types) /\ AreWhole(<<a, b>>, types)
<1>1. AreWhole(<< >>, types)
  BY EmptySeq DEF AreWhole
<1>2. <<a>> \in Seq({a, b}) /\ <<a, b>> \in Seq({a, b})
  OBVIOUS
<1>3. Len(<<a>>) = 1 /\ \A i \in 1 .. 1 : <<a>>[i] = a
  OBVIOUS
<1>4. Len(<<a, b>>) = 2 /\ \A i \in 1 .. 2 : <<a, b>>[i] = a \/ <<a, b>>[i] = b
  OBVIOUS
<1>5. AreWhole(<<a>>, types)
  BY <1>2, <1>3, Zenon DEF AreWhole
<1>6. AreWhole(<<a, b>>, types)
  <2>1. \A i \in 1 .. Len(<<a, b>>) : Whole(<<a, b>>[i]) /\ <<a, b>>[i].type \in types
    <3> TAKE i \in 1 .. Len(<<a, b>>)
    <3>1. <<a, b>>[i] = a \/ <<a, b>>[i] = b
      BY <1>4
    <3> QED
      BY <3>1, Zenon
  <2> QED
    BY <1>2, <2>1, Zenon DEF AreWhole
<1> QED
  BY <1>1, <1>5, <1>6

LEMMA SessionAppends ==
  ASSUME FileInv, recorder.up, NEW types, NEW lines, AreWhole(lines, types), Write(recorder, lines)
  PROVE  FileInv'
BY SessionWriteKeeps DEF AreWhole

LEMMA ItemLinesAreWhole ==
  ASSUME NEW T, NEW items \in Seq(T), NEW events, AreWhole(events, Quiet)
  PROVE  AreWhole(ItemLines(items) \o events, Quiet)
<1> DEFINE lines == ItemLines(items)
           L     == {lines[k] : k \in 1 .. Len(items)}
           n     == Len(items)
<1>1. n \in Nat /\ DOMAIN items = 1 .. n
  BY LenProperties
<1>2. lines = [k \in 1 .. n |-> Line("response_item", <<items[k]>>, used.turns)]
  BY <1>1 DEF ItemLines
<1>3. \A k \in 1 .. n : Whole(lines[k]) /\ lines[k].type \in Quiet
  <2> TAKE k \in 1 .. n
  <2>1. lines[k] = Line("response_item", <<items[k]>>, used.turns)
    BY <1>2
  <2>2. Whole(lines[k])
    BY <2>1, LineIsWhole
  <2> QED
    BY <2>1, <2>2 DEF Line, Quiet
<1>4. lines \in Seq(L) /\ Len(lines) = n
  <2>1. lines \in [1 .. n -> L]
    BY <1>2
  <2>2. lines \in Seq(L)
    BY <1>1, <2>1, SeqDef
  <2> QED
    BY <1>1, <2>1, <2>2, LenProperties
<1>5. PICK U : events \in Seq(U)
  BY DEF AreWhole
<1> HIDE DEF lines, L
<1>6. lines \in Seq(L \union U) /\ events \in Seq(L \union U)
  BY <1>4, <1>5, SeqMonotonic
<1>7. Len(events) \in Nat
  BY <1>5, LenProperties
<1>8. \A i \in 1 .. Len(lines \o events) :
        Whole((lines \o events)[i]) /\ (lines \o events)[i].type \in Quiet
  <2> TAKE i \in 1 .. Len(lines \o events)
  <2>1. Len(lines \o events) = n + Len(events)
    <3>1. Len(lines \o events) = Len(lines) + Len(events)
      BY <1>6, ConcatProperties
    <3> QED
      BY <1>4, <3>1
  <2>2. (lines \o events)[i] = IF i <= n THEN lines[i] ELSE events[i - n]
    BY <1>4, <1>6, <2>1, ConcatProperties
  <2>3. CASE i <= n
    BY <1>1, <1>3, <2>2, <2>3
  <2>4. CASE i > n
    <3>1. i - n \in 1 .. Len(events)
      BY <1>1, <1>7, <2>1, <2>4
    <3> QED
      BY <1>1, <2>2, <2>4, <3>1 DEF AreWhole
  <2> QED
    BY <1>1, <1>7, <2>1, <2>3, <2>4
<1>9. lines \o events \in Seq(L \union U)
  BY <1>6, ConcatProperties
<1> QED
  BY <1>8, <1>9 DEF AreWhole, lines

LEMMA EventIsWhole == Whole(Event) /\ Event.type \in Quiet
BY LineIsWhole DEF Event, Line, Quiet

\* The actions of a running turn that append leave it running, and its lines
\* start and end no turn.
TurnAppends ==
  \/ RecordInput \/ Compact \/ Say \/ (\E c \in Calls : Call(c))
  \/ BadCall \/ RecordOutput \/ RecordText \/ Break

LEMMA TurnAppendsQuiet ==
  ASSUME TurnAppends
  PROVE  /\ recorder.up /\ turn.pc # "idle"
         /\ \E lines : AreWhole(lines, Quiet) /\ Write(recorder, lines)
<1>1. AreWhole(<< >>, Quiet) /\ AreWhole(<<Event>>, Quiet)
  BY EventIsWhole, FewLinesAreWhole
<1>2. \A a, b : <<a>> \in Seq({a, b}) /\ <<a, b>> \in Seq({a, b})
  OBVIOUS
<1>3. ASSUME NEW T, NEW items \in Seq(T), NEW events, events = << >> \/ events = <<Event>>,
             RecordThen(items, events)
      PROVE  \E lines : AreWhole(lines, Quiet) /\ Write(recorder, lines)
  BY <1>1, <1>3, ItemLinesAreWhole DEF RecordThen
<1>4. CASE RecordInput
  <2>1. PICK item : RecordThen(<<item>>, << >>)
    BY <1>4 DEF RecordInput
  <2> QED
    BY <1>2, <1>3, <1>4, <2>1 DEF RecordInput
<1>5. CASE Compact
  <2>1. PICK items, t : Write(recorder, <<Line("compacted", items, t), Event>>)
    BY <1>5 DEF Compact
  <2>2. PICK line : line = Line("compacted", items, t)
    OBVIOUS
  <2>3. Whole(line) /\ line.type \in Quiet
    BY <2>2, LineIsWhole DEF Line, Quiet
  <2>4. AreWhole(<<line, Event>>, Quiet)
    BY <2>3, EventIsWhole, FewLinesAreWhole
  <2> QED
    BY <1>5, <2>1, <2>2, <2>4 DEF Compact
<1>6. CASE Say
  <2>1. PICK item : RecordThen(<<item>>, << >>)
    BY <1>6 DEF Say
  <2> QED
    BY <1>2, <1>3, <1>6, <2>1 DEF Say, Streaming
<1>7. CASE \E c \in Calls : Call(c)
  <2>1. PICK item : RecordThen(<<item>>, <<Event>>)
    BY <1>7 DEF Call
  <2> QED
    BY <1>2, <1>3, <1>7, <2>1 DEF Call, Streaming
<1>8. CASE BadCall
  <2>1. PICK call, output : RecordThen(<<call, output>>, << >>)
    BY <1>8 DEF BadCall
  <2> QED
    BY <1>2, <1>3, <1>8, <2>1 DEF BadCall, Streaming
<1>9. CASE RecordOutput
  <2>1. PICK item : RecordThen(<<item>>, <<Event>>)
    BY <1>9 DEF RecordOutput
  <2> QED
    BY <1>2, <1>3, <1>9, <2>1 DEF RecordOutput
<1>10. CASE RecordText
  <2>1. PICK item : RecordThen(<<item>>, << >>)
    BY <1>10 DEF RecordText
  <2> QED
    BY <1>2, <1>3, <1>10, <2>1 DEF RecordText
<1>11. CASE Break
  BY <1>1, <1>11 DEF Break, Streaming
<1> QED
  BY <1>4, <1>5, <1>6, <1>7, <1>8, <1>9, <1>10, <1>11 DEF TurnAppends

-----------------------------------------------------------------------------
(* Opening, ending and forking.                                            *)

\* Where ordinals are places the next one is the number of lines.
LEMMA NextOrdinalIsPlace ==
  ASSUME IsFile, Placed, NothingCut
  PROVE  NextOrdinal(file) = Len(file)
<1>1. PICK S : file \in Seq(S)
  BY DEF IsFile
<1>2. Len(file) \in Nat /\ DOMAIN file = 1 .. Len(file)
  BY <1>1, LenProperties
<1>3. CASE file = << >>
  BY <1>3 DEF NextOrdinal
<1>4. CASE file # << >>
  <2> DEFINE ordinals == {file[k].ordinal : k \in DOMAIN file}
             n        == Len(file)
  <2>1. n > 0
    BY <1>1, <1>2, <1>4, EmptySeq
  <2>2. \A k \in 1 .. n : file[k].ordinal = k - 1
    BY DEF Placed, NothingCut
  <2>3. n \in 1 .. n /\ file[n].ordinal = n - 1
    BY <1>2, <2>1, <2>2
  <2>4. n - 1 \in ordinals
    BY <1>2, <2>3
  <2>5. \A o \in ordinals : o \in Int /\ o <= n - 1
    BY <1>2, <2>2
  <2> HIDE DEF ordinals
  <2>6. Max(ordinals) = n - 1
    BY <1>2, <2>1, <2>4, <2>5 DEF Max
  <2> QED
    BY <1>2, <1>4, <2>6 DEF NextOrdinal, ordinals
<1> QED
  BY <1>3, <1>4

LEMMA ReadableIsUncut ==
  ASSUME IsFile, Readable(file)
  PROVE  NothingCut
BY LenProperties DEF IsFile, Readable, NothingCut

LEMMA MetaIsWhole ==
  ASSUME NEW next
  PROVE  AreWhole(IF next = 0 THEN <<Line("session_meta", << >>, 0)>> ELSE << >>, Quiet)
<1>1. PICK meta : meta = Line("session_meta", << >>, 0)
  OBVIOUS
<1>2. Whole(meta) /\ meta.type \in Quiet
  BY <1>1, LineIsWhole DEF Line, Quiet
<1>3. AreWhole(<<meta>>, Quiet) /\ AreWhole(<< >>, Quiet)
  BY <1>2, FewLinesAreWhole
<1> QED
  BY <1>1, <1>3

LEMMA OpenKeeps ==
  ASSUME FileInv, Open
  PROVE  FileInv'
<1> DEFINE next   == NextOrdinal(file)
           opened == [up |-> TRUE, ordinal |-> next, err |-> FALSE]
           lines  == IF next = 0 THEN <<Line("session_meta", << >>, 0)>> ELSE << >>
<1>1. PICK S : file \in Seq(S)
  BY DEF FileInv, IsFile
<1>2. NothingCut
  BY ReadableIsUncut DEF FileInv, Open
<1>3. next = Len(file) /\ next \in Nat
  BY <1>1, <1>2, NextOrdinalIsPlace, LenProperties DEF FileInv
<1>4. Write(opened, lines)
  BY DEF Open
<1>5. AreWhole(lines, Quiet)
  BY MetaIsWhole
<1>6. PICK T : lines \in Seq(T)
  BY <1>5 DEF AreWhole
<1>7. \A i \in 1 .. Len(lines) : Whole(lines[i])
  BY <1>5 DEF AreWhole
<1>8. opened \in [up : BOOLEAN, ordinal : Nat, err : BOOLEAN] /\ opened.ordinal = Len(file)
  BY <1>3
<1> HIDE DEF opened, lines, next
<1> QED
  BY <1>1, <1>2, <1>4, <1>6, <1>7, <1>8, WriteKeeps DEF FileInv

LEMMA CrashKeeps ==
  ASSUME FileInv, Crash
  PROVE  FileInv'
<1>1. PICK S : file \in Seq(S)
  BY DEF FileInv, IsFile
<1>2. Len(file) \in Nat
  BY <1>1, LenProperties
<1>3. recorder' = Down
  BY DEF Crash
<1>4. RecorderTyped' /\ Appendable'
  BY <1>3 DEF RecorderTyped, Appendable, Down
<1>5. CASE UNCHANGED file
  BY <1>4, <1>5 DEF FileInv, IsFile, Placed, CutLineIsLast
<1>6. CASE ~recorder.err /\ file' = Append(file, Torn)
  <2> DEFINE all == S \union {Torn}
  <2>1. file \in Seq(all) /\ Torn \in all
    BY <1>1, SeqMonotonic
  <2> HIDE DEF all
  <2>2. /\ file' \in Seq(all) /\ Len(file') = Len(file) + 1
        /\ \A i \in 1 .. Len(file) : file'[i] = file[i]
        /\ file'[Len(file) + 1] = Torn
    BY <1>2, <1>6, <2>1, AppendProperties
  <2>3. NothingCut
    BY <1>6 DEF Crash, FileInv, Appendable
  <2>4. Placed'
    <3> SUFFICES ASSUME NEW i \in 1 .. Len(file'), file'[i].type # "torn"
                 PROVE  file'[i].ordinal = i - 1
      BY DEF Placed
    <3>1. i # Len(file) + 1
      BY <2>2 DEF Torn
    <3>2. i \in 1 .. Len(file) /\ file'[i] = file[i]
      BY <1>2, <2>2, <3>1
    <3> QED
      BY <3>2 DEF FileInv, Placed
  <2>5. DOMAIN file' = 1 .. Len(file')
    BY <2>2, LenProperties
  <2>6. CutLineIsLast'
    BY <1>2, <2>2, <2>3, <2>5 DEF CutLineIsLast, NothingCut
  <2> QED
    BY <1>4, <2>2, <2>4, <2>6 DEF FileInv, IsFile
<1> QED
  BY <1>5, <1>6 DEF Crash

LEMMA ForkKeeps ==
  ASSUME FileInv, Fork
  PROVE  FileInv'
<1> DEFINE items   == Replay(file)
           meta    == Line("session_meta", << >>, 0)
           copy(k) == [Line("response_item", <<items[k]>>, items[k].turn) EXCEPT !.ordinal = k]
<1>1. PICK count \in 0 .. Len(items) :
        file' = [k \in 1 .. count + 1 |-> IF k = 1 THEN meta ELSE copy(k - 1)]
  BY DEF Fork
<1>2. count \in Nat
  BY <1>1
<1>3. \A k \in 1 .. count + 1 : file'[k].type # "torn" /\ file'[k].ordinal = k - 1
  BY <1>1, <1>2 DEF Line
<1> DEFINE L == {file'[k] : k \in 1 .. count + 1}
<1>4. file' \in Seq(L) /\ Len(file') = count + 1
  <2>1. file' \in [1 .. count + 1 -> L]
    BY <1>1
  <2>2. count + 1 \in Nat
    BY <1>2
  <2> HIDE DEF L
  <2>3. file' \in Seq(L)
    BY <2>1, <2>2, SeqDef
  <2> QED
    BY <2>1, <2>2, <2>3, LenProperties
<1>5. IsFile' /\ Placed'
  BY <1>3, <1>4 DEF IsFile, Placed
<1>6. CutLineIsLast'
  BY <1>3, <1>4, LenProperties DEF CutLineIsLast
<1>7. RecorderTyped' /\ Appendable'
  BY DEF Fork, RecorderTyped, Appendable, Down
<1> QED
  BY <1>5, <1>6, <1>7 DEF FileInv

-----------------------------------------------------------------------------
(* The invariant.                                                          *)

LEMMA FileInit == Init => FileInv
<1> SUFFICES ASSUME Init PROVE FileInv
  OBVIOUS
<1>1. file \in Seq({}) /\ Len(file) = 0 /\ DOMAIN file = 1 .. 0
  BY EmptySeq, LenProperties DEF Init
<1> QED
  BY <1>1 DEF Init, FileInv, IsFile, RecorderTyped, Placed, CutLineIsLast, Appendable

LEMMA UnwrittenKeeps ==
  ASSUME FileInv, UNCHANGED <<file, recorder>>
  PROVE  FileInv'
BY DEF FileInv, IsFile, RecorderTyped, Placed, CutLineIsLast, Appendable, NothingCut

\* The lines that start a turn.
LEMMA StartIsWhole ==
  ASSUME NEW t
  PROVE  AreWhole(<<Line("turn_started", << >>, t), Line("turn_context", << >>, t)>>,
                  {"turn_started", "turn_context"})
<1>1. PICK a, b : a = Line("turn_started", << >>, t) /\ b = Line("turn_context", << >>, t)
  OBVIOUS
<1>2. /\ Whole(a) /\ Whole(b)
      /\ a.type \in {"turn_started", "turn_context"} /\ b.type \in {"turn_started", "turn_context"}
  BY <1>1, LineIsWhole DEF Line
<1> QED
  BY <1>1, <1>2, FewLinesAreWhole

LEMMA FileStep == FileInv /\ [Next]_vars => FileInv'
<1> SUFFICES ASSUME FileInv, [Next]_vars PROVE FileInv'
  OBVIOUS
<1>1. CASE Open
  BY <1>1, OpenKeeps
<1>2. CASE Begin
  <2> DEFINE t     == used.turns + 1
             lines == <<Line("turn_started", << >>, t), Line("turn_context", << >>, t)>>
  <2>1. AreWhole(lines, {"turn_started", "turn_context"})
    BY StartIsWhole
  <2>2. Write(recorder, lines) /\ recorder.up
    BY <1>2 DEF Begin
  <2> HIDE DEF lines
  <2> QED
    BY <2>1, <2>2, SessionAppends
<1>3. CASE TurnAppends
  BY <1>3, TurnAppendsQuiet, SessionAppends
<1>4. CASE Finish
  <2>1. PICK type \in EndOf(turn.failed) :
          Write(recorder, <<Line(type, << >>, used.turns)>>)
    BY <1>4 DEF Finish
  <2>2. AreWhole(<<Line(type, << >>, used.turns)>>, {type})
    <3>1. type # "torn"
      BY DEF EndOf
    <3>2. PICK line : line = Line(type, << >>, used.turns)
      OBVIOUS
    <3>3. Whole(line) /\ line.type \in {type}
      BY <3>1, <3>2, LineIsWhole DEF Line
    <3> QED
      BY <3>2, <3>3, FewLinesAreWhole
  <2> QED
    BY <1>4, <2>1, <2>2, SessionAppends DEF Finish
<1>5. CASE Complete \/ Drain \/ UNCHANGED vars
  <2>1. UNCHANGED <<file, recorder>>
    BY <1>5 DEF Complete, Drain, vars
  <2> QED
    BY <2>1, UnwrittenKeeps
<1>6. CASE Close
  <2>1. UNCHANGED file /\ recorder' = Down
    BY <1>6 DEF Close
  <2> QED
    BY <2>1 DEF FileInv, IsFile, RecorderTyped, Placed, CutLineIsLast, Appendable, Down
<1>7. CASE Crash
  BY <1>7, CrashKeeps
<1>8. CASE Fork
  BY <1>8, ForkKeeps
<1> QED
  BY <1>1, <1>2, <1>3, <1>4, <1>5, <1>6, <1>7, <1>8 DEF Next, TurnAppends

LEMMA FileHolds == Spec => []FileInv
<1> QED
  BY FileInit, FileStep, PTL DEF Spec

-----------------------------------------------------------------------------
(* What follows.                                                           *)

\* Nothing is ever appended after a line that was cut short, however many
\* sessions, faults and forks there are (rollout.go:424-437).
THEOREM CutLinesStayLast == Spec => []CutLineIsLast
<1>1. FileInv => CutLineIsLast
  BY DEF FileInv
<1> QED
  BY <1>1, FileHolds, PTL

\* Every line that can be parsed carries its own place as its ordinal
\* (rollout.go:221-223, 431-440).
THEOREM OrdinalsArePlaces == Spec => []Placed
<1>1. FileInv => Placed
  BY DEF FileInv
<1> QED
  BY <1>1, FileHolds, PTL

\* A cursor that readers were given skips and repeats nothing
\* (rollout.go:97-124, v2.go:103-116).
LEMMA PlacedPolls == FileInv => PollsLoseNothing
<1> SUFFICES ASSUME FileInv, Readable(file), NEW after \in 0 .. Len(file)
             PROVE  /\ EventsAfter(after) = after + 1 .. Len(file)
                    /\ CursorAfter(after) = Len(file)
  BY DEF PollsLoseNothing
<1> DEFINE n == Len(file)
<1>1. n \in Nat /\ DOMAIN file = 1 .. n
  BY LenProperties DEF FileInv, IsFile
<1>2. NothingCut
  BY ReadableIsUncut DEF FileInv
<1>3. \A k \in 1 .. n : file[k].ordinal = k - 1
  BY <1>2 DEF FileInv, Placed, NothingCut
<1>4. EventsAfter(after) = after + 1 .. n
  BY <1>1, <1>3 DEF EventsAfter
<1>5. CursorAfter(after) = n
  <2>1. CASE after = n
    <3>1. EventsAfter(after) = {}
      BY <1>1, <1>4, <2>1
    <3> QED
      BY <2>1, <3>1 DEF CursorAfter
  <2>2. CASE after < n
    <3> DEFINE ordinals == {file[k].ordinal : k \in EventsAfter(after)}
    <3>1. n \in EventsAfter(after)
      BY <1>1, <1>4, <2>2
    <3>2. file[n].ordinal = n - 1
      BY <1>1, <1>3, <2>2
    <3>3. n - 1 \in ordinals
      BY <3>1, <3>2
    <3>4. \A o \in ordinals : o \in Int /\ o <= n - 1
      BY <1>1, <1>3, <1>4
    <3>5. CursorAfter(after) = 1 + Max(ordinals)
      BY <3>1, Zenon DEF CursorAfter
    <3> HIDE DEF ordinals
    <3>6. Max(ordinals) = n - 1
      BY <1>1, <3>3, <3>4 DEF Max
    <3> QED
      BY <1>1, <3>5, <3>6
  <2>3. n \in Int /\ after \in 0 .. n
    BY <1>1
  <2>4. after = n \/ after < n
    <3> HIDE DEF n
    <3> QED
      BY <2>3
  <2> QED
    BY <2>1, <2>2, <2>4
<1> QED
  BY <1>4, <1>5

THEOREM CursorsAreExact == Spec => []PollsLoseNothing
BY FileHolds, PlacedPolls, PTL
-----------------------------------------------------------------------------
(* What a history keeps.                                                   *)

LEMMA RestoredEmpty == Restored(<< >>) = << >>
<1>1. [k \in DOMAIN << >> |->
         IF << >>[k].kind \in Conversational THEN << << >>[k]>> ELSE << >>] = << >>
  OBVIOUS
<1> QED
  BY <1>1, FlattenEmpty DEF Restored

\* One item more is kept, or left out.
LEMMA RestoredAppend ==
  ASSUME NEW A, NEW s \in Seq(A), NEW x \in A
  PROVE  /\ Restored(s) \in Seq({y \in A : y.kind \in Conversational})
         /\ Restored(Append(s, x)) =
              IF x.kind \in Conversational THEN Append(Restored(s), x) ELSE Restored(s)
<1> DEFINE K       == {y \in A : y.kind \in Conversational}
           part(y) == IF y.kind \in Conversational THEN <<y>> ELSE << >>
           parts   == [k \in DOMAIN s |-> part(s[k])]
           t       == Append(s, x)
           more    == [k \in DOMAIN t |-> part(t[k])]
           n       == Len(s)
<1>1. n \in Nat /\ DOMAIN s = 1 .. n
  BY LenProperties
<1>2. t \in Seq(A) /\ Len(t) = n + 1 /\ DOMAIN t = 1 .. n + 1
      /\ t[n + 1] = x /\ \A i \in 1 .. n : t[i] = s[i]
  BY <1>1, AppendProperties, LenProperties
<1>3. \A y \in A : part(y) \in Seq(K)
  <2> TAKE y \in A
  <2>1. CASE y.kind \in Conversational
    BY <2>1
  <2>2. CASE y.kind \notin Conversational
    BY <2>2
  <2> QED
    BY <2>1, <2>2
<1>4. Restored(s) = FlattenSeq(parts) /\ Restored(t) = FlattenSeq(more)
  BY DEF Restored
<1>5. (\A i \in 1 .. n : s[i] \in A) /\ (\A i \in 1 .. n + 1 : t[i] \in A)
  BY <1>2, ElementOfSeq
<1> HIDE DEF part, t, K
<1>6. parts \in [1 .. n -> Seq(K)] /\ more \in [1 .. n + 1 -> Seq(K)]
  BY <1>1, <1>2, <1>3, <1>5
<1>7. (\A i \in 1 .. n : more[i] = parts[i]) /\ more[n + 1] = part(x)
  BY <1>1, <1>2
<1> HIDE DEF parts, more
<1>8. FlattenSeq(parts) \in Seq(K) /\ FlattenSeq(more) = FlattenSeq(parts) \o part(x)
  BY <1>1, <1>6, <1>7, OneMorePart
<1>9. CASE x.kind \in Conversational
  <2>1. part(x) = <<x>> /\ x \in K
    BY <1>9 DEF part, K
  <2> QED
    BY <1>4, <1>8, <1>9, <2>1, AppendIsConcat DEF t, K
<1>10. CASE x.kind \notin Conversational
  <2>1. part(x) = << >>
    BY <1>10 DEF part
  <2> QED
    BY <1>4, <1>8, <1>10, <2>1, ConcatEmptySeq DEF t, K
<1> QED
  BY <1>9, <1>10

LEMMA RestoredIsSeq ==
  ASSUME NEW A, NEW s \in Seq(A)
  PROVE  Restored(s) \in Seq({y \in A : y.kind \in Conversational})
<1>1. CASE s = << >>
  <2>1. << >> \in Seq({y \in A : y.kind \in Conversational})
    OBVIOUS
  <2> QED
    BY <1>1, <2>1, RestoredEmpty
<1>2. CASE s # << >>
  <2>1. PICK x \in A : TRUE
    BY <1>2, SequenceEmptyOrAppend
  <2> QED
    BY RestoredAppend
<1> QED
  BY <1>1, <1>2

\* A sequence is its first elements and its last.
LEMMA ByItsLast ==
  ASSUME NEW A, NEW s \in Seq(A), NEW n \in Nat, Len(s) = n + 1
  PROVE  \E t \in Seq(A), x \in A : s = Append(t, x) /\ Len(t) = n
<1>1. s # << >>
  OBVIOUS
<1>2. PICK t \in Seq(A), x \in A : s = Append(t, x)
  BY <1>1, SequenceEmptyOrAppend
<1>3. Len(t) \in Nat /\ Len(s) = Len(t) + 1
  BY <1>2, AppendProperties, LenProperties
<1> QED
  BY <1>2, <1>3

\* What is kept of two sequences is kept of each.
LEMMA RestoredConcat ==
  ASSUME NEW A, NEW a \in Seq(A), NEW b \in Seq(A)
  PROVE  Restored(a \o b) = Restored(a) \o Restored(b)
<1> DEFINE K == {y \in A : y.kind \in Conversational}
           P == {n \in Nat : \A c \in Seq(A) : Len(c) = n =>
                   Restored(a \o c) = Restored(a) \o Restored(c)}
<1>1. 0 \in P
  <2> SUFFICES ASSUME NEW c \in Seq(A), Len(c) = 0
               PROVE  Restored(a \o c) = Restored(a) \o Restored(c)
    OBVIOUS
  <2>1. c = << >> /\ a \o c = a
    BY EmptySeq, ConcatEmptySeq
  <2>2. Restored(a) \in Seq(K)
    BY RestoredIsSeq
  <2>3. Restored(a) \o << >> = Restored(a)
    BY <2>2, ConcatEmptySeq
  <2> QED
    BY <2>1, <2>3, RestoredEmpty
<1>2. ASSUME NEW n \in P PROVE n + 1 \in P
  <2> SUFFICES ASSUME NEW c \in Seq(A), Len(c) = n + 1
               PROVE  Restored(a \o c) = Restored(a) \o Restored(c)
    OBVIOUS
  <2>1. PICK t \in Seq(A), x \in A : c = Append(t, x) /\ Len(t) = n
    BY ByItsLast
  <2>2. Restored(a \o t) = Restored(a) \o Restored(t)
    BY <2>1
  <2>3. a \o t \in Seq(A) /\ <<x>> \in Seq(A)
    BY ConcatProperties
  <2>4. a \o c = Append(a \o t, x)
    BY <2>1, <2>3, AppendIsConcat, ConcatAssociative
  <2>5. Restored(a) \in Seq(K) /\ Restored(t) \in Seq(K)
    BY RestoredIsSeq
  <2>6. /\ Restored(a \o c) = IF x.kind \in Conversational
                              THEN Append(Restored(a) \o Restored(t), x)
                              ELSE Restored(a) \o Restored(t)
        /\ Restored(c) = IF x.kind \in Conversational
                         THEN Append(Restored(t), x) ELSE Restored(t)
    <3> DEFINE w == a \o t
    <3>1. w \in Seq(A) /\ Restored(w) = Restored(a) \o Restored(t)
      BY <2>2, <2>3
    <3>2. Restored(Append(t, x)) = IF x.kind \in Conversational
                                   THEN Append(Restored(t), x) ELSE Restored(t)
      BY RestoredAppend
    <3> HIDE DEF w
    <3>3. Restored(Append(w, x)) = IF x.kind \in Conversational
                                   THEN Append(Restored(w), x) ELSE Restored(w)
      BY <3>1, RestoredAppend
    <3>4. a \o c = Append(w, x)
      BY <2>4 DEF w
    <3> QED
      BY <2>1, <3>1, <3>2, <3>3, <3>4
  <2>7. CASE x.kind \in Conversational
    <3> DEFINE u == Restored(a)
               v == Restored(t)
    <3>1. x \in K /\ <<x>> \in Seq(K) /\ u \o v \in Seq(K)
      BY <2>5, <2>7, ConcatProperties
    <3>2. Restored(a \o c) = Append(u \o v, x) /\ Restored(c) = Append(v, x)
      BY <2>6, <2>7
    <3>3. u \in Seq(K) /\ v \in Seq(K)
      BY <2>5
    <3> HIDE DEF K, u, v
    <3>4. Append(u \o v, x) = (u \o v) \o <<x>> /\ Append(v, x) = v \o <<x>>
      BY <3>1, <3>3, AppendIsConcat
    <3>5. (u \o v) \o <<x>> = u \o (v \o <<x>>)
      BY <3>1, <3>3, ConcatAssociative
    <3> QED
      BY <3>2, <3>4, <3>5 DEF u
  <2>8. CASE x.kind \notin Conversational
    BY <2>6, <2>8
  <2> QED
    BY <2>7, <2>8
<1> HIDE DEF P
<1>3. Len(b) \in P
  BY <1>1, <1>2, Induction, LenProperties
<1> QED
  BY <1>3 DEF P

-----------------------------------------------------------------------------
(* What a reader restores from the lines.                                  *)

\* A set of places that is not empty has a last one.
LEMMA MaxOfPlaces ==
  ASSUME NEW n \in Nat, NEW T, T \subseteq 1 .. n, T # {}
  PROVE  Max(T) \in T /\ \A y \in T : y <= Max(T)
<1> DEFINE P == {m \in Nat : \A U \in SUBSET (1 .. m) :
                   U # {} => \E x \in U : \A y \in U : x >= y}
<1>1. 0 \in P
  <2>1. \A U \in SUBSET (1 .. 0) : U = {}
    OBVIOUS
  <2> QED
    BY <2>1
<1>2. ASSUME NEW m \in P PROVE m + 1 \in P
  <2> SUFFICES ASSUME NEW U \in SUBSET (1 .. m + 1), U # {}
               PROVE  \E x \in U : \A y \in U : x >= y
    OBVIOUS
  <2>1. CASE m + 1 \in U
    BY <2>1
  <2>2. CASE m + 1 \notin U
    <3>1. U \in SUBSET (1 .. m)
      BY <2>2
    <3> QED
      BY <3>1
  <2> QED
    BY <2>1, <2>2
<1> HIDE DEF P
<1>3. n \in P
  BY <1>1, <1>2, Induction
<1>4. \E x \in T : \A y \in T : x >= y
  BY <1>3 DEF P
<1> QED
  BY <1>4 DEF Max

LastCompaction(lines) == SelectLastInSeq(lines, LAMBDA line : line.type = "compacted")
Compactions(lines) == {i \in 1 .. Len(lines) : lines[i].type = "compacted"}

LEMMA LastCompactionIs ==
  ASSUME NEW lines
  PROVE  LastCompaction(lines) =
           IF Compactions(lines) # {} THEN Max(Compactions(lines)) ELSE 0
BY DEF LastCompaction, Compactions, SelectLastInSeq

Recordings(lines) ==
  [k \in DOMAIN lines |->
     IF lines[k].type = "response_item" THEN lines[k].items ELSE << >>]

LEMMA ReplayIs ==
  ASSUME NEW lines
  PROVE  LET last == LastCompaction(lines)
         IN Replay(lines) = (IF last = 0 THEN << >> ELSE lines[last].items)
                              \o FlattenSeq(Recordings(SubSeq(lines, last + 1, Len(lines))))
BY DEF Replay, LastCompaction, Recordings

\* Where the last compaction is, with one line more.
LEMMA LastCompactionAppend ==
  ASSUME NEW L, NEW f \in Seq(L), NEW x \in L
  PROVE  /\ LastCompaction(f) \in 0 .. Len(f)
         /\ LastCompaction(Append(f, x)) =
              IF x.type = "compacted" THEN Len(f) + 1 ELSE LastCompaction(f)
<1> DEFINE n == Len(f)
           t == Append(f, x)
<1>1. n \in Nat
  BY LenProperties
<1>2. t \in Seq(L) /\ Len(t) = n + 1 /\ t[n + 1] = x /\ \A i \in 1 .. n : t[i] = f[i]
  BY AppendProperties
<1> HIDE DEF t
<1>3. Compactions(t) = Compactions(f) \union (IF x.type = "compacted" THEN {n + 1} ELSE {})
  BY <1>1, <1>2 DEF Compactions
<1>4. Compactions(f) \subseteq 1 .. n
  BY DEF Compactions
<1>5. LastCompaction(f) \in 0 .. n
  <2>1. CASE Compactions(f) = {}
    BY <1>1, <2>1, LastCompactionIs
  <2>2. CASE Compactions(f) # {}
    <3>1. Max(Compactions(f)) \in 1 .. n
      BY <1>1, <1>4, <2>2, MaxOfPlaces
    <3> QED
      BY <1>1, <2>2, <3>1, LastCompactionIs
  <2> QED
    BY <2>1, <2>2
<1>6. CASE x.type # "compacted"
  BY <1>3, <1>5, <1>6, LastCompactionIs DEF t
<1>7. CASE x.type = "compacted"
  <2>1. Compactions(t) \subseteq 1 .. n + 1 /\ n + 1 \in Compactions(t) /\ n + 1 \in Nat
    BY <1>1, <1>3, <1>4, <1>7
  <2>2. Max(Compactions(t)) = n + 1
    <3>1. Max(Compactions(t)) \in Compactions(t) /\ n + 1 <= Max(Compactions(t))
      BY <2>1, MaxOfPlaces
    <3> QED
      BY <1>1, <2>1, <3>1
  <2> QED
    BY <1>5, <1>7, <2>1, <2>2, LastCompactionIs DEF t
<1> QED
  BY <1>6, <1>7

LEMMA ReplayEmpty == Replay(<< >>) = << >>
<1>1. LastCompaction(<< >>) = 0
  <2>1. Compactions(<< >>) = {}
    BY DEF Compactions
  <2> QED
    BY <2>1, LastCompactionIs
<1>2. Recordings(SubSeq(<< >>, 0 + 1, Len(<< >>))) = << >>
  BY DEF Recordings
<1>3. << >> \o << >> = << >>
  OBVIOUS
<1> QED
  BY <1>1, <1>2, <1>3, ReplayIs, FlattenEmpty

LEMMA RecordingsAppend ==
  ASSUME NEW A, NEW L, \A y \in L : y.items \in Seq(A), NEW f \in Seq(L), NEW x \in L
  PROVE  /\ FlattenSeq(Recordings(f)) \in Seq(A)
         /\ FlattenSeq(Recordings(Append(f, x))) =
              FlattenSeq(Recordings(f))
                \o (IF x.type = "response_item" THEN x.items ELSE << >>)
<1> DEFINE n     == Len(f)
           t     == Append(f, x)
           parts == Recordings(f)
           more  == Recordings(t)
<1>1. n \in Nat /\ DOMAIN f = 1 .. n
  BY LenProperties
<1>2. t \in Seq(L) /\ Len(t) = n + 1 /\ DOMAIN t = 1 .. n + 1
      /\ t[n + 1] = x /\ \A i \in 1 .. n : t[i] = f[i]
  BY <1>1, AppendProperties, LenProperties
<1>3. (\A i \in 1 .. n : f[i] \in L) /\ (\A i \in 1 .. n + 1 : t[i] \in L)
  BY <1>2, ElementOfSeq
<1> HIDE DEF t
<1>4. parts \in [1 .. n -> Seq(A)]
  BY <1>1, <1>3 DEF Recordings
<1>5. more \in [1 .. n + 1 -> Seq(A)]
  BY <1>2, <1>3 DEF Recordings
<1>6. (\A i \in 1 .. n : more[i] = parts[i])
      /\ more[n + 1] = (IF x.type = "response_item" THEN x.items ELSE << >>)
  BY <1>1, <1>2 DEF Recordings
<1> HIDE DEF parts, more
<1> QED
  BY <1>1, <1>4, <1>5, <1>6, OneMorePart DEF parts, more, t

\* What one line more changes of what a reader restores.
LEMMA ReplayAppend ==
  ASSUME NEW A, NEW L, \A y \in L : y.items \in Seq(A), NEW f \in Seq(L), NEW x \in L
  PROVE  /\ Replay(f) \in Seq(A)
         /\ Replay(Append(f, x)) = IF x.type = "compacted" THEN x.items
                                   ELSE IF x.type = "response_item"
                                        THEN Replay(f) \o x.items ELSE Replay(f)
<1> DEFINE n    == Len(f)
           t    == Append(f, x)
           last == LastCompaction(f)
           base == IF last = 0 THEN << >> ELSE f[last].items
           rest == SubSeq(f, last + 1, n)
           flat == FlattenSeq(Recordings(rest))
           item == IF x.type = "response_item" THEN x.items ELSE << >>
<1>1. n \in Nat /\ last \in 0 .. n /\ x.items \in Seq(A)
  BY LastCompactionAppend, LenProperties
<1>2. t \in Seq(L) /\ Len(t) = n + 1 /\ t[n + 1] = x /\ \A i \in 1 .. n : t[i] = f[i]
  BY AppendProperties
<1>3. base \in Seq(A)
  <2>1. CASE last = 0
    BY <2>1
  <2>2. CASE last # 0
    <3>1. f[last] \in L
      BY <1>1, <2>2, ElementOfSeq
    <3> QED
      BY <2>2, <3>1
  <2> QED
    BY <2>1, <2>2
<1>4. rest \in Seq(L) /\ Len(rest) = n - last /\ \A i \in 1 .. n - last : rest[i] = f[last + i]
  <2>1. last + 1 \in 1 .. n + 1 /\ n \in (last + 1) - 1 .. n
    BY <1>1
  <2> HIDE DEF last, n
  <2> QED
    BY <1>1, <2>1, SubSeqProperties DEF n
<1>5. Replay(f) = base \o flat
  BY ReplayIs
<1>6. item \in Seq(A)
  <2>1. CASE x.type = "response_item"
    BY <1>1, <2>1
  <2>2. CASE x.type # "response_item"
    BY <2>2
  <2> QED
    BY <2>1, <2>2
<1>7. flat \in Seq(A) /\ FlattenSeq(Recordings(Append(rest, x))) = flat \o item
  BY <1>4, RecordingsAppend
<1>8. Replay(f) \in Seq(A)
  BY <1>3, <1>5, <1>7, ConcatProperties
<1>9. LastCompaction(t) = IF x.type = "compacted" THEN n + 1 ELSE last
  BY LastCompactionAppend
<1>10. CASE x.type = "compacted"
  <2>1. SubSeq(t, (n + 1) + 1, n + 1) = << >>
    BY <1>1, <1>2, SubSeqEmpty
  <2>2. Recordings(<< >>) = << >>
    BY DEF Recordings
  <2>3. Replay(t) = x.items \o << >>
    <3>1. LastCompaction(t) = n + 1 /\ n + 1 # 0 /\ Len(t) = n + 1 /\ t[n + 1] = x
      BY <1>1, <1>2, <1>9, <1>10
    <3>2. FlattenSeq(Recordings(SubSeq(t, (n + 1) + 1, n + 1))) = << >>
      BY <2>1, <2>2, FlattenEmpty
    <3> HIDE DEF t, n
    <3> QED
      BY <3>1, <3>2, ReplayIs
  <2>4. x.items \o << >> = x.items
    BY <1>1, ConcatEmptySeq
  <2> QED
    BY <1>8, <1>10, <2>3, <2>4
<1>11. CASE x.type # "compacted"
  <2> DEFINE more == SubSeq(t, last + 1, n + 1)
  <2>1. more \in Seq(L) /\ Len(more) = n + 1 - last
        /\ \A i \in 1 .. n + 1 - last : more[i] = t[last + i]
    <3>1. last + 1 \in 1 .. Len(t) + 1 /\ n + 1 \in (last + 1) - 1 .. Len(t)
      BY <1>1, <1>2
    <3>2. (n + 1) - (last + 1) + 1 = n + 1 - last
      BY <1>1
    <3> HIDE DEF last, n, t
    <3> QED
      BY <1>1, <1>2, <3>1, <3>2, SubSeqProperties
  <2>2. /\ Append(rest, x) \in Seq(L) /\ Len(Append(rest, x)) = n + 1 - last
        /\ \A i \in 1 .. n - last : Append(rest, x)[i] = rest[i]
        /\ Append(rest, x)[n + 1 - last] = x
    <3>1. n + 1 - last = Len(rest) + 1
      BY <1>1, <1>4
    <3> QED
      BY <1>4, <3>1, AppendProperties
  <2>3. \A i \in 1 .. n + 1 - last : more[i] = Append(rest, x)[i]
    <3> TAKE i \in 1 .. n + 1 - last
    <3> HIDE DEF t, rest, last, more
    <3>1. CASE i = n + 1 - last
      <4>1. last + i = n + 1
        BY <1>1, <3>1
      <4> QED
        BY <1>2, <2>1, <2>2, <3>1, <4>1
    <3>2. CASE i # n + 1 - last
      <4>1. i \in 1 .. n - last /\ last + i \in 1 .. n
        BY <1>1, <3>2
      <4> QED
        BY <1>2, <1>4, <2>1, <2>2, <4>1
    <3> QED
      BY <3>1, <3>2
  <2>4. more = Append(rest, x)
    <3> HIDE DEF more, rest
    <3> QED
      BY <2>1, <2>2, <2>3, SeqEqual
  <2>5. base = IF last = 0 THEN << >> ELSE t[last].items
    <3>1. last # 0 => t[last] = f[last]
      BY <1>1, <1>2
    <3> QED
      BY <3>1
  <2>6. Replay(t) = base \o (flat \o item)
    <3>1. LastCompaction(t) = last /\ Len(t) = n + 1
      BY <1>2, <1>9, <1>11
    <3>2. Replay(t) = (IF last = 0 THEN << >> ELSE t[last].items)
                        \o FlattenSeq(Recordings(more))
      <4> HIDE DEF last, n
      <4> QED
        BY <3>1, ReplayIs
    <3> QED
      BY <1>7, <2>4, <2>5, <3>2
  <2>7. Replay(t) = Replay(f) \o item
    <3>1. Replay(f) = base \o flat
      BY <1>5
    <3>2. PICK a, b, c : a = base /\ b = flat /\ c = item
      OBVIOUS
    <3> HIDE DEF base, flat, item
    <3>3. (a \o b) \o c = a \o (b \o c)
      <4>1. a \in Seq(A) /\ b \in Seq(A) /\ c \in Seq(A)
        BY <1>3, <1>6, <1>7, <3>2
      <4> QED
        BY <4>1, ConcatAssociative
    <3> QED
      BY <2>6, <3>1, <3>2, <3>3
  <2>8. Replay(f) \o << >> = Replay(f)
    BY <1>8, ConcatEmptySeq
  <2> QED
    BY <1>8, <1>11, <2>7, <2>8
<1> QED
  BY <1>10, <1>11

-----------------------------------------------------------------------------
(* Prompts.                                                                *)

PromptFrom(h, calls, outputs) ==
  FlattenSeq([k \in DOMAIN h |-> Normalized(h[k], calls, outputs)])

\* A prompt is made item by item, whatever calls and outputs there are.
LEMMA PromptAppend ==
  ASSUME NEW A, \A y \in A : Aborted(y) \in A,
         NEW h \in Seq(A), NEW x \in A, NEW calls, NEW outputs
  PROVE  /\ PromptFrom(h, calls, outputs) \in Seq(A)
         /\ Normalized(x, calls, outputs) \in Seq(A)
         /\ PromptFrom(Append(h, x), calls, outputs) =
              PromptFrom(h, calls, outputs) \o Normalized(x, calls, outputs)
<1> DEFINE n       == Len(h)
           part(y) == Normalized(y, calls, outputs)
           parts   == [k \in DOMAIN h |-> part(h[k])]
           t       == Append(h, x)
           more    == [k \in DOMAIN t |-> part(t[k])]
<1>1. n \in Nat /\ DOMAIN h = 1 .. n
  BY LenProperties
<1>2. t \in Seq(A) /\ Len(t) = n + 1 /\ DOMAIN t = 1 .. n + 1
      /\ t[n + 1] = x /\ \A i \in 1 .. n : t[i] = h[i]
  BY <1>1, AppendProperties, LenProperties
<1>3. \A y \in A : part(y) \in Seq(A)
  <2> SUFFICES ASSUME NEW y \in A PROVE part(y) \in Seq(A)
    OBVIOUS
  <2>1. << >> \in Seq(A) /\ <<y>> \in Seq(A) /\ <<y, Aborted(y)>> \in Seq(A)
    OBVIOUS
  <2> QED
    BY <2>1 DEF Normalized
<1>4. (\A i \in 1 .. n : h[i] \in A) /\ (\A i \in 1 .. n + 1 : t[i] \in A)
  BY <1>2, ElementOfSeq
<1>5. PromptFrom(h, calls, outputs) = FlattenSeq(parts)
      /\ PromptFrom(t, calls, outputs) = FlattenSeq(more)
  BY DEF PromptFrom
<1> HIDE DEF part, t
<1>6. parts \in [1 .. n -> Seq(A)] /\ more \in [1 .. n + 1 -> Seq(A)]
  BY <1>1, <1>2, <1>3, <1>4
<1>7. (\A i \in 1 .. n : more[i] = parts[i]) /\ more[n + 1] = part(x)
  BY <1>1, <1>2
<1> HIDE DEF parts, more
<1>8. FlattenSeq(parts) \in Seq(A) /\ FlattenSeq(more) = FlattenSeq(parts) \o part(x)
  BY <1>1, <1>6, <1>7, OneMorePart
<1> QED
  BY <1>3, <1>5, <1>8 DEF t, part

LEMMA PromptEmpty ==
  ASSUME NEW calls, NEW outputs
  PROVE  PromptFrom(<< >>, calls, outputs) = << >>
<1>1. [k \in DOMAIN << >> |-> Normalized(<< >>[k], calls, outputs)] = << >>
  OBVIOUS
<1> QED
  BY <1>1, FlattenEmpty DEF PromptFrom

LEMMA ForPromptIsSeq ==
  ASSUME NEW A, \A y \in A : Aborted(y) \in A, NEW h \in Seq(A)
  PROVE  ForPrompt(h) \in Seq(A)
<1>1. ForPrompt(h) = PromptFrom(h, IdsOf(h, "call"), IdsOf(h, "output"))
  BY DEF ForPrompt, PromptFrom
<1>2. CASE h = << >>
  BY <1>1, <1>2, PromptEmpty
<1>3. CASE h # << >>
  <2>1. PICK x \in A : TRUE
    BY <1>3, SequenceEmptyOrAppend
  <2> QED
    BY <1>1, PromptAppend
<1> QED
  BY <1>2, <1>3

\* Compaction leaves what users said, and the summary.
LEMMA CompactedIsSeq ==
  ASSUME NEW A, \A y \in A : Aborted(y) \in A, NEW h \in Seq(A),
         NEW summary \in A, summary.kind = "user"
  PROVE  Compacted(h, summary) \in Seq({y \in A : y.kind = "user"})
<1> DEFINE prompt == ForPrompt(h)
           I      == {i \in 1 .. Len(prompt) : prompt[i].kind = "user"}
           last   == SelectLastInSeq(prompt, LAMBDA item : item.kind = "user")
           U      == {y \in A : y.kind = "user"}
           tail   == IF last = 0 THEN << >> ELSE <<prompt[last]>>
<1>1. prompt \in Seq(A) /\ Len(prompt) \in Nat
  BY ForPromptIsSeq, LenProperties
<1>2. last = IF I # {} THEN Max(I) ELSE 0
  BY DEF SelectLastInSeq
<1>3. Compacted(h, summary) = <<summary>> \o tail
  BY DEF Compacted
<1> HIDE DEF last, prompt
<1>4. tail \in Seq(U)
  <2>1. CASE last = 0
    BY <2>1
  <2>2. CASE last # 0
    <3>1. I # {} /\ I \subseteq 1 .. Len(prompt)
      BY <1>2, <2>2
    <3> HIDE DEF I
    <3>2. last \in I
      BY <1>1, <1>2, <3>1, MaxOfPlaces
    <3>3. prompt[last] \in U
      BY <1>1, <3>2, ElementOfSeq DEF I
    <3> QED
      BY <2>2, <3>3
  <2> QED
    BY <2>1, <2>2
<1>5. <<summary>> \in Seq(U)
  OBVIOUS
<1> HIDE DEF tail, U
<1> QED
  BY <1>3, <1>4, <1>5, ConcatProperties DEF U

Kinds == {"user", "assistant", "other", "call", "output"}
Items ==
  {item \in [kind : Kinds, id : Calls \union {NoId, InvalidId}, n : Nat,
             turn : 0 .. MaxTurns, long : BOOLEAN] :
     item.kind # "output" => item.id \in Calls \union {NoId}}

LEMMA AbortedIs ==
  ASSUME NEW y \in Items
  PROVE  Aborted(y) \in Items /\ Aborted(y).kind = "output" /\ Aborted(y).id = y.id
BY DEF Aborted, Items, Kinds

\* Every output but those for calls without an id comes after its call.
CallsFirst(h) ==
  \A j \in 1 .. Len(h) : h[j].kind = "output" =>
    \/ h[j].id = InvalidId
    \/ \E i \in 1 .. j - 1 : h[i].kind = "call" /\ h[i].id = h[j].id

\* What the prompt p has of the history c.
PairedSoFar(c, p, calls, outputs) ==
  /\ \A i \in 1 .. Len(p) : p[i].kind = "call" =>
       /\ \E k \in 1 .. Len(c) : c[k] = p[i]
       /\ \/ p[i].id \in outputs
          \/ \E j \in 1 .. Len(p) : p[j].kind = "output" /\ p[j].id = p[i].id
  /\ \A j \in 1 .. Len(p) : p[j].kind = "output" =>
       \E i \in 1 .. j - 1 : p[i].kind = "call" /\ p[i].id = p[j].id
  /\ \A k \in 1 .. Len(c) :
       c[k].kind = "call" \/ (c[k].kind = "output" /\ c[k].id \in calls) =>
         \E i \in 1 .. Len(p) : p[i] = c[k]

\* The prompt of one item more.
LEMMA PairedStep ==
  ASSUME NEW c \in Seq(Items), NEW x \in Items, NEW calls, NEW outputs,
         InvalidId \notin calls, CallsFirst(Append(c, x)),
         NEW p \in Seq(Items), PairedSoFar(c, p, calls, outputs)
  PROVE  PairedSoFar(Append(c, x), p \o Normalized(x, calls, outputs), calls, outputs)
<1> DEFINE n == Len(c)
           m == Len(p)
           t == Append(c, x)
           q == p \o Normalized(x, calls, outputs)
<1>1. n \in Nat /\ m \in Nat
  BY LenProperties
<1>2. Len(t) = n + 1 /\ t[n + 1] = x /\ \A i \in 1 .. n : t[i] = c[i]
  BY AppendProperties
<1>3. x.kind = "output" /\ x.id \in calls =>
        \E i \in 1 .. m : p[i].kind = "call" /\ p[i].id = x.id
  <2> SUFFICES ASSUME x.kind = "output", x.id \in calls
               PROVE  \E i \in 1 .. m : p[i].kind = "call" /\ p[i].id = x.id
    OBVIOUS
  <2>1. n + 1 \in 1 .. Len(t) /\ t[n + 1] = x
    BY <1>1, <1>2
  <2>2. PICK k \in 1 .. n : c[k].kind = "call" /\ c[k].id = x.id
    BY <1>1, <1>2, <2>1 DEF CallsFirst
  <2> QED
    BY <2>2 DEF PairedSoFar
<1>4. /\ \A i \in 1 .. m : p[i].kind = "call" =>
           /\ \E k \in 1 .. n : c[k] = p[i]
           /\ \/ p[i].id \in outputs
              \/ \E j \in 1 .. m : p[j].kind = "output" /\ p[j].id = p[i].id
      /\ \A j \in 1 .. m : p[j].kind = "output" =>
           \E i \in 1 .. j - 1 : p[i].kind = "call" /\ p[i].id = p[j].id
      /\ \A k \in 1 .. n :
           c[k].kind = "call" \/ (c[k].kind = "output" /\ c[k].id \in calls) =>
             \E i \in 1 .. m : p[i] = c[k]
  BY DEF PairedSoFar
<1> HIDE DEF t
<1>5. CASE x.kind = "output" /\ x.id \notin calls
  <2>1. q = p
    BY <1>5, ConcatEmptySeq DEF Normalized
  <2> HIDE DEF q
  <2>2. /\ \A i \in 1 .. n : i \in 1 .. n + 1
        /\ \A i \in 1 .. n + 1 : i \in 1 .. n \/ i = n + 1
    BY <1>1
  <2>3. ASSUME NEW i \in 1 .. m, p[i].kind = "call"
        PROVE  /\ \E k \in 1 .. n + 1 : t[k] = p[i]
               /\ \/ p[i].id \in outputs
                  \/ \E j \in 1 .. m : p[j].kind = "output" /\ p[j].id = p[i].id
    <3>1. PICK k \in 1 .. n : c[k] = p[i]
      BY <1>4, <2>3
    <3> QED
      BY <1>2, <1>4, <2>2, <2>3, <3>1
  <2>4. ASSUME NEW k \in 1 .. n + 1,
               t[k].kind = "call" \/ (t[k].kind = "output" /\ t[k].id \in calls)
        PROVE  \E i \in 1 .. m : p[i] = t[k]
    <3>1. k # n + 1
      BY <1>2, <1>5, <2>4
    <3>2. k \in 1 .. n /\ t[k] = c[k]
      BY <1>2, <2>2, <3>1
    <3> QED
      BY <1>4, <2>4, <3>2
  <2>5. PairedSoFar(t, p, calls, outputs)
    <3>1. \A j \in 1 .. m : p[j].kind = "output" =>
            \E i \in 1 .. j - 1 : p[i].kind = "call" /\ p[i].id = p[j].id
      BY <1>4
    <3> HIDE DEF n, m
    <3> QED
      BY <1>2, <2>3, <2>4, <3>1, ZenonT(30) DEF PairedSoFar, n, m
  <2> QED
    BY <2>1, <2>5 DEF t, q
\* Otherwise x itself stands next in the prompt, and perhaps an answer to it.
<1>6. ASSUME NEW s \in Nat, s >= m + 1, Len(q) = s, q[m + 1] = x,
             \A i \in 1 .. m : q[i] = p[i],
             ~(x.kind = "output" /\ x.id \notin calls),
             \A i \in m + 2 .. s : q[i].kind = "output" /\ q[i].id = x.id /\ x.kind = "call",
             x.kind = "call" /\ x.id \notin outputs => m + 2 \in 1 .. s
      PROVE  PairedSoFar(t, q, calls, outputs)
  <2> HIDE DEF q
  <2>1. \A i \in 1 .. s : i \in 1 .. m \/ i = m + 1 \/ i \in m + 2 .. s
    BY <1>1, <1>6
  <2>2. /\ m + 1 \in 1 .. s /\ n + 1 \in 1 .. n + 1
        /\ \A i \in 1 .. m : i \in 1 .. s
        /\ \A i \in 1 .. n : i \in 1 .. n + 1
        /\ \A i \in 1 .. n + 1 : i \in 1 .. n \/ i = n + 1
    BY <1>1, <1>6
  <2>3. ASSUME NEW i \in 1 .. s, q[i].kind = "call"
        PROVE  /\ \E k \in 1 .. n + 1 : t[k] = q[i]
               /\ \/ q[i].id \in outputs
                  \/ \E j \in 1 .. s : q[j].kind = "output" /\ q[j].id = q[i].id
    <3>1. CASE i \in 1 .. m
      <4>1. q[i] = p[i] /\ p[i].kind = "call"
        BY <1>6, <2>3, <3>1
      <4>2. PICK k \in 1 .. n : c[k] = p[i]
        BY <1>4, <3>1, <4>1
      <4>3. p[i].id \in outputs
            \/ \E j \in 1 .. m : p[j].kind = "output" /\ p[j].id = p[i].id
        BY <1>4, <3>1, <4>1
      <4> QED
        BY <1>2, <1>6, <2>2, <4>1, <4>2, <4>3
    <3>2. CASE i = m + 1
      <4>1. x.id \notin outputs =>
              q[m + 2].kind = "output" /\ q[m + 2].id = x.id /\ m + 2 \in 1 .. s
        BY <1>1, <1>6, <2>3, <3>2
      <4> QED
        BY <1>2, <1>6, <2>2, <2>3, <3>2, <4>1
    <3>3. CASE i \in m + 2 .. s
      BY <1>6, <2>3, <3>3
    <3> QED
      BY <2>1, <3>1, <3>2, <3>3
  <2>4. ASSUME NEW j \in 1 .. s, q[j].kind = "output"
        PROVE  \E i \in 1 .. j - 1 : q[i].kind = "call" /\ q[i].id = q[j].id
    <3>1. CASE j \in 1 .. m
      <4>1. PICK i \in 1 .. j - 1 : p[i].kind = "call" /\ p[i].id = p[j].id
        BY <1>4, <1>6, <2>4, <3>1
      <4>2. i \in 1 .. m
        BY <1>1, <3>1
      <4> QED
        BY <1>6, <3>1, <4>1, <4>2
    <3>2. CASE j = m + 1
      <4>1. x.kind = "output" /\ x.id \in calls
        BY <1>6, <2>4, <3>2
      <4>2. PICK i \in 1 .. m : p[i].kind = "call" /\ p[i].id = x.id
        BY <1>3, <4>1
      <4>3. i \in 1 .. j - 1
        BY <1>1, <3>2
      <4> QED
        BY <1>6, <3>2, <4>2, <4>3
    <3>3. CASE j \in m + 2 .. s
      <4>1. m + 1 \in 1 .. j - 1
        BY <1>1, <3>3
      <4>2. q[j].id = x.id /\ x.kind = "call"
        BY <1>6, <3>3
      <4> QED
        BY <1>6, <4>1, <4>2
    <3> QED
      BY <2>1, <3>1, <3>2, <3>3
  <2>5. ASSUME NEW k \in 1 .. n + 1,
               t[k].kind = "call" \/ (t[k].kind = "output" /\ t[k].id \in calls)
        PROVE  \E i \in 1 .. s : q[i] = t[k]
    <3>1. CASE k \in 1 .. n
      <4>1. PICK i \in 1 .. m : p[i] = c[k]
        BY <1>2, <1>4, <2>5, <3>1
      <4> QED
        BY <1>2, <1>6, <2>2, <3>1, <4>1
    <3>2. CASE k = n + 1
      BY <1>2, <1>6, <2>2, <3>2
    <3> QED
      BY <2>2, <3>1, <3>2
  <2>6. Len(t) = n + 1 /\ Len(q) = s
    BY <1>2, <1>6
  <2>7. \A i \in 1 .. Len(q) : q[i].kind = "call" =>
          /\ \E k \in 1 .. Len(t) : t[k] = q[i]
          /\ \/ q[i].id \in outputs
             \/ \E j \in 1 .. Len(q) : q[j].kind = "output" /\ q[j].id = q[i].id
    BY <2>3, <2>6, Zenon
  <2>8. \A j \in 1 .. Len(q) : q[j].kind = "output" =>
          \E i \in 1 .. j - 1 : q[i].kind = "call" /\ q[i].id = q[j].id
    BY <2>4, <2>6, Zenon
  <2>9. \A k \in 1 .. Len(t) :
          t[k].kind = "call" \/ (t[k].kind = "output" /\ t[k].id \in calls) =>
            \E i \in 1 .. Len(q) : q[i] = t[k]
    BY <2>5, <2>6, Zenon
  <2> QED
    BY <2>7, <2>8, <2>9, Zenon DEF PairedSoFar
<1>7. CASE x.kind = "call" /\ x.id \notin outputs
  <2> DEFINE a == Aborted(x)
  <2>1. a \in Items /\ a.kind = "output" /\ a.id = x.id
    BY AbortedIs
  <2> HIDE DEF a
  <2>2. Normalized(x, calls, outputs) = <<x, a>>
    BY <1>7 DEF Normalized, a
  <2>3. <<x, a>> \in Seq(Items) /\ Len(<<x, a>>) = 2 /\ <<x, a>>[1] = x /\ <<x, a>>[2] = a
    BY <2>1
  <2>4. Len(q) = m + 2 /\ q[m + 1] = x /\ q[m + 2] = a /\ \A i \in 1 .. m : q[i] = p[i]
    BY <1>1, <2>2, <2>3, ConcatProperties
  <2> HIDE DEF q
  <2>5. m + 2 \in Nat /\ m + 2 >= m + 1 /\ m + 2 \in 1 .. m + 2
        /\ \A i \in m + 2 .. m + 2 : i = m + 2
    BY <1>1
  <2>6. PairedSoFar(t, q, calls, outputs)
    BY <1>6, <1>7, <2>1, <2>4, <2>5
  <2> QED
    BY <2>6 DEF t, q
<1>8. CASE ~(x.kind = "output" /\ x.id \notin calls) /\ ~(x.kind = "call" /\ x.id \notin outputs)
  <2>1. Normalized(x, calls, outputs) = <<x>>
    BY <1>8 DEF Normalized
  <2>2. Len(q) = m + 1 /\ q[m + 1] = x /\ \A i \in 1 .. m : q[i] = p[i]
    <3>1. <<x>> \in Seq(Items) /\ Len(<<x>>) = 1 /\ <<x>>[1] = x
      OBVIOUS
    <3> QED
      BY <1>1, <2>1, <3>1, ConcatProperties
  <2> HIDE DEF q
  <2>3. m + 1 \in Nat /\ m + 1 >= m + 1 /\ \A i \in m + 2 .. m + 1 : FALSE
    BY <1>1
  <2>4. PairedSoFar(t, q, calls, outputs)
    BY <1>6, <1>8, <2>2, <2>3
  <2> QED
    BY <2>4 DEF t, q
<1> QED
  BY <1>5, <1>7, <1>8

LEMMA ItemsPrompt ==
  ASSUME NEW b \in Seq(Items), NEW x \in Items, NEW calls, NEW outputs
  PROVE  /\ PromptFrom(b, calls, outputs) \in Seq(Items)
         /\ PromptFrom(Append(b, x), calls, outputs) =
              PromptFrom(b, calls, outputs) \o Normalized(x, calls, outputs)
<1>1. \A y \in Items : Aborted(y) \in Items
  BY AbortedIs
<1> QED
  BY <1>1, PromptAppend, Z3

\* A history in which outputs follow their calls makes a paired prompt.
LEMMA HistoryPairs ==
  ASSUME InvalidId \notin Calls, NEW h \in Seq(Items), CallsFirst(h)
  PROVE  Paired(ForPrompt(h))
<1> DEFINE calls   == IdsOf(h, "call")
           outputs == IdsOf(h, "output")
           P == {n \in Nat : \A c \in Seq(Items) : Len(c) = n /\ CallsFirst(c) =>
                   PairedSoFar(c, PromptFrom(c, calls, outputs), calls, outputs)}
           p == ForPrompt(h)
<1>1. Len(h) \in Nat /\ DOMAIN h = 1 .. Len(h)
  BY LenProperties
<1>2. ToSet(h) = {h[i] : i \in 1 .. Len(h)}
  BY <1>1 DEF ToSet
<1>3. \A id : id \in calls <=>
        id # NoId /\ \E i \in 1 .. Len(h) : h[i].kind = "call" /\ h[i].id = id
  BY <1>2 DEF IdsOf
<1>4. \A id : id \in outputs <=>
        id # NoId /\ \E i \in 1 .. Len(h) : h[i].kind = "output" /\ h[i].id = id
  BY <1>2 DEF IdsOf
<1>5. p = PromptFrom(h, calls, outputs)
  BY DEF ForPrompt, PromptFrom
<1>6. \A y \in Items : Aborted(y) \in Items
  BY AbortedIs
<1> HIDE DEF calls, outputs, p
<1>7. InvalidId \notin calls
  <2>1. \A i \in 1 .. Len(h) : h[i] \in Items
    BY ElementOfSeq
  <2>2. \A i \in 1 .. Len(h) : h[i].kind = "call" => h[i].id # InvalidId
    BY <2>1 DEF Items, NoId, InvalidId
  <2> QED
    BY <1>3, <2>2
<1> HIDE DEF P
<1>8. 0 \in P
  <2> SUFFICES ASSUME NEW c \in Seq(Items), Len(c) = 0
               PROVE  PairedSoFar(c, PromptFrom(c, calls, outputs), calls, outputs)
    BY DEF P
  <2>1. PromptFrom(c, calls, outputs) = << >>
    BY EmptySeq, PromptEmpty
  <2> QED
    BY <2>1 DEF PairedSoFar
<1>9. ASSUME NEW n \in P PROVE n + 1 \in P
  <2> SUFFICES ASSUME NEW c \in Seq(Items), Len(c) = n + 1, CallsFirst(c)
               PROVE  PairedSoFar(c, PromptFrom(c, calls, outputs), calls, outputs)
    BY DEF P
  <2>1. PICK b \in Seq(Items), x \in Items : c = Append(b, x) /\ Len(b) = n
    <3>1. n \in Nat
      BY DEF P
    <3> QED
      BY <3>1, ByItsLast
  <2>2. CallsFirst(b)
    <3>1. Len(c) = Len(b) + 1 /\ \A i \in 1 .. Len(b) : c[i] = b[i]
      BY <2>1, AppendProperties
    <3> QED
      BY <2>1, <3>1 DEF CallsFirst
  <2>3. PairedSoFar(b, PromptFrom(b, calls, outputs), calls, outputs)
    BY <2>1, <2>2 DEF P
  <2>4. /\ PromptFrom(b, calls, outputs) \in Seq(Items)
        /\ PromptFrom(c, calls, outputs) =
             PromptFrom(b, calls, outputs) \o Normalized(x, calls, outputs)
    <3>1. /\ PromptFrom(b, calls, outputs) \in Seq(Items)
          /\ PromptFrom(Append(b, x), calls, outputs) =
               PromptFrom(b, calls, outputs) \o Normalized(x, calls, outputs)
      BY <2>1, ItemsPrompt
    <3> QED
      BY <2>1, <3>1
  <2> QED
    BY <1>7, <2>1, <2>3, <2>4, PairedStep
<1>10. Len(h) \in P
  BY <1>1, <1>8, <1>9, Induction
<1>11. PairedSoFar(h, p, calls, outputs)
  BY <1>5, <1>10 DEF P
<1>12. p \in Seq(Items)
  BY <1>6, ForPromptIsSeq DEF p
<1>13. DOMAIN p = 1 .. Len(p)
  BY <1>12, LenProperties
<1>14. ASSUME NEW i \in 1 .. Len(p), p[i].kind = "call", p[i].id \in outputs
       PROVE  \E j \in 1 .. Len(p) : p[j].kind = "output" /\ p[j].id = p[i].id
  <2>1. PICK k \in 1 .. Len(h) : h[k] = p[i]
    BY <1>11, <1>14 DEF PairedSoFar
  <2>2. p[i].id \in calls
    BY <1>3, <1>4, <1>14, <2>1
  <2>3. PICK o \in 1 .. Len(h) : h[o].kind = "output" /\ h[o].id = p[i].id
    BY <1>4, <1>14
  <2>4. \E j \in 1 .. Len(p) : p[j] = h[o]
    BY <1>11, <2>2, <2>3 DEF PairedSoFar
  <2> QED
    BY <2>3, <2>4
<1> QED
  BY <1>11, <1>13, <1>14 DEF Paired, PairedSoFar, p

-----------------------------------------------------------------------------
(* Lines, one at a time.                                                   *)

Ends == {"turn_complete", "turn_failed", "turn_aborted"}
LineTypes ==
  Ends \union {"session_meta", "turn_started", "turn_context", "event",
               "response_item", "compacted", "torn"}
Lines == [type : LineTypes, ordinal : Nat, turn : 0 .. MaxTurns, items : Seq(Items)]

Numbered(line, o) == [line EXCEPT !.ordinal = o]

LEMMA LineIsTyped ==
  ASSUME NEW type \in LineTypes, NEW items \in Seq(Items), NEW t \in 0 .. MaxTurns,
         NEW o \in Nat
  PROVE  /\ Line(type, items, t) \in Lines
         /\ Numbered(Line(type, items, t), o) \in Lines
         /\ Numbered(Line(type, items, t), o).type = type
         /\ Numbered(Line(type, items, t), o).items = items
         /\ Numbered(Line(type, items, t), o).turn = t
         /\ Numbered(Line(type, items, t), o).ordinal = o
BY DEF Line, Lines, Numbered

\* A line without items.
Plain(type, t) == Line(type, << >>, t)

LEMMA PlainIsTyped ==
  ASSUME NEW type \in LineTypes, NEW t \in 0 .. MaxTurns, NEW o \in Nat
  PROVE  /\ Plain(type, t).type = type
         /\ Numbered(Plain(type, t), o) \in Lines
         /\ Numbered(Plain(type, t), o).type = type
         /\ Numbered(Plain(type, t), o).turn = t
<1> DEFINE e == << >>
<1>1. e \in Seq(Items)
  OBVIOUS
<1>2. Plain(type, t) = Line(type, e, t)
  BY DEF Plain
<1> HIDE DEF e
<1> QED
  BY <1>1, <1>2, LineIsTyped DEF Line

LEMMA TornIsTyped == Torn \in Lines /\ Torn.type = "torn"
<1>1. 0 \in 0 .. MaxTurns
  BY RolloutAssumption
<1>2. << >> \in Seq(Items)
  OBVIOUS
<1> QED
  BY <1>1, <1>2 DEF Torn, Lines, LineTypes

\* Where the last turn started, and that it has not ended.
LastStart(f, k, t) ==
  /\ f[k].type = "turn_started" /\ f[k].turn = t
  /\ \A j \in k + 1 .. Len(f) : f[j].type # "turn_started"
Running(f, t) ==
  \E k \in 1 .. Len(f) : LastStart(f, k, t) /\ \A i \in k + 1 .. Len(f) : f[i].type \notin Ends

\* ItemsInTheirTurn, looked at from the item.
InTheirTurn(f) ==
  \A i \in 1 .. Len(f) : f[i].type = "response_item" =>
    /\ f[i].items[1].turn = f[i].turn
    /\ \A k \in 1 .. i - 1 :
         f[k].type = "turn_started" /\ (\A j \in k + 1 .. i - 1 : f[j].type # "turn_started")
           => f[k].turn = f[i].turn

\* What one line more says of the last turn.
LEMMA RunningAppend ==
  ASSUME NEW L, NEW f \in Seq(L), NEW x \in L, NEW t
  PROVE  /\ x.type = "turn_started" /\ x.turn = t => Running(Append(f, x), t)
         /\ Running(f, t) /\ x.type # "turn_started" /\ x.type \notin Ends
              => Running(Append(f, x), t)
<1> DEFINE n == Len(f)
           g == Append(f, x)
<1>1. n \in Nat /\ Len(g) = n + 1 /\ g[n + 1] = x /\ \A i \in 1 .. n : g[i] = f[i]
  BY AppendProperties, LenProperties
<1> HIDE DEF g
<1>2. ASSUME x.type = "turn_started", x.turn = t PROVE Running(g, t)
  <2>1. n + 1 \in 1 .. Len(g)
    BY <1>1
  <2> QED
    BY <1>1, <1>2, <2>1 DEF Running, LastStart
<1>3. ASSUME NEW k \in 1 .. n, LastStart(f, k, t), x.type # "turn_started"
      PROVE  k \in 1 .. n + 1 /\ LastStart(g, k, t)
  BY <1>1, <1>3 DEF LastStart
<1>4. ASSUME Running(f, t), x.type # "turn_started", x.type \notin Ends PROVE Running(g, t)
  BY <1>1, <1>3, <1>4 DEF Running
<1> QED
  BY <1>2, <1>4 DEF g

\* An item of the running turn, or a line that is none, stays in its turn.
LEMMA InTheirTurnAppend ==
  ASSUME NEW L, NEW f \in Seq(L), NEW x \in L, InTheirTurn(f),
         x.type = "response_item" => x.items[1].turn = x.turn /\ Running(f, x.turn)
  PROVE  InTheirTurn(Append(f, x))
<1> DEFINE n == Len(f)
           g == Append(f, x)
<1>1. n \in Nat /\ Len(g) = n + 1 /\ g[n + 1] = x /\ \A i \in 1 .. n : g[i] = f[i]
  BY AppendProperties, LenProperties
<1> HIDE DEF g
<1> SUFFICES ASSUME NEW i \in 1 .. n + 1, g[i].type = "response_item"
             PROVE  /\ g[i].items[1].turn = g[i].turn
                    /\ \A k \in 1 .. i - 1 :
                         g[k].type = "turn_started"
                           /\ (\A j \in k + 1 .. i - 1 : g[j].type # "turn_started")
                         => g[k].turn = g[i].turn
  BY <1>1 DEF InTheirTurn, g
<1>2. CASE i = n + 1
  <2>1. x.items[1].turn = x.turn /\ g[i] = x
    BY <1>1, <1>2
  <2>2. PICK l \in 1 .. n : LastStart(f, l, x.turn)
    BY <1>1, <1>2 DEF Running
  <2>3. ASSUME NEW k \in 1 .. i - 1, g[k].type = "turn_started",
               \A j \in k + 1 .. i - 1 : g[j].type # "turn_started"
        PROVE  g[k].turn = x.turn
    <3>1. k \in 1 .. n /\ g[k] = f[k] /\ g[l] = f[l]
      BY <1>1, <1>2, <2>3
    <3>2. ~(k < l) /\ ~(l < k)
      BY <1>1, <1>2, <2>2, <2>3, <3>1 DEF LastStart
    <3>3. k = l
      BY <2>2, <3>1, <3>2
    <3> QED
      BY <2>2, <3>1, <3>3 DEF LastStart
  <2> QED
    BY <2>1, <2>3
<1>3. CASE i # n + 1
  <2>1. i \in 1 .. n /\ g[i] = f[i] /\ \A k \in 1 .. i - 1 : g[k] = f[k]
    BY <1>1, <1>3
  <2>2. /\ g[i].items[1].turn = g[i].turn
        /\ \A k \in 1 .. i - 1 :
             f[k].type = "turn_started" /\ (\A j \in k + 1 .. i - 1 : f[j].type # "turn_started")
               => f[k].turn = g[i].turn
    BY <2>1 DEF InTheirTurn
  <2>3. ASSUME NEW k \in 1 .. i - 1, g[k].type = "turn_started",
               \A j \in k + 1 .. i - 1 : g[j].type # "turn_started"
        PROVE  g[k].turn = g[i].turn
    <3>1. \A j \in k + 1 .. i - 1 : j \in 1 .. i - 1
      BY <1>1
    <3>2. \A j \in k + 1 .. i - 1 : f[j].type # "turn_started"
      BY <2>1, <2>3, <3>1
    <3> QED
      BY <2>1, <2>2, <2>3, <3>2
  <2> QED
    BY <2>2, <2>3
<1> QED
  BY <1>2, <1>3

\* What holds of any file, whoever wrote it.
Kept(f) == Restored(Replay(f))
FileGood(f) == f \in Seq(Lines) /\ InTheirTurn(f) /\ CallsFirst(Kept(f))

HistoryItems == {y \in Items : y.kind \in Conversational}

\* What is restored of typed lines is typed.
LEMMA KeptIsHistory ==
  ASSUME NEW f \in Seq(Lines)
  PROVE  Replay(f) \in Seq(Items) /\ Kept(f) \in Seq(HistoryItems)
<1>1. \A y \in Lines : y.items \in Seq(Items)
  BY DEF Lines
<1>2. Torn \in Lines
  BY TornIsTyped
<1>3. Replay(f) \in Seq(Items)
  BY <1>1, <1>2, ReplayAppend
<1> QED
  BY <1>3, RestoredIsSeq DEF Kept, HistoryItems

\* What one line more changes of what is restored, kept and well formed.
LEMMA LineAppend ==
  ASSUME NEW f \in Seq(Lines), NEW x \in Lines
  PROVE  /\ Append(f, x) \in Seq(Lines)
         /\ Replay(Append(f, x)) = IF x.type = "compacted" THEN x.items
                                   ELSE IF x.type = "response_item"
                                        THEN Replay(f) \o x.items ELSE Replay(f)
<1>1. \A y \in Lines : y.items \in Seq(Items)
  BY DEF Lines
<1>2. Append(f, x) \in Seq(Lines)
  BY AppendProperties
<1> QED
  BY <1>1, <1>2, ReplayAppend

\* A line that is neither an item nor a compaction.
LEMMA PlainAppend ==
  ASSUME NEW f, FileGood(f), NEW x \in Lines, x.type \notin {"response_item", "compacted"}
  PROVE  FileGood(Append(f, x)) /\ Kept(Append(f, x)) = Kept(f)
BY LineAppend, InTheirTurnAppend DEF FileGood, Kept

HasCall(h, id) == \E i \in 1 .. Len(h) : h[i].kind = "call" /\ h[i].id = id

\* An output follows its call, if it is not the answer to a call without an id.
Answers(h, y) == y.kind = "output" => y.id = InvalidId \/ HasCall(h, y.id)

LEMMA ExtendedIs ==
  ASSUME NEW h \in Seq(HistoryItems), NEW y \in Items
  PROVE  /\ Extended(h, <<y>>) \in Seq(HistoryItems)
         /\ Extended(h, <<y>>) = IF y.kind \in Conversational THEN Append(h, y) ELSE h
<1>1. << >> \in Seq(Items) /\ <<y>> = Append(<< >>, y)
  OBVIOUS
<1>2. Restored(<<y>>) = IF y.kind \in Conversational THEN Append(<< >>, y) ELSE << >>
  <2>1. Restored(Append(<< >>, y)) = IF y.kind \in Conversational
                                     THEN Append(Restored(<< >>), y) ELSE Restored(<< >>)
    BY <1>1, RestoredAppend
  <2> QED
    BY <1>1, <2>1, RestoredEmpty
<1>3. CASE y.kind \in Conversational
  <2>1. y \in HistoryItems
    BY <1>3 DEF HistoryItems
  <2>2. Extended(h, <<y>>) = Append(h, y)
    BY <1>1, <1>2, <1>3, <2>1, AppendIsConcat DEF Extended
  <2> QED
    BY <1>3, <2>1, <2>2, AppendProperties
<1>4. CASE y.kind \notin Conversational
  <2>1. h \o << >> = h
    BY ConcatEmptySeq
  <2>2. Extended(h, <<y>>) = h
    BY <1>2, <1>4, <2>1 DEF Extended
  <2> QED
    BY <1>4, <2>2
<1> QED
  BY <1>3, <1>4

LEMMA ExtendedByOne ==
  ASSUME NEW h \in Seq(HistoryItems), CallsFirst(h), NEW y \in Items, Answers(h, y)
  PROVE  CallsFirst(Extended(h, <<y>>))
<1>1. CASE y.kind \in Conversational
  <2> DEFINE g == Append(h, y)
  <2>1. Extended(h, <<y>>) = g /\ y \in HistoryItems
    BY <1>1, ExtendedIs DEF HistoryItems
  <2>2. /\ Len(g) = Len(h) + 1 /\ Len(h) \in Nat
        /\ g[Len(h) + 1] = y /\ \A i \in 1 .. Len(h) : g[i] = h[i]
    BY <2>1, AppendProperties, LenProperties
  <2> HIDE DEF g
  <2> SUFFICES ASSUME NEW j \in 1 .. Len(h) + 1, g[j].kind = "output", g[j].id # InvalidId
               PROVE  \E i \in 1 .. j - 1 : g[i].kind = "call" /\ g[i].id = g[j].id
    BY <2>1, <2>2 DEF CallsFirst
  <2>3. CASE j = Len(h) + 1
    <3>1. g[j] = y
      BY <2>2, <2>3
    <3>2. PICK i \in 1 .. Len(h) : h[i].kind = "call" /\ h[i].id = y.id
      BY <3>1 DEF Answers, HasCall
    <3>3. i \in 1 .. j - 1 /\ g[i] = h[i]
      BY <2>2, <2>3, <3>2
    <3> QED
      BY <3>1, <3>2, <3>3
  <2>4. CASE j # Len(h) + 1
    <3>1. j \in 1 .. Len(h) /\ g[j] = h[j] /\ \A i \in 1 .. j - 1 : g[i] = h[i]
      BY <2>2, <2>4
    <3>2. PICK i \in 1 .. j - 1 : h[i].kind = "call" /\ h[i].id = h[j].id
      BY <3>1 DEF CallsFirst
    <3> QED
      BY <3>1, <3>2
  <2> QED
    BY <2>3, <2>4
<1>2. CASE y.kind \notin Conversational
  BY <1>2, ExtendedIs
<1> QED
  BY <1>1, <1>2

\* Nothing takes a call out of a history that grows.
LEMMA CallsStay ==
  ASSUME NEW h \in Seq(HistoryItems), NEW y \in Items
  PROVE  /\ \A id : HasCall(h, id) => HasCall(Extended(h, <<y>>), id)
         /\ y.kind = "call" => HasCall(Extended(h, <<y>>), y.id)
<1>1. CASE y.kind \in Conversational
  <2> DEFINE g == Append(h, y)
  <2>1. Extended(h, <<y>>) = g /\ y \in HistoryItems
    BY <1>1, ExtendedIs DEF HistoryItems
  <2>2. /\ Len(g) = Len(h) + 1 /\ Len(h) \in Nat
        /\ g[Len(h) + 1] = y /\ \A i \in 1 .. Len(h) : g[i] = h[i]
    BY <2>1, AppendProperties, LenProperties
  <2>3. Len(h) + 1 \in 1 .. Len(g) /\ \A i \in 1 .. Len(h) : i \in 1 .. Len(g)
    BY <2>2
  <2> HIDE DEF g
  <2> QED
    BY <2>1, <2>2, <2>3 DEF HasCall
<1>2. CASE y.kind \notin Conversational
  BY <1>2, ExtendedIs DEF Conversational
<1> QED
  BY <1>1, <1>2

\* An item of the running turn that answers an earlier call, if any.
LEMMA ItemAppend ==
  ASSUME NEW f, FileGood(f), NEW y \in Items, Answers(Kept(f), y),
         NEW x \in Lines, x.type = "response_item", x.items = <<y>>, x.turn = y.turn,
         Running(f, y.turn)
  PROVE  /\ FileGood(Append(f, x)) /\ Running(Append(f, x), y.turn)
         /\ Kept(Append(f, x)) = Extended(Kept(f), <<y>>)
<1>1. f \in Seq(Lines) /\ <<y>> \in Seq(Items) /\ <<y>>[1] = y
  BY DEF FileGood
<1>2. Replay(f) \in Seq(Items) /\ Kept(f) \in Seq(HistoryItems)
  BY <1>1, KeptIsHistory
<1>3. Append(f, x) \in Seq(Lines) /\ Replay(Append(f, x)) = Replay(f) \o <<y>>
  BY <1>1, LineAppend
<1>4. Kept(Append(f, x)) = Extended(Kept(f), <<y>>)
  BY <1>1, <1>2, <1>3, RestoredConcat DEF Kept, Extended
<1>5. CallsFirst(Kept(Append(f, x)))
  BY <1>2, <1>4, ExtendedByOne DEF FileGood
<1>6. InTheirTurn(Append(f, x))
  BY <1>1, InTheirTurnAppend DEF FileGood
<1>7. Running(Append(f, x), y.turn)
  <2>1. x.type # "turn_started" /\ x.type \notin Ends
    BY DEF Ends
  <2> QED
    BY <1>1, <2>1, RunningAppend
<1> QED
  BY <1>3, <1>4, <1>5, <1>6, <1>7 DEF FileGood

\* A compaction: what was kept before is forgotten.
LEMMA CompactionAppend ==
  ASSUME NEW f, FileGood(f), NEW x \in Lines, x.type = "compacted",
         x.items \in Seq({y \in Items : y.kind = "user"})
  PROVE  FileGood(Append(f, x)) /\ Kept(Append(f, x)) = Restored(x.items)
<1>1. f \in Seq(Lines)
  BY DEF FileGood
<1>2. Append(f, x) \in Seq(Lines) /\ Replay(Append(f, x)) = x.items
  BY <1>1, LineAppend
<1> DEFINE U == {y \in Items : y.kind = "user"}
<1>3. Restored(x.items) \in Seq({y \in U : y.kind \in Conversational})
  BY RestoredIsSeq
<1>4. \A i \in 1 .. Len(Restored(x.items)) : Restored(x.items)[i].kind = "user"
  BY <1>3, ElementOfSeq
<1>5. CallsFirst(Restored(x.items))
  BY <1>4 DEF CallsFirst
<1>6. InTheirTurn(Append(f, x))
  BY <1>1, InTheirTurnAppend DEF FileGood
<1> QED
  BY <1>2, <1>5, <1>6 DEF FileGood, Kept

-----------------------------------------------------------------------------
(* What recordItem appends of one line and of two.                         *)

\* What recordItem leaves behind of one line and of two.
Wrote(r, x) ==
  /\ recorder' \in [up : BOOLEAN, ordinal : Nat, err : BOOLEAN]
  /\ recorder'.up = r.up
  /\ \/ recorder'.err /\ file' = file
     \/ recorder'.err /\ ~r.err /\ file' = Append(file, Torn)
     \/ /\ ~recorder'.err /\ ~r.err /\ recorder'.ordinal = r.ordinal + 1
        /\ file' = Append(file, x)

WrotePair(r, x, y) ==
  /\ recorder' \in [up : BOOLEAN, ordinal : Nat, err : BOOLEAN]
  /\ recorder'.up = r.up
  /\ \/ recorder'.err /\ file' = file
     \/ recorder'.err /\ ~r.err /\ file' = Append(file, Torn)
     \/ recorder'.err /\ ~r.err /\ file' = Append(file, x)
     \/ recorder'.err /\ ~r.err /\ file' = Append(Append(file, x), Torn)
     \/ ~recorder'.err /\ ~r.err /\ file' = Append(Append(file, x), y)

LEMMA PairIsConcat ==
  ASSUME NEW a, NEW b
  PROVE  <<a, b>> = <<a>> \o <<b>>
<1> DEFINE S == {a, b}
<1>1. <<a>> \in Seq(S) /\ <<b>> \in Seq(S) /\ <<a, b>> \in Seq(S)
      /\ Len(<<a>>) = 1 /\ Len(<<b>>) = 1 /\ Len(<<a, b>>) = 2
      /\ <<a>>[1] = a /\ <<b>>[1] = b /\ <<a, b>>[1] = a /\ <<a, b>>[2] = b
  OBVIOUS
<1> HIDE DEF S
<1>2. /\ <<a>> \o <<b>> \in Seq(S) /\ Len(<<a>> \o <<b>>) = 2
      /\ \A i \in 1 .. 2 : (<<a>> \o <<b>>)[i] = IF i <= 1 THEN <<a>>[i] ELSE <<b>>[i - 1]
  BY <1>1, ConcatProperties
<1>3. \A i \in 1 .. 2 : (<<a>> \o <<b>>)[i] = <<a, b>>[i]
  <2>1. (<<a>> \o <<b>>)[1] = a /\ (<<a>> \o <<b>>)[2] = b
    BY <1>1, <1>2
  <2> QED
    BY <1>1, <2>1
<1> QED
  BY <1>1, <1>2, <1>3, SeqEqual

\* One line is appended, cut short or dropped,
LEMMA WriteOne ==
  ASSUME NEW L, file \in Seq(L),
         NEW r \in [up : BOOLEAN, ordinal : Nat, err : BOOLEAN],
         NEW a, Numbered(a, r.ordinal) \in L, Torn \in L, Write(r, <<a>>)
  PROVE  Wrote(r, Numbered(a, r.ordinal))
<1>1. Len(<<a>>) = 1 /\ <<a>>[1] = a
  OBVIOUS
<1>2. PICK k \in 0 .. 1, torn \in BOOLEAN :
        /\ IF r.err THEN k = 0 /\ ~torn ELSE k = 1 \/ Faulty
        /\ torn => k < 1
        /\ file' = file \o [i \in 1 .. k |-> [<<a>>[i] EXCEPT !.ordinal = r.ordinal + i - 1]]
                        \o (IF torn THEN <<Torn>> ELSE << >>)
        /\ recorder' = [r EXCEPT !.ordinal = @ + k, !.err = @ \/ k < 1]
  BY <1>1 DEF Write
<1>3. /\ recorder' \in [up : BOOLEAN, ordinal : Nat, err : BOOLEAN]
      /\ recorder'.up = r.up /\ recorder'.ordinal = r.ordinal + k
      /\ (recorder'.err <=> r.err \/ k < 1)
  <2> DEFINE o == r.ordinal + k
             e == r.err \/ k < 1
  <2>1. o \in Nat /\ e \in BOOLEAN
    BY <1>2
  <2>2. recorder' = [r EXCEPT !.ordinal = o, !.err = e]
    BY <1>2
  <2> HIDE DEF o, e
  <2>3. /\ recorder' \in [up : BOOLEAN, ordinal : Nat, err : BOOLEAN]
        /\ recorder'.up = r.up /\ recorder'.ordinal = o /\ recorder'.err = e
    BY <2>1, <2>2
  <2> QED
    BY <2>3 DEF o, e
<1>4. file \o << >> = file
  BY ConcatEmptySeq
<1>5. CASE k = 0
  <2>1. [i \in 1 .. k |-> [<<a>>[i] EXCEPT !.ordinal = r.ordinal + i - 1]] = << >>
    BY <1>5
  <2>2. CASE torn
    <3>1. file' = file \o <<Torn>>
      BY <1>2, <1>4, <2>1, <2>2
    <3>2. file' = Append(file, Torn)
      BY <3>1, AppendIsConcat
    <3> QED
      BY <1>2, <1>3, <1>5, <2>2, <3>2 DEF Wrote
  <2>3. CASE ~torn
    <3>1. file' = file
      BY <1>2, <1>4, <2>1, <2>3
    <3> QED
      BY <1>2, <1>3, <1>5, <3>1 DEF Wrote
  <2> QED
    BY <2>2, <2>3
<1>6. CASE k = 1
  <2> DEFINE x == Numbered(a, r.ordinal)
             new == [i \in 1 .. k |-> [<<a>>[i] EXCEPT !.ordinal = r.ordinal + i - 1]]
  <2>1. new = <<x>>
    <3>1. r.ordinal + 1 - 1 = r.ordinal
      OBVIOUS
    <3>2. new = [i \in 1 .. 1 |-> x]
      BY <1>1, <1>6, <3>1 DEF Numbered
    <3> HIDE DEF x, new
    <3> QED
      BY <3>2
  <2>2. file' = file \o <<x>> \o << >>
    <3>1. ~torn /\ file' = file \o new \o (IF torn THEN <<Torn>> ELSE << >>)
      BY <1>2, <1>6
    <3> HIDE DEF new
    <3> QED
      BY <2>1, <3>1
  <2> HIDE DEF x
  <2>3. x \in L
    BY DEF x
  <2>4. file \o <<x>> = Append(file, x) /\ Append(file, x) \in Seq(L)
    BY <2>3, AppendIsConcat, AppendProperties
  <2>5. file' = Append(file, x)
    BY <2>2, <2>4, ConcatEmptySeq
  <2>6. ~r.err /\ ~recorder'.err /\ recorder'.ordinal = r.ordinal + 1
    BY <1>2, <1>3, <1>6
  <2>7. Wrote(r, x)
    BY <1>3, <2>5, <2>6 DEF Wrote
  <2> QED
    BY <2>7 DEF x
<1> QED
  BY <1>5, <1>6

\* and of two the first or both.
LEMMA WriteTwo ==
  ASSUME NEW L, file \in Seq(L),
         NEW r \in [up : BOOLEAN, ordinal : Nat, err : BOOLEAN],
         NEW a, Numbered(a, r.ordinal) \in L,
         NEW b, Numbered(b, r.ordinal + 1) \in L, Torn \in L, Write(r, <<a, b>>)
  PROVE  WrotePair(r, Numbered(a, r.ordinal), Numbered(b, r.ordinal + 1))
<1> DEFINE x == Numbered(a, r.ordinal)
           y == Numbered(b, r.ordinal + 1)
<1>1. Len(<<a, b>>) = 2 /\ <<a, b>>[1] = a /\ <<a, b>>[2] = b
  OBVIOUS
<1>2. PICK k \in 0 .. 2, torn \in BOOLEAN :
        /\ IF r.err THEN k = 0 /\ ~torn ELSE k = 2 \/ Faulty
        /\ torn => k < 2
        /\ file' = file \o [i \in 1 .. k |-> [<<a, b>>[i] EXCEPT !.ordinal = r.ordinal + i - 1]]
                        \o (IF torn THEN <<Torn>> ELSE << >>)
        /\ recorder' = [r EXCEPT !.ordinal = @ + k, !.err = @ \/ k < 2]
  BY <1>1 DEF Write
<1>3. /\ recorder' \in [up : BOOLEAN, ordinal : Nat, err : BOOLEAN]
      /\ recorder'.up = r.up
      /\ (recorder'.err <=> r.err \/ k < 2)
  <2> DEFINE o == r.ordinal + k
             e == r.err \/ k < 2
  <2>1. o \in Nat /\ e \in BOOLEAN
    BY <1>2
  <2>2. recorder' = [r EXCEPT !.ordinal = o, !.err = e]
    BY <1>2
  <2> HIDE DEF o, e
  <2>3. /\ recorder' \in [up : BOOLEAN, ordinal : Nat, err : BOOLEAN]
        /\ recorder'.up = r.up /\ recorder'.ordinal = o /\ recorder'.err = e
    BY <2>1, <2>2
  <2> QED
    BY <2>3 DEF o, e
<1> DEFINE new == [i \in 1 .. k |-> [<<a, b>>[i] EXCEPT !.ordinal = r.ordinal + i - 1]]
           cut == IF torn THEN <<Torn>> ELSE << >>
<1>4. \A i \in 1 .. k : new[i] = IF i = 1 THEN x ELSE y
  <2> SUFFICES ASSUME NEW i \in 1 .. k PROVE new[i] = IF i = 1 THEN x ELSE y
    OBVIOUS
  <2>1. new[i] = [<<a, b>>[i] EXCEPT !.ordinal = r.ordinal + i - 1]
    OBVIOUS
  <2>2. CASE i = 1
    <3>1. r.ordinal + i - 1 = r.ordinal /\ <<a, b>>[i] = a
      BY <1>1, <2>2
    <3> QED
      BY <2>1, <2>2, <3>1 DEF Numbered
  <2>3. CASE i # 1
    <3>1. i = 2
      BY <2>3
    <3>2. r.ordinal + i - 1 = r.ordinal + 1 /\ <<a, b>>[i] = b
      BY <1>1, <3>1
    <3> QED
      BY <2>1, <2>3, <3>2 DEF Numbered
  <2> QED
    BY <2>2, <2>3
<1>5. file' = (file \o new) \o cut
  BY <1>2
<1>6. x \in L /\ y \in L
  OBVIOUS
<1>7. new = [i \in 1 .. k |-> new[i]]
  OBVIOUS
<1> HIDE DEF new, x, y
<1>8. ASSUME k = 0 PROVE WrotePair(r, x, y)
  <2>1. new = << >>
    BY <1>7, <1>8
  <2>2. file \o new = file
    BY <2>1, ConcatEmptySeq
  <2>3. CASE torn
    <3>1. file' = Append(file, Torn)
      BY <1>5, <2>2, <2>3, AppendIsConcat
    <3> QED
      BY <1>2, <1>3, <1>8, <2>3, <3>1 DEF WrotePair
  <2>4. CASE ~torn
    <3>1. file' = file
      BY <1>5, <2>2, <2>4, ConcatEmptySeq
    <3> QED
      BY <1>2, <1>3, <1>8, <3>1 DEF WrotePair
  <2> QED
    BY <2>3, <2>4
<1>9. ASSUME k = 1 PROVE WrotePair(r, x, y)
  <2>1. new = <<x>>
    <3>1. new[1] = x
      BY <1>4, <1>9
    <3> QED
      BY <1>7, <1>9, <3>1
  <2>2. file \o new = Append(file, x) /\ Append(file, x) \in Seq(L)
    BY <1>6, <2>1, AppendIsConcat, AppendProperties
  <2>3. CASE torn
    <3>1. file' = Append(Append(file, x), Torn)
      BY <1>5, <2>2, <2>3, AppendIsConcat
    <3>2. ~r.err /\ recorder'.err
      BY <1>2, <1>3, <1>9
    <3> QED
      BY <1>3, <3>1, <3>2 DEF WrotePair
  <2>4. CASE ~torn
    <3>1. file' = Append(file, x)
      BY <1>5, <2>2, <2>4, ConcatEmptySeq
    <3>2. ~r.err /\ recorder'.err
      BY <1>2, <1>3, <1>9
    <3> QED
      BY <1>3, <3>1, <3>2 DEF WrotePair
  <2> QED
    BY <2>3, <2>4
<1>10. ASSUME k = 2 PROVE WrotePair(r, x, y)
  <2>1. new = <<x, y>>
    <3>1. new[1] = x /\ new[2] = y
      BY <1>4, <1>10
    <3> QED
      BY <1>7, <1>10, <3>1
  <2>2. Append(file, x) \in Seq(L) /\ <<x>> \in Seq(L) /\ <<y>> \in Seq(L)
    BY <1>6, AppendProperties
  <2>3. <<x, y>> = <<x>> \o <<y>>
    BY PairIsConcat
  <2>4. file \o new = Append(Append(file, x), y)
    BY <1>6, <2>1, <2>2, <2>3, AppendIsConcat, ConcatAssociative
  <2>5. Append(Append(file, x), y) \in Seq(L) /\ ~torn
    BY <1>2, <1>6, <1>10, <2>2, AppendProperties
  <2>6. file' = Append(Append(file, x), y)
    BY <1>5, <2>4, <2>5, ConcatEmptySeq
  <2>7. ~r.err /\ ~recorder'.err
    BY <1>2, <1>3, <1>10
  <2> QED
    BY <1>3, <2>6, <2>7 DEF WrotePair
<1>11. WrotePair(r, x, y)
  BY <1>8, <1>9, <1>10
<1> QED
  BY <1>11 DEF x, y

-----------------------------------------------------------------------------
(* The file and the history of the session.                                *)

Good ==
  /\ RecorderTyped
  /\ FileGood(file)
  /\ history \in Seq(HistoryItems) /\ CallsFirst(history)
  /\ ReplayIsHistory

LEMMA GoodFrame == Good /\ UNCHANGED <<file, recorder, history>> => Good'
BY DEF Good, RecorderTyped, ReplayIsHistory

LEMMA TornAppend ==
  ASSUME NEW f, FileGood(f)
  PROVE  FileGood(Append(f, Torn))
BY TornIsTyped, PlainAppend

LEMMA RecorderFields ==
  ASSUME RecorderTyped
  PROVE  /\ recorder \in [up : BOOLEAN, ordinal : Nat, err : BOOLEAN]
         /\ recorder.ordinal \in Nat /\ recorder.ordinal + 1 \in Nat
BY DEF RecorderTyped

LEMMA EventIsTyped ==
  ASSUME used.turns \in 0 .. MaxTurns, NEW o \in Nat
  PROVE  /\ Numbered(Event, o) \in Lines
         /\ Numbered(Event, o).type = "event"
<1>1. "event" \in LineTypes /\ Event = Plain("event", used.turns)
  BY DEF LineTypes, Event, Plain
<1> QED
  BY <1>1, PlainIsTyped

\* The line of one item.
Recording(y) == Line("response_item", <<y>>, used.turns)

LEMMA RecordingIsTyped ==
  ASSUME used.turns \in 0 .. MaxTurns, NEW y \in Items, y.turn = used.turns, NEW o \in Nat
  PROVE  /\ Numbered(Recording(y), o) \in Lines
         /\ Numbered(Recording(y), o).type = "response_item"
         /\ Numbered(Recording(y), o).items = <<y>>
         /\ Numbered(Recording(y), o).turn = y.turn
<1> DEFINE type == "response_item"
           one  == <<y>>
<1>1. one \in Seq(Items) /\ type \in LineTypes /\ Recording(y) = Line(type, one, used.turns)
  BY DEF LineTypes, Recording
<1> HIDE DEF type, one
<1>2. /\ Numbered(Line(type, one, used.turns), o) \in Lines
      /\ Numbered(Line(type, one, used.turns), o).type = type
      /\ Numbered(Line(type, one, used.turns), o).items = one
      /\ Numbered(Line(type, one, used.turns), o).turn = used.turns
  BY <1>1, LineIsTyped
<1> QED
  BY <1>1, <1>2 DEF type, one

LEMMA ItemLinesAre ==
  ASSUME NEW y, NEW z
  PROVE  /\ ItemLines(<<y>>) \o << >> = <<Recording(y)>>
         /\ ItemLines(<<y>>) \o <<Event>> = <<Recording(y), Event>>
         /\ ItemLines(<<y, z>>) \o << >> = <<Recording(y), Recording(z)>>
<1>1. ItemLines(<<y>>) = <<Recording(y)>>
  BY DEF ItemLines, Recording
<1>2. ItemLines(<<y, z>>) = <<Recording(y), Recording(z)>>
  BY DEF ItemLines, Recording
<1>3. \A a, b : <<a>> \o << >> = <<a>> /\ <<a>> \o <<b>> = <<a, b>> /\ <<a, b>> \o << >> = <<a, b>>
  <2> SUFFICES ASSUME NEW a, NEW b
               PROVE  /\ <<a>> \o << >> = <<a>> /\ <<a>> \o <<b>> = <<a, b>>
                      /\ <<a, b>> \o << >> = <<a, b>>
    OBVIOUS
  <2>1. <<a>> \in Seq({a, b}) /\ <<a, b>> \in Seq({a, b})
    OBVIOUS
  <2> QED
    BY <2>1, ConcatEmptySeq, PairIsConcat
<1> QED
  BY <1>1, <1>2, <1>3

\* What a running session knows of the file before and after it records.
RunsIn(t) == recorder.up /\ (~recorder.err => Running(file, t))

LEMMA RecordsOne ==
  ASSUME Good, used.turns \in 0 .. MaxTurns, RunsIn(used.turns),
         NEW y \in Items, y.turn = used.turns, Answers(history, y),
         RecordThen(<<y>>, << >>) \/ RecordThen(<<y>>, <<Event>>), used'.turns = used.turns
  PROVE  Good' /\ RunsIn(used.turns)' /\ history' = Extended(history, <<y>>)
<1> DEFINE x == Numbered(Recording(y), recorder.ordinal)
           e == Numbered(Event, recorder.ordinal + 1)
           g == Append(file, x)
<1>1. /\ recorder \in [up : BOOLEAN, ordinal : Nat, err : BOOLEAN]
      /\ recorder.ordinal \in Nat /\ recorder.ordinal + 1 \in Nat
  BY RecorderFields DEF Good
<1>2. file \in Seq(Lines) /\ FileGood(file)
  BY DEF Good, FileGood
<1>3. x \in Lines /\ x.type = "response_item" /\ x.items = <<y>> /\ x.turn = y.turn
  BY <1>1, RecordingIsTyped
<1>4. e \in Lines /\ e.type = "event"
  BY <1>1, EventIsTyped
<1>5. history' = Extended(history, <<y>>)
  BY DEF RecordThen
<1>6. history' \in Seq(HistoryItems) /\ CallsFirst(history')
  BY <1>5, ExtendedIs, ExtendedByOne DEF Good
<1>7. Torn \in Lines
  BY TornIsTyped
<1> HIDE DEF x, e
<1>8. ASSUME ~recorder.err
      PROVE  FileGood(g) /\ Running(g, used.turns) /\ Kept(g) = history'
  <2>1. Kept(file) = history /\ Running(file, y.turn)
    BY <1>8 DEF Good, ReplayIsHistory, Kept, RunsIn
  <2> QED
    BY <1>2, <1>3, <1>5, <2>1, ItemAppend
<1>9. CASE RecordThen(<<y>>, << >>)
  <2>1. Write(recorder, <<Recording(y)>>)
    BY <1>9, ItemLinesAre DEF RecordThen
  <2>2. /\ recorder' \in [up : BOOLEAN, ordinal : Nat, err : BOOLEAN]
        /\ recorder'.up = recorder.up
        /\ \/ recorder'.err /\ file' = file
           \/ recorder'.err /\ ~recorder.err /\ file' = Append(file, Torn)
           \/ ~recorder'.err /\ ~recorder.err /\ file' = g
    <3>1. Wrote(recorder, x)
      BY <1>1, <1>2, <1>3, <1>7, <2>1, WriteOne DEF x
    <3> QED
      BY <3>1 DEF Wrote
  <2> HIDE DEF g
  <2>3. FileGood(file')
    BY <1>2, <1>8, <2>2, TornAppend
  <2>4. ~recorder'.err => Running(file', used.turns) /\ Kept(file') = history'
    BY <1>8, <2>2
  <2> QED
    BY <1>5, <1>6, <2>2, <2>3, <2>4
       DEF Good, RecorderTyped, ReplayIsHistory, Kept, RunsIn
<1>10. CASE RecordThen(<<y>>, <<Event>>)
  <2>1. Write(recorder, <<Recording(y), Event>>)
    BY <1>10, ItemLinesAre DEF RecordThen
  <2>2. /\ recorder' \in [up : BOOLEAN, ordinal : Nat, err : BOOLEAN]
        /\ recorder'.up = recorder.up
        /\ \/ recorder'.err /\ file' = file
           \/ recorder'.err /\ ~recorder.err /\ file' = Append(file, Torn)
           \/ recorder'.err /\ ~recorder.err /\ file' = g
           \/ recorder'.err /\ ~recorder.err /\ file' = Append(g, Torn)
           \/ ~recorder'.err /\ ~recorder.err /\ file' = Append(g, e)
    <3>1. WrotePair(recorder, x, e)
      BY <1>1, <1>2, <1>3, <1>4, <1>7, <2>1, WriteTwo DEF x, e
    <3> QED
      BY <3>1 DEF WrotePair
  <2> HIDE DEF g
  <2>3. ASSUME ~recorder.err
        PROVE  /\ FileGood(Append(g, e)) /\ Running(Append(g, e), used.turns)
               /\ Kept(Append(g, e)) = history'
    <3>1. FileGood(Append(g, e)) /\ Kept(Append(g, e)) = history'
      BY <1>4, <1>8, <2>3, PlainAppend
    <3>2. e.type # "turn_started" /\ e.type \notin Ends /\ g \in Seq(Lines)
      BY <1>4, <1>8, <2>3 DEF Ends, FileGood
    <3> QED
      BY <1>4, <1>8, <2>3, <3>1, <3>2, RunningAppend
  <2>4. FileGood(file')
    BY <1>2, <1>8, <2>2, <2>3, TornAppend
  <2>5. ~recorder'.err => Running(file', used.turns) /\ Kept(file') = history'
    BY <2>2, <2>3
  <2> QED
    BY <1>5, <1>6, <2>2, <2>4, <2>5
       DEF Good, RecorderTyped, ReplayIsHistory, Kept, RunsIn
<1> QED
  BY <1>9, <1>10

\* The same for two items recorded together.
LEMMA RecordsTwo ==
  ASSUME Good, used.turns \in 0 .. MaxTurns, RunsIn(used.turns),
         NEW y \in Items, y.turn = used.turns, Answers(history, y),
         NEW z \in Items, z.turn = used.turns, Answers(Extended(history, <<y>>), z),
         RecordThen(<<y, z>>, << >>), used'.turns = used.turns
  PROVE  /\ Good' /\ RunsIn(used.turns)'
         /\ history' = Extended(Extended(history, <<y>>), <<z>>)
<1> DEFINE x == Numbered(Recording(y), recorder.ordinal)
           w == Numbered(Recording(z), recorder.ordinal + 1)
           g == Append(file, x)
           h == Extended(history, <<y>>)
<1>1. /\ recorder \in [up : BOOLEAN, ordinal : Nat, err : BOOLEAN]
      /\ recorder.ordinal \in Nat /\ recorder.ordinal + 1 \in Nat
  BY RecorderFields DEF Good
<1>2. file \in Seq(Lines) /\ FileGood(file)
  BY DEF Good, FileGood
<1>3. x \in Lines /\ x.type = "response_item" /\ x.items = <<y>> /\ x.turn = y.turn
  BY <1>1, RecordingIsTyped
<1>4. w \in Lines /\ w.type = "response_item" /\ w.items = <<z>> /\ w.turn = z.turn
  BY <1>1, RecordingIsTyped
<1>5. h \in Seq(HistoryItems) /\ CallsFirst(h)
  BY ExtendedIs, ExtendedByOne DEF Good
<1>6. history' = Extended(h, <<z>>)
  <2>1. history' = history \o Restored(<<y, z>>)
    BY DEF RecordThen, Extended
  <2>2. <<y>> \in Seq(Items) /\ <<z>> \in Seq(Items) /\ <<y, z>> = <<y>> \o <<z>>
    OBVIOUS
  <2>3. Restored(<<y, z>>) = Restored(<<y>>) \o Restored(<<z>>)
    BY <2>2, RestoredConcat
  <2>4. /\ history \in Seq(HistoryItems) /\ Restored(<<y>>) \in Seq(HistoryItems)
        /\ Restored(<<z>>) \in Seq(HistoryItems)
    BY <2>2, RestoredIsSeq DEF Good, HistoryItems
  <2> DEFINE u == Restored(<<y>>)
             v == Restored(<<z>>)
  <2>5. history' = history \o (u \o v)
    BY <2>1, <2>3
  <2>6. Extended(h, <<z>>) = (history \o u) \o v
    BY DEF Extended
  <2> HIDE DEF u, v, h
  <2>7. history \o (u \o v) = (history \o u) \o v
    BY <2>4, ConcatAssociative DEF u, v
  <2> QED
    BY <2>5, <2>6, <2>7
<1>7. history' \in Seq(HistoryItems) /\ CallsFirst(history')
  <2> HIDE DEF h
  <2> QED
    BY <1>5, <1>6, ExtendedIs, ExtendedByOne DEF h
<1>8. Torn \in Lines
  BY TornIsTyped
<1>9. Write(recorder, <<Recording(y), Recording(z)>>)
  BY ItemLinesAre DEF RecordThen
<1>10. /\ recorder' \in [up : BOOLEAN, ordinal : Nat, err : BOOLEAN]
       /\ recorder'.up = recorder.up
       /\ \/ recorder'.err /\ file' = file
          \/ recorder'.err /\ ~recorder.err /\ file' = Append(file, Torn)
          \/ recorder'.err /\ ~recorder.err /\ file' = g
          \/ recorder'.err /\ ~recorder.err /\ file' = Append(g, Torn)
          \/ ~recorder'.err /\ ~recorder.err /\ file' = Append(g, w)
  <2>1. WrotePair(recorder, x, w)
    BY <1>1, <1>2, <1>3, <1>4, <1>8, <1>9, WriteTwo
  <2> HIDE DEF x, w
  <2> QED
    BY <2>1 DEF WrotePair
<1> HIDE DEF x, w
<1>11. ASSUME ~recorder.err
       PROVE  FileGood(g) /\ Running(g, used.turns) /\ Kept(g) = h
  <2>1. Kept(file) = history /\ Running(file, y.turn)
    BY <1>11 DEF Good, ReplayIsHistory, Kept, RunsIn
  <2> QED
    BY <1>2, <1>3, <2>1, ItemAppend
<1>12. ASSUME ~recorder.err
       PROVE  /\ FileGood(Append(g, w)) /\ Running(Append(g, w), used.turns)
              /\ Kept(Append(g, w)) = history'
  <2>1. FileGood(g) /\ Running(g, z.turn) /\ Answers(Kept(g), z)
    BY <1>11, <1>12
  <2> HIDE DEF g, h
  <2>2. /\ FileGood(Append(g, w)) /\ Running(Append(g, w), z.turn)
        /\ Kept(Append(g, w)) = Extended(Kept(g), <<z>>)
    BY <1>4, <2>1, ItemAppend
  <2> QED
    BY <1>6, <1>11, <1>12, <2>2
<1> HIDE DEF g
<1>13. FileGood(file')
  BY <1>2, <1>10, <1>11, <1>12, TornAppend
<1>14. ~recorder'.err => Running(file', used.turns) /\ Kept(file') = history'
  BY <1>10, <1>12
<1> QED
  BY <1>6, <1>7, <1>10, <1>13, <1>14
     DEF Good, RecorderTyped, ReplayIsHistory, Kept, RunsIn

\* One line that no history keeps.
LEMMA WritesPlain ==
  ASSUME NEW r \in [up : BOOLEAN, ordinal : Nat, err : BOOLEAN], FileGood(file),
         NEW line, Numbered(line, r.ordinal) \in Lines,
         line.type = Numbered(line, r.ordinal).type,
         line.type \notin {"response_item", "compacted"},
         Write(r, <<line>>)
  PROVE  /\ RecorderTyped' /\ FileGood(file') /\ recorder'.up = r.up
         /\ ~recorder'.err =>
              /\ ~r.err /\ Kept(file') = Kept(file)
              /\ file' = Append(file, Numbered(line, r.ordinal))
<1> DEFINE x == Numbered(line, r.ordinal)
<1>1. file \in Seq(Lines) /\ Torn \in Lines
  BY TornIsTyped DEF FileGood
<1>2. /\ recorder' \in [up : BOOLEAN, ordinal : Nat, err : BOOLEAN]
      /\ recorder'.up = r.up
      /\ \/ recorder'.err /\ file' = file
         \/ recorder'.err /\ ~r.err /\ file' = Append(file, Torn)
         \/ ~recorder'.err /\ ~r.err /\ file' = Append(file, x)
  <2>1. Wrote(r, x)
    BY <1>1, WriteOne
  <2> HIDE DEF x
  <2> QED
    BY <2>1 DEF Wrote
<1>3. FileGood(Append(file, x)) /\ Kept(Append(file, x)) = Kept(file)
  <2> HIDE DEF x
  <2> QED
    BY PlainAppend DEF x
<1>4. FileGood(Append(file, Torn))
  BY TornAppend
<1> HIDE DEF x
<1>5. FileGood(file')
  BY <1>2, <1>3, <1>4
<1>6. ~recorder'.err => ~r.err /\ Kept(file') = Kept(file) /\ file' = Append(file, x)
  BY <1>2, <1>3
<1> QED
  BY <1>2, <1>5, <1>6 DEF RecorderTyped, x

\* The two lines with which a turn starts.
LEMMA WritesStart ==
  ASSUME Good, recorder.up, NEW t \in 0 .. MaxTurns, UNCHANGED history,
         Write(recorder, <<Line("turn_started", << >>, t), Line("turn_context", << >>, t)>>)
  PROVE  Good' /\ recorder'.up /\ (~recorder'.err => Running(file', t))
<1> DEFINE x == Numbered(Line("turn_started", << >>, t), recorder.ordinal)
           w == Numbered(Line("turn_context", << >>, t), recorder.ordinal + 1)
           g == Append(file, x)
<1>1. /\ recorder \in [up : BOOLEAN, ordinal : Nat, err : BOOLEAN]
      /\ recorder.ordinal \in Nat /\ recorder.ordinal + 1 \in Nat
  BY RecorderFields DEF Good
<1>2. file \in Seq(Lines) /\ FileGood(file) /\ Torn \in Lines
  BY TornIsTyped DEF Good, FileGood
<1>3. "turn_started" \in LineTypes /\ "turn_context" \in LineTypes
  BY DEF LineTypes
<1>4. x \in Lines /\ x.type = "turn_started" /\ x.turn = t
  <2>1. x = Numbered(Plain("turn_started", t), recorder.ordinal)
    BY DEF Plain
  <2> HIDE DEF x
  <2> QED
    BY <1>1, <1>3, <2>1, PlainIsTyped
<1>5. w \in Lines /\ w.type = "turn_context"
  <2>1. w = Numbered(Plain("turn_context", t), recorder.ordinal + 1)
    BY DEF Plain
  <2> HIDE DEF w
  <2> QED
    BY <1>1, <1>3, <2>1, PlainIsTyped
<1>6. /\ recorder' \in [up : BOOLEAN, ordinal : Nat, err : BOOLEAN]
      /\ recorder'.up = recorder.up
      /\ \/ recorder'.err /\ file' = file
         \/ recorder'.err /\ ~recorder.err /\ file' = Append(file, Torn)
         \/ recorder'.err /\ ~recorder.err /\ file' = g
         \/ recorder'.err /\ ~recorder.err /\ file' = Append(g, Torn)
         \/ ~recorder'.err /\ ~recorder.err /\ file' = Append(g, w)
  <2>1. WrotePair(recorder, x, w)
    BY <1>1, <1>2, <1>4, <1>5, WriteTwo
  <2> HIDE DEF x, w
  <2> QED
    BY <2>1 DEF WrotePair
<1> HIDE DEF x, w
<1>7. FileGood(g) /\ Kept(g) = Kept(file) /\ Running(g, t)
  BY <1>2, <1>4, PlainAppend, RunningAppend
<1> HIDE DEF g
<1>8. FileGood(Append(g, w)) /\ Kept(Append(g, w)) = Kept(file)
  BY <1>5, <1>7, PlainAppend
<1>9. Running(Append(g, w), t)
  <2>1. w.type # "turn_started" /\ w.type \notin Ends /\ g \in Seq(Lines)
    BY <1>5, <1>7 DEF Ends, FileGood
  <2> QED
    BY <1>5, <1>7, <2>1, RunningAppend
<1>10. FileGood(file')
  BY <1>2, <1>6, <1>7, <1>8, TornAppend
<1>11. ~recorder'.err => ~recorder.err /\ Running(file', t) /\ Kept(file') = Kept(file)
  BY <1>6, <1>8, <1>9
<1> QED
  BY <1>6, <1>10, <1>11 DEF Good, RecorderTyped, ReplayIsHistory, Kept

\* A compaction, and the event that tells of it.
LEMMA WritesCompaction ==
  ASSUME Good, used.turns \in 0 .. MaxTurns, RunsIn(used.turns), used'.turns = used.turns,
         NEW items \in Seq({y \in Items : y.kind = "user"}),
         history' = Restored(items),
         Write(recorder, <<Line("compacted", items, used.turns), Event>>)
  PROVE  Good' /\ RunsIn(used.turns)'
<1> DEFINE x == Numbered(Line("compacted", items, used.turns), recorder.ordinal)
           w == Numbered(Event, recorder.ordinal + 1)
           g == Append(file, x)
           U == {y \in Items : y.kind = "user"}
<1>1. /\ recorder \in [up : BOOLEAN, ordinal : Nat, err : BOOLEAN]
      /\ recorder.ordinal \in Nat /\ recorder.ordinal + 1 \in Nat
  BY RecorderFields DEF Good
<1>2. file \in Seq(Lines) /\ FileGood(file) /\ Torn \in Lines
  BY TornIsTyped DEF Good, FileGood
<1>3. items \in Seq(Items)
  <2>1. U \subseteq Items
    OBVIOUS
  <2> QED
    BY <2>1, SeqMonotonic
<1>4. x \in Lines /\ x.type = "compacted" /\ x.items = items
  <2> DEFINE type == "compacted"
  <2>1. type \in LineTypes
    BY DEF LineTypes
  <2> HIDE DEF type
  <2>2. Numbered(Line(type, items, used.turns), recorder.ordinal) \in Lines
        /\ Numbered(Line(type, items, used.turns), recorder.ordinal).type = type
        /\ Numbered(Line(type, items, used.turns), recorder.ordinal).items = items
    BY <1>1, <1>3, <2>1, LineIsTyped
  <2> QED
    BY <2>2 DEF type
<1>5. w \in Lines /\ w.type = "event"
  BY <1>1, EventIsTyped
<1>6. /\ recorder' \in [up : BOOLEAN, ordinal : Nat, err : BOOLEAN]
      /\ recorder'.up = recorder.up
      /\ \/ recorder'.err /\ file' = file
         \/ recorder'.err /\ ~recorder.err /\ file' = Append(file, Torn)
         \/ recorder'.err /\ ~recorder.err /\ file' = g
         \/ recorder'.err /\ ~recorder.err /\ file' = Append(g, Torn)
         \/ ~recorder'.err /\ ~recorder.err /\ file' = Append(g, w)
  <2>1. WrotePair(recorder, x, w)
    BY <1>1, <1>2, <1>4, <1>5, WriteTwo
  <2> HIDE DEF x, w
  <2> QED
    BY <2>1 DEF WrotePair
<1> HIDE DEF x, w
<1>7. FileGood(g) /\ Kept(g) = history'
  BY <1>2, <1>4, CompactionAppend
<1>8. ~recorder.err => Running(g, used.turns)
  <2>1. x.type # "turn_started" /\ x.type \notin Ends
    BY <1>4 DEF Ends
  <2> QED
    BY <1>2, <1>4, <2>1, RunningAppend DEF RunsIn
<1> HIDE DEF g
<1>9. FileGood(Append(g, w)) /\ Kept(Append(g, w)) = history'
  BY <1>5, <1>7, PlainAppend
<1>10. ~recorder.err => Running(Append(g, w), used.turns)
  <2>1. w.type # "turn_started" /\ w.type \notin Ends /\ g \in Seq(Lines)
    BY <1>5, <1>7 DEF Ends, FileGood
  <2> QED
    BY <1>5, <1>8, <2>1, RunningAppend
<1>11. history' \in Seq(HistoryItems) /\ CallsFirst(history')
  BY <1>7, KeptIsHistory DEF FileGood
<1>12. FileGood(file')
  BY <1>2, <1>6, <1>7, <1>9, TornAppend
<1>13. ~recorder'.err => Running(file', used.turns) /\ Kept(file') = history'
  BY <1>6, <1>9, <1>10
<1> QED
  BY <1>6, <1>11, <1>12, <1>13
     DEF Good, RecorderTyped, ReplayIsHistory, Kept, RunsIn

-----------------------------------------------------------------------------
(* The invariant of the session.                                           *)

TurnTyped ==
  turn \in [pc : {"idle", "input", "top", "sample", "tools", "end", "drain", "finish"},
            pending : Seq(Calls), followUp : BOOLEAN, failed : BOOLEAN]

UsedTyped ==
  used \in [items : 0 .. MaxItems, turns : 0 .. MaxTurns, opens : 0 .. MaxOpens,
            broken : SUBSET (0 .. MaxTurns)]

\* A turn runs in a session; it waits for outputs of calls that
\* the history has, and only until it has them all.
TurnInv ==
  /\ turn.pc # "idle" => recorder.up
  /\ turn.pc \notin {"sample", "tools"} => turn.pending = << >>
  /\ turn.pc = "tools" => turn.pending # << >>
  /\ \A k \in 1 .. Len(turn.pending) : HasCall(history, turn.pending[k])

\* What the file says of the turn that runs, while no append has failed.
StoredInv == turn.pc # "idle" /\ ~recorder.err => Running(file, used.turns)

RolloutInv == Good /\ TurnTyped /\ UsedTyped /\ TurnInv /\ StoredInv

\* What a turn that runs knows.
LEMMA TurnRuns ==
  ASSUME RolloutInv, turn.pc # "idle"
  PROVE  /\ recorder.up
         /\ used.turns \in 0 .. MaxTurns /\ RunsIn(used.turns)
BY DEF RolloutInv, TurnInv, StoredInv, UsedTyped, RunsIn

\* The steps of a running turn that leave it running.
LEMMA TurnGoesOn ==
  ASSUME RolloutInv, turn.pc # "idle", Good', RunsIn(used.turns)', UsedTyped',
         used'.turns = used.turns, used'.broken = used.broken,
         TurnTyped', turn'.pc # "idle",
         turn'.pc \notin {"sample", "tools"} => turn'.pending = << >>,
         turn'.pc = "tools" => turn'.pending # << >>,
         \A k \in 1 .. Len(turn'.pending) : HasCall(history', turn'.pending[k])
  PROVE  RolloutInv'
BY TurnRuns DEF RolloutInv, TurnInv, StoredInv, RunsIn

\* The bound on items.
LEMMA ProduceIs ==
  ASSUME UsedTyped, Produce
  PROVE  UsedTyped' /\ used'.turns = used.turns /\ used'.broken = used.broken
<1>1. used.items \in 0 .. MaxItems /\ used.items < MaxItems /\ MaxItems \in Nat
  BY RolloutAssumption DEF UsedTyped, Produce, Fresh
<1>2. used.items + 1 \in 0 .. MaxItems
  BY <1>1
<1>3. used' = [used EXCEPT !.items = used.items + 1]
  BY DEF Produce
<1> QED
  BY <1>2, <1>3 DEF UsedTyped

LEMMA ItemIsTyped ==
  ASSUME UsedTyped, NEW kind \in Kinds, NEW id \in Calls \union {NoId, InvalidId},
         kind # "output" => id \in Calls \union {NoId}
  PROVE  /\ Item(kind, id) \in Items
         /\ Item(kind, id).kind = kind /\ Item(kind, id).id = id
         /\ Item(kind, id).turn = used.turns
<1>1. used.items \in Nat /\ used.items + 1 \in Nat /\ used.turns \in 0 .. MaxTurns
  BY RolloutAssumption DEF UsedTyped
<1> QED
  BY <1>1 DEF Item, Items

LEMMA BeginKeepsInv == RolloutInv /\ Begin => RolloutInv'
<1> SUFFICES ASSUME RolloutInv, Begin PROVE RolloutInv'
  OBVIOUS
<1> DEFINE t == used.turns + 1
<1>1. used.turns \in 0 .. MaxTurns /\ used.turns < MaxTurns /\ MaxTurns \in Nat
  BY RolloutAssumption DEF RolloutInv, UsedTyped, Begin
<1>2. t \in 0 .. MaxTurns
  BY <1>1
<1>3. /\ turn' = [NoTurn EXCEPT !.pc = "input"]
      /\ used' = [used EXCEPT !.turns = t]
      /\ UNCHANGED history /\ recorder.up
      /\ Write(recorder, <<Line("turn_started", << >>, t), Line("turn_context", << >>, t)>>)
  BY DEF Begin
<1> HIDE DEF t
<1>4. Good' /\ recorder'.up /\ (~recorder'.err => Running(file', t))
  BY <1>2, <1>3, WritesStart DEF RolloutInv
<1>5. UsedTyped' /\ used'.turns = t
  BY <1>2, <1>3 DEF RolloutInv, UsedTyped
<1>6. TurnTyped' /\ turn'.pc = "input" /\ turn'.pending = << >>
  <2>1. << >> \in Seq(Calls)
    OBVIOUS
  <2> QED
    BY <1>3, <2>1 DEF TurnTyped, NoTurn
<1>7. TurnInv'
  BY <1>4, <1>6 DEF TurnInv
<1>8. StoredInv'
  BY <1>4, <1>5, <1>6 DEF StoredInv
<1> QED
  BY <1>4, <1>5, <1>6, <1>7, <1>8 DEF RolloutInv

LEMMA RecordInputKeepsInv == RolloutInv /\ RecordInput => RolloutInv'
<1> SUFFICES ASSUME RolloutInv, RecordInput PROVE RolloutInv'
  OBVIOUS
<1>1. turn.pc = "input" /\ Produce /\ turn.pending = << >> /\ turn.pc # "idle"
  BY DEF RecordInput, RolloutInv, TurnInv
<1>2. PICK long \in {FALSE, Oversized} :
        RecordThen(<<[Item("user", NoId) EXCEPT !.long = long]>>, << >>)
  BY DEF RecordInput
<1> DEFINE y == [Item("user", NoId) EXCEPT !.long = long]
<1>3. y \in Items /\ y.turn = used.turns /\ y.kind = "user"
  <2>1. /\ Item("user", NoId) \in Items /\ Item("user", NoId).kind = "user"
        /\ Item("user", NoId).turn = used.turns
    BY ItemIsTyped DEF RolloutInv, Kinds
  <2>2. long \in BOOLEAN
    BY RolloutAssumption
  <2> QED
    BY <2>1, <2>2 DEF Items
<1> HIDE DEF y
<1>4. UsedTyped' /\ used'.turns = used.turns /\ used'.broken = used.broken
  BY <1>1, ProduceIs DEF RolloutInv
<1>5. Good' /\ RunsIn(used.turns)'
  BY <1>1, <1>2, <1>3, <1>4, TurnRuns, RecordsOne DEF RolloutInv, Answers, y
<1>6. TurnTyped' /\ turn'.pc \in {"input", "top"} /\ turn'.pending = << >>
  BY <1>1 DEF RecordInput, RolloutInv, TurnTyped
<1> QED
  BY <1>1, <1>4, <1>5, <1>6, TurnGoesOn

LEMMA SayKeepsInv == RolloutInv /\ Say => RolloutInv'
<1> SUFFICES ASSUME RolloutInv, Say PROVE RolloutInv'
  OBVIOUS
<1>1. turn.pc \in {"top", "sample"} /\ turn.pc # "idle" /\ Produce
  BY DEF Say, Streaming
<1>2. PICK kind \in {"assistant", "other"} : RecordThen(<<Item(kind, NoId)>>, << >>)
  BY DEF Say
<1> DEFINE y == Item(kind, NoId)
<1>3. y \in Items /\ y.turn = used.turns /\ y.kind # "output"
  BY ItemIsTyped DEF RolloutInv, Kinds
<1> HIDE DEF y
<1>4. UsedTyped' /\ used'.turns = used.turns /\ used'.broken = used.broken
  BY <1>1, ProduceIs DEF RolloutInv
<1>5. Good' /\ RunsIn(used.turns)' /\ history' = Extended(history, <<y>>)
  BY <1>1, <1>2, <1>3, <1>4, TurnRuns, RecordsOne DEF RolloutInv, Answers, y
<1>6. TurnTyped' /\ turn'.pc = "sample" /\ turn'.pending = turn.pending
  BY DEF Say, RolloutInv, TurnTyped
<1>7. \A k \in 1 .. Len(turn.pending) : HasCall(history', turn.pending[k])
  BY <1>3, <1>5, CallsStay DEF RolloutInv, TurnInv, Good
<1> QED
  BY <1>1, <1>4, <1>5, <1>6, <1>7, TurnGoesOn

LEMMA CallKeepsInv ==
  ASSUME RolloutInv, NEW c \in Calls, Call(c)
  PROVE  RolloutInv'
<1>1. turn.pc \in {"top", "sample"} /\ turn.pc # "idle" /\ Produce
      /\ RecordThen(<<Item("call", c)>>, <<Event>>)
  BY DEF Call, Streaming
<1> DEFINE y == Item("call", c)
<1>2. y \in Items /\ y.turn = used.turns /\ y.kind = "call" /\ y.id = c
  BY ItemIsTyped DEF RolloutInv, Kinds
<1> HIDE DEF y
<1>3. UsedTyped' /\ used'.turns = used.turns /\ used'.broken = used.broken
  BY <1>1, ProduceIs DEF RolloutInv
<1>4. Good' /\ RunsIn(used.turns)' /\ history' = Extended(history, <<y>>)
  BY <1>1, <1>2, <1>3, TurnRuns, RecordsOne DEF RolloutInv, Answers, y
<1>5. turn.pending \in Seq(Calls)
  BY DEF RolloutInv, TurnTyped
<1>6. /\ Append(turn.pending, c) \in Seq(Calls) /\ Len(turn.pending) \in Nat
      /\ Len(Append(turn.pending, c)) = Len(turn.pending) + 1
      /\ \A k \in 1 .. Len(turn.pending) : Append(turn.pending, c)[k] = turn.pending[k]
      /\ Append(turn.pending, c)[Len(turn.pending) + 1] = c
  BY <1>5, AppendProperties, LenProperties
<1>7. TurnTyped' /\ turn'.pc = "sample" /\ turn'.pending = Append(turn.pending, c)
  BY <1>6 DEF Call, RolloutInv, TurnTyped
<1>8. ASSUME NEW k \in 1 .. Len(turn'.pending) PROVE HasCall(history', turn'.pending[k])
  <2>1. CASE k = Len(turn.pending) + 1
    BY <1>2, <1>4, <1>6, <1>7, <2>1, CallsStay DEF RolloutInv, Good
  <2>2. CASE k # Len(turn.pending) + 1
    <3>1. k \in 1 .. Len(turn.pending) /\ turn'.pending[k] = turn.pending[k]
      BY <1>6, <1>7, <2>2
    <3> QED
      BY <1>2, <1>4, <3>1, CallsStay DEF RolloutInv, TurnInv, Good
  <2> QED
    BY <2>1, <2>2
<1> QED
  BY <1>1, <1>3, <1>4, <1>7, <1>8, TurnGoesOn

LEMMA BadCallKeepsInv == RolloutInv /\ BadCall => RolloutInv'
<1> SUFFICES ASSUME RolloutInv, BadCall PROVE RolloutInv'
  OBVIOUS
<1>1. turn.pc \in {"top", "sample"} /\ turn.pc # "idle" /\ Produce
  BY DEF BadCall, Streaming
<1>2. PICK id \in Calls \union {NoId} :
        RecordThen(<<Item("call", id),
                     Item("output", IF id = NoId THEN InvalidId ELSE id)>>, << >>)
  BY DEF BadCall
<1> DEFINE y == Item("call", id)
           z == Item("output", IF id = NoId THEN InvalidId ELSE id)
           h == Extended(history, <<y>>)
<1>3. y \in Items /\ y.turn = used.turns /\ y.kind = "call" /\ y.id = id
  BY ItemIsTyped DEF RolloutInv, Kinds
<1>4. /\ z \in Items /\ z.turn = used.turns /\ z.kind = "output"
      /\ z.id = InvalidId \/ z.id = id
  BY ItemIsTyped DEF RolloutInv, Kinds
<1> HIDE DEF y, z
<1>5. UsedTyped' /\ used'.turns = used.turns /\ used'.broken = used.broken
  BY <1>1, ProduceIs DEF RolloutInv
<1>6. history \in Seq(HistoryItems)
  BY DEF RolloutInv, Good
<1>7. h \in Seq(HistoryItems) /\ HasCall(h, id) /\ \A i : HasCall(history, i) => HasCall(h, i)
  BY <1>3, <1>6, CallsStay, ExtendedIs
<1>8. Answers(history, y) /\ Answers(h, z)
  BY <1>3, <1>4, <1>7 DEF Answers
<1>9. Good' /\ RunsIn(used.turns)' /\ history' = Extended(h, <<z>>)
  BY <1>1, <1>2, <1>3, <1>4, <1>5, <1>8, TurnRuns, RecordsTwo DEF RolloutInv, y, z
<1> HIDE DEF h
<1>10. TurnTyped' /\ turn'.pc = "sample" /\ turn'.pending = turn.pending
  BY DEF BadCall, RolloutInv, TurnTyped
<1>11. \A k \in 1 .. Len(turn.pending) : HasCall(history', turn.pending[k])
  BY <1>4, <1>7, <1>9, CallsStay DEF RolloutInv, TurnInv
<1> QED
  BY <1>1, <1>5, <1>9, <1>10, <1>11, TurnGoesOn

LEMMA RecordTextKeepsInv == RolloutInv /\ RecordText => RolloutInv'
<1> SUFFICES ASSUME RolloutInv, RecordText PROVE RolloutInv'
  OBVIOUS
<1>1. turn.pc = "end" /\ turn.pc # "idle" /\ Produce /\ turn.pending = << >>
      /\ RecordThen(<<Item("assistant", NoId)>>, << >>)
  BY DEF RecordText, RolloutInv, TurnInv
<1> DEFINE y == Item("assistant", NoId)
<1>2. y \in Items /\ y.turn = used.turns /\ y.kind = "assistant"
  BY ItemIsTyped DEF RolloutInv, Kinds
<1> HIDE DEF y
<1>3. UsedTyped' /\ used'.turns = used.turns /\ used'.broken = used.broken
  BY <1>1, ProduceIs DEF RolloutInv
<1>4. Good' /\ RunsIn(used.turns)'
  BY <1>1, <1>2, <1>3, TurnRuns, RecordsOne DEF RolloutInv, Answers, y
<1>5. TurnTyped' /\ turn'.pc = "drain" /\ turn'.pending = << >>
  BY <1>1 DEF RecordText, RolloutInv, TurnTyped
<1> QED
  BY <1>1, <1>3, <1>4, <1>5, TurnGoesOn

LEMMA RecordOutputKeepsInv == RolloutInv /\ RecordOutput => RolloutInv'
<1> SUFFICES ASSUME RolloutInv, RecordOutput PROVE RolloutInv'
  OBVIOUS
<1> DEFINE c == Head(turn.pending)
           y == [Item("output", c) EXCEPT !.n = 0]
<1>1. turn.pc = "tools" /\ turn.pc # "idle" /\ turn.pending # << >>
      /\ turn.pending \in Seq(Calls) /\ RecordThen(<<y>>, <<Event>>) /\ UNCHANGED used
  BY DEF RecordOutput, RolloutInv, TurnInv, TurnTyped
<1>2. /\ c \in Calls /\ c = turn.pending[1] /\ Tail(turn.pending) \in Seq(Calls)
      /\ Len(turn.pending) \in Nat /\ Len(turn.pending) > 0
      /\ Len(Tail(turn.pending)) = Len(turn.pending) - 1
      /\ \A i \in 1 .. Len(Tail(turn.pending)) : Tail(turn.pending)[i] = turn.pending[i + 1]
  BY <1>1, HeadTailProperties, LenProperties, EmptySeq
<1>3. y \in Items /\ y.turn = used.turns /\ y.kind = "output" /\ y.id = c
  <2>1. /\ Item("output", c) \in Items /\ Item("output", c).kind = "output"
        /\ Item("output", c).id = c /\ Item("output", c).turn = used.turns
    BY <1>2, ItemIsTyped DEF RolloutInv, Kinds
  <2> HIDE DEF c
  <2> QED
    BY <2>1 DEF Items
<1> HIDE DEF c, y
<1>4. HasCall(history, c)
  <2>1. 1 \in 1 .. Len(turn.pending)
    BY <1>2
  <2> QED
    BY <1>2, <2>1 DEF RolloutInv, TurnInv
<1>5. Good' /\ RunsIn(used.turns)' /\ history' = Extended(history, <<y>>)
  BY <1>1, <1>3, <1>4, TurnRuns, RecordsOne DEF RolloutInv, Answers
<1>6. UsedTyped' /\ used'.turns = used.turns /\ used'.broken = used.broken
  BY <1>1 DEF RolloutInv, UsedTyped
<1>7. /\ TurnTyped' /\ turn'.pending = Tail(turn.pending)
      /\ turn'.pc = IF Len(turn.pending) = 1 THEN "end" ELSE "tools"
  BY <1>2 DEF RecordOutput, RolloutInv, TurnTyped
<1>8. CASE Len(turn.pending) = 1
  <2>1. turn'.pending = << >> /\ Len(turn'.pending) = 0
    <3>1. Tail(turn.pending) \in Seq(Calls) /\ Len(Tail(turn.pending)) = 0
      BY <1>2, <1>8
    <3> QED
      BY <1>7, <3>1, EmptySeq
  <2>2. turn'.pc = "end" /\ turn'.pc # "idle" /\ turn'.pc # "tools"
    BY <1>7, <1>8
  <2>3. \A k \in 1 .. Len(turn'.pending) : HasCall(history', turn'.pending[k])
    BY <2>1
  <2> QED
    BY <1>1, <1>5, <1>6, <1>7, <2>1, <2>2, <2>3, TurnGoesOn
<1>9. CASE Len(turn.pending) # 1
  <2>1. turn'.pending # << >>
    <3>1. Tail(turn.pending) \in Seq(Calls) /\ Len(Tail(turn.pending)) # 0
      BY <1>2, <1>9
    <3> QED
      BY <1>7, <3>1, EmptySeq
  <2>2. ASSUME NEW k \in 1 .. Len(turn'.pending) PROVE HasCall(history', turn'.pending[k])
    <3>1. k + 1 \in 1 .. Len(turn.pending) /\ turn'.pending[k] = turn.pending[k + 1]
      BY <1>2, <1>7
    <3> QED
      BY <1>3, <1>5, <3>1, CallsStay DEF RolloutInv, TurnInv, Good
  <2> QED
    BY <1>1, <1>5, <1>6, <1>7, <1>9, <2>1, <2>2, TurnGoesOn
<1> QED
  BY <1>8, <1>9

LEMMA CompactKeepsInv == RolloutInv /\ Compact => RolloutInv'
<1> SUFFICES ASSUME RolloutInv, Compact PROVE RolloutInv'
  OBVIOUS
<1> DEFINE s     == Item("user", NoId)
           items == Compacted(history, s)
<1>1. /\ turn.pc = "top" /\ turn.pc # "idle" /\ Produce /\ turn.pending = << >>
      /\ history' = Restored(items)
      /\ Write(recorder, <<Line("compacted", items, used.turns), Event>>)
  BY DEF Compact, RolloutInv, TurnInv
<1>2. s \in Items /\ s.kind = "user"
  BY ItemIsTyped DEF RolloutInv, Kinds
<1> HIDE DEF s
<1>3. history \in Seq(Items)
  <2>1. HistoryItems \subseteq Items
    BY DEF HistoryItems
  <2> QED
    BY <2>1, SeqMonotonic DEF RolloutInv, Good
<1>4. items \in Seq({y \in Items : y.kind = "user"})
  BY <1>2, <1>3, AbortedIs, CompactedIsSeq
<1> HIDE DEF items
<1>5. UsedTyped' /\ used'.turns = used.turns /\ used'.broken = used.broken
  BY <1>1, ProduceIs DEF RolloutInv
<1>6. Good' /\ RunsIn(used.turns)'
  BY <1>1, <1>4, <1>5, TurnRuns, WritesCompaction DEF RolloutInv
<1>7. TurnTyped' /\ turn'.pc = "sample" /\ turn'.pending = << >>
  BY <1>1 DEF Compact, RolloutInv, TurnTyped
<1> QED
  BY <1>1, <1>5, <1>6, <1>7, TurnGoesOn

LEMMA UnrecordedKeepsInv == RolloutInv /\ (Complete \/ Drain) => RolloutInv'
<1> SUFFICES ASSUME RolloutInv, Complete \/ Drain PROVE RolloutInv'
  OBVIOUS
<1>1. UNCHANGED <<file, recorder, history, used>> /\ turn.pc # "idle"
  BY DEF Complete, Drain, Streaming
<1>2. Good' /\ UsedTyped' /\ used'.turns = used.turns /\ used'.broken = used.broken
  BY <1>1, GoodFrame DEF RolloutInv, UsedTyped
<1>3. RunsIn(used.turns)'
  BY <1>1, TurnRuns DEF RunsIn
<1>4. /\ TurnTyped' /\ turn'.pc # "idle" /\ turn'.pending = turn.pending
      /\ turn'.pc \notin {"sample", "tools"} => turn'.pending = << >>
      /\ turn'.pc = "tools" => turn'.pending # << >>
  <2>1. CASE Complete
    <3>1. turn.pending = << >> \/ turn.pending # << >>
      OBVIOUS
    <3> QED
      BY <2>1 DEF Complete, RolloutInv, TurnTyped, TurnInv
  <2>2. CASE Drain
    BY <2>2 DEF Drain, RolloutInv, TurnTyped, TurnInv
  <2> QED
    BY <2>1, <2>2
<1>5. \A k \in 1 .. Len(turn'.pending) : HasCall(history', turn'.pending[k])
  BY <1>1, <1>4 DEF RolloutInv, TurnInv
<1> QED
  BY <1>1, <1>2, <1>3, <1>4, <1>5, TurnGoesOn

LEMMA BreakKeepsInv == RolloutInv /\ Break => RolloutInv'
<1> SUFFICES ASSUME RolloutInv, Break PROVE RolloutInv'
  OBVIOUS
<1>1. /\ turn.pc # "idle" /\ Write(recorder, <<Event>>) /\ UNCHANGED <<history, used>>
      /\ turn' = [NoTurn EXCEPT !.pc = "finish", !.failed = TRUE]
  BY DEF Break, Streaming
<1>2. /\ recorder \in [up : BOOLEAN, ordinal : Nat, err : BOOLEAN]
      /\ recorder.ordinal \in Nat /\ used.turns \in 0 .. MaxTurns
      /\ FileGood(file) /\ file \in Seq(Lines)
  BY RecorderFields DEF RolloutInv, Good, UsedTyped, FileGood
<1> DEFINE x == Numbered(Event, recorder.ordinal)
<1>3. x \in Lines /\ x.type = "event" /\ Event.type = "event"
  BY <1>2, EventIsTyped DEF Event, Line
<1>4. /\ RecorderTyped' /\ FileGood(file') /\ recorder'.up = recorder.up
      /\ ~recorder'.err => ~recorder.err /\ Kept(file') = Kept(file) /\ file' = Append(file, x)
  BY <1>1, <1>2, <1>3, WritesPlain
<1> HIDE DEF x
<1>5. Good'
  BY <1>1, <1>4 DEF RolloutInv, Good, ReplayIsHistory, Kept
<1>6. RunsIn(used.turns)'
  <2>1. x.type # "turn_started" /\ x.type \notin Ends
    BY <1>3 DEF Ends
  <2>2. ~recorder.err => Running(Append(file, x), used.turns)
    BY <1>1, <1>2, <1>3, <2>1, TurnRuns, RunningAppend DEF RunsIn
  <2> QED
    BY <1>1, <1>4, <2>2, TurnRuns DEF RunsIn
<1>7. UsedTyped' /\ used'.turns = used.turns /\ used'.broken = used.broken
  BY <1>1 DEF RolloutInv, UsedTyped
<1>8. TurnTyped' /\ turn'.pc = "finish" /\ turn'.pending = << >>
  <2>1. << >> \in Seq(Calls)
    OBVIOUS
  <2> QED
    BY <1>1, <2>1 DEF TurnTyped, NoTurn
<1> QED
  BY <1>1, <1>5, <1>6, <1>7, <1>8, TurnGoesOn

LEMMA UnendedIsTyped ==
  ASSUME UsedTyped
  PROVE  /\ Unended.broken = used.broken \cup {used.turns} /\ Unended.turns = used.turns
         /\ Unended \in [items : 0 .. MaxItems, turns : 0 .. MaxTurns, opens : 0 .. MaxOpens,
                        broken : SUBSET (0 .. MaxTurns)]
BY DEF UsedTyped, Unended

LEMMA FinishKeepsInv == RolloutInv /\ Finish => RolloutInv'
<1> SUFFICES ASSUME RolloutInv, Finish PROVE RolloutInv'
  OBVIOUS
<1>1. turn.pc # "idle" /\ turn' = NoTurn /\ UNCHANGED history
  BY DEF Finish
<1>2. PICK type \in EndOf(turn.failed) : Write(recorder, <<Line(type, << >>, used.turns)>>)
  BY DEF Finish
<1>3. type \in Ends /\ type \in LineTypes /\ type \notin {"response_item", "compacted"}
      /\ type # "turn_started"
  BY <1>2 DEF EndOf, Ends, LineTypes
<1>4. /\ recorder \in [up : BOOLEAN, ordinal : Nat, err : BOOLEAN]
      /\ recorder.ordinal \in Nat /\ used.turns \in 0 .. MaxTurns
      /\ FileGood(file) /\ file \in Seq(Lines)
  BY RecorderFields DEF RolloutInv, Good, UsedTyped, FileGood
<1> DEFINE line == Line(type, << >>, used.turns)
           x    == Numbered(line, recorder.ordinal)
<1>5. x \in Lines /\ x.type = type /\ line.type = type
  <2>1. line = Plain(type, used.turns)
    BY DEF Plain
  <2> HIDE DEF line
  <2> QED
    BY <1>3, <1>4, <2>1, PlainIsTyped
<1> HIDE DEF line
<1>6. /\ RecorderTyped' /\ FileGood(file') /\ recorder'.up = recorder.up
      /\ ~recorder'.err => ~recorder.err /\ Kept(file') = Kept(file) /\ file' = Append(file, x)
  BY <1>2, <1>3, <1>4, <1>5, WritesPlain DEF line
<1> HIDE DEF x
<1>7. Good'
  BY <1>1, <1>6 DEF RolloutInv, Good, ReplayIsHistory, Kept
<1>8. UsedTyped'
  BY UnendedIsTyped DEF Finish, RolloutInv, UsedTyped
<1>9. TurnTyped' /\ turn'.pc = "idle" /\ turn'.pending = << >>
  <2>1. << >> \in Seq(Calls)
    OBVIOUS
  <2> QED
    BY <1>1, <2>1 DEF TurnTyped, NoTurn
<1>10. TurnInv' /\ StoredInv'
  BY <1>9 DEF TurnInv, StoredInv
<1> QED
  BY <1>7, <1>8, <1>9, <1>10 DEF RolloutInv

\* Without a session nothing is claimed but of the file.
LEMMA DownKeepsInv ==
  ASSUME RolloutInv, FileGood(file'), recorder' = Down, history' = << >>,
         turn' = NoTurn, UsedTyped'
  PROVE  RolloutInv'
<1>1. << >> \in Seq(Calls) /\ << >> \in Seq(HistoryItems)
  OBVIOUS
<1>2. CallsFirst(history')
  BY DEF CallsFirst
<1>3. RecorderTyped' /\ ReplayIsHistory'
  BY DEF RecorderTyped, ReplayIsHistory, Down
<1>4. TurnTyped' /\ TurnInv' /\ StoredInv'
  BY <1>1 DEF TurnTyped, TurnInv, StoredInv, NoTurn, Down
<1> QED
  BY <1>1, <1>2, <1>3, <1>4 DEF RolloutInv, Good

LEMMA CloseKeepsInv == RolloutInv /\ Close => RolloutInv'
<1> SUFFICES ASSUME RolloutInv, Close PROVE RolloutInv'
  OBVIOUS
<1>1. /\ turn.pc = "idle" /\ recorder' = Down /\ history' = << >>
      /\ UNCHANGED <<file, turn, used>>
  BY DEF Close
<1>2. << >> \in Seq(HistoryItems)
  OBVIOUS
<1>3. CallsFirst(history')
  BY <1>1 DEF CallsFirst
<1>4. Good'
  BY <1>1, <1>2, <1>3 DEF RolloutInv, Good, RecorderTyped, ReplayIsHistory, Down
<1>5. TurnTyped' /\ UsedTyped' /\ TurnInv' /\ StoredInv'
  BY <1>1 DEF RolloutInv, TurnTyped, UsedTyped, TurnInv, StoredInv, Down
<1> QED
  BY <1>4, <1>5 DEF RolloutInv

LEMMA CrashKeepsInv == RolloutInv /\ Crash => RolloutInv'
<1> SUFFICES ASSUME RolloutInv, Crash PROVE RolloutInv'
  OBVIOUS
<1>1. FileGood(file')
  BY TornAppend DEF Crash, RolloutInv, Good
<1>2. UsedTyped'
  BY UnendedIsTyped DEF Crash, RolloutInv, UsedTyped
<1> QED
  BY <1>1, <1>2, DownKeepsInv DEF Crash

LEMMA WriteNone ==
  ASSUME NEW L, file \in Seq(L),
         NEW r \in [up : BOOLEAN, ordinal : Nat, err : BOOLEAN], Write(r, << >>)
  PROVE  file' = file /\ recorder' = r
<1>1. PICK k \in 0 .. 0, torn \in BOOLEAN :
        /\ torn => k < 0
        /\ file' = file \o [i \in 1 .. k |-> [<< >>[i] EXCEPT !.ordinal = r.ordinal + i - 1]]
                        \o (IF torn THEN <<Torn>> ELSE << >>)
        /\ recorder' = [r EXCEPT !.ordinal = @ + k, !.err = @ \/ k < 0]
  BY DEF Write
<1>2. k = 0 /\ ~torn
  BY <1>1
<1>3. [i \in 1 .. k |-> [<< >>[i] EXCEPT !.ordinal = r.ordinal + i - 1]] = << >>
  BY <1>2
<1>4. file \o << >> = file
  BY ConcatEmptySeq
<1>5. file' = file
  BY <1>1, <1>2, <1>3, <1>4
<1>6. recorder' = r
  <2> DEFINE o == r.ordinal + k
             e == r.err \/ k < 0
  <2>1. o = r.ordinal /\ e = r.err
    BY <1>2
  <2>2. recorder' = [r EXCEPT !.ordinal = o, !.err = e]
    BY <1>1
  <2> HIDE DEF o, e
  <2> QED
    BY <2>1, <2>2
<1> QED
  BY <1>5, <1>6

\* A session that opens the rollout restores what the file says.
LEMMA OpenKeepsInv == RolloutInv /\ FileInv /\ Open => RolloutInv'
<1> SUFFICES ASSUME RolloutInv, FileInv, Open PROVE RolloutInv'
  OBVIOUS
<1> DEFINE next   == NextOrdinal(file)
           opened == [up |-> TRUE, ordinal |-> next, err |-> FALSE]
           meta   == Line("session_meta", << >>, 0)
           lines  == IF next = 0 THEN <<meta>> ELSE << >>
<1>1. file \in Seq(Lines) /\ FileGood(file)
  BY DEF RolloutInv, Good, FileGood
<1>2. NothingCut
  BY ReadableIsUncut DEF FileInv, Open
<1>3. next \in Nat
  BY <1>1, <1>2, NextOrdinalIsPlace, LenProperties DEF FileInv
<1>4. /\ Write(opened, lines) /\ history' = Restored(Replay(file)) /\ turn' = NoTurn
      /\ used' = [used EXCEPT !.opens = @ + 1]
  BY DEF Open
<1>5. opened \in [up : BOOLEAN, ordinal : Nat, err : BOOLEAN] /\ opened.up
  BY <1>3
<1>6. /\ RecorderTyped' /\ FileGood(file') /\ recorder'.up
      /\ ~recorder'.err => Kept(file') = Kept(file)
  <2>1. CASE next = 0
    <3> DEFINE x == Numbered(meta, opened.ordinal)
    <3>1. x \in Lines /\ x.type = "session_meta" /\ meta.type = "session_meta"
      <4>1. 0 \in 0 .. MaxTurns /\ "session_meta" \in LineTypes /\ meta = Plain("session_meta", 0)
        BY RolloutAssumption DEF LineTypes, Plain
      <4>2. opened.ordinal \in Nat
        BY <1>5
      <4> HIDE DEF opened, meta
      <4> QED
        BY <4>1, <4>2, PlainIsTyped
    <3>2. Write(opened, <<meta>>)
      BY <1>4, <2>1
    <3> HIDE DEF opened, meta
    <3> QED
      BY <1>1, <1>5, <3>1, <3>2, WritesPlain
  <2>2. CASE next # 0
    <3>1. Write(opened, << >>)
      BY <1>4, <2>2
    <3> HIDE DEF opened
    <3>2. file' = file /\ recorder' = opened
      BY <1>1, <1>5, <3>1, WriteNone
    <3> QED
      BY <1>1, <1>5, <3>2 DEF RecorderTyped
  <2> QED
    BY <2>1, <2>2
<1>7. history' \in Seq(HistoryItems) /\ CallsFirst(history')
  BY <1>1, <1>4, KeptIsHistory DEF FileGood, Kept
<1>8. Good'
  BY <1>4, <1>6, <1>7 DEF Good, ReplayIsHistory, Kept
<1>9. UsedTyped'
  <2>1. used.opens \in 0 .. MaxOpens /\ used.opens < MaxOpens /\ MaxOpens \in Nat
    BY RolloutAssumption DEF RolloutInv, UsedTyped, Open
  <2>2. used.opens + 1 \in 0 .. MaxOpens
    BY <2>1
  <2> QED
    BY <1>4, <2>2 DEF RolloutInv, UsedTyped
<1>10. TurnTyped' /\ turn'.pc = "idle" /\ turn'.pending = << >>
  <2>1. << >> \in Seq(Calls)
    OBVIOUS
  <2> QED
    BY <1>4, <2>1 DEF TurnTyped, NoTurn
<1>11. TurnInv' /\ StoredInv'
  BY <1>10 DEF TurnInv, StoredInv
<1> QED
  BY <1>8, <1>9, <1>10, <1>11 DEF RolloutInv

\* What a fork writes for the first n items of the thread it is made from.
Copy(items, k) ==
  [Line("response_item", <<items[k]>>, items[k].turn) EXCEPT !.ordinal = k]
Forked(items, n) ==
  [k \in 1 .. n + 1 |-> IF k = 1 THEN Line("session_meta", << >>, 0) ELSE Copy(items, k - 1)]

LEMMA PrefixCallsFirst ==
  ASSUME NEW S, NEW a \in Seq(S), NEW b \in Seq(S), CallsFirst(a \o b)
  PROVE  CallsFirst(a)
<1>1. /\ Len(a \o b) = Len(a) + Len(b) /\ Len(a) \in Nat /\ Len(b) \in Nat
      /\ \A i \in 1 .. Len(a) : (a \o b)[i] = a[i]
  BY ConcatProperties, LenProperties
<1> QED
  BY <1>1 DEF CallsFirst

\* A fork holds the first items of the thread it is made from.
LEMMA ForkedIs ==
  ASSUME NEW items \in Seq(Items), NEW n \in 0 .. Len(items)
  PROVE  /\ Forked(items, n) \in Seq(Lines)
         /\ Replay(Forked(items, n)) = SubSeq(items, 1, n)
<1> DEFINE P == {m \in Nat : m <= Len(items) =>
                   /\ Forked(items, m) \in Seq(Lines)
                   /\ Replay(Forked(items, m)) = SubSeq(items, 1, m)}
<1> HIDE DEF P
<1>1. 0 \in P
  <2> DEFINE meta == Line("session_meta", << >>, 0)
  <2>1. meta \in Lines /\ meta.type = "session_meta"
    <3>1. << >> \in Seq(Items) /\ 0 \in 0 .. MaxTurns /\ "session_meta" \in LineTypes
      BY RolloutAssumption DEF LineTypes
    <3> QED
      BY <3>1, LineIsTyped DEF Line
  <2>2. Forked(items, 0) = [k \in 1 .. 1 |-> meta]
    BY DEF Forked
  <2> HIDE DEF meta
  <2>3. [k \in 1 .. 1 |-> meta] = Append(<< >>, meta) /\ << >> \in Seq(Lines)
    OBVIOUS
  <2>4. Forked(items, 0) \in Seq(Lines) /\ Replay(Forked(items, 0)) = << >>
    BY <2>1, <2>2, <2>3, LineAppend, ReplayEmpty
  <2>5. SubSeq(items, 1, 0) = << >>
    BY SubSeqEmpty
  <2> QED
    BY <2>4, <2>5 DEF P
<1>2. ASSUME NEW m \in P PROVE m + 1 \in P
  <2> SUFFICES ASSUME m + 1 <= Len(items)
               PROVE  /\ Forked(items, m + 1) \in Seq(Lines)
                      /\ Replay(Forked(items, m + 1)) = SubSeq(items, 1, m + 1)
    BY DEF P
  <2> DEFINE f == Forked(items, m)
             y == items[m + 1]
             x == Copy(items, m + 1)
  <2>1. m \in Nat /\ Len(items) \in Nat /\ f \in Seq(Lines) /\ Replay(f) = SubSeq(items, 1, m)
    BY LenProperties DEF P
  <2>2. y \in Items
    BY <2>1, ElementOfSeq
  <2>3. x \in Lines /\ x.type = "response_item" /\ x.items = <<y>>
    <3> DEFINE one  == <<y>>
               type == "response_item"
    <3>1. one \in Seq(Items) /\ y.turn \in 0 .. MaxTurns /\ type \in LineTypes /\ m + 1 \in Nat
      BY <2>1, <2>2 DEF Items, LineTypes
    <3> HIDE DEF y
    <3>2. x = Numbered(Line(type, one, y.turn), m + 1)
      BY DEF Copy, Numbered, y
    <3> HIDE DEF x, one, type
    <3>3. x \in Lines /\ x.type = type /\ x.items = one
      BY <3>1, <3>2, LineIsTyped
    <3> QED
      BY <3>3 DEF one, type
  <2>4. Forked(items, m + 1) = Append(f, x)
    <3>1. f = [k \in 1 .. m + 1 |-> IF k = 1 THEN Line("session_meta", << >>, 0)
                                    ELSE Copy(items, k - 1)]
      BY DEF Forked
    <3>2. Len(f) = m + 1
      BY <2>1, <3>1, LenProperties
    <3>3. Forked(items, m + 1) = [k \in 1 .. (m + 1) + 1 |->
            IF k = 1 THEN Line("session_meta", << >>, 0) ELSE Copy(items, k - 1)]
      BY DEF Forked
    <3>4. \A k \in 1 .. (m + 1) + 1 :
            Forked(items, m + 1)[k] = IF k = m + 2 THEN x ELSE f[k]
      <4> SUFFICES ASSUME NEW k \in 1 .. (m + 1) + 1
                   PROVE  Forked(items, m + 1)[k] = IF k = m + 2 THEN x ELSE f[k]
        OBVIOUS
      <4>1. CASE k = m + 2
        <5>1. k # 1 /\ k - 1 = m + 1
          BY <2>1, <4>1
        <5> QED
          BY <3>3, <4>1, <5>1
      <4>2. CASE k # m + 2
        <5>1. k \in 1 .. m + 1
          BY <2>1, <4>2
        <5> QED
          BY <3>1, <3>3, <4>2, <5>1
      <4> QED
        BY <4>1, <4>2
    <3>5. /\ Append(f, x) \in Seq(Lines) /\ Len(Append(f, x)) = m + 2
          /\ \A k \in 1 .. m + 1 : Append(f, x)[k] = f[k]
          /\ Append(f, x)[m + 2] = x
      <4> HIDE DEF f, x
      <4>1. (m + 1) + 1 = m + 2
        BY <2>1
      <4> QED
        BY <2>1, <2>3, <3>2, <4>1, AppendProperties
    <3> HIDE DEF f, x
    <3>6. \A k \in 1 .. (m + 1) + 1 : Forked(items, m + 1)[k] = Append(f, x)[k]
      <4> TAKE k \in 1 .. (m + 1) + 1
      <4>1. k = m + 2 \/ k \in 1 .. m + 1
        BY <2>1
      <4> QED
        BY <2>1, <3>4, <3>5, <4>1
    <3>7. Forked(items, m + 1) \in Seq(Lines) /\ Len(Forked(items, m + 1)) = m + 2
      <4>1. \A k \in 1 .. (m + 1) + 1 : Append(f, x)[k] \in Lines
        <5> TAKE k \in 1 .. (m + 1) + 1
        <5>1. k \in 1 .. Len(Append(f, x))
          BY <2>1, <3>5
        <5> QED
          BY <3>5, <5>1, ElementOfSeq
      <4>2. Forked(items, m + 1) \in [1 .. m + 2 -> Lines]
        <5>1. (m + 1) + 1 = m + 2
          BY <2>1
        <5>2. \A k \in 1 .. m + 2 : Forked(items, m + 1)[k] \in Lines
          BY <3>6, <4>1, <5>1
        <5> DEFINE F == Forked(items, m + 1)
                   e(k) == IF k = 1 THEN Line("session_meta", << >>, 0) ELSE Copy(items, k - 1)
        <5>3. F = [k \in 1 .. m + 2 |-> e(k)]
          BY <3>3, <5>1
        <5>4. F = [k \in 1 .. m + 2 |-> F[k]]
          BY <5>3
        <5> HIDE DEF F
        <5> QED
          BY <5>2, <5>4 DEF F
      <4>3. m + 2 \in Nat
        BY <2>1
      <4> QED
        BY <4>2, <4>3, SeqDef, LenProperties
    <3> DEFINE g == Forked(items, m + 1)
               e == Append(f, x)
    <3>8. /\ g \in Seq(Lines) /\ e \in Seq(Lines) /\ Len(g) = Len(e)
          /\ \A k \in 1 .. Len(g) : g[k] = e[k]
      <4>1. (m + 1) + 1 = m + 2
        BY <2>1
      <4> QED
        BY <3>5, <3>6, <3>7, <4>1
    <3> HIDE DEF g, e
    <3>9. g = e
      BY <3>8, SeqEqual
    <3> QED
      BY <3>9 DEF g, e
  <2> HIDE DEF f, x
  <2>5. Append(f, x) \in Seq(Lines) /\ Replay(Append(f, x)) = SubSeq(items, 1, m) \o <<y>>
    BY <2>1, <2>3, LineAppend
  <2>6. SubSeq(items, 1, m + 1) = Append(SubSeq(items, 1, m), y)
    <3>1. m + 1 \in 1 .. Len(items) /\ (m + 1) - 1 = m
      BY <2>1
    <3> QED
      BY <2>1, <3>1, SubSeqRecursiveSecond
  <2>7. SubSeq(items, 1, m) \in Seq(Items)
    BY <2>1, <2>5, KeptIsHistory
  <2> QED
    BY <2>2, <2>4, <2>5, <2>6, <2>7, AppendIsConcat
<1>3. n \in Nat /\ n <= Len(items)
  BY LenProperties
<1>4. n \in P
  BY <1>1, <1>2, <1>3, Induction
<1> QED
  BY <1>3, <1>4 DEF P

\* So the fork of a good file is a good file.
LEMMA ForkKeepsInv == RolloutInv /\ Fork => RolloutInv'
<1> SUFFICES ASSUME RolloutInv, Fork PROVE RolloutInv'
  OBVIOUS
<1> DEFINE items == Replay(file)
<1>1. file \in Seq(Lines) /\ items \in Seq(Items) /\ CallsFirst(Restored(items))
  BY KeptIsHistory DEF RolloutInv, Good, FileGood, Kept
<1>2. PICK n \in 0 .. Len(items) : file' = Forked(items, n)
  BY DEF Fork, Forked, Copy
<1>3. n \in Nat /\ Len(items) \in Nat /\ n <= Len(items)
  BY <1>1, LenProperties
<1> HIDE DEF items
<1>4. file' \in Seq(Lines) /\ Replay(file') = SubSeq(items, 1, n)
  BY <1>1, <1>2, ForkedIs
<1>5. CallsFirst(Kept(file'))
  <2> DEFINE a == SubSeq(items, 1, n)
             b == SubSeq(items, n + 1, Len(items))
  <2>1. a \in Seq(Items) /\ b \in Seq(Items)
    <3>1. a \in Seq(Items)
      BY <1>4, KeptIsHistory
    <3>2. n + 1 \in 1 .. Len(items) + 1 /\ Len(items) \in (n + 1) - 1 .. Len(items)
      BY <1>3
    <3> QED
      BY <1>1, <3>1, <3>2, SubSeqProperties
  <2>2. a \o b = items
    <3>1. SubSeq(items, 1, Len(items)) = items
      BY <1>1, SubSeqFull
    <3>2. a \o b = SubSeq(items, 1, Len(items))
      <4>1. 1 \in 1 .. Len(items) + 1 /\ n \in 1 - 1 .. Len(items) /\ Len(items) \in n .. Len(items)
        BY <1>3
      <4> QED
        BY <1>1, <4>1, ConcatAdjacentSubSeq
    <3> QED
      BY <3>1, <3>2
  <2> HIDE DEF a, b
  <2>3. CallsFirst(Restored(a) \o Restored(b))
    BY <1>1, <2>1, <2>2, RestoredConcat
  <2>4. CallsFirst(Restored(a))
    BY <2>1, <2>3, RestoredIsSeq, PrefixCallsFirst
  <2> QED
    BY <1>4, <2>4 DEF Kept, a
<1>6. InTheirTurn(file')
  <2>1. \A k \in 1 .. Len(file') : file'[k].type # "turn_started"
    <3>1. DOMAIN file' = 1 .. n + 1 /\ Len(file') = n + 1
      BY <1>2, <1>3, <1>4, LenProperties DEF Forked
    <3> QED
      BY <1>2, <3>1 DEF Forked, Copy, Line
  <2>2. \A k \in 1 .. Len(file') : file'[k].type = "response_item" =>
          file'[k].items[1].turn = file'[k].turn
    <3>1. DOMAIN file' = 1 .. n + 1 /\ Len(file') = n + 1
      BY <1>2, <1>3, <1>4, LenProperties DEF Forked
    <3> SUFFICES ASSUME NEW k \in 1 .. n + 1, file'[k].type = "response_item"
                 PROVE  file'[k].items[1].turn = file'[k].turn
      BY <3>1
    <3>2. file'[k] = IF k = 1 THEN Line("session_meta", << >>, 0) ELSE Copy(items, k - 1)
      BY <1>2 DEF Forked
    <3>3. k # 1
      BY <3>2 DEF Line
    <3>4. file'[k] = Copy(items, k - 1)
      BY <3>2, <3>3
    <3> DEFINE y == items[k - 1]
    <3>5. Copy(items, k - 1).items = <<y>> /\ Copy(items, k - 1).turn = y.turn
      BY DEF Copy, Line
    <3> QED
      BY <3>4, <3>5
  <2> QED
    BY <2>1, <2>2 DEF InTheirTurn
<1>7. FileGood(file')
  BY <1>4, <1>5, <1>6 DEF FileGood
<1> QED
  BY <1>7, DownKeepsInv DEF Fork, RolloutInv, UsedTyped

-----------------------------------------------------------------------------
(* The invariant of the specification.                                     *)

LEMMA RolloutInit == Init => RolloutInv
<1> SUFFICES ASSUME Init PROVE RolloutInv
  OBVIOUS
<1>1. file = << >> /\ history = << >> /\ turn = NoTurn /\ ~recorder.up
  BY DEF Init
<1>2. RecorderTyped
  BY DEF Init, RecorderTyped
<1>3. << >> \in Seq(Lines) /\ << >> \in Seq(HistoryItems) /\ << >> \in Seq(Calls) /\ Len(<< >>) = 0
  OBVIOUS
<1>4. CallsFirst(<< >>) /\ InTheirTurn(<< >>)
  BY <1>3 DEF CallsFirst, InTheirTurn
<1>5. Kept(<< >>) = << >>
  BY ReplayEmpty, RestoredEmpty DEF Kept
<1>6. Good
  BY <1>1, <1>2, <1>3, <1>4, <1>5 DEF Good, FileGood, ReplayIsHistory
<1>7. UsedTyped
  BY RolloutAssumption DEF Init, UsedTyped
<1>8. TurnTyped /\ turn.pc = "idle" /\ turn.pending = << >>
  BY <1>1, <1>3 DEF TurnTyped, NoTurn
<1>9. TurnInv /\ StoredInv
  BY <1>1, <1>3, <1>8 DEF TurnInv, StoredInv
<1> QED
  BY <1>6, <1>7, <1>8, <1>9 DEF RolloutInv

LEMMA StutterKeepsInv == RolloutInv /\ UNCHANGED vars => RolloutInv'
BY GoodFrame DEF vars, RolloutInv, TurnTyped, UsedTyped, TurnInv, StoredInv

\* Every step keeps it, given what was shown of the file.
LEMMA RolloutStep == RolloutInv /\ FileInv /\ [Next]_vars => RolloutInv'
<1> SUFFICES ASSUME RolloutInv, FileInv, [Next]_vars PROVE RolloutInv'
  OBVIOUS
<1>1. CASE Open
  BY <1>1, OpenKeepsInv
<1>2. CASE Begin
  BY <1>2, BeginKeepsInv
<1>3. CASE RecordInput
  BY <1>3, RecordInputKeepsInv
<1>4. CASE Compact
  BY <1>4, CompactKeepsInv
<1>5. CASE Say
  BY <1>5, SayKeepsInv
<1>6. CASE \E c \in Calls : Call(c)
  BY <1>6, CallKeepsInv
<1>7. CASE BadCall
  BY <1>7, BadCallKeepsInv
<1>8. CASE Complete \/ Drain
  BY <1>8, UnrecordedKeepsInv
<1>9. CASE RecordOutput
  BY <1>9, RecordOutputKeepsInv
<1>10. CASE RecordText
  BY <1>10, RecordTextKeepsInv
<1>11. CASE Break
  BY <1>11, BreakKeepsInv
<1>12. CASE Finish
  BY <1>12, FinishKeepsInv
<1>13. CASE Close
  BY <1>13, CloseKeepsInv
<1>14. CASE Crash
  BY <1>14, CrashKeepsInv
<1>15. CASE Fork
  BY <1>15, ForkKeepsInv
<1>16. CASE UNCHANGED vars
  BY <1>16, StutterKeepsInv
<1> QED
  BY <1>1, <1>2, <1>3, <1>4, <1>5, <1>6, <1>7, <1>8, <1>9, <1>10, <1>11, <1>12, <1>13,
     <1>14, <1>15, <1>16 DEF Next

LEMMA RolloutHolds == Spec => []RolloutInv
BY RolloutInit, RolloutStep, FileHolds, PTL DEF Spec

-----------------------------------------------------------------------------
(* What follows from it.                                                   *)

\* Every line, item, turn and count has its type (rollout.go:17-52,
\* session.go:157-188).
THEOREM RolloutTypeCorrect == Spec => []TypeOK
<1>1. RolloutInv => TypeOK
  <2> SUFFICES ASSUME RolloutInv PROVE TypeOK
    OBVIOUS
  <2>1. file \in Seq(Lines) /\ history \in Seq(HistoryItems)
    BY DEF RolloutInv, Good, FileGood
  <2>2. ASSUME NEW k \in DOMAIN file
        PROVE  /\ DOMAIN file[k] = {"type", "ordinal", "turn", "items"}
               /\ file[k].ordinal \in Nat /\ file[k].turn \in 0 .. MaxTurns
    <3>1. file[k] \in Lines
      BY <2>1, <2>2, LenProperties
    <3> QED
      BY <3>1 DEF Lines
  <2>3. \A item \in ToSet(history) : item.kind \in Conversational
    BY <2>1, LenProperties DEF ToSet, HistoryItems
  <2> QED
    BY <2>2, <2>3 DEF TypeOK, RolloutInv, Good, RecorderTyped, TurnTyped, UsedTyped
<1> QED
  BY <1>1, RolloutHolds, PTL

\* While no append has failed, reopening the rollout would give the session's
\* very history, over compactions, forks, broken turns and kills
\* (rollout.go:202-243, turn.go:143-145, session.go:627-630).
THEOREM ReplaysAreHistory == Spec => []ReplayIsHistory
<1>1. RolloutInv => ReplayIsHistory
  BY DEF RolloutInv, Good
<1> QED
  BY <1>1, RolloutHolds, PTL

\* The next prompt pairs every call with an output after it and every output
\* with a call before it (history.go:51-82), if the models use other ids than
\* the one with which turn.go:210 answers a call that has none.
THEOREM PromptsPaired == InvalidId \notin Calls => (Spec => []PromptsArePaired)
<1> SUFFICES ASSUME InvalidId \notin Calls PROVE Spec => []PromptsArePaired
  OBVIOUS
<1>1. RolloutInv => PromptsArePaired
  <2> SUFFICES ASSUME RolloutInv PROVE PromptsArePaired
    OBVIOUS
  <2>1. HistoryItems \subseteq Items
    BY DEF HistoryItems
  <2>2. history \in Seq(Items) /\ CallsFirst(history)
    BY <2>1, SeqMonotonic DEF RolloutInv, Good
  <2> QED
    BY <2>2, HistoryPairs DEF PromptsArePaired
<1> QED
  BY <1>1, RolloutHolds, PTL

\* Each item is read back under the turn that recorded it, also behind a turn
\* that a kill left without an end (rollout.go:126-169).
THEOREM ItemsStayInTurn == Spec => []ItemsInTheirTurn
<1>1. RolloutInv => ItemsInTheirTurn
  <2> SUFFICES ASSUME RolloutInv, NEW k \in Started, NEW i \in BlockOf(k),
                      file[i].type = "response_item"
               PROVE  file[i].items[1].turn = file[k].turn
    BY DEF ItemsInTheirTurn
  <2>1. file \in Seq(Lines) /\ InTheirTurn(file)
    BY DEF RolloutInv, Good, FileGood
  <2>2. DOMAIN file = 1 .. Len(file) /\ Len(file) \in Nat
    BY <2>1, LenProperties
  <2>3. /\ k \in 1 .. Len(file) /\ i \in 1 .. Len(file) /\ k < i
        /\ file[k].type = "turn_started"
    BY <2>2 DEF BlockOf, Started
  <2>4. \A j \in k + 1 .. i - 1 : file[j].type # "turn_started"
    <3> SUFFICES ASSUME NEW j \in k + 1 .. i - 1, file[j].type = "turn_started" PROVE FALSE
      OBVIOUS
    <3>1. j \in Started
      BY <2>2, <2>3 DEF Started
    <3> QED
      BY <2>3, <3>1 DEF BlockOf
  <2>5. k \in 1 .. i - 1
    BY <2>3
  <2> QED
    BY <2>1, <2>3, <2>4, <2>5 DEF InTheirTurn
<1> QED
  BY <1>1, RolloutHolds, PTL

-----------------------------------------------------------------------------
(* The status of every stored turn.                                        *)

\* The places where a turn starts, and whether the lines after one end it.
Starts(f) == {k \in 1 .. Len(f) : f[k].type = "turn_started"}
Unclosed(f, k) ==
  \A i \in k + 1 .. Len(f) : f[i].type \in Ends =>
    \E j \in k + 1 .. i : f[j].type = "turn_started"

\* A file that tells which of the turns up to t are open.
Told(f, open, t) ==
  /\ \A k \in Starts(f) : f[k].turn \in 0 .. t
  /\ \A k, l \in Starts(f) : f[k].turn = f[l].turn => k = l
  /\ \A k \in Starts(f) : Unclosed(f, k) <=> f[k].turn \in open

\* The turn that runs, and those that were left without an end.
OpenTurns == used.broken \cup (IF turn.pc = "idle" THEN {} ELSE {used.turns})

StatusInv ==
  /\ used.broken \subseteq 0 .. used.turns
  /\ turn.pc # "idle" => used.turns \notin used.broken
  /\ Told(file, OpenTurns, used.turns)

\* A file that goes on as another does, first with lines of any kind, then quietly.
GoesOn(f, g) ==
  /\ Len(f) \in Nat /\ Len(g) \in Nat /\ Len(f) <= Len(g)
  /\ \A i \in 1 .. Len(f) : g[i] = f[i]
QuietFrom(g, n) == \A i \in n + 1 .. Len(g) : g[i].type # "turn_started" /\ g[i].type \notin Ends

\* A turn that has not started by place n is open only if it was there.
LEMMA UnclosedStays ==
  ASSUME NEW f, NEW g, GoesOn(f, g), QuietFrom(g, Len(f)), NEW k \in 1 .. Len(f)
  PROVE  Unclosed(g, k) <=> Unclosed(f, k)
<1>1. ASSUME Unclosed(f, k), NEW i \in k + 1 .. Len(g), g[i].type \in Ends
      PROVE  \E j \in k + 1 .. i : g[j].type = "turn_started"
  <2>1. i \in k + 1 .. Len(f) /\ f[i].type \in Ends
    BY <1>1 DEF GoesOn, QuietFrom
  <2>2. PICK j \in k + 1 .. i : f[j].type = "turn_started"
    BY <1>1, <2>1 DEF Unclosed
  <2>3. g[j] = f[j]
    BY <2>1, <2>2 DEF GoesOn
  <2> QED
    BY <2>2, <2>3
<1>2. ASSUME Unclosed(g, k), NEW i \in k + 1 .. Len(f), f[i].type \in Ends
      PROVE  \E j \in k + 1 .. i : f[j].type = "turn_started"
  <2>1. i \in k + 1 .. Len(g) /\ g[i].type \in Ends
    BY <1>2 DEF GoesOn
  <2>2. PICK j \in k + 1 .. i : g[j].type = "turn_started"
    BY <1>2, <2>1 DEF Unclosed
  <2>3. g[j] = f[j]
    BY <1>2, <2>2 DEF GoesOn
  <2> QED
    BY <2>2, <2>3
<1> QED
  BY <1>1, <1>2 DEF Unclosed

LEMMA ToldQuietly ==
  ASSUME NEW f, NEW g, NEW open, NEW t, Told(f, open, t), GoesOn(f, g), QuietFrom(g, Len(f))
  PROVE  Told(g, open, t)
<1>1. Starts(g) = Starts(f) /\ \A k \in Starts(f) : k \in 1 .. Len(f) /\ g[k] = f[k]
  <2>1. ASSUME NEW k \in 1 .. Len(g), g[k].type = "turn_started" PROVE k \in 1 .. Len(f)
    BY <2>1 DEF GoesOn, QuietFrom
  <2>2. \A k \in 1 .. Len(f) : k \in 1 .. Len(g) /\ g[k] = f[k]
    BY DEF GoesOn
  <2> QED
    BY <2>1, <2>2 DEF Starts
<1>2. \A k \in Starts(f) : Unclosed(g, k) <=> Unclosed(f, k)
  BY <1>1, UnclosedStays
<1> QED
  BY <1>1, <1>2 DEF Told

\* The same, for a turn that began without a word in the file.
LEMMA ToldOfMore ==
  ASSUME NEW f, NEW open, NEW t \in Nat, Told(f, open, t)
  PROVE  Told(f, open \cup {t + 1}, t + 1)
<1>1. \A k \in Starts(f) : f[k].turn \in 0 .. t + 1 /\ f[k].turn # t + 1
  BY DEF Told
<1> QED
  BY <1>1 DEF Told

\* A turn starts.
LEMMA ToldOfStart ==
  ASSUME NEW f, NEW g, NEW open, NEW t \in Nat, Told(f, open, t), GoesOn(f, g),
         Len(f) + 1 <= Len(g), g[Len(f) + 1].type = "turn_started",
         g[Len(f) + 1].turn = t + 1, QuietFrom(g, Len(f) + 1)
  PROVE  Told(g, open \cup {t + 1}, t + 1)
<1> DEFINE s == Len(f) + 1
<1>1. s \in 1 .. Len(g) /\ s \in Nat /\ Len(f) \in Nat /\ Len(g) \in Nat
  BY DEF GoesOn
<1>2. Starts(g) = Starts(f) \cup {s}
  <2>1. ASSUME NEW k \in 1 .. Len(g), g[k].type = "turn_started", k # s PROVE k \in 1 .. Len(f)
    BY <1>1, <2>1 DEF QuietFrom
  <2>2. \A k \in 1 .. Len(f) : k \in 1 .. Len(g) /\ g[k] = f[k]
    BY DEF GoesOn
  <2>3. s \in Starts(g)
    BY <1>1 DEF Starts
  <2> HIDE DEF s
  <2> QED
    BY <2>1, <2>2, <2>3 DEF Starts
<1>3. \A k \in Starts(f) : /\ k \in 1 .. Len(f) /\ k # s /\ g[k] = f[k]
                           /\ g[k].turn \in 0 .. t + 1 /\ g[k].turn # t + 1
  BY <1>1 DEF GoesOn, Starts, Told
<1>4. Ends \cap {"turn_started"} = {}
  BY DEF Ends
<1>5. Unclosed(g, s)
  <2>1. \A i \in s + 1 .. Len(g) : g[i].type \notin Ends
    BY DEF QuietFrom
  <2> QED
    BY <2>1 DEF Unclosed
<1>6. ASSUME NEW k \in Starts(f) PROVE Unclosed(g, k) <=> Unclosed(f, k)
  <2>1. ASSUME Unclosed(f, k), NEW i \in k + 1 .. Len(g), g[i].type \in Ends
        PROVE  \E j \in k + 1 .. i : g[j].type = "turn_started"
    <3>1. CASE i \in k + 1 .. Len(f)
      <4>1. f[i].type \in Ends
        BY <1>3, <2>1, <3>1 DEF GoesOn
      <4>2. PICK j \in k + 1 .. i : f[j].type = "turn_started"
        BY <2>1, <3>1, <4>1 DEF Unclosed
      <4>3. g[j] = f[j]
        BY <1>3, <3>1, <4>2 DEF GoesOn
      <4> QED
        BY <4>2, <4>3
    <3>2. CASE ~(i \in k + 1 .. Len(f))
      <4>1. s \in k + 1 .. i
        BY <1>1, <1>3, <3>2
      <4> QED
        BY <4>1
    <3> QED
      BY <3>1, <3>2
  <2>2. ASSUME Unclosed(g, k), NEW i \in k + 1 .. Len(f), f[i].type \in Ends
        PROVE  \E j \in k + 1 .. i : f[j].type = "turn_started"
    <3>1. i \in k + 1 .. Len(g) /\ g[i].type \in Ends
      BY <1>3, <2>2 DEF GoesOn
    <3>2. PICK j \in k + 1 .. i : g[j].type = "turn_started"
      BY <2>2, <3>1 DEF Unclosed
    <3>3. g[j] = f[j]
      BY <1>3, <2>2, <3>2 DEF GoesOn
    <3> QED
      BY <3>2, <3>3
  <2> QED
    BY <2>1, <2>2 DEF Unclosed
<1> HIDE DEF s
<1>7. /\ \A k \in Starts(g) : g[k].turn \in 0 .. t + 1
      /\ \A k, l \in Starts(g) : g[k].turn = g[l].turn => k = l
  BY <1>2, <1>3 DEF Told, s
<1>8. \A k \in Starts(g) : Unclosed(g, k) <=> g[k].turn \in open \cup {t + 1}
  BY <1>2, <1>3, <1>5, <1>6 DEF Told, s
<1> QED
  BY <1>7, <1>8 DEF Told

\* The running turn ends.
LEMMA ToldOfEnd ==
  ASSUME NEW f, NEW g, NEW open, NEW t, Told(f, open, t), GoesOn(f, g), Running(f, t),
         Len(g) = Len(f) + 1, g[Len(f) + 1].type \in Ends
  PROVE  Told(g, open \ {t}, t)
<1> DEFINE s == Len(f) + 1
<1>1. s \in 1 .. Len(g) /\ s \in Nat /\ Len(f) \in Nat /\ Len(g) = s
  BY DEF GoesOn
<1>2. g[s].type # "turn_started" /\ g[s].type \in Ends
  BY DEF Ends
<1>3. Starts(g) = Starts(f) /\ \A k \in Starts(f) : k \in 1 .. Len(f) /\ g[k] = f[k]
  <2>1. \A k \in 1 .. Len(f) : k \in 1 .. Len(g) /\ g[k] = f[k]
    BY <1>1 DEF GoesOn
  <2>2. \A k \in 1 .. Len(g) : k = s \/ k \in 1 .. Len(f)
    BY <1>1
  <2> HIDE DEF s
  <2> QED
    BY <1>2, <2>1, <2>2 DEF Starts
<1>4. PICK z \in 1 .. Len(f) : LastStart(f, z, t)
  BY DEF Running
<1>5. z \in Starts(f) /\ f[z].turn = t /\ \A j \in z + 1 .. Len(f) : f[j].type # "turn_started"
  BY <1>4 DEF Starts, LastStart
<1>6. ~Unclosed(g, z)
  <2>1. s \in z + 1 .. Len(g)
    BY <1>1
  <2>2. \A j \in z + 1 .. s : g[j].type # "turn_started"
    <3> TAKE j \in z + 1 .. s
    <3>1. CASE j = s
      BY <1>2, <3>1
    <3>2. CASE j # s
      <4>1. j \in z + 1 .. Len(f) /\ g[j] = f[j]
        BY <1>1, <3>2 DEF GoesOn
      <4> QED
        BY <1>5, <4>1
    <3> QED
      BY <3>1, <3>2
  <2> QED
    BY <1>2, <2>1, <2>2 DEF Unclosed
<1>7. ASSUME NEW k \in Starts(f), k # z PROVE Unclosed(g, k) <=> Unclosed(f, k)
  <2>0. k \in 1 .. Len(f) /\ k < z
    BY <1>3, <1>5, <1>7 DEF Starts
  <2>1. ASSUME Unclosed(f, k), NEW i \in k + 1 .. Len(g), g[i].type \in Ends
        PROVE  \E j \in k + 1 .. i : g[j].type = "turn_started"
    <3>1. CASE i \in k + 1 .. Len(f)
      <4>1. f[i].type \in Ends
        BY <2>0, <2>1, <3>1 DEF GoesOn
      <4>2. PICK j \in k + 1 .. i : f[j].type = "turn_started"
        BY <2>1, <3>1, <4>1 DEF Unclosed
      <4>3. g[j] = f[j]
        BY <2>0, <3>1, <4>2 DEF GoesOn
      <4> QED
        BY <4>2, <4>3
    <3>2. CASE ~(i \in k + 1 .. Len(f))
      <4>1. z \in k + 1 .. i
        BY <1>1, <2>0, <3>2
      <4>2. g[z].type = "turn_started"
        BY <1>3, <1>5 DEF Starts
      <4> QED
        BY <4>1, <4>2
    <3> QED
      BY <3>1, <3>2
  <2>2. ASSUME Unclosed(g, k), NEW i \in k + 1 .. Len(f), f[i].type \in Ends
        PROVE  \E j \in k + 1 .. i : f[j].type = "turn_started"
    <3>1. i \in k + 1 .. Len(g) /\ g[i].type \in Ends
      BY <1>1, <2>0, <2>2 DEF GoesOn
    <3>2. PICK j \in k + 1 .. i : g[j].type = "turn_started"
      BY <2>2, <3>1 DEF Unclosed
    <3>3. g[j] = f[j]
      BY <2>0, <2>2, <3>2 DEF GoesOn
    <3> QED
      BY <3>2, <3>3
  <2> QED
    BY <2>1, <2>2 DEF Unclosed
<1> HIDE DEF s
<1>8. \A k \in Starts(f) : k # z => f[k].turn # t
  BY <1>5 DEF Told
<1>9. \A k \in Starts(g) : Unclosed(g, k) <=> g[k].turn \in open \ {t}
  BY <1>3, <1>5, <1>6, <1>7, <1>8 DEF Told
<1> QED
  BY <1>3, <1>9 DEF Told

\* What an append makes of the file, and of the places of what was appended.
LEMMA AppendGoesOn ==
  ASSUME file \in Seq(Lines), NEW r, NEW T, NEW lines \in Seq(T), Write(r, lines)
  PROVE  \E k \in 0 .. Len(lines), torn \in BOOLEAN :
           /\ Appended(r, lines, k, torn) /\ GoesOn(file, file')
           /\ k \in Nat /\ Len(lines) \in Nat /\ k <= Len(lines) /\ Len(file) \in Nat
           /\ \A i \in Len(file) + k + 1 .. Len(file') : file'[i] = Torn
<1>1. PICK k \in 0 .. Len(lines), torn \in BOOLEAN : Appended(r, lines, k, torn)
  BY WriteAppends
<1>2. k \in Nat /\ Len(lines) \in Nat /\ k <= Len(lines) /\ Len(file) \in Nat
  BY LenProperties
<1>3. GoesOn(file, file')
  BY <1>1, <1>2 DEF Appended, GoesOn
<1>4. \A i \in Len(file) + k + 1 .. Len(file') : file'[i] = Torn
  BY <1>1, <1>2, <1>3 DEF Appended, GoesOn
<1> QED
  BY <1>1, <1>2, <1>3, <1>4

LEMMA AppendIsQuiet ==
  ASSUME file \in Seq(Lines), NEW r, NEW lines, AreWhole(lines, Quiet), Write(r, lines)
  PROVE  GoesOn(file, file') /\ QuietFrom(file', Len(file))
<1>1. PICK T : lines \in Seq(T)
  BY DEF AreWhole
<1>2. PICK k \in 0 .. Len(lines), torn \in BOOLEAN :
           /\ Appended(r, lines, k, torn) /\ GoesOn(file, file')
           /\ k \in Nat /\ Len(lines) \in Nat /\ k <= Len(lines) /\ Len(file) \in Nat
           /\ \A i \in Len(file) + k + 1 .. Len(file') : file'[i] = Torn
  BY <1>1, AppendGoesOn
<1>3. Torn.type \notin Ends /\ Torn.type # "turn_started"
  BY DEF Torn, Ends
<1>4. \A type \in Quiet : type \notin Ends /\ type # "turn_started"
  BY DEF Quiet, Ends
<1>5. ASSUME NEW i \in Len(file) + 1 .. Len(file')
      PROVE  file'[i].type # "turn_started" /\ file'[i].type \notin Ends
  <2>0. Len(file') \in Nat /\ i \in 1 .. Len(file') /\ i > Len(file)
    BY <1>2 DEF GoesOn
  <2>1. CASE file'[i] = Torn
    BY <1>3, <2>1
  <2>2. CASE file'[i] # Torn
    <3> DEFINE n == i - Len(file)
               o == r.ordinal + n - 1
    <3>1. n \in 1 .. Len(lines) /\ file'[i] = [lines[n] EXCEPT !.ordinal = o]
      BY <1>2, <2>0, <2>2 DEF Appended
    <3>2. PICK line : line = lines[n]
      OBVIOUS
    <3>3. Whole(line) /\ line.type \in Quiet
      BY <3>1, <3>2 DEF AreWhole
    <3> HIDE DEF n, o
    <3>4. file'[i].type = line.type
      BY <3>1, <3>2, <3>3 DEF Whole
    <3> QED
      BY <1>4, <3>3, <3>4
  <2> QED
    BY <2>1, <2>2
<1> QED
  BY <1>2, <1>5 DEF QuietFrom

\* A step that appends quietly, and neither begins nor ends a turn.
LEMMA QuietStep ==
  ASSUME RolloutInv, StatusInv, NEW r, NEW lines, AreWhole(lines, Quiet), Write(r, lines),
         turn'.pc = "idle" <=> turn.pc = "idle",
         used'.turns = used.turns, used'.broken = used.broken
  PROVE  StatusInv'
<1>1. file \in Seq(Lines)
  BY DEF RolloutInv, Good, FileGood
<1>2. GoesOn(file, file') /\ QuietFrom(file', Len(file))
  BY <1>1, AppendIsQuiet
<1>3. OpenTurns' = OpenTurns
  BY DEF OpenTurns
<1>4. Told(file', OpenTurns, used.turns)
  BY <1>2, ToldQuietly DEF StatusInv
<1> QED
  BY <1>3, <1>4 DEF StatusInv

\* A step that appends nothing but, perhaps, a part of a line.
LEMMA CutStep ==
  ASSUME RolloutInv, StatusInv, file' = file \/ file' = Append(file, Torn),
         OpenTurns' = OpenTurns, used'.turns = used.turns,
         used'.broken \subseteq 0 .. used.turns, turn'.pc = "idle"
  PROVE  StatusInv'
<1>1. file \in Seq(Lines) /\ Len(file) \in Nat /\ Torn \in Lines
  BY LenProperties, TornIsTyped DEF RolloutInv, Good, FileGood
<1>2. CASE file' = file
  BY <1>2 DEF StatusInv
<1>3. CASE file' = Append(file, Torn)
  <2>1. /\ Len(file') = Len(file) + 1 /\ file'[Len(file) + 1] = Torn
        /\ \A i \in 1 .. Len(file) : file'[i] = file[i]
    BY <1>1, <1>3, AppendProperties
  <2>2. Torn.type \notin Ends /\ Torn.type # "turn_started"
    BY DEF Torn, Ends
  <2>3. GoesOn(file, file')
    BY <1>1, <2>1 DEF GoesOn
  <2>4. QuietFrom(file', Len(file))
    <3>1. \A i \in Len(file) + 1 .. Len(file') : i = Len(file) + 1
      BY <1>1, <2>1
    <3> QED
      BY <2>1, <2>2, <3>1 DEF QuietFrom
  <2>5. Told(file', OpenTurns, used.turns)
    BY <2>3, <2>4, ToldQuietly DEF StatusInv
  <2> QED
    BY <2>5 DEF StatusInv
<1> QED
  BY <1>2, <1>3

LEMMA StatusInit == Init => StatusInv
<1> SUFFICES ASSUME Init PROVE StatusInv
  OBVIOUS
<1>1. file = << >> /\ turn = NoTurn /\ used.broken = {} /\ Len(<< >>) = 0
  BY DEF Init
<1>2. Starts(file) = {}
  BY <1>1 DEF Starts
<1> QED
  BY <1>1, <1>2 DEF StatusInv, Told, NoTurn

LEMMA BeginKeepsStatus == RolloutInv /\ StatusInv /\ Begin => StatusInv'
<1> SUFFICES ASSUME RolloutInv, StatusInv, Begin PROVE StatusInv'
  OBVIOUS
<1> DEFINE t     == used.turns
             lines == <<Line("turn_started", << >>, t + 1), Line("turn_context", << >>, t + 1)>>
<1>1. file \in Seq(Lines) /\ t \in Nat
  BY RolloutAssumption DEF RolloutInv, Good, FileGood, UsedTyped
<1>2. /\ turn.pc = "idle" /\ turn'.pc = "input" /\ Write(recorder, lines)
      /\ used'.turns = t + 1 /\ used'.broken = used.broken
  BY DEF Begin, NoTurn, RolloutInv, UsedTyped
<1>3. PICK first, second : /\ lines = <<first, second>>
                           /\ first = Line("turn_started", << >>, t + 1)
                           /\ second = Line("turn_context", << >>, t + 1)
  OBVIOUS
<1>4. /\ lines \in Seq({first, second}) /\ Len(lines) = 2
      /\ lines[1] = first /\ lines[2] = second
  <2> HIDE DEF lines
  <2> QED
    BY <1>3
<1> HIDE DEF lines, t
<1>5. PICK k \in 0 .. Len(lines), torn \in BOOLEAN :
           /\ Appended(recorder, lines, k, torn) /\ GoesOn(file, file')
           /\ k \in Nat /\ Len(lines) \in Nat /\ k <= Len(lines) /\ Len(file) \in Nat
           /\ \A i \in Len(file) + k + 1 .. Len(file') : file'[i] = Torn
  BY <1>1, <1>2, <1>4, AppendGoesOn
<1>6. Torn.type \notin Ends /\ Torn.type # "turn_started"
  BY DEF Torn, Ends
<1>7. Told(file, OpenTurns, t) /\ OpenTurns = used.broken
  BY <1>2 DEF StatusInv, OpenTurns, t
<1>8. Told(file', used.broken \cup {t + 1}, t + 1)
  <2>1. CASE k = 0
    <3>1. QuietFrom(file', Len(file))
      BY <1>5, <1>6, <2>1 DEF QuietFrom
    <3> QED
      BY <1>1, <1>5, <1>7, <3>1, ToldQuietly, ToldOfMore
  <2>2. CASE k # 0
    <3> DEFINE s == Len(file) + 1
    <3>0. Len(file') \in Nat /\ s \in 1 .. Len(file') /\ s <= Len(file) + k /\ s > Len(file)
      BY <1>5, <2>2 DEF Appended, GoesOn
    <3>1. file'[s] = [first EXCEPT !.ordinal = recorder.ordinal + (s - Len(file)) - 1]
      <4>1. s - Len(file) = 1 /\ ~(s <= Len(file)) /\ s # Len(file) + k + 1
        BY <1>5, <2>2
      <4>2. \/ s <= Len(file) /\ file'[s] = file[s]
            \/ file'[s] = [lines[s - Len(file)] EXCEPT !.ordinal = recorder.ordinal + (s - Len(file)) - 1]
            \/ s = Len(file) + k + 1
        BY <1>5, <3>0 DEF Appended
      <4> QED
        BY <1>4, <4>1, <4>2
    <3>2. file'[s].type = "turn_started" /\ file'[s].turn = t + 1
      BY <1>3, <3>1 DEF Line
    <3>3. ASSUME NEW i \in s + 1 .. Len(file')
          PROVE  file'[i].type # "turn_started" /\ file'[i].type \notin Ends
      <4>1. CASE i > Len(file) + k
        <5>1. file'[i] = Torn
          BY <1>5, <3>0, <4>1
        <5> QED
          BY <1>6, <5>1
      <4>2. CASE i <= Len(file) + k
        <5>1. i = Len(file) + 2 /\ i \in 1 .. Len(file') /\ i > Len(file)
          BY <1>4, <1>5, <3>0, <4>2
        <5>2. file'[i] = [second EXCEPT !.ordinal = recorder.ordinal + (i - Len(file)) - 1]
          <6>1. i - Len(file) = 2
            BY <1>5, <5>1
          <6> QED
            BY <1>4, <1>5, <4>2, <5>1, <6>1 DEF Appended
        <5> QED
          BY <1>3, <5>2 DEF Line, Ends
      <4> QED
        BY <1>5, <3>0, <4>1, <4>2
    <3>4. QuietFrom(file', Len(file) + 1)
      BY <3>3 DEF QuietFrom
    <3> QED
      BY <1>1, <1>5, <1>7, <3>0, <3>2, <3>4, ToldOfStart
  <2> QED
    BY <2>1, <2>2
<1>9. OpenTurns' = used.broken \cup {t + 1}
  BY <1>2 DEF OpenTurns
<1>10. used.broken \subseteq 0 .. t + 1 /\ t + 1 \notin used.broken
  BY <1>1 DEF StatusInv, t
<1> QED
  BY <1>2, <1>8, <1>9, <1>10 DEF StatusInv

LEMMA FinishKeepsStatus == RolloutInv /\ StatusInv /\ Finish => StatusInv'
<1> SUFFICES ASSUME RolloutInv, StatusInv, Finish PROVE StatusInv'
  OBVIOUS
<1> DEFINE t == used.turns
<1>1. /\ file \in Seq(Lines) /\ t \in Nat
      /\ recorder \in [up : BOOLEAN, ordinal : Nat, err : BOOLEAN]
  BY RolloutAssumption DEF RolloutInv, Good, FileGood, RecorderTyped, UsedTyped
<1>2. /\ turn.pc # "idle" /\ turn'.pc = "idle"
      /\ used' = IF recorder'.err THEN Unended ELSE used
  BY DEF Finish, NoTurn
<1>3. PICK type \in EndOf(turn.failed) : Write(recorder, <<Line(type, << >>, t)>>)
  BY DEF Finish
<1>4. PICK line : line = Line(type, << >>, t)
  OBVIOUS
<1>5. line.type \in Ends /\ DOMAIN line = {"type", "ordinal", "turn", "items"}
  BY <1>3, <1>4 DEF EndOf, Ends, Line
<1>6. /\ <<line>> \in Seq({line}) /\ Len(<<line>>) = 1 /\ <<line>>[1] = line
  OBVIOUS
<1>7. PICK k \in 0 .. Len(<<line>>), torn \in BOOLEAN :
           /\ Appended(recorder, <<line>>, k, torn) /\ GoesOn(file, file')
           /\ k \in Nat /\ Len(<<line>>) \in Nat /\ k <= Len(<<line>>) /\ Len(file) \in Nat
           /\ \A i \in Len(file) + k + 1 .. Len(file') : file'[i] = Torn
  BY <1>1, <1>3, <1>4, <1>6, AppendGoesOn
<1>8. recorder'.err <=> (recorder.err \/ k < 1)
  <2>1. recorder' = [recorder EXCEPT !.ordinal = @ + k, !.err = @ \/ k < 1]
    BY <1>6, <1>7 DEF Appended
  <2> QED
    BY <1>1, <2>1
<1>9. recorder.err => k = 0
  BY <1>7 DEF Appended
<1>10. /\ Told(file, OpenTurns, t) /\ OpenTurns = used.broken \cup {t}
       /\ t \notin used.broken /\ used.broken \subseteq 0 .. t
  BY <1>2 DEF StatusInv, OpenTurns
<1> HIDE DEF t
<1>11. CASE recorder'.err
  <2>1. k = 0
    BY <1>6, <1>7, <1>8, <1>9, <1>11
  <2>2. Torn.type \notin Ends /\ Torn.type # "turn_started"
    BY DEF Torn, Ends
  <2>3. QuietFrom(file', Len(file))
    BY <1>7, <2>1, <2>2 DEF QuietFrom
  <2>4. Told(file', used.broken \cup {t}, t)
    BY <1>7, <1>10, <2>3, ToldQuietly
  <2>5. used'.broken = used.broken \cup {t} /\ used'.turns = t
    BY <1>2, <1>11, UnendedIsTyped DEF RolloutInv, t
  <2>6. OpenTurns' = used.broken \cup {t}
    BY <1>2, <2>5 DEF OpenTurns
  <2> QED
    BY <1>1, <1>2, <1>10, <2>4, <2>5, <2>6 DEF StatusInv
<1>12. CASE ~recorder'.err
  <2>1. k = 1 /\ ~recorder.err
    BY <1>6, <1>7, <1>8, <1>12
  <2>2. ~torn /\ Len(file') = Len(file) + 1
    BY <1>6, <1>7, <2>1 DEF Appended
  <2> DEFINE s == Len(file) + 1
  <2>3. file'[s].type \in Ends
    <3>1. s \in 1 .. Len(file') /\ s > Len(file) /\ s - Len(file) = 1
      BY <1>7, <2>2
    <3>2. file'[s] = [line EXCEPT !.ordinal = recorder.ordinal + (s - Len(file)) - 1]
      BY <1>6, <1>7, <2>1, <2>2, <3>1 DEF Appended
    <3> QED
      BY <1>5, <3>2
  <2>4. Running(file, t)
    BY <1>2, <2>1 DEF RolloutInv, StoredInv, t
  <2>5. Told(file', (used.broken \cup {t}) \ {t}, t)
    BY <1>7, <1>10, <2>2, <2>3, <2>4, ToldOfEnd
  <2>6. (used.broken \cup {t}) \ {t} = used.broken
    BY <1>10
  <2>7. used' = used /\ OpenTurns' = used.broken
    BY <1>2, <1>12 DEF OpenTurns
  <2> QED
    BY <1>2, <1>10, <2>5, <2>6, <2>7 DEF StatusInv, t
<1> QED
  BY <1>11, <1>12

LEMMA CrashKeepsStatus == RolloutInv /\ StatusInv /\ Crash => StatusInv'
<1> SUFFICES ASSUME RolloutInv, StatusInv, Crash PROVE StatusInv'
  OBVIOUS
<1>1. /\ turn'.pc = "idle"
      /\ file' = file \/ file' = Append(file, Torn)
      /\ used' = IF turn.pc = "idle" THEN used ELSE Unended
  BY DEF Crash, NoTurn
<1>2. /\ Unended.broken = used.broken \cup {used.turns} /\ Unended.turns = used.turns
      /\ used.turns \in Nat
  BY UnendedIsTyped, RolloutAssumption DEF RolloutInv, UsedTyped
<1>3. OpenTurns' = OpenTurns
  BY <1>1, <1>2 DEF OpenTurns
<1>4. used'.turns = used.turns /\ used'.broken \subseteq 0 .. used.turns
  BY <1>1, <1>2 DEF StatusInv
<1> QED
  BY <1>1, <1>3, <1>4, CutStep

LEMMA ForkKeepsStatus == RolloutInv /\ StatusInv /\ Fork => StatusInv'
<1> SUFFICES ASSUME RolloutInv, StatusInv, Fork PROVE StatusInv'
  OBVIOUS
<1> DEFINE items == Replay(file)
<1>1. PICK n \in 0 .. Len(items) : file' = Forked(items, n)
  BY DEF Fork, Forked, Copy
<1>2. items \in Seq(Items)
  BY KeptIsHistory DEF RolloutInv, Good, FileGood
<1>3. n \in Nat
  BY <1>2, LenProperties
<1> HIDE DEF items
<1>4. file' \in Seq(Lines)
  BY <1>1, <1>2, ForkedIs
<1>5. \A k \in 1 .. Len(file') : file'[k].type # "turn_started"
  <2>1. DOMAIN file' = 1 .. n + 1 /\ Len(file') = n + 1
    BY <1>1, <1>3, <1>4, LenProperties DEF Forked
  <2> QED
    BY <1>1, <2>1 DEF Forked, Copy, Line
<1>6. Starts(file') = {}
  BY <1>5 DEF Starts
<1>7. UNCHANGED used /\ turn'.pc = "idle"
  BY DEF Fork, NoTurn
<1> QED
  BY <1>6, <1>7 DEF StatusInv, Told

LEMMA TurnAppendsKeepStatus == RolloutInv /\ StatusInv /\ TurnAppends => StatusInv'
<1> SUFFICES ASSUME RolloutInv, StatusInv, TurnAppends PROVE StatusInv'
  OBVIOUS
<1>1. /\ turn.pc # "idle"
      /\ \E lines : AreWhole(lines, Quiet) /\ Write(recorder, lines)
  BY TurnAppendsQuiet
<1>2. turn'.pc # "idle"
  BY <1>1 DEF TurnAppends, RecordInput, Compact, Say, Call, BadCall, RecordOutput, RecordText,
         Break, RolloutInv, TurnTyped, NoTurn
<1>3. used'.turns = used.turns /\ used'.broken = used.broken
  <2>1. Produce \/ UNCHANGED used
    BY DEF TurnAppends, RecordInput, Compact, Say, Call, BadCall, RecordOutput, RecordText, Break
  <2> QED
    BY <2>1, ProduceIs DEF RolloutInv
<1> QED
  BY <1>1, <1>2, <1>3, QuietStep

LEMMA StatusStep == RolloutInv /\ StatusInv /\ [Next]_vars => StatusInv'
<1> SUFFICES ASSUME RolloutInv, StatusInv, [Next]_vars PROVE StatusInv'
  OBVIOUS
<1>1. CASE Open
  <2>1. turn.pc = "idle" /\ turn'.pc = "idle"
    BY <1>1 DEF Open, RolloutInv, TurnInv, NoTurn
  <2>2. used'.turns = used.turns /\ used'.broken = used.broken
    BY <1>1 DEF Open, RolloutInv, UsedTyped
  <2>3. PICK r, next, lines :
          /\ lines = IF next = 0 THEN <<Line("session_meta", << >>, 0)>> ELSE << >>
          /\ Write(r, lines)
    BY <1>1 DEF Open
  <2>4. AreWhole(lines, Quiet)
    BY <2>3, MetaIsWhole
  <2> QED
    BY <2>1, <2>2, <2>3, <2>4, QuietStep
<1>2. CASE Begin
  BY <1>2, BeginKeepsStatus
<1>3. CASE TurnAppends
  BY <1>3, TurnAppendsKeepStatus
<1>4. CASE Complete \/ Drain \/ Close \/ UNCHANGED vars
  <2>1. UNCHANGED <<file, used>>
    BY <1>4 DEF Complete, Drain, Close, vars
  <2>2. turn'.pc = "idle" <=> turn.pc = "idle"
    BY <1>4 DEF Complete, Drain, Close, vars, Streaming, RolloutInv, TurnTyped
  <2>3. OpenTurns' = OpenTurns
    BY <2>1, <2>2 DEF OpenTurns
  <2> QED
    BY <2>1, <2>2, <2>3 DEF StatusInv
<1>5. CASE Finish
  BY <1>5, FinishKeepsStatus
<1>6. CASE Crash
  BY <1>6, CrashKeepsStatus
<1>7. CASE Fork
  BY <1>7, ForkKeepsStatus
<1> QED
  BY <1>1, <1>2, <1>3, <1>4, <1>5, <1>6, <1>7 DEF Next, TurnAppends

LEMMA StatusHolds == Spec => []StatusInv
BY StatusInit, StatusStep, RolloutHolds, PTL DEF Spec

\* What a reader makes of a turn is whether its lines end it.
LEMMA StatusSays ==
  ASSUME file \in Seq(Lines), NEW k \in Started
  PROVE  StatusOf(k) = "inProgress" <=> Unclosed(file, k)
<1> DEFINE n    == Len(file)
           ends == {i \in BlockOf(k) :
                      file[i].type \in {"turn_complete", "turn_failed", "turn_aborted"}}
<1>1. n \in Nat /\ DOMAIN file = 1 .. n /\ k \in 1 .. n
  BY LenProperties DEF Started
<1>2. ends \subseteq 1 .. n /\ \A i \in ends : file[i].type # "inProgress"
  BY <1>1 DEF BlockOf
<1>3. ends = {} <=> Unclosed(file, k)
  <2>1. ASSUME Unclosed(file, k), NEW i \in ends PROVE FALSE
    <3>1. i \in k + 1 .. n /\ file[i].type \in Ends
      BY <1>1, <2>1 DEF BlockOf, Ends
    <3>2. PICK j \in k + 1 .. i : file[j].type = "turn_started"
      BY <2>1, <3>1 DEF Unclosed
    <3>3. j \in Started
      BY <1>1, <3>1, <3>2 DEF Started
    <3>4. j <= k \/ i < j
      BY <2>1, <3>3 DEF BlockOf
    <3> QED
      BY <1>1, <3>1, <3>2, <3>4
  <2>2. ASSUME ends = {}, NEW i \in k + 1 .. n, file[i].type \in Ends
        PROVE  \E j \in k + 1 .. i : file[j].type = "turn_started"
    <3>1. i \in 1 .. n /\ i > k /\ i \notin BlockOf(k)
      BY <1>1, <2>2 DEF Ends
    <3>2. PICK j \in Started : ~(j <= k \/ i < j)
      BY <1>1, <3>1 DEF BlockOf
    <3>3. j \in 1 .. n /\ file[j].type = "turn_started"
      BY <1>1, <3>2 DEF Started
    <3>4. j \in k + 1 .. i
      BY <1>1, <3>1, <3>2, <3>3
    <3> QED
      BY <3>3, <3>4
  <2> QED
    BY <2>1, <2>2 DEF Unclosed
<1>4. StatusOf(k) = IF ends = {} THEN "inProgress" ELSE file[Max(ends)].type
  BY DEF StatusOf
<1> HIDE DEF ends
<1>5. ends # {} => Max(ends) \in ends
  BY <1>1, <1>2, MaxOfPlaces
<1> QED
  BY <1>2, <1>3, <1>4, <1>5

\* A stored turn is "inProgress" exactly if it is the one that runs, or one that a kill
\* broke off or whose end could not be appended, over any number of sessions, kills,
\* failed appends and forks (v2.go:37-46, task.go:61-86).
THEOREM StatusLive == Spec => []StatusIsLive
<1>1. RolloutInv /\ StatusInv => StatusIsLive
  <2> SUFFICES ASSUME RolloutInv, StatusInv, NEW k \in Started
               PROVE  StatusOf(k) = "inProgress" <=>
                        \/ turn.pc # "idle" /\ file[k].turn = used.turns
                        \/ file[k].turn \in used.broken
    BY DEF StatusIsLive
  <2>1. file \in Seq(Lines)
    BY DEF RolloutInv, Good, FileGood
  <2>2. k \in Starts(file)
    BY <2>1, LenProperties DEF Started, Starts
  <2>3. StatusOf(k) = "inProgress" <=> file[k].turn \in OpenTurns
    BY <2>1, <2>2, StatusSays DEF StatusInv, Told
  <2> QED
    BY <2>3 DEF OpenTurns
<1> QED
  BY <1>1, RolloutHolds, StatusHolds, PTL
=============================================================================
