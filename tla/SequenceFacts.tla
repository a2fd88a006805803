---------------------------- MODULE SequenceFacts ----------------------------
(***************************************************************************)
(* What SequencesExt's FlattenSeq computes, for any sequences: facts that  *)
(* the proofs about the rollout and about patches share.                   *)
(***************************************************************************)
EXTENDS SequencesExt, Integers, SequenceTheorems, WellFoundedInduction, TLAPS

\* Induction, by a set: the library's theorem takes an operator.
LEMMA Induction ==
  ASSUME NEW P, 0 \in P, \A n \in P \cap Nat : n + 1 \in P
  PROVE  \A n \in Nat : n \in P
<1> SUFFICES ASSUME Nat \ P # {} PROVE FALSE
  OBVIOUS
<1>1. PICK x \in Nat \ P : \A y \in Nat \ P : ~(<<y, x>> \in OpToRel(<, Nat))
  <2>1. Nat \ P \subseteq Nat
    OBVIOUS
  <2> QED
    BY <2>1, NatLessThanWellFounded, WFMin
<1>2. \A y \in Nat \ P : y < x => <<y, x>> \in OpToRel(<, Nat)
  BY DEF OpToRel
<1>3. x # 0
  OBVIOUS
<1>4. x - 1 \in Nat /\ x - 1 < x
  BY <1>3
<1>5. x - 1 \in P
  BY <1>1, <1>2, <1>4
<1>6. (x - 1) + 1 \in P
  BY <1>4, <1>5
<1> QED
  BY <1>6

-----------------------------------------------------------------------------
(* Flattening a sequence of sequences.                                     *)

\* What the recursive function in FlattenSeq computes up to n.
IsFlat(g, s, n) ==
  \A i \in 1 .. n : g[i] = IF i = 1 THEN s[i] ELSE g[i - 1] \o s[i]

\* There is such a function,
LEMMA FlattenExists ==
  ASSUME NEW A, NEW s \in Seq(Seq(A)), NEW n \in 0 .. Len(s)
  PROVE  \E g \in [1 .. n -> Seq(A)] : IsFlat(g, s, n)
<1> DEFINE P == {m \in Nat : m <= Len(s) => \E g \in [1 .. m -> Seq(A)] : IsFlat(g, s, m)}
<1>1. 0 \in P
  <2>1. [i \in 1 .. 0 |-> << >>] \in [1 .. 0 -> Seq(A)] /\ IsFlat([i \in 1 .. 0 |-> << >>], s, 0)
    BY DEF IsFlat
  <2> QED
    BY <2>1
<1>2. ASSUME NEW m \in P PROVE m + 1 \in P
  <2> SUFFICES ASSUME m + 1 <= Len(s)
               PROVE  \E g \in [1 .. m + 1 -> Seq(A)] : IsFlat(g, s, m + 1)
    OBVIOUS
  <2>0. Len(s) \in Nat /\ m \in Nat
    BY LenProperties
  <2>1. PICK f \in [1 .. m -> Seq(A)] : IsFlat(f, s, m)
    BY <2>0
  <2>2. \A i \in 1 .. m + 1 : s[i] \in Seq(A)
    BY <2>0, ElementOfSeq
  <2> DEFINE last == IF m = 0 THEN s[1] ELSE f[m] \o s[m + 1]
             g    == [i \in 1 .. m + 1 |-> IF i = m + 1 THEN last ELSE f[i]]
  <2>3. last \in Seq(A)
    <3>1. CASE m = 0
      BY <2>0, <2>2, <3>1
    <3>2. CASE m # 0
      <4>1. f[m] \in Seq(A) /\ s[m + 1] \in Seq(A)
        BY <2>0, <2>2, <3>2
      <4> QED
        BY <3>2, <4>1, ConcatProperties
    <3> QED
      BY <3>1, <3>2
  <2>4. last = IF m = 0 THEN s[1] ELSE f[m] \o s[m + 1]
    OBVIOUS
  <2> HIDE DEF last
  <2>5. \A i \in 1 .. m + 1 : g[i] = IF i = m + 1 THEN last ELSE f[i]
    OBVIOUS
  <2>6. g \in [1 .. m + 1 -> Seq(A)]
    <3>1. \A i \in 1 .. m + 1 : i # m + 1 => i \in 1 .. m
      BY <2>0
    <3> QED
      BY <2>3, <3>1
  <2> HIDE DEF g
  <2>7. IsFlat(g, s, m + 1)
    <3> SUFFICES ASSUME NEW i \in 1 .. m + 1
                 PROVE  g[i] = IF i = 1 THEN s[i] ELSE g[i - 1] \o s[i]
      BY DEF IsFlat
    <3>1. CASE i = m + 1
      BY <2>0, <2>4, <2>5, <3>1
    <3>2. CASE i # m + 1
      <4>1. i \in 1 .. m /\ (i # 1 => i - 1 \in 1 .. m)
        BY <2>0, <3>2
      <4>2. g[i] = f[i] /\ (i # 1 => g[i - 1] = f[i - 1])
        BY <2>0, <2>5, <3>2, <4>1
      <4> QED
        BY <2>1, <4>1, <4>2 DEF IsFlat
    <3> QED
      BY <3>1, <3>2
  <2> QED
    BY <2>6, <2>7
<1> HIDE DEF P
<1>3. n \in P
  <2>1. n \in Nat
    BY LenProperties
  <2> QED
    BY <1>1, <1>2, <2>1, Induction
<1> QED
  BY <1>3, LenProperties DEF P

\* there is only one,
LEMMA FlattenUnique ==
  ASSUME NEW s, NEW n \in Nat, NEW g, NEW h, IsFlat(g, s, n), IsFlat(h, s, n),
         NEW i \in 1 .. n
  PROVE  g[i] = h[i]
<1> DEFINE P == {m \in Nat : m + 1 \in 1 .. n => g[m + 1] = h[m + 1]}
<1>1. 0 \in P
  BY DEF IsFlat
<1>2. ASSUME NEW m \in P PROVE m + 1 \in P
  BY DEF IsFlat
<1> HIDE DEF P
<1>3. i - 1 \in P
  BY <1>1, <1>2, Induction
<1> QED
  BY <1>3 DEF P

\* FlattenSeq is what such a function says of the whole sequence.
LEMMA FlattenIs ==
  ASSUME NEW A, NEW s \in Seq(Seq(A)), Len(s) > 0,
         NEW g, IsFlat(g, s, Len(s))
  PROVE  FlattenSeq(s) = g[Len(s)]
<1> DEFINE rec(f) == [i \in 1 .. Len(s) |-> IF i = 1 THEN s[i] ELSE f[i - 1] \o s[i]]
           fl     == CHOOSE f : f = rec(f)
<1>1. FlattenSeq(s) = fl[Len(s)]
  BY DEF FlattenSeq
<1>2. Len(s) \in Nat
  BY LenProperties
<1>3. PICK f \in [1 .. Len(s) -> Seq(A)] : IsFlat(f, s, Len(s))
  <2>1. PICK n \in 0 .. Len(s) : n = Len(s)
    BY <1>2
  <2>2. \E f \in [1 .. n -> Seq(A)] : IsFlat(f, s, n)
    BY FlattenExists
  <2> QED
    BY <2>1, <2>2
<1>4. f = rec(f)
  BY <1>3 DEF IsFlat
<1>5. fl = rec(fl)
  <2> HIDE DEF rec
  <2> QED
    BY <1>4
<1>6. IsFlat(fl, s, Len(s))
  <2> HIDE DEF fl
  <2>1. \A i \in 1 .. Len(s) : fl[i] = rec(fl)[i]
    BY <1>5
  <2> QED
    BY <2>1 DEF IsFlat
<1> HIDE DEF fl
<1>7. fl[Len(s)] = g[Len(s)]
  BY <1>2, <1>6, FlattenUnique
<1> QED
  BY <1>1, <1>7

LEMMA FlattenEmpty == FlattenSeq(<< >>) = << >>
BY DEF FlattenSeq

\* One more sequence.
LEMMA FlattenAppend ==
  ASSUME NEW A, NEW s \in Seq(Seq(A)), NEW x \in Seq(A)
  PROVE  /\ FlattenSeq(s) \in Seq(A)
         /\ FlattenSeq(Append(s, x)) = FlattenSeq(s) \o x
<1> DEFINE n == Len(s)
           t == Append(s, x)
<1>1. n \in Nat /\ n + 1 \in Nat
  BY LenProperties
<1>2. t \in Seq(Seq(A)) /\ Len(t) = n + 1 /\ t[n + 1] = x /\ \A i \in 1 .. n : t[i] = s[i]
  BY <1>1, AppendProperties
<1> HIDE DEF t
<1>3. PICK g \in [1 .. n + 1 -> Seq(A)] : IsFlat(g, t, n + 1)
  <2>1. n + 1 \in 0 .. Len(t)
    BY <1>1, <1>2
  <2> HIDE DEF n
  <2> QED
    BY <1>2, <2>1, FlattenExists
<1>4. FlattenSeq(t) = g[n + 1]
  BY <1>1, <1>2, <1>3, FlattenIs
<1>5. CASE n = 0
  <2>1. s = << >>
    BY <1>5, EmptySeq
  <2>2. FlattenSeq(s) = << >> /\ << >> \in Seq(A)
    BY <2>1, FlattenEmpty
  <2>3. g[1] = x
    BY <1>2, <1>3, <1>5 DEF IsFlat
  <2>4. << >> \o x = x
    BY ConcatEmptySeq
  <2> QED
    BY <1>4, <1>5, <2>2, <2>3, <2>4 DEF t
<1>6. CASE n # 0
  <2>1. IsFlat(g, s, n)
    <3> SUFFICES ASSUME NEW i \in 1 .. n
                 PROVE  g[i] = IF i = 1 THEN s[i] ELSE g[i - 1] \o s[i]
      BY DEF IsFlat
    <3>1. i \in 1 .. n + 1 /\ t[i] = s[i]
      BY <1>1, <1>2
    <3> HIDE DEF n
    <3> QED
      BY <1>3, <3>1 DEF IsFlat
  <2>2. FlattenSeq(s) = g[n] /\ n > 0
    BY <1>1, <1>6, <2>1, FlattenIs
  <2>3. g[n] \in Seq(A)
    BY <1>1, <1>3, <2>2
  <2>4. g[n + 1] = g[n] \o x
    <3>1. n + 1 \in 1 .. n + 1 /\ n + 1 # 1 /\ (n + 1) - 1 = n
      BY <1>1, <1>6
    <3> HIDE DEF n
    <3> QED
      BY <1>2, <1>3, <3>1 DEF IsFlat
  <2> QED
    BY <1>4, <2>2, <2>3, <2>4 DEF t
<1> QED
  BY <1>5, <1>6

\* The form in which the model uses it: a function of the places of a sequence.
LEMMA OneMorePart ==
  ASSUME NEW A, NEW n \in Nat, NEW parts \in [1 .. n -> Seq(A)],
         NEW more \in [1 .. n + 1 -> Seq(A)], \A i \in 1 .. n : more[i] = parts[i]
  PROVE  /\ FlattenSeq(parts) \in Seq(A)
         /\ FlattenSeq(more) = FlattenSeq(parts) \o more[n + 1]
<1> DEFINE x == more[n + 1]
<1>1. parts \in Seq(Seq(A)) /\ Len(parts) = n
  BY SeqDef, LenProperties
<1>2. n + 1 \in Nat /\ x \in Seq(A)
  OBVIOUS
<1>3. more \in Seq(Seq(A)) /\ Len(more) = n + 1
  BY <1>2, SeqDef, LenProperties
<1>4. /\ Append(parts, x) \in Seq(Seq(A)) /\ Len(Append(parts, x)) = n + 1
      /\ \A i \in 1 .. n : Append(parts, x)[i] = parts[i]
      /\ Append(parts, x)[n + 1] = x
  BY <1>1, <1>2, AppendProperties
<1> HIDE DEF x
<1>5. \A i \in 1 .. n + 1 : more[i] = Append(parts, x)[i]
  BY <1>4 DEF x
<1>6. more = Append(parts, x)
  BY <1>3, <1>4, <1>5, SeqEqual
<1> QED
  BY <1>1, <1>2, <1>6, FlattenAppend DEF x
=============================================================================
