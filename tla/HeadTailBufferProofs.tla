------------------------- MODULE HeadTailBufferProofs -------------------------
(***************************************************************************)
(* A headTailBuffer holds the prefix and the suffix of everything that was *)
(* pushed into it, whatever chunks it came in: PushChunk is HeadTail after *)
(* a concatenation, and WithLimit is HeadTail again, of a smaller budget.  *)
(*                                                                         *)
(* The first lemmas are the algebra of s[:n] and s[n:]; the code never     *)
(* slices out of bounds, and neither do they.                              *)
(***************************************************************************)
EXTENDS HeadTailBuffer, SequenceTheorems, TLAPS

\* s[:n], element by element.
LEMMA TakeIs ==
  ASSUME NEW S, NEW s \in Seq(S), NEW n \in 0 .. Len(s)
  PROVE  /\ Take(s, n) \in Seq(S)
         /\ Len(Take(s, n)) = n
         /\ \A i \in 1 .. n : Take(s, n)[i] = s[i]
<1>1. Len(s) \in Nat /\ \A i \in 1 .. n : s[i] \in S
  BY LenProperties, ElementOfSeq
<1> QED
  BY <1>1, SubSeqProperties DEF Take

\* s[n:], element by element.
LEMMA SkipIs ==
  ASSUME NEW S, NEW s \in Seq(S), NEW n \in 0 .. Len(s)
  PROVE  /\ Skip(s, n) \in Seq(S)
         /\ Len(Skip(s, n)) = Len(s) - n
         /\ \A i \in 1 .. Len(s) - n : Skip(s, n)[i] = s[n + i]
<1>1. Len(s) \in Nat /\ \A i \in n + 1 .. Len(s) : s[i] \in S
  BY LenProperties, ElementOfSeq
<1>2. n + 1 \in Int /\ Len(s) \in Int
  BY <1>1
<1>3. /\ SubSeq(s, n + 1, Len(s)) \in Seq(S)
      /\ Len(SubSeq(s, n + 1, Len(s)))
           = IF n + 1 <= Len(s) THEN Len(s) - (n + 1) + 1 ELSE 0
      /\ \A i \in 1 .. Len(s) - (n + 1) + 1 : SubSeq(s, n + 1, Len(s))[i] = s[n + 1 + i - 1]
  BY <1>1, <1>2, SubSeqProperties
<1> QED
  BY <1>1, <1>3 DEF Skip

\* s[:0], s[0:], and the whole of s.
LEMMA Ends ==
  ASSUME NEW S, NEW s \in Seq(S)
  PROVE  /\ Take(s, 0) = << >> /\ Take(s, Len(s)) = s
         /\ Skip(s, 0) = s     /\ Skip(s, Len(s)) = << >>
<1>1. Len(s) \in Nat
  BY LenProperties
<1> QED
  BY <1>1, SubSeqFull, SubSeqEmpty DEF Take, Skip

\* A prefix of a concatenation.
LEMMA TakeConcat ==
  ASSUME NEW S, NEW s \in Seq(S), NEW t \in Seq(S), NEW n \in 0 .. Len(s) + Len(t)
  PROVE  Take(s \o t, n) = IF n <= Len(s) THEN Take(s, n) ELSE s \o Take(t, n - Len(s))
<1>1. Len(s) \in Nat /\ Len(t) \in Nat
  BY LenProperties
<1>2. /\ s \o t \in Seq(S) /\ Len(s \o t) = Len(s) + Len(t)
      /\ \A i \in 1 .. Len(s) + Len(t) : (s \o t)[i] = IF i <= Len(s) THEN s[i] ELSE t[i - Len(s)]
  BY ConcatProperties
<1>3. /\ Take(s \o t, n) \in Seq(S) /\ Len(Take(s \o t, n)) = n
      /\ \A i \in 1 .. n : Take(s \o t, n)[i] = (s \o t)[i]
  <2>1. PICK u \in Seq(S) : u = s \o t
    BY <1>2
  <2>2. n \in 0 .. Len(u)
    BY <1>2, <2>1
  <2>3. /\ Take(u, n) \in Seq(S) /\ Len(Take(u, n)) = n
        /\ \A i \in 1 .. n : Take(u, n)[i] = u[i]
    BY <2>2, TakeIs
  <2> QED
    BY <2>1, <2>3
<1>4. CASE n <= Len(s)
  <2>0. n \in 0 .. Len(s)
    BY <1>1, <1>4
  <2>1. /\ Take(s, n) \in Seq(S) /\ Len(Take(s, n)) = n
        /\ \A i \in 1 .. n : Take(s, n)[i] = s[i]
    BY <2>0, TakeIs
  <2>2. \A i \in 1 .. n : Take(s \o t, n)[i] = Take(s, n)[i]
    <3> TAKE i \in 1 .. n
    <3>1. i \in 1 .. Len(s) + Len(t) /\ i <= Len(s)
      BY <1>1, <1>4
    <3>2. (s \o t)[i] = s[i]
      BY <1>2, <3>1
    <3> QED
      BY <1>3, <2>1, <3>2
  <2> QED
    BY <1>3, <1>4, <2>1, <2>2, SeqEqual
<1>5. CASE n > Len(s)
  <2> DEFINE u == Take(t, n - Len(s))
  <2>1. n - Len(s) \in 0 .. Len(t)
    BY <1>1, <1>5
  <2>2. /\ u \in Seq(S) /\ Len(u) = n - Len(s)
        /\ \A i \in 1 .. n - Len(s) : u[i] = t[i]
    BY <2>1, TakeIs
  <2>3. /\ s \o u \in Seq(S) /\ Len(s \o u) = Len(s) + Len(u)
        /\ \A i \in 1 .. Len(s) + Len(u) : (s \o u)[i] = IF i <= Len(s) THEN s[i] ELSE u[i - Len(s)]
    BY <2>2, ConcatProperties
  <2> HIDE DEF u
  <2>4. \A i \in 1 .. n : Take(s \o t, n)[i] = (s \o u)[i]
    <3> TAKE i \in 1 .. n
    <3>1. CASE i <= Len(s)
      BY <1>1, <1>2, <1>3, <2>2, <2>3, <3>1
    <3>2. CASE ~(i <= Len(s))
      <4>1. i - Len(s) \in 1 .. n - Len(s) /\ i \in 1 .. Len(s) + Len(t)
        BY <1>1, <2>1, <3>2
      <4>2. u[i - Len(s)] = t[i - Len(s)] /\ i \in 1 .. Len(s) + Len(u)
        BY <1>1, <2>1, <2>2, <4>1
      <4>3. (s \o u)[i] = u[i - Len(s)] /\ (s \o t)[i] = t[i - Len(s)]
        BY <1>2, <2>3, <3>2, <4>1, <4>2
      <4> QED
        BY <1>3, <4>2, <4>3
    <3> QED
      BY <3>1, <3>2
  <2>5. Take(s \o t, n) = s \o u
    BY <1>1, <1>3, <2>2, <2>3, <2>4, SeqEqual
  <2> QED
    BY <1>1, <1>5, <2>5 DEF u
<1> QED
  BY <1>1, <1>4, <1>5

\* A suffix of a concatenation.
LEMMA SkipConcat ==
  ASSUME NEW S, NEW s \in Seq(S), NEW t \in Seq(S), NEW n \in 0 .. Len(s) + Len(t)
  PROVE  Skip(s \o t, n) = IF n <= Len(s) THEN Skip(s, n) \o t ELSE Skip(t, n - Len(s))
<1>1. Len(s) \in Nat /\ Len(t) \in Nat
  BY LenProperties
<1>2. /\ s \o t \in Seq(S) /\ Len(s \o t) = Len(s) + Len(t)
      /\ \A i \in 1 .. Len(s) + Len(t) : (s \o t)[i] = IF i <= Len(s) THEN s[i] ELSE t[i - Len(s)]
  BY ConcatProperties
<1> DEFINE m == Len(s) + Len(t) - n
<1>0. n \in 0 .. Len(s \o t)
  BY <1>2
<1>3. /\ Skip(s \o t, n) \in Seq(S) /\ Len(Skip(s \o t, n)) = m
      /\ \A i \in 1 .. m : Skip(s \o t, n)[i] = (s \o t)[n + i]
  <2> DEFINE st == s \o t
  <2>1. st \in Seq(S) /\ n \in 0 .. Len(st) /\ Len(st) - n = m
    BY <1>0, <1>2
  <2> HIDE DEF st, m
  <2>2. /\ Skip(st, n) \in Seq(S) /\ Len(Skip(st, n)) = Len(st) - n
        /\ \A i \in 1 .. Len(st) - n : Skip(st, n)[i] = st[n + i]
    BY <2>1, SkipIs
  <2> QED
    BY <2>1, <2>2 DEF st
<1>4. CASE n <= Len(s)
  <2> DEFINE u == Skip(s, n)
  <2>1. /\ u \in Seq(S) /\ Len(u) = Len(s) - n
        /\ \A i \in 1 .. Len(s) - n : u[i] = s[n + i]
    BY <1>1, <1>4, SkipIs
  <2>2. /\ u \o t \in Seq(S) /\ Len(u \o t) = Len(u) + Len(t)
        /\ \A i \in 1 .. Len(u) + Len(t) : (u \o t)[i] = IF i <= Len(u) THEN u[i] ELSE t[i - Len(u)]
    BY <2>1, ConcatProperties
  <2> HIDE DEF u
  <2>3. \A i \in 1 .. m : Skip(s \o t, n)[i] = (u \o t)[i]
    <3> TAKE i \in 1 .. m
    <3>1. n + i \in 1 .. Len(s) + Len(t) /\ i \in 1 .. Len(u) + Len(t)
      BY <1>1, <2>1
    <3>2. CASE i <= Len(u)
      BY <1>1, <1>2, <1>3, <2>1, <2>2, <3>1, <3>2
    <3>3. CASE ~(i <= Len(u))
      <4>1. n + i > Len(s) /\ n + i - Len(s) = i - Len(u)
        BY <1>1, <2>1, <3>3
      <4> QED
        BY <1>1, <1>2, <1>3, <2>1, <2>2, <3>1, <3>3, <4>1
    <3> QED
      BY <3>2, <3>3
  <2>4. Len(Skip(s \o t, n)) = Len(u \o t)
    BY <1>1, <1>3, <2>1, <2>2
  <2>5. Skip(s \o t, n) = u \o t
    BY <1>3, <2>2, <2>3, <2>4, SeqEqual
  <2> QED
    BY <1>1, <1>4, <2>5 DEF u
<1>5. CASE n > Len(s)
  <2> DEFINE k == n - Len(s)
  <2>1. k \in 0 .. Len(t) /\ Len(t) - k = m
    BY <1>1, <1>5
  <2>2. /\ Skip(t, k) \in Seq(S) /\ Len(Skip(t, k)) = m
        /\ \A i \in 1 .. m : Skip(t, k)[i] = t[k + i]
    BY <2>1, SkipIs
  <2>3. \A i \in 1 .. m : Skip(s \o t, n)[i] = Skip(t, k)[i]
    <3> TAKE i \in 1 .. m
    <3>1. n + i \in 1 .. Len(s) + Len(t) /\ n + i > Len(s) /\ n + i - Len(s) = k + i
      BY <1>1, <1>5
    <3>2. (s \o t)[n + i] = t[k + i]
      BY <1>1, <1>2, <3>1
    <3> QED
      BY <1>3, <2>2, <3>2
  <2>4. Skip(s \o t, n) = Skip(t, k)
    BY <1>3, <2>2, <2>3, SeqEqual
  <2> QED
    BY <1>1, <1>5, <2>4
<1> QED
  BY <1>1, <1>4, <1>5

\* Prefixes and suffixes that end or begin in the second part.
LEMMA BeyondFirst ==
  ASSUME NEW S, NEW s \in Seq(S), NEW t \in Seq(S), NEW n \in 0 .. Len(t)
  PROVE  /\ Take(s \o t, Len(s) + n) = s \o Take(t, n)
         /\ Skip(s \o t, Len(s) + n) = Skip(t, n)
<1>1. Len(s) \in Nat /\ Len(t) \in Nat
  BY LenProperties
<1>2. PICK m : m = Len(s) + n
  OBVIOUS
<1>3. m \in 0 .. Len(s) + Len(t) /\ m - Len(s) = n
  BY <1>1, <1>2
<1>4. CASE n = 0
  <2>1. m = Len(s) /\ m <= Len(s)
    BY <1>1, <1>2, <1>4
  <2>2. Take(s \o t, m) = Take(s, m) /\ Skip(s \o t, m) = Skip(s, m) \o t
    BY <1>3, <2>1, TakeConcat, SkipConcat
  <2>3. Take(s, m) = s /\ Skip(s, m) = << >>
    BY <2>1, Ends
  <2>4. Take(t, n) = << >> /\ Skip(t, n) = t
    BY <1>4, Ends
  <2>5. s \o << >> = s /\ << >> \o t = t
    BY ConcatEmptySeq
  <2> QED
    BY <1>2, <2>2, <2>3, <2>4, <2>5
<1>5. CASE n # 0
  <2>1. ~(m <= Len(s))
    BY <1>1, <1>2, <1>5
  <2>2. /\ Take(s \o t, m) = s \o Take(t, m - Len(s))
        /\ Skip(s \o t, m) = Skip(t, m - Len(s))
    BY <1>3, <2>1, TakeConcat, SkipConcat
  <2> QED
    BY <1>2, <1>3, <2>2
<1> QED
  BY <1>4, <1>5

\* A suffix of a suffix.
LEMMA SkipSkip ==
  ASSUME NEW S, NEW s \in Seq(S), NEW m \in 0 .. Len(s), NEW n \in 0 .. Len(s) - m
  PROVE  Skip(Skip(s, m), n) = Skip(s, m + n)
<1>1. Len(s) \in Nat
  BY LenProperties
<1>2. /\ Skip(s, m) \in Seq(S) /\ Len(Skip(s, m)) = Len(s) - m
      /\ \A i \in 1 .. Len(s) - m : Skip(s, m)[i] = s[m + i]
  BY SkipIs
<1>3. n \in 0 .. Len(Skip(s, m)) /\ m + n \in 0 .. Len(s)
  BY <1>1, <1>2
<1>4. /\ Skip(Skip(s, m), n) \in Seq(S)
      /\ Len(Skip(Skip(s, m), n)) = Len(s) - m - n
      /\ \A i \in 1 .. Len(s) - m - n : Skip(Skip(s, m), n)[i] = Skip(s, m)[n + i]
  BY <1>2, <1>3, SkipIs
<1>5. /\ Skip(s, m + n) \in Seq(S)
      /\ Len(Skip(s, m + n)) = Len(s) - (m + n)
      /\ \A i \in 1 .. Len(s) - (m + n) : Skip(s, m + n)[i] = s[m + n + i]
  BY <1>3, SkipIs
<1>6. \A i \in 1 .. Len(s) - m - n : Skip(Skip(s, m), n)[i] = Skip(s, m + n)[i]
  <2> TAKE i \in 1 .. Len(s) - m - n
  <2>1. /\ n + i \in 1 .. Len(s) - m /\ i \in 1 .. Len(s) - (m + n)
        /\ m + (n + i) = m + n + i
    BY <1>1
  <2> QED
    BY <1>2, <1>4, <1>5, <2>1
<1> QED
  BY <1>1, <1>4, <1>5, <1>6, SeqEqual

\* A prefix of a prefix.
LEMMA TakeTake ==
  ASSUME NEW S, NEW s \in Seq(S), NEW m \in 0 .. Len(s), NEW n \in 0 .. m
  PROVE  Take(Take(s, m), n) = Take(s, n)
<1>1. Len(s) \in Nat
  BY LenProperties
<1>2. /\ Take(s, m) \in Seq(S) /\ Len(Take(s, m)) = m
      /\ \A i \in 1 .. m : Take(s, m)[i] = s[i]
  BY TakeIs
<1>3. n \in 0 .. Len(Take(s, m)) /\ n \in 0 .. Len(s)
  BY <1>1, <1>2
<1>4. /\ Take(Take(s, m), n) \in Seq(S) /\ Len(Take(Take(s, m), n)) = n
      /\ \A i \in 1 .. n : Take(Take(s, m), n)[i] = Take(s, m)[i]
  BY <1>2, <1>3, TakeIs
<1>5. /\ Take(s, n) \in Seq(S) /\ Len(Take(s, n)) = n
      /\ \A i \in 1 .. n : Take(s, n)[i] = s[i]
  BY <1>3, TakeIs
<1>6. \A i \in 1 .. n : Take(Take(s, m), n)[i] = Take(s, n)[i]
  <2> TAKE i \in 1 .. n
  <2>1. i \in 1 .. m
    BY <1>1
  <2> QED
    BY <1>2, <1>4, <1>5, <2>1
<1> QED
  BY <1>4, <1>5, <1>6, SeqEqual

-----------------------------------------------------------------------------
(* The budgets, and the sizes of a buffer.                                 *)

LEMMA Budgets ==
  ASSUME NEW max \in Nat
  PROVE  /\ HeadBudget(max) \in Nat /\ TailBudget(max) \in Nat
         /\ HeadBudget(max) + TailBudget(max) = max
BY DEF HeadBudget, TailBudget

\* A smaller budget has a smaller half on either side.
LEMMA BudgetsGrow ==
  ASSUME NEW max \in Nat, NEW limit \in Nat, limit <= max
  PROVE  HeadBudget(limit) <= HeadBudget(max) /\ TailBudget(limit) <= TailBudget(max)
BY DEF HeadBudget, TailBudget

HeadSize(length, max) == Least(length, HeadBudget(max))
TailSize(length, max) == Least(length - HeadSize(length, max), TailBudget(max))

LEMMA Sizes ==
  ASSUME NEW length \in Nat, NEW max \in Nat
  PROVE  /\ HeadSize(length, max) \in 0 .. length
         /\ TailSize(length, max) \in 0 .. length
         /\ HeadSize(length, max) + TailSize(length, max) = Least(length, max)
<1>1. PICK H \in Nat, T \in Nat : /\ H = HeadBudget(max) /\ T = TailBudget(max)
                                  /\ H + T = max
  BY Budgets
<1> QED
  BY <1>1 DEF HeadSize, TailSize, Least

\* HeadTail in terms of these sizes.
LEMMA HeadTailIs ==
  ASSUME NEW S, NEW s \in Seq(S), NEW max \in Nat,
         NEW h, h = HeadSize(Len(s), max), NEW t, t = TailSize(Len(s), max)
  PROVE  /\ Len(s) \in Nat
         /\ h \in 0 .. Len(s) /\ t \in 0 .. Len(s) /\ h + t = Least(Len(s), max)
         /\ HeadTail(s, max) =
              [maxBytes |-> max, head |-> Take(s, h), tail |-> Skip(s, Len(s) - t),
               omitted |-> Len(s) - h - t]
         /\ Take(s, h) \in Seq(S) /\ Len(Take(s, h)) = h
         /\ Skip(s, Len(s) - t) \in Seq(S) /\ Len(Skip(s, Len(s) - t)) = t
<1>1. Len(s) \in Nat
  BY LenProperties
<1>2. h \in 0 .. Len(s) /\ t \in 0 .. Len(s) /\ h + t = Least(Len(s), max)
  BY <1>1, Sizes
<1>3. HeadTail(s, max) =
        [maxBytes |-> max, head |-> Take(s, h), tail |-> Skip(s, Len(s) - t),
         omitted |-> Len(s) - h - t]
  BY DEF HeadTail, HeadSize, TailSize
<1>4. Len(s) - t \in 0 .. Len(s) /\ Len(s) - (Len(s) - t) = t
  BY <1>1, <1>2
<1>5. Take(s, h) \in Seq(S) /\ Len(Take(s, h)) = h
  BY <1>2, TakeIs
<1>6. Skip(s, Len(s) - t) \in Seq(S) /\ Len(Skip(s, Len(s) - t)) = t
  BY <1>4, SkipIs
<1> QED
  BY <1>1, <1>2, <1>3, <1>5, <1>6

\* A buffer accounts for every byte that was pushed: nothing is counted twice,
\* nothing is dropped from the count, and it keeps at most its size.
THEOREM NothingUncounted ==
  ASSUME NEW S, NEW s \in Seq(S), NEW max \in Nat
  PROVE  /\ TotalBytes(HeadTail(s, max)) = Len(s)
         /\ Len(HeadTail(s, max).head) + Len(HeadTail(s, max).tail) = Least(Len(s), max)
<1>1. PICK h, t : h = HeadSize(Len(s), max) /\ t = TailSize(Len(s), max)
  OBVIOUS
<1>2. /\ Len(s) \in Nat
      /\ h \in 0 .. Len(s) /\ t \in 0 .. Len(s) /\ h + t = Least(Len(s), max)
      /\ HeadTail(s, max) =
           [maxBytes |-> max, head |-> Take(s, h), tail |-> Skip(s, Len(s) - t),
            omitted |-> Len(s) - h - t]
      /\ Len(Take(s, h)) = h /\ Len(Skip(s, Len(s) - t)) = t
  BY <1>1, HeadTailIs
<1>3. /\ Len(HeadTail(s, max).head) = h /\ Len(HeadTail(s, max).tail) = t
      /\ HeadTail(s, max).omitted = Len(s) - h - t
  BY <1>2
<1> QED
  BY <1>2, <1>3 DEF TotalBytes

-----------------------------------------------------------------------------
\* How much of a chunk goes to the head, and how much is pushed out.
FillOf(length, max, h)   == Least(length, Most(HeadBudget(max) - h, 0))
ExcessOf(length, max, t) == Most(length - Most(TailBudget(max) - t, 0), 0)

\* The same for a chunk of C bytes that comes after L bytes.
Fill(L, C, max)   == FillOf(C, max, HeadSize(L, max))
Excess(L, C, max) == ExcessOf(C - Fill(L, C, max), max, TailSize(L, max))

\* The sizes after a push, N bytes in all, from those before it.
PushSized(L, C, N, max) ==
  /\ HeadSize(L, max) \in 0 .. L /\ TailSize(L, max) \in 0 .. L
  /\ Fill(L, C, max) \in 0 .. C /\ Excess(L, C, max) \in Nat
  /\ HeadSize(N, max) = HeadSize(L, max) + Fill(L, C, max)
  /\ TailSize(N, max) = TailSize(L, max) + (C - Fill(L, C, max)) - Excess(L, C, max)
  /\ Fill(L, C, max) > 0 => HeadSize(L, max) = L /\ TailSize(L, max) = 0
  /\ Excess(L, C, max) < TailSize(L, max) => Fill(L, C, max) = 0
  /\ Excess(L, C, max) <= TailSize(L, max) + (C - Fill(L, C, max))

LEMMA PushSizes ==
  ASSUME NEW L \in Nat, NEW C \in Nat, NEW max \in Nat, NEW N \in Nat, N = L + C
  PROVE  PushSized(L, C, N, max)
<1> PICK h, t, k, excess :
        /\ h = HeadSize(L, max) /\ t = TailSize(L, max)
        /\ k = Fill(L, C, max) /\ excess = Excess(L, C, max)
  OBVIOUS
<1>0. k = FillOf(C, max, h) /\ excess = ExcessOf(C - k, max, t)
  BY DEF Fill, Excess
<1>1. PICK H \in Nat, T \in Nat : H = HeadBudget(max) /\ T = TailBudget(max)
  BY Budgets
<1>2. h = Least(L, H) /\ t = Least(L - h, T)
  BY <1>0, <1>1 DEF HeadSize, TailSize
<1>3. h \in Nat /\ t \in Nat /\ h <= L /\ t <= L - h /\ h <= H /\ t <= T
      /\ (h = L \/ h = H) /\ (t = L - h \/ t = T)
  BY <1>1, <1>2 DEF Least
<1>4. k = IF C <= H - h THEN C ELSE H - h
  BY <1>0, <1>1, <1>3 DEF FillOf, Least, Most
<1>5. k \in 0 .. C
  BY <1>1, <1>3, <1>4
<1>6. excess = IF C - k >= T - t THEN C - k - (T - t) ELSE 0
  BY <1>0, <1>1, <1>3, <1>5 DEF ExcessOf, Most
<1>7. HeadSize(N, max) = h + k
  BY <1>1, <1>3, <1>4 DEF HeadSize, Least
<1>8. TailSize(N, max) = IF N - (h + k) <= T THEN N - (h + k) ELSE T
  <2>1. PICK g \in Nat : g = HeadSize(N, max) /\ g = h + k
    BY <1>3, <1>5, <1>7
  <2>2. TailSize(N, max) = IF N - g <= T THEN N - g ELSE T
    BY <1>1, <2>1 DEF TailSize, Least
  <2> QED
    BY <2>1, <2>2
<1>9. k > 0 => h = L /\ t = 0
  BY <1>1, <1>3, <1>4
<1>10. TailSize(N, max) = t + (C - k) - excess
  <2>1. CASE C - k >= T - t
    <3>1. N - (h + k) >= T
      BY <1>1, <1>3, <1>5, <2>1
    <3>2. TailSize(N, max) = T
      BY <1>1, <1>3, <1>5, <1>8, <3>1
    <3>3. t + (C - k) - excess = T
      BY <1>1, <1>3, <1>5, <1>6, <2>1
    <3> QED
      BY <3>2, <3>3
  <2>2. CASE ~(C - k >= T - t)
    <3>1. t < T /\ t = L - h
      BY <1>1, <1>3, <1>5, <2>2
    <3> QED
      BY <1>1, <1>3, <1>5, <1>6, <1>8, <2>2, <3>1
  <2> QED
    BY <2>1, <2>2
<1>11. excess \in Nat /\ excess <= t + (C - k)
  BY <1>1, <1>3, <1>5, <1>6
<1>12. excess < t => k = 0
  BY <1>3, <1>5, <1>9, <1>11
<1> QED
  BY <1>3, <1>5, <1>7, <1>9, <1>10, <1>11, <1>12 DEF PushSized

\* pushChunk, into a buffer that holds the prefix and suffix of what came so
\* far, leaves those of what came so far and the chunk.
THEOREM PushChunkCorrect ==
  ASSUME NEW S, NEW s \in Seq(S), NEW chunk \in Seq(S), NEW max \in Nat
  PROVE  PushChunk(HeadTail(s, max), chunk) = HeadTail(s \o chunk, max)
<1>1. Len(s) \in Nat /\ Len(chunk) \in Nat
  BY LenProperties
<1>2. PICK L \in Nat, C \in Nat : L = Len(s) /\ C = Len(chunk)
  BY <1>1
<1>3. PICK h, t, k, excess :
        /\ h = HeadSize(L, max) /\ t = TailSize(L, max)
        /\ k = Fill(L, C, max) /\ excess = Excess(L, C, max)
  OBVIOUS
<1>4. k = FillOf(C, max, h) /\ excess = ExcessOf(C - k, max, t)
  BY <1>3 DEF Fill, Excess
<1>5. PICK N \in Nat : N = L + C
  OBVIOUS
<1>6. L \in Nat /\ C \in Nat
  OBVIOUS
<1>7. /\ h \in 0 .. L /\ t \in 0 .. L /\ k \in 0 .. C /\ excess \in Nat
      /\ HeadSize(N, max) = h + k
      /\ TailSize(N, max) = t + (C - k) - excess
      /\ k > 0 => h = L /\ t = 0
      /\ excess < t => k = 0
      /\ excess <= t + (C - k)
  <2>1. PushSized(L, C, N, max)
    BY <1>5, PushSizes
  <2> QED
    BY <1>3, <2>1 DEF PushSized
<1> DEFINE before == HeadTail(s, max)
           rest   == Skip(chunk, k)
           head2  == Take(s, h) \o Take(chunk, k)
           tail2  == IF excess < t THEN Skip(Skip(s, L - t), excess) \o rest
                     ELSE Skip(rest, excess - t)
\* The buffer before, and what the code makes of it.
<1>8. /\ before = [maxBytes |-> max, head |-> Take(s, h), tail |-> Skip(s, L - t),
                   omitted |-> L - h - t]
      /\ Take(s, h) \in Seq(S) /\ Len(Take(s, h)) = h
      /\ Skip(s, L - t) \in Seq(S) /\ Len(Skip(s, L - t)) = t
  BY <1>2, <1>3, HeadTailIs
<1>9. rest \in Seq(S) /\ Len(rest) = C - k
  BY <1>2, <1>7, SkipIs
<1>10. PushChunk(before, chunk) =
         [maxBytes |-> max, head |-> head2, tail |-> tail2, omitted |-> L - h - t + excess]
  <2> HIDE DEF before, rest
  <2>1. /\ before.maxBytes = max /\ Len(before.head) = h /\ Len(before.tail) = t
        /\ k = FillOf(Len(chunk), before.maxBytes, Len(before.head))
    BY <1>2, <1>4, <1>8
  <2>2. excess = ExcessOf(Len(rest), before.maxBytes, Len(before.tail))
    BY <1>4, <1>9, <2>1
  <2>3. PushChunk(before, chunk) =
          [before EXCEPT
             !.head    = @ \o Take(chunk, k),
             !.omitted = @ + excess,
             !.tail    = IF excess < Len(@) THEN Skip(@, excess) \o rest
                         ELSE Skip(rest, excess - Len(@))]
    BY <2>1, <2>2 DEF PushChunk, rest, FillOf, ExcessOf
  <2> QED
    BY <1>8, <2>1, <2>3
\* The reference after it.
<1>11. s \o chunk \in Seq(S) /\ Len(s \o chunk) = N
  BY <1>2, <1>5, ConcatProperties
<1>12. HeadTail(s \o chunk, max) =
         [maxBytes |-> max,
          head     |-> Take(s \o chunk, h + k),
          tail     |-> Skip(s \o chunk, N - (t + (C - k) - excess)),
          omitted  |-> N - (h + k) - (t + (C - k) - excess)]
  <2> DEFINE sc == s \o chunk
             hh == h + k
             tt == t + (C - k) - excess
  <2>1. sc \in Seq(S) /\ hh = HeadSize(Len(sc), max) /\ tt = TailSize(Len(sc), max)
    BY <1>7, <1>11
  <2>2. N = Len(sc)
    BY <1>11
  <2> HIDE DEF sc, hh, tt
  <2>3. HeadTail(sc, max) =
          [maxBytes |-> max, head |-> Take(sc, hh), tail |-> Skip(sc, Len(sc) - tt),
           omitted |-> Len(sc) - hh - tt]
    BY <2>1, HeadTailIs
  <2>4. HeadTail(sc, max) =
          [maxBytes |-> max, head |-> Take(sc, hh), tail |-> Skip(sc, N - tt),
           omitted |-> N - hh - tt]
    BY <2>2, <2>3
  <2> QED
    BY <2>4 DEF sc, hh, tt
<1>13. head2 = Take(s \o chunk, h + k)
  <2>1. CASE k = 0
    <3>1. Take(chunk, k) = << >>
      BY <2>1, Ends
    <3>2. h + k \in 0 .. Len(s) + Len(chunk) /\ h + k <= Len(s) /\ h + k = h
      BY <1>1, <1>2, <1>7, <2>1
    <3>3. Take(s \o chunk, h + k) = Take(s, h)
      BY <3>2, TakeConcat
    <3> QED
      BY <1>8, <3>1, <3>3, ConcatEmptySeq
  <2>2. CASE k > 0
    <3>1. h + k = Len(s) + k /\ h = Len(s) /\ k \in 0 .. Len(chunk)
      BY <1>2, <1>7, <2>2
    <3>2. Take(s \o chunk, Len(s) + k) = s \o Take(chunk, k)
      BY <3>1, BeyondFirst
    <3>3. Take(s, h) = s
      BY <3>1, Ends
    <3> QED
      BY <3>1, <3>2, <3>3
  <2>3. k = 0 \/ k > 0
    BY <1>6, <1>7
  <2> QED
    BY <2>1, <2>2, <2>3
<1>14. tail2 = Skip(s \o chunk, N - (t + (C - k) - excess))
  <2>1. N - (t + (C - k) - excess) = L - t + k + excess
    BY <1>5, <1>6, <1>7
  <2>2. L - t + k + excess \in 0 .. Len(s) + Len(chunk)
    BY <1>2, <1>6, <1>7
  <2>3. CASE excess < t
    <3>1. k = 0
      BY <1>7, <2>3
    <3>2. rest = chunk
      BY <3>1, Ends
    <3>3. /\ L - t \in 0 .. Len(s) /\ excess \in 0 .. Len(s) - (L - t)
          /\ L - t + k + excess <= Len(s) /\ L - t + k + excess = L - t + excess
      BY <1>2, <1>6, <1>7, <2>3, <3>1
    <3>4. Skip(Skip(s, L - t), excess) = Skip(s, L - t + excess)
      BY <3>3, SkipSkip
    <3>5. Skip(s \o chunk, L - t + k + excess) = Skip(s, L - t + excess) \o chunk
      BY <2>2, <3>3, SkipConcat
    <3> QED
      BY <2>1, <2>3, <3>2, <3>4, <3>5
  <2>4. CASE ~(excess < t)
    <3>1. /\ k \in 0 .. Len(chunk) /\ excess - t \in 0 .. Len(chunk) - k
          /\ k + (excess - t) \in 0 .. Len(chunk)
          /\ L - t + k + excess = Len(s) + (k + (excess - t))
      BY <1>2, <1>6, <1>7, <2>4
    <3>2. Skip(rest, excess - t) = Skip(chunk, k + (excess - t))
      BY <3>1, SkipSkip
    <3>3. Skip(s \o chunk, L - t + k + excess) = Skip(chunk, k + (excess - t))
      BY <3>1, BeyondFirst
    <3> QED
      BY <2>1, <2>4, <3>2, <3>3
  <2> QED
    BY <2>3, <2>4
<1>15. L - h - t + excess = N - (h + k) - (t + (C - k) - excess)
  BY <1>5, <1>6, <1>7
<1> HIDE DEF head2, tail2, before
<1>16. PushChunk(before, chunk) = HeadTail(s \o chunk, max)
  BY <1>10, <1>12, <1>13, <1>14, <1>15
<1> QED
  BY <1>16 DEF before

\* A new buffer holds the prefix and suffix of nothing.
LEMMA NewBufferEmpty ==
  ASSUME NEW max \in Nat
  PROVE  NewBuffer(max) = HeadTail(<< >>, max)
<1>1. PICK e \in Seq(Nat) : e = << >> /\ Len(e) = 0
  BY EmptySeq
<1>2. PICK h, t : h = HeadSize(Len(e), max) /\ t = TailSize(Len(e), max)
  OBVIOUS
<1>3. /\ h \in 0 .. Len(e) /\ t \in 0 .. Len(e)
      /\ HeadTail(e, max) =
           [maxBytes |-> max, head |-> Take(e, h), tail |-> Skip(e, Len(e) - t),
            omitted |-> Len(e) - h - t]
  BY <1>2, HeadTailIs
<1>4. h = 0 /\ t = 0 /\ Len(e) - t = 0 /\ Len(e) - h - t = 0
  BY <1>1, <1>3
<1>5. Take(e, 0) = << >> /\ Skip(e, 0) = << >>
  BY <1>1, Ends
<1>6. Most(max, 0) = max
  BY DEF Most
<1> QED
  BY <1>1, <1>3, <1>4, <1>5, <1>6 DEF NewBuffer

Kept(buffer) == buffer.head \o buffer.tail

\* Two sequences look alike in a buffer of this size, but for what is omitted.
SameEnds(s, kept, limit) ==
  /\ HeadSize(Len(kept), limit) = HeadSize(Len(s), limit)
  /\ TailSize(Len(kept), limit) = TailSize(Len(s), limit)
  /\ Take(kept, HeadSize(Len(s), limit)) = Take(s, HeadSize(Len(s), limit))
  /\ Skip(kept, Len(kept) - TailSize(Len(s), limit))
       = Skip(s, Len(s) - TailSize(Len(s), limit))

\* What a buffer keeps of s has, within a smaller budget, the same prefix and
\* suffix as s.
LEMMA LimitSlices ==
  ASSUME NEW S, NEW s \in Seq(S), NEW max \in Nat, NEW limit \in Nat,
         limit < Least(Len(s), max)
  PROVE  /\ Kept(HeadTail(s, max)) \in Seq(S)
         /\ Len(Kept(HeadTail(s, max))) = Least(Len(s), max)
         /\ SameEnds(s, Kept(HeadTail(s, max)), limit)
<1>0. PICK kept : kept = Kept(HeadTail(s, max))
  OBVIOUS
<1>1. PICK L \in Nat : L = Len(s)
  BY LenProperties
<1>2. PICK h, t : h = HeadSize(L, max) /\ t = TailSize(L, max)
  OBVIOUS
<1>3. /\ h \in 0 .. L /\ t \in 0 .. L /\ h + t = Least(L, max)
      /\ HeadTail(s, max) =
           [maxBytes |-> max, head |-> Take(s, h), tail |-> Skip(s, L - t),
            omitted |-> L - h - t]
      /\ Take(s, h) \in Seq(S) /\ Len(Take(s, h)) = h
      /\ Skip(s, L - t) \in Seq(S) /\ Len(Skip(s, L - t)) = t
  BY <1>1, <1>2, HeadTailIs
<1>4. PICK p \in Seq(S), q \in Seq(S) :
        p = Take(s, h) /\ q = Skip(s, L - t) /\ Len(p) = h /\ Len(q) = t /\ kept = p \o q
  <2>1. PICK p, q : p = Take(s, h) /\ q = Skip(s, L - t)
    OBVIOUS
  <2>2. p \in Seq(S) /\ q \in Seq(S) /\ Len(p) = h /\ Len(q) = t
    BY <1>3, <2>1
  <2>3. HeadTail(s, max).head = p /\ HeadTail(s, max).tail = q
    BY <1>3, <2>1
  <2>4. kept = p \o q
    BY <1>0, <2>3 DEF Kept
  <2> QED
    BY <2>1, <2>2, <2>4
<1>5. PICK K \in Nat : K = h + t /\ K = Least(L, max)
  BY <1>3
<1>5a. h \in Nat /\ t \in Nat /\ h <= L /\ t <= L /\ Len(p) = h /\ Len(q) = t
  BY <1>3, <1>4
<1>6. kept \in Seq(S) /\ Len(kept) = K
  BY <1>4, <1>5, ConcatProperties
<1>7. K <= L /\ K <= max /\ limit < K /\ (K = L \/ K = max)
  BY <1>1, <1>5 DEF Least
<1>8. PICK H \in Nat, T \in Nat :
        H = HeadBudget(limit) /\ T = TailBudget(limit) /\ H + T = limit
  BY Budgets
\* Both are longer than the limit, so that each budget is used up.
<1>9. \A n \in Nat : limit < n => HeadSize(n, limit) = H /\ TailSize(n, limit) = T
  <2> SUFFICES ASSUME NEW n \in Nat, limit < n
               PROVE  HeadSize(n, limit) = H /\ TailSize(n, limit) = T
    OBVIOUS
  <2>1. HeadSize(n, limit) = H
    BY <1>8 DEF HeadSize, Least
  <2>2. PICK g \in Nat : g = HeadSize(n, limit) /\ g = H
    BY <2>1
  <2> QED
    BY <1>8, <2>1, <2>2 DEF TailSize, Least
<1>10. /\ HeadSize(K, limit) = H /\ TailSize(K, limit) = T
       /\ HeadSize(L, limit) = H /\ TailSize(L, limit) = T
  BY <1>7, <1>9
<1>11. H \in 0 .. K /\ T \in 0 .. K /\ K - T \in 0 .. K /\ L - T \in 0 .. L
  <2>1. H <= limit /\ T <= limit
    BY <1>8
  <2>2. H <= K /\ T <= K /\ T <= L
    BY <1>7, <2>1
  <2> QED
    BY <2>2
<1>12. Take(kept, H) = Take(s, H) /\ Skip(kept, K - T) = Skip(s, L - T)
  <2>1. CASE K = L
    <3>1. h = L - t
      BY <1>3, <1>5, <2>1
    <3>2. h \in 0 .. Len(s) /\ 1 \in 1 .. Len(s) + 1
      BY <1>1, <1>3
    <3>3. SubSeq(s, 1, h) \o SubSeq(s, h + 1, Len(s)) = SubSeq(s, 1, Len(s))
      <4>1. h \in 1 - 1 .. Len(s) /\ Len(s) \in h .. Len(s)
        BY <1>1, <3>2
      <4> QED
        BY <3>2, <4>1, ConcatAdjacentSubSeq
    <3>4. p = SubSeq(s, 1, h) /\ q = SubSeq(s, h + 1, Len(s))
      BY <1>4, <3>1 DEF Take, Skip
    <3>5. kept = s
      BY <1>4, <3>3, <3>4, SubSeqFull
    <3> QED
      BY <2>1, <3>5
  <2>2. CASE K # L
    <3>1. K = max /\ max < L
      BY <1>7, <2>2
    <3>2. PICK H2 \in Nat, T2 \in Nat :
            H2 = HeadBudget(max) /\ T2 = TailBudget(max) /\ H2 + T2 = max
      BY Budgets
    <3>3. H <= H2 /\ T <= T2
      BY <1>7, <1>8, <3>1, <3>2, BudgetsGrow
    <3>4. h = H2 /\ t = T2
      <4>1. h = H2
        BY <1>2, <3>1, <3>2 DEF HeadSize, Least
      <4>2. h + t = H2 + T2
        BY <1>5, <3>1, <3>2
      <4> QED
        BY <1>5a, <3>2, <4>1, <4>2
    <3>5. /\ H \in 0 .. Len(p) + Len(q) /\ H <= Len(p)
          /\ H \in 0 .. h /\ h \in 0 .. Len(s)
      <4>1. H <= h
        BY <3>3, <3>4
      <4>2. H \in 0 .. h
        BY <1>5a, <4>1
      <4> QED
        BY <1>1, <1>5a, <4>1, <4>2
    <3>6. Take(kept, H) = Take(p, H)
      BY <1>4, <3>5, TakeConcat
    <3>7. Take(p, H) = Take(s, H)
      BY <1>4, <3>5, TakeTake
    <3>8. PICK d \in Nat, o \in Nat : d = t - T /\ o = L - t
      <4>1. T <= t
        BY <3>3, <3>4
      <4>2. t - T \in Nat /\ L - t \in Nat
        BY <1>5a, <4>1
      <4> QED
        BY <4>2
    <3>9. d \in 0 .. Len(q) /\ o \in 0 .. Len(s) /\ d \in 0 .. Len(s) - o
      BY <1>1, <1>5a, <1>8, <3>8
    <3>10. K - T = Len(p) + d /\ L - T = o + d
      BY <1>5, <1>5a, <1>8, <3>8
    <3>11. Skip(kept, Len(p) + d) = Skip(q, d)
      <4>1. Skip(p \o q, Len(p) + d) = Skip(q, d)
        BY <3>9, BeyondFirst
      <4>2. kept = p \o q
        BY <1>4
      <4> QED
        BY <4>1, <4>2
    <3>12. Skip(q, d) = Skip(s, o + d)
      BY <1>4, <3>8, <3>9, SkipSkip
    <3> QED
      BY <3>6, <3>7, <3>10, <3>11, <3>12
  <2> QED
    BY <2>1, <2>2
<1> QED
  <2>1. SameEnds(s, kept, limit)
    BY <1>1, <1>6, <1>10, <1>12 DEF SameEnds
  <2> QED
    BY <1>0, <1>1, <1>5, <1>6, <2>1

\* withLimit gives the prefix and suffix that a buffer of the smaller size
\* would hold of everything that was pushed, with all that is left out counted.
THEOREM WithLimitCorrect ==
  ASSUME NEW S, NEW s \in Seq(S), NEW max \in Nat, NEW limit \in Nat
  PROVE  WithLimit(HeadTail(s, max), limit) =
           IF limit >= Least(Len(s), max) THEN HeadTail(s, max) ELSE HeadTail(s, limit)
<1>1. PICK b : b = HeadTail(s, max)
  OBVIOUS
<1>2. PICK L \in Nat, K \in Nat : L = Len(s) /\ K = Least(Len(s), max)
  <2>1. Len(s) \in Nat
    BY LenProperties
  <2> QED
    BY <2>1 DEF Least
<1>3. TotalBytes(b) = L /\ Len(b.head) + Len(b.tail) = K
  BY <1>1, <1>2, NothingUncounted
<1>4. CASE limit >= K
  BY <1>1, <1>2, <1>3, <1>4 DEF WithLimit
<1>5. CASE ~(limit >= K)
  <2>1. limit < K
    BY <1>5
  <2>2. b.head \in Seq(S) /\ b.tail \in Seq(S) /\ b.omitted = L - K
    <3>1. PICK h, t : h = HeadSize(L, max) /\ t = TailSize(L, max)
      OBVIOUS
    <3>2. /\ h \in 0 .. L /\ t \in 0 .. L /\ h + t = K
          /\ b = [maxBytes |-> max, head |-> Take(s, h), tail |-> Skip(s, L - t),
                  omitted |-> L - h - t]
          /\ Take(s, h) \in Seq(S) /\ Skip(s, L - t) \in Seq(S)
      BY <1>1, <1>2, <3>1, HeadTailIs
    <3>3. L - h - t = L - K
      BY <3>2
    <3> QED
      BY <3>2, <3>3
  <2>3. PICK kept : kept = b.head \o b.tail
    OBVIOUS
  <2>4. PICK h, t : h = HeadSize(L, limit) /\ t = TailSize(L, limit)
    OBVIOUS
  <2>5. /\ kept \in Seq(S) /\ Len(kept) = K
        /\ h = HeadSize(K, limit) /\ t = TailSize(K, limit)
        /\ Take(kept, h) = Take(s, h) /\ Skip(kept, K - t) = Skip(s, L - t)
    <3>1. limit < Least(Len(s), max)
      BY <1>2, <2>1
    <3>2. kept = Kept(HeadTail(s, max))
      BY <1>1, <2>3 DEF Kept
    <3>3. kept \in Seq(S) /\ Len(kept) = Least(Len(s), max) /\ SameEnds(s, kept, limit)
      BY <3>1, <3>2, LimitSlices
    <3> QED
      BY <1>2, <2>4, <3>3 DEF SameEnds
\* Pushing head and tail into a new buffer.
  <2>6. PushChunk(PushChunk(NewBuffer(limit), b.head), b.tail) = HeadTail(kept, limit)
    <3>1. PICK e \in Seq(S) : e = << >> /\ e \o b.head = b.head
      BY <2>2, EmptySeq, ConcatEmptySeq
    <3>2. NewBuffer(limit) = HeadTail(e, limit)
      BY <3>1, NewBufferEmpty
    <3>3. PushChunk(HeadTail(e, limit), b.head) = HeadTail(e \o b.head, limit)
      BY <2>2, PushChunkCorrect
    <3>4. PushChunk(HeadTail(b.head, limit), b.tail) = HeadTail(b.head \o b.tail, limit)
      BY <2>2, PushChunkCorrect
    <3> QED
      BY <2>3, <3>1, <3>2, <3>3, <3>4
  <2>7. /\ h \in 0 .. K /\ t \in 0 .. K
        /\ HeadTail(kept, limit) =
             [maxBytes |-> limit, head |-> Take(kept, h), tail |-> Skip(kept, K - t),
              omitted |-> K - h - t]
    BY <2>5, HeadTailIs
  <2>8. HeadTail(s, limit) =
          [maxBytes |-> limit, head |-> Take(s, h), tail |-> Skip(s, L - t),
           omitted |-> L - h - t]
    BY <1>2, <2>4, HeadTailIs
  <2>9. K - h - t + (L - K) = L - h - t
    BY <2>7
  <2>10. WithLimit(b, limit) = [HeadTail(kept, limit) EXCEPT !.omitted = @ + b.omitted]
    BY <1>3, <1>5, <2>6 DEF WithLimit
  <2>11. WithLimit(b, limit) = HeadTail(s, limit)
    <3>1. PICK o : o = K - h - t
      OBVIOUS
    <3>2. HeadTail(kept, limit) =
            [maxBytes |-> limit, head |-> Take(s, h), tail |-> Skip(s, L - t), omitted |-> o]
      BY <2>5, <2>7, <3>1
    <3>3. o + b.omitted = L - h - t
      BY <2>2, <2>9, <3>1
    <3>4. WithLimit(b, limit) =
            [maxBytes |-> limit, head |-> Take(s, h), tail |-> Skip(s, L - t),
             omitted |-> o + b.omitted]
      BY <2>10, <3>2
    <3> QED
      BY <2>8, <3>3, <3>4
  <2> QED
    BY <1>1, <1>2, <1>5, <2>11
<1> QED
  BY <1>4, <1>5
=============================================================================
