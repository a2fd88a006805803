----------------------------- MODULE ProcessProofs -----------------------------
(***************************************************************************)
(* Proofs about ProcessManager, for any number of callers, any amount of   *)
(* output and any buffer sizes: its inductive invariant IInv, from which   *)
(* the safety properties follow, and that it implements ProcessOutput.     *)
(***************************************************************************)
EXTENDS ProcessManager, HeadTailBufferProofs

Places == {"idle", "insert", "await", "lock", "write", "wait", "look", "drain", "report"}

-----------------------------------------------------------------------------
(* What is printed, as a sequence.                                         *)

LEMMA PrintedIs ==
  ASSUME NEW from \in Nat, NEW upTo \in Nat, from <= upTo, NEW S, from + 1 .. upTo \subseteq S
  PROVE  /\ Printed(from, upTo) \in Seq(S)
         /\ Len(Printed(from, upTo)) = upTo - from
         /\ \A k \in 1 .. upTo - from : Printed(from, upTo)[k] = from + k
<1>1. upTo - from \in Nat
  OBVIOUS
<1>2. \A k \in 1 .. upTo - from : from + k \in S
  OBVIOUS
<1>3. Printed(from, upTo) \in [1 .. upTo - from -> S]
  BY <1>2 DEF Printed
<1>4. Printed(from, upTo) \in Seq(S)
  BY <1>1, <1>3, SeqDef
<1>5. Len(Printed(from, upTo)) = upTo - from
  BY <1>1, <1>3, <1>4, LenProperties
<1> QED
  BY <1>4, <1>5 DEF Printed

\* What was printed later follows what was printed before.
LEMMA PrintedConcat ==
  ASSUME NEW a \in Nat, NEW b \in Nat, NEW c \in Nat, a <= b, b <= c
  PROVE  Printed(a, b) \o Printed(b, c) = Printed(a, c)
<1>1. PICK p, q, r : p = Printed(a, b) /\ q = Printed(b, c) /\ r = Printed(a, c)
  OBVIOUS
<1>2. p \in Seq(Nat) /\ Len(p) = b - a /\ \A k \in 1 .. b - a : p[k] = a + k
  <2>1. a + 1 .. b \subseteq Nat
    OBVIOUS
  <2> QED
    BY <1>1, <2>1, PrintedIs
<1>3. q \in Seq(Nat) /\ Len(q) = c - b /\ \A k \in 1 .. c - b : q[k] = b + k
  <2>1. b + 1 .. c \subseteq Nat
    OBVIOUS
  <2> QED
    BY <1>1, <2>1, PrintedIs
<1>5. r \in Seq(Nat) /\ Len(r) = c - a /\ \A k \in 1 .. c - a : r[k] = a + k
  <2>1. a + 1 .. c \subseteq Nat /\ a <= c
    OBVIOUS
  <2> QED
    BY <1>1, <2>1, PrintedIs
<1>6. /\ p \o q \in Seq(Nat) /\ Len(p \o q) = Len(p) + Len(q)
      /\ \A k \in 1 .. Len(p) + Len(q) : (p \o q)[k] = IF k <= Len(p) THEN p[k] ELSE q[k - Len(p)]
  BY <1>2, <1>3, ConcatProperties
<1>7. Len(p \o q) = Len(r)
  BY <1>2, <1>3, <1>5, <1>6
<1>8. \A k \in 1 .. Len(p \o q) : (p \o q)[k] = r[k]
  <2> TAKE k \in 1 .. Len(p \o q)
  <2>1. k \in 1 .. Len(p) + Len(q) /\ k \in 1 .. c - a
    BY <1>2, <1>3, <1>6
  <2>2. r[k] = a + k
    BY <1>5, <2>1
  <2>3. CASE k <= Len(p)
    <3>1. k \in 1 .. b - a
      BY <1>2, <2>1, <2>3
    <3> QED
      BY <1>2, <1>6, <2>1, <2>2, <2>3, <3>1
  <2>4. CASE ~(k <= Len(p))
    <3>1. k - Len(p) \in 1 .. c - b /\ b + (k - Len(p)) = a + k
      BY <1>2, <2>1, <2>4
    <3>2. (p \o q)[k] = q[k - Len(p)]
      BY <1>6, <2>1, <2>4
    <3> QED
      BY <1>3, <2>2, <3>1, <3>2
  <2> QED
    BY <2>3, <2>4
<1>9. p \o q = r
  BY <1>5, <1>6, <1>7, <1>8, SeqEqual
<1> QED
  BY <1>1, <1>9

-----------------------------------------------------------------------------
(* Types.                                                                  *)

\* TypeOK without the calls, and without the buffer and what was drained,
\* which have their own part.
RestTyped ==
  /\ tty \in BOOLEAN /\ open \in BOOLEAN /\ emitting \in 0 .. 2 /\ done \in BOOLEAN
  /\ child \in {"none", "running", "exited"} /\ killed \in BOOLEAN
  /\ written \in 0 .. MaxBytes /\ copied \in 0 .. MaxBytes
  /\ stdin \in 0 .. StdinCap
  /\ mapped \in BOOLEAN /\ turn \in {"open", "cancelled"} /\ own \in BOOLEAN
  /\ told \in BOOLEAN /\ reported \in BOOLEAN
  /\ stopped \in {"no", "cleaned", "closed"}

\* The buffer, and the count of what was drained.
News ==
  /\ counted \in Nat /\ copied \in Nat /\ written \in Nat
  /\ BufferHoldsTheNews

\* Moving one call leaves the others, and what it saw, alone.
LEMMA GotoIs ==
  ASSUME call \in [Callers -> CallType], NEW c \in Callers, NEW place \in Places,
         Goto(c, place)
  PROVE  /\ call' \in [Callers -> CallType]
         /\ call'[c].pc = place /\ call'[c].finished = call[c].finished
         /\ \A d \in Callers : d # c => call'[d] = call[d]
BY DEF Goto, CallType, Places

\* The same of a call that is over ...
LEMMA ReturnIs ==
  ASSUME call \in [Callers -> CallType], lock \in Callers \cup {NoCaller},
         NEW c \in Callers, Return(c)
  PROVE  /\ call' \in [Callers -> CallType] /\ lock' \in Callers \cup {NoCaller}
         /\ call'[c].pc = "idle" /\ call'[c].finished = FALSE
         /\ \A d \in Callers : d # c => call'[d] = call[d]
BY DEF Return, Idle, CallType

\* ... and of one that looks whether the process is done.
LEMMA SeesIs ==
  ASSUME call \in [Callers -> CallType], NEW c \in Callers, NEW seen \in BOOLEAN,
         call' = [call EXCEPT ![c] = [@ EXCEPT !.pc = "drain", !.finished = seen]]
  PROVE  /\ call' \in [Callers -> CallType]
         /\ call'[c].pc = "drain" /\ call'[c].finished = seen
         /\ \A d \in Callers : d # c => call'[d] = call[d]
BY DEF CallType

LEMMA FindsIs ==
  ASSUME call \in [Callers -> CallType], NEW c \in Callers,
         NEW chars \in {"none", "text", "ctrl-c"},
         call' = [call EXCEPT ![c] = [pc |-> "lock", chars |-> chars, finished |-> FALSE]]
  PROVE  /\ call' \in [Callers -> CallType]
         /\ call'[c].pc = "lock" /\ call'[c].finished = FALSE
         /\ \A d \in Callers : d # c => call'[d] = call[d]
BY DEF CallType

\* A call goes from one place to another, and has seen the process done or not.
CallMoves(c, from, to, seen) ==
  /\ call[c].pc = from /\ call'[c].pc = to /\ call'[c].finished = seen
  /\ call' \in [Callers -> CallType] /\ lock' \in Callers \cup {NoCaller}
  /\ \A d \in Callers : d # c => call'[d] = call[d]

\* The calls and the lock have their types.
CallsTyped ==
  /\ call \in [Callers -> CallType] /\ lock \in Callers \cup {NoCaller}

\* All but the calls and the lock stays as it is.
OnlyCalls == UNCHANGED <<tty, child, written, killed, stdin, open, copied, emitting,
                         buffer, done, mapped, turn, own, counted, told, reported, stopped>>

LEMMA StartMoves ==
  ASSUME CallsTyped, NEW c \in Callers, Start(c)
  PROVE  /\ CallMoves(c, "idle", "insert", call[c].finished)
         /\ UNCHANGED <<tty, written, killed, stdin, open, copied, emitting, buffer, done,
                       mapped, turn, own, counted, told, reported,
                       stopped>>
         /\ child = "none" /\ child' = "running" /\ stopped # "closed"
<1>1. call[c].pc = "idle" /\ Goto(c, "insert") /\ lock' = lock
  BY DEF Start, vars, childVars, outputVars, turnVars, history
<1>2. /\ UNCHANGED <<tty, written, killed, stdin, open, copied, emitting, buffer, done,
                       mapped, turn, own, counted, told, reported,
                       stopped>>
      /\ child = "none" /\ child' = "running" /\ stopped # "closed"
  BY DEF Start, vars, childVars, outputVars, turnVars, history
<1>3. CallMoves(c, "idle", "insert", call[c].finished)
  BY <1>1, GotoIs DEF CallMoves, CallsTyped, Places
<1> QED
  BY <1>2, <1>3

LEMMA InsertMoves ==
  ASSUME CallsTyped, NEW c \in Callers, Insert(c)
  PROVE  /\ CallMoves(c, "insert", "await", call[c].finished)
         /\ UNCHANGED <<tty, child, written, killed, stdin, open, copied, emitting,
                       buffer, done, turn, own, counted, told,
                       reported, stopped>>
         /\ mapped' = TRUE
<1>1. call[c].pc = "insert" /\ Goto(c, "await") /\ lock' = lock
  BY DEF Insert, vars, childVars, outputVars, turnVars, history
<1>2. /\ UNCHANGED <<tty, child, written, killed, stdin, open, copied, emitting,
                       buffer, done, turn, own, counted, told,
                       reported, stopped>>
      /\ mapped' = TRUE
  BY DEF Insert, vars, childVars, outputVars, turnVars, history
<1>3. CallMoves(c, "insert", "await", call[c].finished)
  BY <1>1, GotoIs DEF CallMoves, CallsTyped, Places
<1> QED
  BY <1>2, <1>3

LEMMA WriteTextMoves ==
  ASSUME CallsTyped, NEW c \in Callers, WriteText(c)
  PROVE  /\ CallMoves(c, "write", "wait", call[c].finished)
         /\ UNCHANGED <<tty, child, written, killed, open, copied, emitting, buffer, done,
                       mapped, turn, own, counted, told, reported,
                       stopped>>
         /\ stdin < StdinCap /\ stdin' = stdin + 1
<1>1. call[c].pc = "write" /\ Goto(c, "wait") /\ lock' = lock
  BY DEF WriteText, vars, childVars, outputVars, turnVars, history
<1>2. /\ UNCHANGED <<tty, child, written, killed, open, copied, emitting, buffer, done,
                       mapped, turn, own, counted, told, reported,
                       stopped>>
      /\ stdin < StdinCap /\ stdin' = stdin + 1
  BY DEF WriteText, vars, childVars, outputVars, turnVars, history
<1>3. CallMoves(c, "write", "wait", call[c].finished)
  BY <1>1, GotoIs DEF CallMoves, CallsTyped, Places
<1> QED
  BY <1>2, <1>3

LEMMA SignalMoves ==
  ASSUME CallsTyped, NEW c \in Callers, Signal(c)
  PROVE  /\ CallMoves(c, "write", "wait", call[c].finished)
         /\ OnlyCalls
<1>1. call[c].pc = "write" /\ Goto(c, "wait") /\ lock' = lock
  BY DEF Signal, vars, childVars, outputVars, turnVars, history
<1>2. OnlyCalls
  BY DEF Signal, vars, childVars, outputVars, turnVars, history, OnlyCalls
<1>3. CallMoves(c, "write", "wait", call[c].finished)
  BY <1>1, GotoIs DEF CallMoves, CallsTyped, Places
<1> QED
  BY <1>2, <1>3

LEMMA WakeMoves ==
  ASSUME CallsTyped, NEW c \in Callers, Wake(c)
  PROVE  /\ CallMoves(c, "wait", "look", call[c].finished)
         /\ OnlyCalls
<1>1. call[c].pc = "wait" /\ Goto(c, "look") /\ lock' = lock
  BY DEF Wake, vars, childVars, outputVars, turnVars, history
<1>2. OnlyCalls
  BY DEF Wake, vars, childVars, outputVars, turnVars, history, OnlyCalls
<1>3. CallMoves(c, "wait", "look", call[c].finished)
  BY <1>1, GotoIs DEF CallMoves, CallsTyped, Places
<1> QED
  BY <1>2, <1>3

LEMMA DrainMoves ==
  ASSUME CallsTyped, NEW c \in Callers, Drain(c)
  PROVE  /\ CallMoves(c, "drain", "report", call[c].finished)
         /\ UNCHANGED <<tty, child, written, killed, stdin, open, copied, emitting, done,
                       mapped, turn, own, told, reported, stopped>>
         /\ counted' = counted + TotalBytes(WithLimit(buffer, OutputLimit))
         /\ buffer' = NewBuffer(BufferMax)
<1>1. call[c].pc = "drain" /\ Goto(c, "report") /\ lock' = lock
  BY DEF Drain, vars, childVars, outputVars, turnVars, history
<1>2. /\ UNCHANGED <<tty, child, written, killed, stdin, open, copied, emitting, done,
                       mapped, turn, own, told, reported, stopped>>
      /\ counted' = counted + TotalBytes(WithLimit(buffer, OutputLimit))
      /\ buffer' = NewBuffer(BufferMax)
  BY DEF Drain, vars, childVars, outputVars, turnVars, history
<1>3. CallMoves(c, "drain", "report", call[c].finished)
  BY <1>1, GotoIs DEF CallMoves, CallsTyped, Places
<1> QED
  BY <1>2, <1>3

LEMMA WriteFailsMoves ==
  ASSUME CallsTyped, NEW c \in Callers, WriteFails(c)
  PROVE  /\ CallMoves(c, "write", "idle", FALSE)
         /\ OnlyCalls
<1>1. call[c].pc = "write" /\ Return(c)
  BY DEF WriteFails
<1>2. OnlyCalls
  BY DEF WriteFails, vars, childVars, outputVars, turnVars, history, OnlyCalls
<1>3. CallMoves(c, "write", "idle", FALSE)
  BY <1>1, ReturnIs DEF CallMoves, CallsTyped
<1> QED
  BY <1>2, <1>3

LEMMA CancelledMoves ==
  ASSUME CallsTyped, NEW c \in Callers, Cancelled(c)
  PROVE  /\ CallMoves(c, "wait", "idle", FALSE)
         /\ OnlyCalls
<1>1. call[c].pc = "wait" /\ Return(c)
  BY DEF Cancelled
<1>2. OnlyCalls
  BY DEF Cancelled, vars, childVars, outputVars, turnVars, history, OnlyCalls
<1>3. CallMoves(c, "wait", "idle", FALSE)
  BY <1>1, ReturnIs DEF CallMoves, CallsTyped
<1> QED
  BY <1>2, <1>3

LEMMA ReportMoves ==
  ASSUME CallsTyped, NEW c \in Callers, Report(c)
  PROVE  /\ CallMoves(c, "report", "idle", FALSE)
         /\ UNCHANGED <<tty, child, written, killed, stdin, open, copied, emitting,
                       buffer, done, turn, own, counted, stopped>>
         /\ reported' = (reported \/ call[c].finished)
         /\ told' = (told \/ ~call[c].finished)
         /\ mapped' = (mapped /\ ~call[c].finished)
<1>1. call[c].pc = "report" /\ Return(c)
  BY DEF Report
<1>2. /\ UNCHANGED <<tty, child, written, killed, stdin, open, copied, emitting,
                       buffer, done, turn, own, counted, stopped>>
      /\ reported' = (reported \/ call[c].finished)
      /\ told' = (told \/ ~call[c].finished)
      /\ mapped' = (mapped /\ ~call[c].finished)
  BY DEF Report, vars, childVars, outputVars, turnVars, history
<1>3. CallMoves(c, "report", "idle", FALSE)
  BY <1>1, ReturnIs DEF CallMoves, CallsTyped
<1> QED
  BY <1>2, <1>3

LEMMA AwaitDoneMoves ==
  ASSUME CallsTyped, NEW c \in Callers, AwaitDone(c)
  PROVE  /\ \/ done /\ CallMoves(c, "await", "drain", TRUE)
            \/ CallMoves(c, "await", "drain", call[c].finished)
         /\ OnlyCalls
<1>1. call[c].pc = "await" /\ lock' = lock
  BY DEF AwaitDone, vars, childVars, outputVars, turnVars, history
<1>2. ASSUME call' = [call EXCEPT ![c] = [@ EXCEPT !.pc = "drain", !.finished = TRUE]]
      PROVE  CallMoves(c, "await", "drain", TRUE)
  BY <1>1, <1>2, SeesIs DEF CallMoves, CallsTyped
<1>3. ASSUME Goto(c, "drain")
      PROVE  CallMoves(c, "await", "drain", call[c].finished)
  BY <1>1, <1>3, GotoIs DEF CallMoves, CallsTyped, Places
<1>4. \/ done /\ call' = [call EXCEPT ![c] = [@ EXCEPT !.pc = "drain", !.finished = TRUE]]
      \/ Goto(c, "drain")
  BY DEF AwaitDone
<1>5. OnlyCalls
  BY DEF AwaitDone, vars, childVars, outputVars, turnVars, history, OnlyCalls
<1>6. \/ done /\ CallMoves(c, "await", "drain", TRUE)
      \/ CallMoves(c, "await", "drain", call[c].finished)
  BY <1>2, <1>3, <1>4 DEF CallMoves, CallsTyped
<1> QED
  BY <1>5, <1>6

LEMMA LookupMoves ==
  ASSUME CallsTyped, NEW c \in Callers, NEW chars \in {"none", "text", "ctrl-c"},
         Lookup(c, chars)
  PROVE  /\ CallMoves(c, "idle", "lock", FALSE)
         /\ OnlyCalls
         /\ mapped /\ stopped # "closed"
<1>1. /\ call[c].pc = "idle" /\ lock' = lock
      /\ call' = [call EXCEPT ![c] = [pc |-> "lock", chars |-> chars, finished |-> FALSE]]
  BY DEF Lookup, vars, childVars, outputVars, turnVars, history
<1>2. /\ OnlyCalls
      /\ mapped /\ stopped # "closed"
  BY DEF Lookup, vars, childVars, outputVars, turnVars, history, OnlyCalls
<1>3. CallMoves(c, "idle", "lock", FALSE)
  BY <1>1, FindsIs DEF CallMoves, CallsTyped
<1> QED
  BY <1>2, <1>3

LEMMA LockMoves ==
  ASSUME CallsTyped, NEW c \in Callers, Lock(c)
  PROVE  /\ \E place \in {"wait", "write"} : CallMoves(c, "lock", place, call[c].finished)
         /\ OnlyCalls
<1>1. call[c].pc = "lock" /\ lock' = c
  BY DEF Lock
<1>2. PICK spot \in {"wait", "write"} : Goto(c, spot)
  BY DEF Lock
<1>3. CallMoves(c, "lock", spot, call[c].finished)
  BY <1>1, <1>2, GotoIs DEF CallMoves, CallsTyped, Places
<1>4. OnlyCalls
  BY DEF Lock, vars, childVars, outputVars, turnVars, history, OnlyCalls
<1>5. \E place \in {"wait", "write"} : CallMoves(c, "lock", place, call[c].finished)
  BY <1>3 DEF CallMoves, CallsTyped
<1> QED
  BY <1>4, <1>5

LEMMA LookMoves ==
  ASSUME CallsTyped, NEW c \in Callers, done \in BOOLEAN, Look(c)
  PROVE  /\ CallMoves(c, "look", "drain", done)
         /\ OnlyCalls
<1>1. /\ call[c].pc = "look" /\ lock' = lock
      /\ call' = [call EXCEPT ![c] = [@ EXCEPT !.pc = "drain", !.finished = done]]
  BY DEF Look, vars, childVars, outputVars, turnVars, history
<1>2. OnlyCalls
  BY DEF Look, vars, childVars, outputVars, turnVars, history, OnlyCalls
<1>3. CallMoves(c, "look", "drain", done)
  BY <1>1, SeesIs DEF CallMoves, CallsTyped
<1> QED
  BY <1>2, <1>3

\* Every step keeps the types.
LEMMA TypedStep ==
  ASSUME RestTyped, CallsTyped, [Next]_vars
  PROVE  RestTyped' /\ CallsTyped'
<1>0. RestTyped /\ CallsTyped /\ StdinCap \in Nat /\ MaxBytes \in Nat /\ done \in BOOLEAN
  BY ProcessAssumption DEF RestTyped
<1>1. ASSUME NEW c \in Callers, Start(c) PROVE RestTyped' /\ CallsTyped'
  <2>1. CallsTyped'
    BY <1>0, <1>1, StartMoves DEF CallMoves, OnlyCalls, CallsTyped, RestTyped
  <2>2. RestTyped'
    BY <1>0, <1>1, StartMoves DEF OnlyCalls, RestTyped
  <2> QED
    BY <2>1, <2>2
<1>2. ASSUME NEW c \in Callers, Insert(c) PROVE RestTyped' /\ CallsTyped'
  <2>1. CallsTyped'
    BY <1>0, <1>2, InsertMoves DEF CallMoves, OnlyCalls, CallsTyped, RestTyped
  <2>2. RestTyped'
    <3>1. mapped' \in BOOLEAN
      BY <1>0, <1>2, InsertMoves
    <3> QED
      <4>1. UNCHANGED <<tty, child, written, killed, stdin, open, copied, emitting,
                       done, turn, own, told, reported, stopped>>
        BY <1>0, <1>2, InsertMoves
      <4> QED
        BY <3>1, <4>1 DEF RestTyped
  <2> QED
    BY <2>1, <2>2
<1>3. ASSUME NEW c \in Callers, AwaitDone(c) PROVE RestTyped' /\ CallsTyped'
  <2>1. OnlyCalls
    BY <1>0, <1>3, AwaitDoneMoves
  <2>2. RestTyped'
    BY <1>0, <2>1 DEF OnlyCalls, RestTyped
  <2>3. CallsTyped'
    BY <1>0, <1>3, AwaitDoneMoves DEF CallMoves, CallsTyped
  <2> QED
    BY <2>2, <2>3
<1>4. ASSUME NEW c \in Callers, NEW chars \in {"none", "text", "ctrl-c"}, Lookup(c, chars) PROVE RestTyped' /\ CallsTyped'
  <2>1. OnlyCalls
    BY <1>0, <1>4, LookupMoves
  <2>2. RestTyped'
    BY <1>0, <2>1 DEF OnlyCalls, RestTyped
  <2>3. CallsTyped'
    BY <1>0, <1>4, LookupMoves DEF CallMoves, CallsTyped
  <2> QED
    BY <2>2, <2>3
<1>5. ASSUME NEW c \in Callers, Lock(c) PROVE RestTyped' /\ CallsTyped'
  <2>1. OnlyCalls
    BY <1>0, <1>5, LockMoves
  <2>2. RestTyped'
    BY <1>0, <2>1 DEF OnlyCalls, RestTyped
  <2>3. CallsTyped'
    BY <1>0, <1>5, LockMoves DEF CallMoves, CallsTyped
  <2> QED
    BY <2>2, <2>3
<1>6. ASSUME NEW c \in Callers, WriteText(c) PROVE RestTyped' /\ CallsTyped'
  <2>1. CallsTyped'
    BY <1>0, <1>6, WriteTextMoves DEF CallMoves, OnlyCalls, CallsTyped, RestTyped
  <2>2. RestTyped'
    BY <1>0, <1>6, WriteTextMoves DEF OnlyCalls, RestTyped
  <2> QED
    BY <2>1, <2>2
<1>7. ASSUME NEW c \in Callers, Signal(c) PROVE RestTyped' /\ CallsTyped'
  <2>1. OnlyCalls
    BY <1>0, <1>7, SignalMoves
  <2>2. RestTyped'
    BY <1>0, <2>1 DEF OnlyCalls, RestTyped
  <2>3. CallsTyped'
    BY <1>0, <1>7, SignalMoves DEF CallMoves, CallsTyped
  <2> QED
    BY <2>2, <2>3
<1>8. ASSUME NEW c \in Callers, WriteFails(c) PROVE RestTyped' /\ CallsTyped'
  <2>1. OnlyCalls
    BY <1>0, <1>8, WriteFailsMoves
  <2>2. RestTyped'
    BY <1>0, <2>1 DEF OnlyCalls, RestTyped
  <2>3. CallsTyped'
    BY <1>0, <1>8, WriteFailsMoves DEF CallMoves, CallsTyped
  <2> QED
    BY <2>2, <2>3
<1>9. ASSUME NEW c \in Callers, Wake(c) PROVE RestTyped' /\ CallsTyped'
  <2>1. OnlyCalls
    BY <1>0, <1>9, WakeMoves
  <2>2. RestTyped'
    BY <1>0, <2>1 DEF OnlyCalls, RestTyped
  <2>3. CallsTyped'
    BY <1>0, <1>9, WakeMoves DEF CallMoves, CallsTyped
  <2> QED
    BY <2>2, <2>3
<1>10. ASSUME NEW c \in Callers, Cancelled(c) PROVE RestTyped' /\ CallsTyped'
  <2>1. OnlyCalls
    BY <1>0, <1>10, CancelledMoves
  <2>2. RestTyped'
    BY <1>0, <2>1 DEF OnlyCalls, RestTyped
  <2>3. CallsTyped'
    BY <1>0, <1>10, CancelledMoves DEF CallMoves, CallsTyped
  <2> QED
    BY <2>2, <2>3
<1>11. ASSUME NEW c \in Callers, Look(c) PROVE RestTyped' /\ CallsTyped'
  <2>1. OnlyCalls
    BY <1>0, <1>11, LookMoves
  <2>2. RestTyped'
    BY <1>0, <2>1 DEF OnlyCalls, RestTyped
  <2>3. CallsTyped'
    BY <1>0, <1>11, LookMoves DEF CallMoves, CallsTyped
  <2> QED
    BY <2>2, <2>3
<1>12. ASSUME NEW c \in Callers, Drain(c) PROVE RestTyped' /\ CallsTyped'
  <2>1. CallsTyped'
    BY <1>0, <1>12, DrainMoves DEF CallMoves, OnlyCalls, CallsTyped, RestTyped
  <2>2. RestTyped'
    BY <1>0, <1>12, DrainMoves DEF OnlyCalls, RestTyped
  <2> QED
    BY <2>1, <2>2
<1>13. ASSUME NEW c \in Callers, Report(c) PROVE RestTyped' /\ CallsTyped'
  <2>1. CallsTyped'
    BY <1>0, <1>13, ReportMoves DEF CallMoves, OnlyCalls, CallsTyped, RestTyped
  <2>2. RestTyped'
    BY <1>0, <1>13, ReportMoves DEF OnlyCalls, RestTyped
  <2> QED
    BY <2>1, <2>2
<1>14. CASE PrintMore
  <2>1. written' \in 0 .. MaxBytes
    BY <1>0, <1>14 DEF PrintMore, RestTyped, Copiers, vars, childVars, outputVars, turnVars, history
  <2>2. RestTyped'
    BY <1>0, <2>1, <1>14 DEF PrintMore, RestTyped, vars, childVars, outputVars, turnVars, history
  <2>3. CallsTyped'
    BY <1>0, <1>14 DEF PrintMore, CallsTyped, vars, childVars, outputVars, turnVars, history
  <2> QED
    BY <2>2, <2>3
<1>15. CASE ReadStdin
  <2>1. stdin' \in 0 .. StdinCap
    BY <1>0, <1>15 DEF ReadStdin, RestTyped, Copiers, vars, childVars, outputVars, turnVars, history
  <2>2. RestTyped'
    BY <1>0, <2>1, <1>15 DEF ReadStdin, RestTyped, vars, childVars, outputVars, turnVars, history
  <2>3. CallsTyped'
    BY <1>0, <1>15 DEF ReadStdin, CallsTyped, vars, childVars, outputVars, turnVars, history
  <2> QED
    BY <2>2, <2>3
<1>16. CASE Die
  BY <1>0, <1>16 DEF RestTyped, CallsTyped, Die, vars, childVars, outputVars, turnVars, history
<1>17. CASE Copy
  <2>1. copied' \in 0 .. MaxBytes /\ emitting' \in 0 .. 2
    BY <1>0, <1>17 DEF Copy, RestTyped, Copiers, vars, childVars, outputVars, turnVars, history
  <2>2. RestTyped'
    BY <1>0, <2>1, <1>17 DEF Copy, RestTyped, vars, childVars, outputVars, turnVars, history
  <2>3. CallsTyped'
    BY <1>0, <1>17 DEF Copy, CallsTyped, vars, childVars, outputVars, turnVars, history
  <2> QED
    BY <2>2, <2>3
<1>18. CASE Emitted
  BY <1>0, <1>18 DEF RestTyped, CallsTyped, Emitted, vars, childVars, outputVars, turnVars, history
<1>19. CASE CloseTerminal
  BY <1>0, <1>19 DEF RestTyped, CallsTyped, CloseTerminal, vars, childVars, outputVars, turnVars, history
<1>20. CASE Settle
  BY <1>0, <1>20 DEF RestTyped, CallsTyped, Settle, vars, childVars, outputVars, turnVars, history
<1>21. CASE Interrupt
  BY <1>0, <1>21 DEF RestTyped, CallsTyped, Interrupt, vars, childVars, outputVars, turnVars, history
<1>22. CASE NextTurn
  BY <1>0, <1>22 DEF RestTyped, CallsTyped, NextTurn, vars, childVars, outputVars, turnVars, history
<1>23. CASE Clean
  BY <1>0, <1>23 DEF RestTyped, CallsTyped, Clean, CloseAll, vars, childVars, outputVars, turnVars, history
<1>24. CASE Close
  BY <1>0, <1>24 DEF RestTyped, CallsTyped, Close, CloseAll, vars, childVars, outputVars, turnVars, history
<1>25. CASE UNCHANGED vars
  BY <1>0, <1>25 DEF RestTyped, CallsTyped, vars, childVars, outputVars, turnVars, history
<1> QED
  BY <1>1, <1>2, <1>3, <1>4, <1>5, <1>6, <1>7, <1>8, <1>9, <1>10, <1>11, <1>12, <1>13, <1>14, <1>15, <1>16, <1>17, <1>18, <1>19, <1>20, <1>21, <1>22, <1>23, <1>24, <1>25 DEF Next, Invoke, Step

-----------------------------------------------------------------------------
(* The buffer holds the news.                                              *)

LEMMA NewsFrame ==
  ASSUME News, counted' = counted, copied' = copied, buffer' = buffer,
         written' \in Nat, written <= written'
  PROVE  News'
BY DEF News, BufferHoldsTheNews

\* A chunk is pushed after what is there.
LEMMA NewsCopy ==
  ASSUME News, Copy
  PROVE  News'
<1>1. PICK upTo \in copied + 1 .. written :
        copied' = upTo /\ buffer' = PushChunk(buffer, Printed(copied, upTo))
  BY DEF Copy
<1>2. /\ counted \in Nat /\ copied \in Nat /\ upTo \in Nat
      /\ counted <= copied /\ copied <= upTo /\ upTo <= written /\ counted <= upTo
  BY <1>1 DEF News, BufferHoldsTheNews
<1>3. PICK s, chunk : s = Printed(counted, copied) /\ chunk = Printed(copied, upTo)
  OBVIOUS
<1>4. s \in Seq(Nat) /\ chunk \in Seq(Nat)
  <2>1. counted + 1 .. copied \subseteq Nat /\ copied + 1 .. upTo \subseteq Nat
    BY <1>2
  <2> QED
    BY <1>2, <1>3, <2>1, PrintedIs
<1>5. PushChunk(HeadTail(s, BufferMax), chunk) = HeadTail(s \o chunk, BufferMax)
  BY <1>4, ProcessAssumption, PushChunkCorrect
<1>6. s \o chunk = Printed(counted, upTo)
  BY <1>2, <1>3, PrintedConcat
<1>7. buffer = HeadTail(s, BufferMax)
  BY <1>3 DEF News, BufferHoldsTheNews
<1>8. buffer' = HeadTail(Printed(counted, copied'), BufferMax)
  BY <1>1, <1>3, <1>5, <1>6, <1>7
<1>9. counted' = counted /\ written' = written
  BY DEF Copy, childVars, history
<1> QED
  BY <1>1, <1>2, <1>8, <1>9 DEF News, BufferHoldsTheNews

\* The limit of a result hides nothing from the count: a drain accounts for
\* everything that was copied.
LEMMA DrainCounts ==
  ASSUME News
  PROVE  counted + TotalBytes(WithLimit(buffer, OutputLimit)) = copied
<1>1. counted \in Nat /\ copied \in Nat /\ counted <= copied
  BY DEF News, BufferHoldsTheNews
<1>2. PICK s : s = Printed(counted, copied)
  OBVIOUS
<1>3. s \in Seq(Nat) /\ Len(s) = copied - counted
  <2>1. counted + 1 .. copied \subseteq Nat
    BY <1>1
  <2> QED
    BY <1>1, <1>2, <2>1, PrintedIs
<1>4. buffer = HeadTail(s, BufferMax)
  BY <1>2 DEF News, BufferHoldsTheNews
<1>5. BufferMax \in Nat /\ OutputLimit \in Nat
  BY ProcessAssumption
<1>6. PICK m \in Nat : WithLimit(buffer, OutputLimit) = HeadTail(s, m)
  BY <1>3, <1>4, <1>5, WithLimitCorrect
<1>7. TotalBytes(HeadTail(s, m)) = Len(s)
  BY <1>3, NothingUncounted
<1>8. TotalBytes(WithLimit(buffer, OutputLimit)) = copied - counted
  BY <1>3, <1>6, <1>7
<1> QED
  BY <1>1, <1>8

LEMMA NewsDrain ==
  ASSUME News, copied' = copied, written' = written, counted' = copied,
         buffer' = NewBuffer(BufferMax)
  PROVE  News'
<1>1. copied \in Nat /\ written \in Nat /\ copied <= written
  BY DEF News, BufferHoldsTheNews
<1>2. Printed(copied, copied) = << >>
  <2>1. copied + 1 .. copied \subseteq Nat /\ copied <= copied /\ copied - copied = 0
    BY <1>1
  <2>2. Printed(copied, copied) \in Seq(Nat) /\ Len(Printed(copied, copied)) = copied - copied
    BY <1>1, <2>1, PrintedIs
  <2>3. Len(Printed(copied, copied)) = 0
    BY <2>1, <2>2
  <2> QED
    BY <2>2, <2>3, EmptySeq
<1>3. BufferMax \in Nat
  BY ProcessAssumption
<1>4. buffer' = HeadTail(Printed(copied, copied), BufferMax)
  BY <1>2, <1>3, NewBufferEmpty
<1>5. buffer' = HeadTail(Printed(counted', copied'), BufferMax)
  BY <1>4
<1> QED
  BY <1>1, <1>5 DEF News, BufferHoldsTheNews

\* Every step keeps the buffer in line with what was copied and drained.
LEMMA NewsStep ==
  ASSUME RestTyped, CallsTyped, News, [Next]_vars
  PROVE  News'
<1>0. /\ News /\ CallsTyped /\ RestTyped
      /\ written \in Nat /\ written <= written /\ written <= written + 1
  BY DEF News
<1>1. ASSUME NEW c \in Callers, Start(c) PROVE News'
  <2>1. UNCHANGED <<counted, copied, buffer, written>>
    BY <1>0, <1>1, StartMoves DEF OnlyCalls, RestTyped
  <2> QED
    BY <1>0, <2>1, NewsFrame
<1>2. ASSUME NEW c \in Callers, Insert(c) PROVE News'
  <2>1. UNCHANGED <<counted, copied, buffer, written>>
    BY <1>0, <1>2, InsertMoves DEF OnlyCalls, RestTyped
  <2> QED
    BY <1>0, <2>1, NewsFrame
<1>3. ASSUME NEW c \in Callers, AwaitDone(c) PROVE News'
  <2>1. UNCHANGED <<counted, copied, buffer, written>>
    BY <1>0, <1>3, AwaitDoneMoves DEF OnlyCalls, RestTyped
  <2> QED
    BY <1>0, <2>1, NewsFrame
<1>4. ASSUME NEW c \in Callers, NEW chars \in {"none", "text", "ctrl-c"}, Lookup(c, chars) PROVE News'
  <2>1. UNCHANGED <<counted, copied, buffer, written>>
    BY <1>0, <1>4, LookupMoves DEF OnlyCalls, RestTyped
  <2> QED
    BY <1>0, <2>1, NewsFrame
<1>5. ASSUME NEW c \in Callers, Lock(c) PROVE News'
  <2>1. UNCHANGED <<counted, copied, buffer, written>>
    BY <1>0, <1>5, LockMoves DEF OnlyCalls, RestTyped
  <2> QED
    BY <1>0, <2>1, NewsFrame
<1>6. ASSUME NEW c \in Callers, WriteText(c) PROVE News'
  <2>1. UNCHANGED <<counted, copied, buffer, written>>
    BY <1>0, <1>6, WriteTextMoves DEF OnlyCalls, RestTyped
  <2> QED
    BY <1>0, <2>1, NewsFrame
<1>7. ASSUME NEW c \in Callers, Signal(c) PROVE News'
  <2>1. UNCHANGED <<counted, copied, buffer, written>>
    BY <1>0, <1>7, SignalMoves DEF OnlyCalls, RestTyped
  <2> QED
    BY <1>0, <2>1, NewsFrame
<1>8. ASSUME NEW c \in Callers, WriteFails(c) PROVE News'
  <2>1. UNCHANGED <<counted, copied, buffer, written>>
    BY <1>0, <1>8, WriteFailsMoves DEF OnlyCalls, RestTyped
  <2> QED
    BY <1>0, <2>1, NewsFrame
<1>9. ASSUME NEW c \in Callers, Wake(c) PROVE News'
  <2>1. UNCHANGED <<counted, copied, buffer, written>>
    BY <1>0, <1>9, WakeMoves DEF OnlyCalls, RestTyped
  <2> QED
    BY <1>0, <2>1, NewsFrame
<1>10. ASSUME NEW c \in Callers, Cancelled(c) PROVE News'
  <2>1. UNCHANGED <<counted, copied, buffer, written>>
    BY <1>0, <1>10, CancelledMoves DEF OnlyCalls, RestTyped
  <2> QED
    BY <1>0, <2>1, NewsFrame
<1>11. ASSUME NEW c \in Callers, Look(c) PROVE News'
  <2>1. UNCHANGED <<counted, copied, buffer, written>>
    BY <1>0, <1>11, LookMoves DEF OnlyCalls, RestTyped
  <2> QED
    BY <1>0, <2>1, NewsFrame
<1>12. ASSUME NEW c \in Callers, Drain(c) PROVE News'
  <2>1. /\ counted' = copied /\ buffer' = NewBuffer(BufferMax)
        /\ copied' = copied /\ written' = written
    BY <1>12, DrainMoves, DrainCounts
  <2> QED
    BY <2>1, NewsDrain
<1>13. ASSUME NEW c \in Callers, Report(c) PROVE News'
  <2>1. UNCHANGED <<counted, copied, buffer, written>>
    BY <1>0, <1>13, ReportMoves DEF OnlyCalls, RestTyped
  <2> QED
    BY <1>0, <2>1, NewsFrame
<1>14. CASE PrintMore
  <2>1. UNCHANGED <<counted, copied, buffer>> /\ written' = written + 1
    BY <1>14 DEF PrintMore, vars, outputVars, history
  <2> QED
    BY <1>0, <2>1, NewsFrame
<1>15. CASE ReadStdin
  <2>1. UNCHANGED <<counted, copied, buffer, written>>
    BY <1>15 DEF ReadStdin, vars, childVars, outputVars, turnVars, history
  <2> QED
    BY <1>0, <2>1, NewsFrame
<1>16. CASE Die
  <2>1. UNCHANGED <<counted, copied, buffer, written>>
    BY <1>16 DEF Die, vars, childVars, outputVars, turnVars, history
  <2> QED
    BY <1>0, <2>1, NewsFrame
<1>17. CASE Copy
  BY <1>17, NewsCopy
<1>18. CASE Emitted
  <2>1. UNCHANGED <<counted, copied, buffer, written>>
    BY <1>18 DEF Emitted, vars, childVars, outputVars, turnVars, history
  <2> QED
    BY <1>0, <2>1, NewsFrame
<1>19. CASE CloseTerminal
  <2>1. UNCHANGED <<counted, copied, buffer, written>>
    BY <1>19 DEF CloseTerminal, vars, childVars, outputVars, turnVars, history
  <2> QED
    BY <1>0, <2>1, NewsFrame
<1>20. CASE Settle
  <2>1. UNCHANGED <<counted, copied, buffer, written>>
    BY <1>20 DEF Settle, vars, childVars, outputVars, turnVars, history
  <2> QED
    BY <1>0, <2>1, NewsFrame
<1>21. CASE Interrupt
  <2>1. UNCHANGED <<counted, copied, buffer, written>>
    BY <1>21 DEF Interrupt, vars, childVars, outputVars, turnVars, history
  <2> QED
    BY <1>0, <2>1, NewsFrame
<1>22. CASE NextTurn
  <2>1. UNCHANGED <<counted, copied, buffer, written>>
    BY <1>22 DEF NextTurn, vars, childVars, outputVars, turnVars, history
  <2> QED
    BY <1>0, <2>1, NewsFrame
<1>23. CASE Clean
  <2>1. UNCHANGED <<counted, copied, buffer, written>>
    BY <1>23 DEF Clean, CloseAll, vars, childVars, outputVars, turnVars, history
  <2> QED
    BY <1>0, <2>1, NewsFrame
<1>24. CASE Close
  <2>1. UNCHANGED <<counted, copied, buffer, written>>
    BY <1>24 DEF Close, CloseAll, vars, childVars, outputVars, turnVars, history
  <2> QED
    BY <1>0, <2>1, NewsFrame
<1>25. CASE UNCHANGED vars
  BY <1>0, <1>25, NewsFrame DEF vars, childVars, outputVars, history
<1> QED
  BY <1>1, <1>2, <1>3, <1>4, <1>5, <1>6, <1>7, <1>8, <1>9, <1>10, <1>11, <1>12, <1>13, <1>14, <1>15, <1>16, <1>17, <1>18, <1>19, <1>20, <1>21, <1>22, <1>23, <1>24, <1>25 DEF Next, Invoke, Step

-----------------------------------------------------------------------------
(* What a call that saw the process done may rely on.                      *)

\* Done is seen before the drain, and nothing is copied after it.
LEMMA DoneStep ==
  ASSUME RestTyped, CallsTyped, News, DoneInv, [Next]_vars
  PROVE  DoneInv'
<1>0. done \in BOOLEAN /\ DoneInv /\ RestTyped /\ CallsTyped /\ News
  BY DEF RestTyped
<1>1. ASSUME NEW c \in Callers, Start(c) PROVE DoneInv'
  BY <1>0, <1>1, StartMoves DEF DoneInv, CallMoves, OnlyCalls
<1>2. ASSUME NEW c \in Callers, Insert(c) PROVE DoneInv'
  BY <1>0, <1>2, InsertMoves DEF DoneInv, CallMoves, OnlyCalls
<1>3. ASSUME NEW c \in Callers, AwaitDone(c) PROVE DoneInv'
  BY <1>0, <1>3, AwaitDoneMoves DEF DoneInv, CallMoves, OnlyCalls
<1>4. ASSUME NEW c \in Callers, NEW chars \in {"none", "text", "ctrl-c"}, Lookup(c, chars) PROVE DoneInv'
  BY <1>0, <1>4, LookupMoves DEF DoneInv, CallMoves, OnlyCalls
<1>5. ASSUME NEW c \in Callers, Lock(c) PROVE DoneInv'
  BY <1>0, <1>5, LockMoves DEF DoneInv, CallMoves, OnlyCalls
<1>6. ASSUME NEW c \in Callers, WriteText(c) PROVE DoneInv'
  BY <1>0, <1>6, WriteTextMoves DEF DoneInv, CallMoves, OnlyCalls
<1>7. ASSUME NEW c \in Callers, Signal(c) PROVE DoneInv'
  BY <1>0, <1>7, SignalMoves DEF DoneInv, CallMoves, OnlyCalls
<1>8. ASSUME NEW c \in Callers, WriteFails(c) PROVE DoneInv'
  BY <1>0, <1>8, WriteFailsMoves DEF DoneInv, CallMoves, OnlyCalls
<1>9. ASSUME NEW c \in Callers, Wake(c) PROVE DoneInv'
  BY <1>0, <1>9, WakeMoves DEF DoneInv, CallMoves, OnlyCalls
<1>10. ASSUME NEW c \in Callers, Cancelled(c) PROVE DoneInv'
  BY <1>0, <1>10, CancelledMoves DEF DoneInv, CallMoves, OnlyCalls
<1>11. ASSUME NEW c \in Callers, Look(c) PROVE DoneInv'
  BY <1>0, <1>11, LookMoves DEF DoneInv, CallMoves, OnlyCalls
<1>12. ASSUME NEW c \in Callers, Drain(c) PROVE DoneInv'
  <2>1. counted' = copied
    BY <1>12, DrainMoves, DrainCounts
  <2> QED
    BY <1>0, <2>1, <1>12, DrainMoves DEF DoneInv, CallMoves
<1>13. ASSUME NEW c \in Callers, Report(c) PROVE DoneInv'
  BY <1>0, <1>13, ReportMoves DEF DoneInv, CallMoves, OnlyCalls
<1>14. CASE PrintMore
  BY <1>0, <1>14 DEF PrintMore, DoneInv, vars, childVars, outputVars, turnVars, history
<1>15. CASE ReadStdin
  BY <1>0, <1>15 DEF ReadStdin, DoneInv, vars, childVars, outputVars, turnVars, history
<1>16. CASE Die
  BY <1>0, <1>16 DEF Die, DoneInv, vars, childVars, outputVars, turnVars, history
<1>17. CASE Copy
  BY <1>0, <1>17 DEF Copy, DoneInv, vars, childVars, outputVars, turnVars, history
<1>18. CASE Emitted
  BY <1>0, <1>18 DEF Emitted, DoneInv, vars, childVars, outputVars, turnVars, history
<1>19. CASE CloseTerminal
  BY <1>0, <1>19 DEF CloseTerminal, DoneInv, vars, childVars, outputVars, turnVars, history
<1>20. CASE Settle
  BY <1>0, <1>20 DEF Settle, DoneInv, vars, childVars, outputVars, turnVars, history
<1>21. CASE Interrupt
  BY <1>0, <1>21 DEF Interrupt, DoneInv, vars, childVars, outputVars, turnVars, history
<1>22. CASE NextTurn
  BY <1>0, <1>22 DEF NextTurn, DoneInv, vars, childVars, outputVars, turnVars, history
<1>23. CASE Clean
  BY <1>0, <1>23 DEF Clean, CloseAll, DoneInv, vars, childVars, outputVars, turnVars, history
<1>24. CASE Close
  BY <1>0, <1>24 DEF Close, CloseAll, DoneInv, vars, childVars, outputVars, turnVars, history
<1>25. CASE UNCHANGED vars
  BY <1>0, <1>25 DEF DoneInv, vars, childVars, outputVars, turnVars, history
<1> QED
  BY <1>1, <1>2, <1>3, <1>4, <1>5, <1>6, <1>7, <1>8, <1>9, <1>10, <1>11, <1>12, <1>13, <1>14, <1>15, <1>16, <1>17, <1>18, <1>19, <1>20, <1>21, <1>22, <1>23, <1>24, <1>25 DEF Next, Invoke, Step

\* The process stays in the map while anybody may come back to it.
LEMMA KnownStep ==
  ASSUME RestTyped, CallsTyped, KnownInv, [Next]_vars
  PROVE  KnownInv'
<1>0. done \in BOOLEAN /\ KnownInv /\ RestTyped /\ CallsTyped
  BY DEF RestTyped
<1>1. ASSUME NEW c \in Callers, Start(c) PROVE KnownInv'
  BY <1>0, <1>1, StartMoves DEF KnownInv, Known, CallMoves, OnlyCalls
<1>2. ASSUME NEW c \in Callers, Insert(c) PROVE KnownInv'
  BY <1>0, <1>2, InsertMoves DEF KnownInv, Known, CallMoves, OnlyCalls
<1>3. ASSUME NEW c \in Callers, AwaitDone(c) PROVE KnownInv'
  BY <1>0, <1>3, AwaitDoneMoves DEF KnownInv, Known, CallMoves, OnlyCalls
<1>4. ASSUME NEW c \in Callers, NEW chars \in {"none", "text", "ctrl-c"}, Lookup(c, chars) PROVE KnownInv'
  BY <1>0, <1>4, LookupMoves DEF KnownInv, Known, CallMoves, OnlyCalls
<1>5. ASSUME NEW c \in Callers, Lock(c) PROVE KnownInv'
  BY <1>0, <1>5, LockMoves DEF KnownInv, Known, CallMoves, OnlyCalls
<1>6. ASSUME NEW c \in Callers, WriteText(c) PROVE KnownInv'
  BY <1>0, <1>6, WriteTextMoves DEF KnownInv, Known, CallMoves, OnlyCalls
<1>7. ASSUME NEW c \in Callers, Signal(c) PROVE KnownInv'
  BY <1>0, <1>7, SignalMoves DEF KnownInv, Known, CallMoves, OnlyCalls
<1>8. ASSUME NEW c \in Callers, WriteFails(c) PROVE KnownInv'
  BY <1>0, <1>8, WriteFailsMoves DEF KnownInv, Known, CallMoves, OnlyCalls
<1>9. ASSUME NEW c \in Callers, Wake(c) PROVE KnownInv'
  BY <1>0, <1>9, WakeMoves DEF KnownInv, Known, CallMoves, OnlyCalls
<1>10. ASSUME NEW c \in Callers, Cancelled(c) PROVE KnownInv'
  BY <1>0, <1>10, CancelledMoves DEF KnownInv, Known, CallMoves, OnlyCalls
<1>11. ASSUME NEW c \in Callers, Look(c) PROVE KnownInv'
  BY <1>0, <1>11, LookMoves DEF KnownInv, Known, CallMoves, OnlyCalls
<1>12. ASSUME NEW c \in Callers, Drain(c) PROVE KnownInv'
  BY <1>0, <1>12, DrainMoves DEF KnownInv, Known, CallMoves, OnlyCalls
<1>13. ASSUME NEW c \in Callers, Report(c) PROVE KnownInv'
  BY <1>0, <1>13, ReportMoves DEF KnownInv, Known, CallMoves, OnlyCalls
<1>14. CASE PrintMore
  BY <1>0, <1>14 DEF PrintMore, KnownInv, Known, vars, childVars, outputVars, turnVars, history
<1>15. CASE ReadStdin
  BY <1>0, <1>15 DEF ReadStdin, KnownInv, Known, vars, childVars, outputVars, turnVars, history
<1>16. CASE Die
  BY <1>0, <1>16 DEF Die, KnownInv, Known, vars, childVars, outputVars, turnVars, history
<1>17. CASE Copy
  BY <1>0, <1>17 DEF Copy, KnownInv, Known, vars, childVars, outputVars, turnVars, history
<1>18. CASE Emitted
  BY <1>0, <1>18 DEF Emitted, KnownInv, Known, vars, childVars, outputVars, turnVars, history
<1>19. CASE CloseTerminal
  BY <1>0, <1>19 DEF CloseTerminal, KnownInv, Known, vars, childVars, outputVars, turnVars, history
<1>20. CASE Settle
  BY <1>0, <1>20 DEF Settle, KnownInv, Known, vars, childVars, outputVars, turnVars, history
<1>21. CASE Interrupt
  BY <1>0, <1>21 DEF Interrupt, KnownInv, Known, vars, childVars, outputVars, turnVars, history
<1>22. CASE NextTurn
  BY <1>0, <1>22 DEF NextTurn, KnownInv, Known, vars, childVars, outputVars, turnVars, history
<1>23. CASE Clean
  BY <1>0, <1>23 DEF Clean, CloseAll, KnownInv, Known, vars, childVars, outputVars, turnVars, history
<1>24. CASE Close
  BY <1>0, <1>24 DEF Close, CloseAll, KnownInv, Known, vars, childVars, outputVars, turnVars, history
<1>25. CASE UNCHANGED vars
  BY <1>0, <1>25 DEF KnownInv, Known, vars, childVars, outputVars, turnVars, history
<1> QED
  BY <1>1, <1>2, <1>3, <1>4, <1>5, <1>6, <1>7, <1>8, <1>9, <1>10, <1>11, <1>12, <1>13, <1>14, <1>15, <1>16, <1>17, <1>18, <1>19, <1>20, <1>21, <1>22, <1>23, <1>24, <1>25 DEF Next, Invoke, Step

\* A running child stays within reach of Close.
LEMMA AliveStep ==
  ASSUME RestTyped, CallsTyped, DoneInv, AliveInv, NoOrphan, [Next]_vars
  PROVE  AliveInv' /\ NoOrphan'
<1>0. done \in BOOLEAN /\ AliveInv /\ NoOrphan /\ DoneInv /\ RestTyped /\ CallsTyped
  BY DEF RestTyped
<1>1. ASSUME NEW c \in Callers, Start(c) PROVE AliveInv' /\ NoOrphan'
  BY <1>0, <1>1, StartMoves DEF AliveInv, NoOrphan, CallMoves, OnlyCalls
<1>2. ASSUME NEW c \in Callers, Insert(c) PROVE AliveInv' /\ NoOrphan'
  BY <1>0, <1>2, InsertMoves DEF AliveInv, NoOrphan, CallMoves, OnlyCalls
<1>3. ASSUME NEW c \in Callers, AwaitDone(c) PROVE AliveInv' /\ NoOrphan'
  BY <1>0, <1>3, AwaitDoneMoves DEF AliveInv, NoOrphan, CallMoves, OnlyCalls
<1>4. ASSUME NEW c \in Callers, NEW chars \in {"none", "text", "ctrl-c"}, Lookup(c, chars) PROVE AliveInv' /\ NoOrphan'
  BY <1>0, <1>4, LookupMoves DEF AliveInv, NoOrphan, CallMoves, OnlyCalls
<1>5. ASSUME NEW c \in Callers, Lock(c) PROVE AliveInv' /\ NoOrphan'
  BY <1>0, <1>5, LockMoves DEF AliveInv, NoOrphan, CallMoves, OnlyCalls
<1>6. ASSUME NEW c \in Callers, WriteText(c) PROVE AliveInv' /\ NoOrphan'
  BY <1>0, <1>6, WriteTextMoves DEF AliveInv, NoOrphan, CallMoves, OnlyCalls
<1>7. ASSUME NEW c \in Callers, Signal(c) PROVE AliveInv' /\ NoOrphan'
  BY <1>0, <1>7, SignalMoves DEF AliveInv, NoOrphan, CallMoves, OnlyCalls
<1>8. ASSUME NEW c \in Callers, WriteFails(c) PROVE AliveInv' /\ NoOrphan'
  BY <1>0, <1>8, WriteFailsMoves DEF AliveInv, NoOrphan, CallMoves, OnlyCalls
<1>9. ASSUME NEW c \in Callers, Wake(c) PROVE AliveInv' /\ NoOrphan'
  BY <1>0, <1>9, WakeMoves DEF AliveInv, NoOrphan, CallMoves, OnlyCalls
<1>10. ASSUME NEW c \in Callers, Cancelled(c) PROVE AliveInv' /\ NoOrphan'
  BY <1>0, <1>10, CancelledMoves DEF AliveInv, NoOrphan, CallMoves, OnlyCalls
<1>11. ASSUME NEW c \in Callers, Look(c) PROVE AliveInv' /\ NoOrphan'
  BY <1>0, <1>11, LookMoves DEF AliveInv, NoOrphan, CallMoves, OnlyCalls
<1>12. ASSUME NEW c \in Callers, Drain(c) PROVE AliveInv' /\ NoOrphan'
  BY <1>0, <1>12, DrainMoves DEF AliveInv, NoOrphan, CallMoves, OnlyCalls
<1>13. ASSUME NEW c \in Callers, Report(c) PROVE AliveInv' /\ NoOrphan'
  <2>1. /\ CallMoves(c, "report", "idle", FALSE)
        /\ mapped' = (mapped /\ ~call[c].finished)
        /\ child' = child /\ killed' = killed /\ stopped' = stopped
    BY <1>0, <1>13, ReportMoves
  <2>2. child = "running" => ~call[c].finished
    BY <1>0 DEF DoneInv
  <2>3. child' = "running" =>
          killed' \/ mapped' \/ \E d \in Callers : call'[d].pc = "insert"
    <3>1. CASE child = "running" /\ ~call[c].finished
      BY <1>0, <2>1, <3>1 DEF AliveInv, CallMoves
    <3> QED
      BY <2>1, <2>2, <3>1
  <2>4. stopped' = "closed" => \A d \in Callers : call'[d].pc = "idle"
    BY <1>0, <2>1 DEF AliveInv, CallMoves
  <2> QED
    BY <1>0, <2>1, <2>3, <2>4 DEF AliveInv, NoOrphan
<1>14. CASE PrintMore
  BY <1>0, <1>14 DEF PrintMore, AliveInv, NoOrphan, vars, childVars, outputVars, turnVars, history
<1>15. CASE ReadStdin
  BY <1>0, <1>15 DEF ReadStdin, AliveInv, NoOrphan, vars, childVars, outputVars, turnVars, history
<1>16. CASE Die
  BY <1>0, <1>16 DEF Die, AliveInv, NoOrphan, vars, childVars, outputVars, turnVars, history
<1>17. CASE Copy
  BY <1>0, <1>17 DEF Copy, AliveInv, NoOrphan, vars, childVars, outputVars, turnVars, history
<1>18. CASE Emitted
  BY <1>0, <1>18 DEF Emitted, AliveInv, NoOrphan, vars, childVars, outputVars, turnVars, history
<1>19. CASE CloseTerminal
  BY <1>0, <1>19 DEF CloseTerminal, AliveInv, NoOrphan, vars, childVars, outputVars, turnVars, history
<1>20. CASE Settle
  BY <1>0, <1>20 DEF Settle, AliveInv, NoOrphan, vars, childVars, outputVars, turnVars, history
<1>21. CASE Interrupt
  BY <1>0, <1>21 DEF Interrupt, AliveInv, NoOrphan, vars, childVars, outputVars, turnVars, history
<1>22. CASE NextTurn
  BY <1>0, <1>22 DEF NextTurn, AliveInv, NoOrphan, vars, childVars, outputVars, turnVars, history
<1>23. CASE Clean
  BY <1>0, <1>23 DEF Clean, CloseAll, AliveInv, NoOrphan, vars, childVars, outputVars, turnVars, history
<1>24. CASE Close
  BY <1>0, <1>24 DEF Close, CloseAll, AliveInv, NoOrphan, vars, childVars, outputVars, turnVars, history
<1>25. CASE UNCHANGED vars
  BY <1>0, <1>25 DEF AliveInv, NoOrphan, vars, childVars, outputVars, turnVars, history
<1> QED
  BY <1>1, <1>2, <1>3, <1>4, <1>5, <1>6, <1>7, <1>8, <1>9, <1>10, <1>11, <1>12, <1>13, <1>14, <1>15, <1>16, <1>17, <1>18, <1>19, <1>20, <1>21, <1>22, <1>23, <1>24, <1>25 DEF Next, Invoke, Step

-----------------------------------------------------------------------------
(* The theorems.                                                           *)

\* The layers together, with the buffer in its own part.
Layers ==
  /\ RestTyped /\ CallsTyped /\ News
  /\ DoneInv /\ KnownInv /\ AliveInv /\ NoOrphan

LEMMA LayersInit == Init => Layers
<1> SUFFICES ASSUME Init PROVE Layers
  OBVIOUS
<1>1. RestTyped
  <2>1. 0 \in 0 .. MaxBytes /\ 0 \in 0 .. StdinCap /\ 0 \in 0 .. 2
    BY ProcessAssumption
  <2>2. emitting \in 0 .. 2 /\ stdin \in 0 .. StdinCap
    BY <2>1, Zenon DEF Init
  <2>3. written \in 0 .. MaxBytes /\ copied \in 0 .. MaxBytes
    BY <2>1, Zenon DEF Init
  <2>4. /\ tty \in BOOLEAN /\ open \in BOOLEAN /\ done \in BOOLEAN /\ killed \in BOOLEAN
        /\ mapped \in BOOLEAN /\ own \in BOOLEAN /\ told \in BOOLEAN /\ reported \in BOOLEAN
    BY Zenon DEF Init
  <2>5. child = "none" /\ turn = "open" /\ stopped = "no"
    BY DEF Init
  <2> QED
    BY <2>2, <2>3, <2>4, <2>5 DEF RestTyped
<1>2. CallsTyped
  BY DEF Init, Idle, CallsTyped, CallType
<1>3. News
  <2>1. 1 .. 0 \subseteq Nat /\ 0 - 0 = 0 /\ 0 <= 0
    OBVIOUS
  <2>2. Printed(0, 0) \in Seq(Nat) /\ Len(Printed(0, 0)) = 0
    BY <2>1, PrintedIs
  <2>3. Printed(0, 0) = << >>
    BY <2>2, EmptySeq
  <2>4. NewBuffer(BufferMax) = HeadTail(Printed(0, 0), BufferMax)
    BY <2>3, ProcessAssumption, NewBufferEmpty
  <2> QED
    BY <2>4 DEF Init, News, BufferHoldsTheNews
<1>4. DoneInv /\ KnownInv /\ AliveInv /\ NoOrphan
  BY DEF Init, Idle, DoneInv, KnownInv, AliveInv, NoOrphan
<1> QED
  BY <1>1, <1>2, <1>3, <1>4 DEF Layers

LEMMA LayersStep == Layers /\ [Next]_vars => Layers'
BY TypedStep, NewsStep, DoneStep, KnownStep, AliveStep DEF Layers

\* The layers give the types of the buffer, and so the invariant TLC checks.
LEMMA LayersGive == Layers => IInv
<1> SUFFICES ASSUME Layers PROVE IInv
  OBVIOUS
<1>1. /\ counted \in Nat /\ copied \in Nat /\ counted <= copied
      /\ copied \in 0 .. MaxBytes /\ MaxBytes \in Nat /\ BufferMax \in Nat
  BY ProcessAssumption DEF Layers, RestTyped, News, BufferHoldsTheNews
<1>2. PICK s : s = Printed(counted, copied)
  OBVIOUS
<1>3. s \in Seq(Bytes)
  <2>1. counted + 1 .. copied \subseteq Bytes
    BY <1>1 DEF Bytes
  <2> QED
    BY <1>1, <1>2, <2>1, PrintedIs
<1>4. buffer \in BufferType
  <2>1. PICK h, t : h = HeadSize(Len(s), BufferMax) /\ t = TailSize(Len(s), BufferMax)
    OBVIOUS
  <2>2. /\ Len(s) \in Nat /\ h \in 0 .. Len(s) /\ t \in 0 .. Len(s)
        /\ h + t = Least(Len(s), BufferMax)
        /\ HeadTail(s, BufferMax) =
             [maxBytes |-> BufferMax, head |-> Take(s, h), tail |-> Skip(s, Len(s) - t),
              omitted |-> Len(s) - h - t]
        /\ Take(s, h) \in Seq(Bytes) /\ Skip(s, Len(s) - t) \in Seq(Bytes)
    BY <1>1, <1>3, <2>1, HeadTailIs
  <2>3. Least(Len(s), BufferMax) <= Len(s)
    BY <1>1, <2>2 DEF Least
  <2>4. Len(s) - h - t \in Nat
    BY <2>2, <2>3
  <2>5. buffer = HeadTail(s, BufferMax)
    BY <1>2 DEF Layers, News, BufferHoldsTheNews
  <2> QED
    BY <2>2, <2>4, <2>5 DEF BufferType
<1>5. counted \in 0 .. MaxBytes
  BY <1>1
<1>6. TypeOK
  BY <1>4, <1>5 DEF Layers, RestTyped, CallsTyped, TypeOK
<1> QED
  BY <1>6 DEF Layers, News, IInv

LEMMA LayersHold == Spec => []Layers
BY LayersInit, LayersStep, PTL DEF Spec

\* Every variable keeps its type, and the child's input its capacity.
THEOREM ProcessTypeCorrect == Spec => []TypeOK
<1>1. Layers => TypeOK
  BY LayersGive DEF IInv
<1> QED
  BY <1>1, LayersHold, PTL

\* The inductive invariant holds in every reachable state.
THEOREM ProcessInvariant == Spec => []IInv
BY LayersHold, LayersGive, PTL

\* The buffer holds the prefix and the suffix of the news, for every buffer
\* size, every limit and every way the output is cut into chunks and drains.
THEOREM BufferCorrect == Spec => []BufferHoldsTheNews
<1>1. Layers => BufferHoldsTheNews
  BY DEF Layers, News
<1> QED
  BY <1>1, LayersHold, PTL

\* A process on pipes reports its exit after all of its output.
THEOREM ExitIsLast == Spec => []ExitAfterOutput
<1>1. Layers => ExitAfterOutput
  BY DEF Layers, DoneInv, ExitAfterOutput
<1> QED
  BY <1>1, LayersHold, PTL

\* A session id works until it reported the exit or terminals were cleaned.
THEOREM KnownIds == Spec => []KnownIdsWork
<1>1. Layers => KnownIdsWork
  BY DEF Layers, KnownInv, Known, KnownIdsWork
<1> QED
  BY <1>1, LayersHold, PTL

\* Closing the session reaches every child, however starts and cleanings raced.
THEOREM NoOrphans == Spec => []NoOrphan
<1>1. Layers => NoOrphan
  BY DEF Layers
<1> QED
  BY <1>1, LayersHold, PTL

-----------------------------------------------------------------------------
(* The process manager implements ProcessOutput.                           *)

LEMMA OutputInit == Init => Output!Init
BY DEF Init, Output!Init

\* Every step prints, ends, delivers, reports, or does nothing the promise
\* knows of.
LEMMA OutputStep ==
  ASSUME Layers, [Next]_vars
  PROVE  [Output!Next]_(Output!vars)
<1>0. RestTyped /\ CallsTyped /\ News /\ DoneInv /\ done \in BOOLEAN
  BY DEF Layers, RestTyped
<1>1. ASSUME NEW c \in Callers, Start(c) PROVE [Output!Next]_(Output!vars)
  <2>1. /\ UNCHANGED <<written, counted, reported, tty>>
        /\ child = "none" /\ child' = "running"
    BY <1>0, <1>1, StartMoves
  <2> QED
    BY <2>1 DEF Output!vars
<1>2. ASSUME NEW c \in Callers, Insert(c) PROVE [Output!Next]_(Output!vars)
  <2>1. UNCHANGED <<written, counted, child, reported, tty>>
    BY <1>0, <1>2, InsertMoves DEF OnlyCalls
  <2> QED
    BY <2>1 DEF Output!vars
<1>3. ASSUME NEW c \in Callers, AwaitDone(c) PROVE [Output!Next]_(Output!vars)
  <2>1. UNCHANGED <<written, counted, child, reported, tty>>
    BY <1>0, <1>3, AwaitDoneMoves DEF OnlyCalls
  <2> QED
    BY <2>1 DEF Output!vars
<1>4. ASSUME NEW c \in Callers, NEW chars \in {"none", "text", "ctrl-c"}, Lookup(c, chars) PROVE [Output!Next]_(Output!vars)
  <2>1. UNCHANGED <<written, counted, child, reported, tty>>
    BY <1>0, <1>4, LookupMoves DEF OnlyCalls
  <2> QED
    BY <2>1 DEF Output!vars
<1>5. ASSUME NEW c \in Callers, Lock(c) PROVE [Output!Next]_(Output!vars)
  <2>1. UNCHANGED <<written, counted, child, reported, tty>>
    BY <1>0, <1>5, LockMoves DEF OnlyCalls
  <2> QED
    BY <2>1 DEF Output!vars
<1>6. ASSUME NEW c \in Callers, WriteText(c) PROVE [Output!Next]_(Output!vars)
  <2>1. UNCHANGED <<written, counted, child, reported, tty>>
    BY <1>0, <1>6, WriteTextMoves DEF OnlyCalls
  <2> QED
    BY <2>1 DEF Output!vars
<1>7. ASSUME NEW c \in Callers, Signal(c) PROVE [Output!Next]_(Output!vars)
  <2>1. UNCHANGED <<written, counted, child, reported, tty>>
    BY <1>0, <1>7, SignalMoves DEF OnlyCalls
  <2> QED
    BY <2>1 DEF Output!vars
<1>8. ASSUME NEW c \in Callers, WriteFails(c) PROVE [Output!Next]_(Output!vars)
  <2>1. UNCHANGED <<written, counted, child, reported, tty>>
    BY <1>0, <1>8, WriteFailsMoves DEF OnlyCalls
  <2> QED
    BY <2>1 DEF Output!vars
<1>9. ASSUME NEW c \in Callers, Wake(c) PROVE [Output!Next]_(Output!vars)
  <2>1. UNCHANGED <<written, counted, child, reported, tty>>
    BY <1>0, <1>9, WakeMoves DEF OnlyCalls
  <2> QED
    BY <2>1 DEF Output!vars
<1>10. ASSUME NEW c \in Callers, Cancelled(c) PROVE [Output!Next]_(Output!vars)
  <2>1. UNCHANGED <<written, counted, child, reported, tty>>
    BY <1>0, <1>10, CancelledMoves DEF OnlyCalls
  <2> QED
    BY <2>1 DEF Output!vars
<1>11. ASSUME NEW c \in Callers, Look(c) PROVE [Output!Next]_(Output!vars)
  <2>1. UNCHANGED <<written, counted, child, reported, tty>>
    BY <1>0, <1>11, LookMoves DEF OnlyCalls
  <2> QED
    BY <2>1 DEF Output!vars
<1>12. ASSUME NEW c \in Callers, Drain(c) PROVE [Output!Next]_(Output!vars)
  <2>1. counted' = copied /\ UNCHANGED <<written, child, reported, tty>>
    BY <1>0, <1>12, DrainMoves, DrainCounts
  <2>2. CASE counted = copied
    BY <2>1, <2>2 DEF Output!vars
  <2>3. CASE counted # copied
    <3>1. ~reported /\ counted < counted' /\ counted' <= written /\ counted' \in Nat
      BY <1>0, <2>1, <2>3 DEF DoneInv, News, BufferHoldsTheNews
    <3> QED
      BY <2>1, <3>1 DEF Output!Next, Output!Deliver
  <2> QED
    BY <2>2, <2>3
<1>13. ASSUME NEW c \in Callers, Report(c) PROVE [Output!Next]_(Output!vars)
  <2>1. /\ reported' = (reported \/ call[c].finished)
        /\ UNCHANGED <<written, counted, child, tty>> /\ call[c].pc = "report"
    BY <1>0, <1>13, ReportMoves DEF CallMoves
  <2>2. CASE call[c].finished
    <3>1. reported' = TRUE /\ child = "exited" /\ (tty \/ counted = written)
      BY <1>0, <2>1, <2>2 DEF DoneInv, RestTyped
    <3> QED
      BY <2>1, <3>1 DEF Output!Next, Output!Report
  <2>3. CASE ~call[c].finished
    <3>1. reported' = reported
      BY <1>0, <2>1, <2>3 DEF RestTyped
    <3> QED
      BY <2>1, <3>1 DEF Output!vars
  <2> QED
    BY <2>2, <2>3
<1>14. CASE PrintMore
  <2>1. /\ child = "running" /\ written' = written + 1
        /\ UNCHANGED <<counted, child, reported, tty>>
    BY <1>14 DEF PrintMore, vars, history
  <2> QED
    BY <2>1 DEF Output!Next, Output!PrintMore
<1>15. CASE ReadStdin
  <2>1. UNCHANGED <<written, counted, child, reported, tty>>
    BY <1>15 DEF ReadStdin, vars, childVars, outputVars, turnVars, history
  <2> QED
    BY <2>1 DEF Output!vars
<1>16. CASE Die
  <2>1. /\ child' = "exited"
        /\ UNCHANGED <<written, counted, reported, tty>>
    BY <1>16 DEF Die, vars, history
  <2> QED
    BY <2>1 DEF Output!Next, Output!End
<1>17. CASE Copy
  <2>1. UNCHANGED <<written, counted, child, reported, tty>>
    BY <1>17 DEF Copy, vars, childVars, outputVars, turnVars, history
  <2> QED
    BY <2>1 DEF Output!vars
<1>18. CASE Emitted
  <2>1. UNCHANGED <<written, counted, child, reported, tty>>
    BY <1>18 DEF Emitted, vars, childVars, outputVars, turnVars, history
  <2> QED
    BY <2>1 DEF Output!vars
<1>19. CASE CloseTerminal
  <2>1. UNCHANGED <<written, counted, child, reported, tty>>
    BY <1>19 DEF CloseTerminal, vars, childVars, outputVars, turnVars, history
  <2> QED
    BY <2>1 DEF Output!vars
<1>20. CASE Settle
  <2>1. UNCHANGED <<written, counted, child, reported, tty>>
    BY <1>20 DEF Settle, vars, childVars, outputVars, turnVars, history
  <2> QED
    BY <2>1 DEF Output!vars
<1>21. CASE Interrupt
  <2>1. UNCHANGED <<written, counted, child, reported, tty>>
    BY <1>21 DEF Interrupt, vars, childVars, outputVars, turnVars, history
  <2> QED
    BY <2>1 DEF Output!vars
<1>22. CASE NextTurn
  <2>1. UNCHANGED <<written, counted, child, reported, tty>>
    BY <1>22 DEF NextTurn, vars, childVars, outputVars, turnVars, history
  <2> QED
    BY <2>1 DEF Output!vars
<1>23. CASE Clean
  <2>1. UNCHANGED <<written, counted, child, reported, tty>>
    BY <1>23 DEF Clean, CloseAll, vars, childVars, outputVars, turnVars, history
  <2> QED
    BY <2>1 DEF Output!vars
<1>24. CASE Close
  <2>1. UNCHANGED <<written, counted, child, reported, tty>>
    BY <1>24 DEF Close, CloseAll, vars, childVars, outputVars, turnVars, history
  <2> QED
    BY <2>1 DEF Output!vars
<1>25. CASE UNCHANGED vars
  BY <1>25 DEF vars, childVars, history, Output!vars
<1> QED
  BY <1>1, <1>2, <1>3, <1>4, <1>5, <1>6, <1>7, <1>8, <1>9, <1>10, <1>11, <1>12, <1>13, <1>14, <1>15, <1>16, <1>17, <1>18, <1>19, <1>20, <1>21, <1>22, <1>23, <1>24, <1>25 DEF Next, Invoke, Step

\* What a session's tools hand out of a process is what ProcessOutput promises,
\* for any number of callers: in order, once, nothing after the exit code, and
\* on pipes the exit code after all of it.
THEOREM ImplementsOutput == Spec => OutputPromise
BY OutputInit, OutputStep, LayersHold, PTL DEF Spec, OutputPromise, Output!Spec
=============================================================================
