---------------------------- MODULE ProcessManager ----------------------------
(***************************************************************************)
(* One process of a session's ProcessManager: the child, the goroutines    *)
(* that copy its output into a headTailBuffer, the one that waits for      *)
(* its exit, and the tool calls that start it, write to it and poll it.    *)
(* Processes of a session share nothing but the map and its counter, so    *)
(* one of them stands for all.                                             *)
(*                                                                         *)
(* Output is a sequence of bytes, each named by its position.  The client  *)
(* of the session that receives the deltas, and the child itself, are      *)
(* external.                                                               *)
(***************************************************************************)
EXTENDS HeadTailBuffer

CONSTANTS
  Callers,     \* the tool goroutines
  MaxBytes,    \* bound: how much the child prints
  BufferMax,   \* unifiedExecOutputMaxBytes
  OutputLimit, \* the budget of one result
  StdinCap     \* capacity of the child's standard input

ASSUME ProcessAssumption ==
  /\ MaxBytes \in Nat /\ BufferMax \in Nat /\ OutputLimit \in Nat
  /\ StdinCap \in Nat

NoCaller == "nobody"
ASSUME NoCallerAssumption == NoCaller \notin Callers

VARIABLES
  tty,      \* on a terminal, or on pipes
  child,    \* the child: none, running or exited
  open,     \* whether the manager still holds the reading end of a terminal
  written,  \* how many bytes the child has printed
  copied,   \* how many of them are in the buffer or were drained
  emitting, \* how many copiers are in the middle of sending a delta
  buffer,   \* process.output
  done,     \* process.done is closed
  mapped,   \* the process is in manager.processes
  killed,   \* the child was sent SIGKILL
  stdin,    \* what waits in the child's standard input
  lock,     \* who holds interactionMu
  call,     \* for each caller, its tool call
  turn,     \* whether the context of the session's turn is cancelled
  own,      \* whether that turn is the one that started the child
  counted,  \* history: how many bytes were drained by calls
  told,     \* history: a result carried the session id
  reported, \* history: a result carried the exit code
  stopped   \* history: terminals were cleaned, or the session closed

childVars  == <<tty, child, written, killed, stdin>>
outputVars == <<open, copied, emitting, buffer, done>>
turnVars   == <<turn, own>>
history    == <<counted, told, reported, stopped>>
vars == <<childVars, outputVars, mapped, lock, call, turnVars, history>>

Idle == [pc |-> "idle", chars |-> "none", finished |-> FALSE]

Init ==
  /\ tty \in BOOLEAN /\ open = TRUE
  /\ child = "none" /\ written = 0 /\ killed = FALSE /\ stdin = 0
  /\ copied = 0 /\ emitting = 0 /\ done = FALSE
  /\ buffer = NewBuffer(BufferMax)
  /\ mapped = FALSE /\ lock = NoCaller
  /\ call = [c \in Callers |-> Idle]
  /\ turn = "open" /\ own = TRUE
  /\ counted = 0 /\ told = FALSE /\ reported = FALSE /\ stopped = "no"

Goto(c, place) == call' = [call EXCEPT ![c].pc = place]

-----------------------------------------------------------------------------
(* exec_command: start.                                                    *)

\* command.Start comes first, the entry in the map second.
Start(c) ==
  /\ call[c].pc = "idle" /\ turn = "open" /\ stopped # "closed"
  /\ child = "none"
  /\ child' = "running"
  /\ Goto(c, "insert")
  /\ UNCHANGED <<tty, written, killed, stdin, outputVars, mapped, lock, turnVars, history>>

Insert(c) ==
  /\ call[c].pc = "insert"
  /\ mapped' = TRUE
  /\ Goto(c, "await")
  /\ UNCHANGED <<childVars, outputVars, lock, turnVars, history>>

\* waitForProcess: done or the yield deadline, whichever the select takes.
AwaitDone(c) ==
  /\ call[c].pc = "await"
  /\ \/ done /\ call' = [call EXCEPT ![c] = [@ EXCEPT !.pc = "drain", !.finished = TRUE]]
     \/ Goto(c, "drain")
  /\ UNCHANGED <<childVars, outputVars, mapped, lock, turnVars, history>>

-----------------------------------------------------------------------------
(* write_stdin.                                                            *)

\* A call finds the process in the map and lets go of manager.mu; without an
\* entry it fails at once.
Lookup(c, chars) ==
  /\ call[c].pc = "idle" /\ turn = "open" /\ stopped # "closed"
  /\ mapped
  /\ call' = [call EXCEPT ![c] = [pc |-> "lock", chars |-> chars, finished |-> FALSE]]
  /\ UNCHANGED <<childVars, outputVars, mapped, lock, turnVars, history>>

Lock(c) ==
  /\ call[c].pc = "lock" /\ lock = NoCaller
  /\ lock' = c
  /\ Goto(c, IF call[c].chars = "none" THEN "wait" ELSE "write")
  /\ UNCHANGED <<childVars, outputVars, mapped, turnVars, history>>

\* The call returns an error, or its result.
Return(c) ==
  /\ call' = [call EXCEPT ![c] = Idle]
  /\ lock' = IF lock = c THEN NoCaller ELSE lock

\* io.WriteString: it waits for room, whatever happens to the turn.
WriteText(c) ==
  /\ call[c].pc = "write" /\ call[c].chars = "text"
  /\ child = "running" /\ open /\ stdin < StdinCap
  /\ stdin' = stdin + 1
  /\ Goto(c, "wait")
  /\ UNCHANGED <<tty, child, written, killed, outputVars, mapped, lock, turnVars, history>>

\* Ctrl-C: a byte that the terminal turns into a signal, or a signal; a child
\* that is gone but not yet reaped takes it too.
Signal(c) ==
  /\ call[c].pc = "write" /\ call[c].chars = "ctrl-c"
  /\ IF tty THEN open ELSE ~done
  /\ Goto(c, "wait")
  /\ UNCHANGED <<childVars, outputVars, mapped, lock, turnVars, history>>

\* Nobody is there to be written to.
WriteFails(c) ==
  /\ call[c].pc = "write"
  /\ child = "exited" \/ ~open
  /\ Return(c)
  /\ UNCHANGED <<childVars, outputVars, mapped, turnVars, history>>

\* The select takes the yield deadline or done; which of the two is asked
\* again afterwards.
Wake(c) ==
  /\ call[c].pc = "wait"
  /\ Goto(c, "look")
  /\ UNCHANGED <<childVars, outputVars, mapped, lock, turnVars, history>>

CancelledHoldingLock(c) ==    \* mutant: no deferred unlock
  /\ call[c].pc = "wait" /\ turn = "cancelled"
  /\ call' = [call EXCEPT ![c] = Idle]
  /\ UNCHANGED <<childVars, outputVars, mapped, lock, turnVars, history>>

\* The select takes ctx.Done(): nothing is drained.
Cancelled(c) ==
  /\ call[c].pc = "wait" /\ turn = "cancelled"
  /\ Return(c)
  /\ UNCHANGED <<childVars, outputVars, mapped, turnVars, history>>

\* finished := isClosed(process.done)
Look(c) ==
  /\ call[c].pc = "look"
  /\ call' = [call EXCEPT ![c] = [@ EXCEPT !.pc = "drain", !.finished = done]]
  /\ UNCHANGED <<childVars, outputVars, mapped, lock, turnVars, history>>

-----------------------------------------------------------------------------
(* The end of either call.                                                 *)

DrainByLimit(c) ==            \* mutant: what the limit cuts off is not counted
  /\ call[c].pc = "drain"
  /\ LET shown == WithLimit(buffer, OutputLimit) IN
       counted' = counted + Len(shown.head) + Len(shown.tail)
  /\ buffer' = NewBuffer(BufferMax)
  /\ Goto(c, "report")
  /\ UNCHANGED <<childVars, open, copied, emitting, done, mapped, lock, turnVars,
                 told, reported, stopped>>

\* process.result takes the whole buffer and cuts it to the limit.
Drain(c) ==
  /\ call[c].pc = "drain"
  /\ counted' = counted + TotalBytes(WithLimit(buffer, OutputLimit))
  /\ buffer' = NewBuffer(BufferMax)
  /\ Goto(c, "report")
  /\ UNCHANGED <<childVars, open, copied, emitting, done, mapped, lock, turnVars,
                 told, reported, stopped>>

ReportAndForget(c) ==         \* mutant: a running process leaves the map too
  /\ call[c].pc = "report"
  /\ reported' = (reported \/ call[c].finished)
  /\ told'     = (told \/ ~call[c].finished)
  /\ mapped'   = FALSE
  /\ Return(c)
  /\ UNCHANGED <<childVars, outputVars, turnVars, counted, stopped>>

ReportAsksAgain(c) ==         \* mutant: done is asked after the drain
  /\ call[c].pc = "report"
  /\ reported' = (reported \/ done)
  /\ told'     = (told \/ ~done)
  /\ mapped'   = (mapped /\ ~done)
  /\ Return(c)
  /\ UNCHANGED <<childVars, outputVars, turnVars, counted, stopped>>

\* The result carries the exit code, and the process leaves the map, or it
\* carries the session id.
Report(c) ==
  /\ call[c].pc = "report"
  /\ reported' = (reported \/ call[c].finished)
  /\ told'     = (told \/ ~call[c].finished)
  /\ mapped'   = (mapped /\ ~call[c].finished)
  /\ Return(c)
  /\ UNCHANGED <<childVars, outputVars, turnVars, counted, stopped>>

-----------------------------------------------------------------------------
(* The child, its copier and its waiter.                                   *)

PrintMore ==
  /\ child = "running" /\ written < MaxBytes
  /\ written' = written + 1
  /\ UNCHANGED <<tty, child, killed, stdin, outputVars, mapped, lock, call, turnVars, history>>

ReadStdin ==
  /\ child = "running" /\ stdin > 0
  /\ stdin' = stdin - 1
  /\ UNCHANGED <<tty, child, written, killed, outputVars, mapped, lock, call, turnVars, history>>

Die ==
  /\ child = "running"
  /\ child' = "exited"
  /\ UNCHANGED <<tty, written, killed, stdin, outputVars, mapped, lock, call, turnVars, history>>

Printed(from, to) == [k \in 1 .. to - from |-> from + k]

\* One copier for a terminal; standard output and standard error have one each.
Copiers == IF tty THEN 1 ELSE 2

\* processOutputWriter.Write: a chunk goes into the buffer, then its deltas
\* to the session's events, unless the call has used up its deltas.
Copy ==
  /\ emitting < Copiers /\ ~done /\ (tty => open)
  /\ \E upTo \in copied + 1 .. written :
       /\ copied' = upTo
       /\ buffer' = PushChunk(buffer, Printed(copied, upTo))
  /\ emitting' \in {emitting, emitting + 1}
  /\ UNCHANGED <<childVars, open, done, mapped, lock, call, turnVars, history>>

\* The delta has been sent.
Emitted ==
  /\ emitting > 0
  /\ emitting' = emitting - 1
  /\ UNCHANGED <<childVars, open, copied, buffer, done, mapped, lock, call, turnVars, history>>

\* After the exit of a child on a terminal, the terminal is closed, and the
\* copier reads no more of it.
CloseTerminal ==
  /\ tty /\ child = "exited" /\ open
  /\ open' = FALSE
  /\ UNCHANGED <<childVars, copied, emitting, buffer, done, mapped, lock, call, turnVars, history>>

SettleAtExit ==               \* mutant: done does not wait for the copier
  /\ ~done /\ child = "exited"
  /\ done' = TRUE
  /\ UNCHANGED <<childVars, open, copied, emitting, buffer, mapped, lock, call, turnVars, history>>

\* close(process.done): the child is gone and the copiers have returned, from
\* the end of their pipes or from a closed terminal.
Settle ==
  /\ ~done /\ child = "exited" /\ emitting = 0
  /\ IF tty THEN ~open ELSE copied = written
  /\ done' = TRUE
  /\ UNCHANGED <<childVars, open, copied, emitting, buffer, mapped, lock, call, turnVars, history>>

-----------------------------------------------------------------------------
(* What happens to the whole session.                                      *)

\* Cancelling the turn kills the child it started, which runs under its context.
Interrupt ==
  /\ turn = "open" /\ stopped # "closed"
  /\ turn' = "cancelled"
  /\ killed' = (killed \/ (own /\ child = "running"))
  /\ UNCHANGED <<tty, child, written, stdin, outputVars, mapped, lock, call, own, history>>

\* A turn ends when its calls have returned; the next one starts afresh.
NextTurn ==
  /\ \A c \in Callers : call[c].pc = "idle"
  /\ turn' = "open" /\ own' = (own /\ child = "none")
  /\ UNCHANGED <<childVars, outputVars, mapped, lock, call, history>>

CloseAllKeeping(how) ==       \* mutant: the map is emptied, nobody is killed
  /\ stopped' = how
  /\ mapped' = FALSE
  /\ UNCHANGED <<childVars, outputVars, lock, call, turnVars, counted, told, reported>>

\* ProcessManager.Close: forget every process and kill it.
CloseAll(how) ==
  /\ stopped' = how
  /\ mapped' = FALSE
  /\ killed' = (killed \/ (mapped /\ child = "running"))
  /\ open'   = (open /\ ~(mapped /\ tty))
  /\ UNCHANGED <<tty, child, written, stdin, copied, emitting, buffer, done,
                 lock, call, turnVars, counted, told, reported>>

\* Cleaning terminals does not wait for the turn; closing the session does.
Clean == stopped # "closed" /\ CloseAll("cleaned")
Close ==
  /\ stopped # "closed"
  /\ \A c \in Callers : call[c].pc = "idle"
  /\ CloseAll("closed")

-----------------------------------------------------------------------------
Step(c) ==
  \/ Insert(c) \/ AwaitDone(c) \/ WriteText(c) \/ Signal(c) \/ WriteFails(c)
  \/ Wake(c) \/ Cancelled(c) \/ Look(c) \/ Drain(c) \/ Report(c)

Invoke(c) == Start(c) \/ \E chars \in {"none", "text", "ctrl-c"} : Lookup(c, chars)

Next ==
  \/ \E c \in Callers : Invoke(c) \/ Lock(c) \/ Step(c)
  \/ PrintMore \/ ReadStdin \/ Die
  \/ Copy \/ Emitted \/ CloseTerminal \/ Settle
  \/ Interrupt \/ NextTurn \/ Clean \/ Close

Spec == Init /\ [][Next]_vars

\* The goroutines run, the mutex is handed on, and deltas find a reader.
Scheduled ==
  /\ \A c \in Callers : WF_vars(Step(c)) /\ SF_vars(Lock(c))
  /\ WF_vars(Copy) /\ WF_vars(Emitted) /\ WF_vars(CloseTerminal) /\ WF_vars(Settle)
  /\ WF_vars(killed /\ Die)

\* With a child that goes on reading its input ...
FairSpec == Spec /\ Scheduled /\ WF_vars(ReadStdin)
\* ... and with one that need not.
DeafSpec == Spec /\ Scheduled

-----------------------------------------------------------------------------
(* Properties.                                                             *)

Bytes == 1 .. MaxBytes
BufferType == [maxBytes : {BufferMax}, head : Seq(Bytes), tail : Seq(Bytes), omitted : Nat]
CallType   == [pc : {"idle", "insert", "await", "lock", "write", "wait", "look",
                     "drain", "report"},
               chars : {"none", "text", "ctrl-c"}, finished : BOOLEAN]

\* The type of every variable.
TypeOK ==
  /\ tty \in BOOLEAN /\ open \in BOOLEAN /\ emitting \in 0 .. 2 /\ done \in BOOLEAN
  /\ child \in {"none", "running", "exited"} /\ killed \in BOOLEAN
  /\ written \in 0 .. MaxBytes /\ copied \in 0 .. MaxBytes /\ counted \in 0 .. MaxBytes
  /\ stdin \in 0 .. StdinCap
  /\ buffer \in BufferType
  /\ mapped \in BOOLEAN /\ lock \in Callers \cup {NoCaller}
  /\ call \in [Callers -> CallType]
  /\ turn \in {"open", "cancelled"} /\ own \in BOOLEAN
  /\ told \in BOOLEAN /\ reported \in BOOLEAN
  /\ stopped \in {"no", "cleaned", "closed"}

\* The buffer is the prefix and the suffix that headTailBuffer promises of
\* what was copied and not yet drained, whatever chunks it came in and however
\* many calls drained before: no byte is handed out twice or goes uncounted.
BufferHoldsTheNews ==
  /\ counted <= copied /\ copied <= written
  /\ buffer = HeadTail(Printed(counted, copied), BufferMax)

\* On pipes, the exit code is reported after all of the output: done closes
\* after the copier, and is looked at before the buffer is drained.
ExitAfterOutput == reported /\ ~tty => counted = written

\* A session id that was handed out can be used until the exit code was, or
\* terminals were cleaned, although a call that polls and one that sees the
\* exit race for the map.
KnownIdsWork == told /\ ~reported /\ stopped = "no" => mapped

\* Once the session is closed no child runs that was not killed, also one that
\* was still being started when terminals were cleaned.
NoOrphan == stopped = "closed" /\ child = "running" => killed

\* The rest of the inductive invariant: a call that saw done drains afterwards,
\* and then nothing is left to drain ...
DoneInv ==
  /\ done => child = "exited"
  /\ done /\ ~tty => copied = written
  /\ \A c \in Callers : call[c].finished =>
       /\ done /\ call[c].pc \in {"drain", "report"}
       /\ call[c].pc = "report" => counted = copied
  /\ reported => done /\ counted = copied

\* ... the process leaves the map with its exit code or when all do ...
Known == mapped \/ reported \/ stopped # "no"
KnownInv ==
  /\ \A c \in Callers : call[c].pc \notin {"idle", "insert"} => Known
  /\ told => Known

\* ... and a running child is in the map, about to be, or killed.
AliveInv ==
  /\ child = "running" =>
       killed \/ mapped \/ \E c \in Callers : call[c].pc = "insert"
  /\ stopped = "closed" => \A c \in Callers : call[c].pc = "idle"

\* What the proofs show to be inductive.
IInv == TypeOK /\ BufferHoldsTheNews /\ DoneInv /\ KnownInv /\ AliveInv /\ NoOrphan

\* What the manager hands out is what ProcessOutput promises.
Output == INSTANCE ProcessOutput WITH
  printed <- written, delivered <- counted, ended <- child = "exited", lossy <- tty
OutputPromise == Output!Spec

\* A call comes back by its yield deadline, or a little later.
CallsReturn == \A c \in Callers : call[c].pc # "idle" ~> call[c].pc = "idle"

\* Claimed, and violated by a child that does not read its input: the calls of
\* an interrupted turn come back.
InterruptEndsCalls ==
  \A c \in Callers : turn = "cancelled" ~> call[c].pc = "idle" \/ turn = "open"
=============================================================================
