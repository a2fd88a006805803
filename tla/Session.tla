------------------------------- MODULE Session -------------------------------
(***************************************************************************)
(* One thread's Session: the submission loop, the goroutine of the turn it *)
(* runs, the steer queue between the two, the command approvals, and the   *)
(* bounded channel of events that a client drains.                         *)
(*                                                                         *)
(* One action is one step of one goroutine between two points where it can *)
(* be overtaken: taking activeMu or task.mu, a blocking send, a wait.  A   *)
(* sendEvent is two steps: the record it appends to the rollout, then the  *)
(* blocking send, which is why a turn carries `out`, the event it is stuck *)
(* on.                                                                     *)
(*                                                                         *)
(* Texts, tokens and tool results are abstracted away: a user input is the *)
(* id of the submission that carried it, and an event either ends its turn *)
(* or is one more update.                                                  *)
(***************************************************************************)
EXTENDS Naturals, Sequences, FiniteSets

CONSTANTS
  MaxInputs,  \* bound: how many turn inputs clients submit
  Calls,      \* the call ids the model may use, each at most once a turn
  Cap         \* capacity of the events channel (128 in the code)

ASSUME SessionAssumption ==
  /\ MaxInputs \in Nat \ {0}
  /\ Cap \in Nat \ {0}

Turns  == 1 .. MaxInputs      \* a turn is named by the input that started it
NoTurn == 0

VARIABLES
  loop,       \* the submission loop: where it is and what it is handling
  nextInput,  \* id of the next turn input
  admission,  \* for each input, how handleTurnInput answered it
  active,     \* s.active: the running turn, or NoTurn
  task,       \* for each turn, its goroutine and its runningTask
  calls,      \* for each turn, where each of its tool calls is
  approvals,  \* s.approvals: the pending approval of each call
  granted,    \* history: the (turn, call) pairs a client ever approved
  events,     \* the events channel
  rollout     \* the durable log, restricted to turn boundaries and inputs

loopVars == <<loop, nextInput, admission>>
toolVars == <<calls, approvals, granted>>
vars == <<loopVars, active, task, toolVars, events, rollout>>

-----------------------------------------------------------------------------
(* The vocabulary of the state.                                            *)

LoopPC == {"receive", "complain", "lookup", "enqueue", "spawn", "create",
           "check", "interrupt", "shutdown", "await", "reply", "teardown",
           "stopped"}

\* A turn is in one of Running from its creation until it clears s.active.
Sampling == {"top", "compact", "sample", "tools", "drain"}
Closing  == {"finish", "hooks", "clear"}
Running  == {"begin", "record"} \cup Sampling \cup Closing
TaskPC   == Running \cup {"none", "closing", "exited"}

Reasons   == {"none", "interrupted", "shutdown", "replaced"}
CallState == {"unused", "queued", "asking", "waiting", "running",
              "finished", "recorded"}
Decisions == {"approved", "denied"}
Event     == [turn : Turns \cup {NoTurn}, kind : {"update", "end"}]
Record    == [turn : Turns, kind : {"started", "error", "complete", "aborted"},
              input : {NoTurn}]
             \cup [turn : Turns, kind : {"input"}, input : Turns]

NewTask == [pc |-> "none", cancelled |-> FALSE, reason |-> "none",
            accepting |-> FALSE, pending |-> << >>, followUp |-> FALSE,
            failed |-> FALSE, out |-> "none"]

Idle == [pc |-> "receive", expected |-> NoTurn, input |-> NoTurn,
         task |-> NoTurn, then |-> "receive"]

NoApproval == [turn |-> NoTurn, decision |-> "none"]

Init ==
  /\ loop = Idle
  /\ nextInput = 1
  /\ admission = [i \in Turns |-> [mode |-> "none", turn |-> NoTurn]]
  /\ active = NoTurn
  /\ task = [t \in Turns |-> NewTask]
  /\ calls = [t \in Turns |-> [c \in Calls |-> "unused"]]
  /\ approvals = [c \in Calls |-> NoApproval]
  /\ granted = {}
  /\ events = << >>
  /\ rollout = << >>

-----------------------------------------------------------------------------
(* Sending.                                                                *)

Log(t, what)   == [turn |-> t, kind |-> what, input |-> NoTurn]
LogInput(t, i) == [turn |-> t, kind |-> "input", input |-> i]

\* sendEventRaw's send; the session context outlives every turn, so a full
\* channel is waited for.
Push(t, what) ==
  /\ Len(events) < Cap
  /\ events' = Append(events, [turn |-> t, kind |-> what])

\* Goroutine t is at `place`, and not in the middle of a send.
At(t, place) == task[t].pc = place /\ task[t].out = "none"

\* The pending send of turn t goes through.
Deliver(t) ==
  /\ task[t].out # "none"
  /\ Push(t, task[t].out)
  /\ task' = [task EXCEPT ![t].out = "none"]
  /\ UNCHANGED <<loopVars, active, toolVars, rollout>>

-----------------------------------------------------------------------------
(* The submission loop.                                                    *)

\* The unbuffered channel: a client hands over a turn input.  A chat prompt
\* expects no turn; a steer names the turn it is meant for.
SubmitInput(expected) ==
  /\ loop.pc = "receive"
  /\ nextInput <= MaxInputs
  /\ loop' = [Idle EXCEPT !.pc = "lookup", !.expected = expected,
                          !.input = nextInput]
  /\ nextInput' = nextInput + 1
  /\ UNCHANGED <<admission, active, task, toolVars, events, rollout>>

\* An input with neither text nor image is answered by an error event, which
\* the loop itself sends.
SubmitInvalid ==
  /\ loop.pc = "receive"
  /\ loop' = [Idle EXCEPT !.pc = "complain"]
  /\ UNCHANGED <<nextInput, admission, active, task, toolVars, events, rollout>>

Complain ==
  /\ loop.pc = "complain"
  /\ Push(NoTurn, "update")
  /\ loop' = Idle
  /\ UNCHANGED <<nextInput, admission, active, task, toolVars, rollout>>

Answer(how, t) ==
  /\ admission' = [admission EXCEPT ![loop.input] = [mode |-> how, turn |-> t]]
  /\ loop' = Idle

\* handleTurnInput reads s.active and lets go of activeMu before it acts.
Lookup ==
  /\ loop.pc = "lookup"
  /\ \/ /\ active # NoTurn
        /\ loop.expected \in {NoTurn, active}
        /\ loop' = [loop EXCEPT !.pc = "enqueue", !.task = active]
        /\ UNCHANGED admission
     \/ /\ active = NoTurn /\ loop.expected = NoTurn
        /\ loop' = [loop EXCEPT !.pc = "spawn"]
        /\ UNCHANGED admission
     \/ /\ loop.expected \notin {NoTurn, active}
        /\ Answer("rejected", NoTurn)
  /\ UNCHANGED <<nextInput, active, task, toolVars, events, rollout>>

EnqueueAtFront ==             \* mutant: the latest steer goes first
  /\ loop.pc = "enqueue"
  /\ Answer("steered", loop.task)
  /\ task' = [task EXCEPT ![loop.task].pending = <<loop.input>> \o @]
  /\ UNCHANGED <<nextInput, active, toolVars, events, rollout>>

\* enqueueInput, under the mutex of the task that Lookup saw.
Enqueue ==
  /\ loop.pc = "enqueue"
  /\ IF task[loop.task].accepting
     THEN /\ Answer("steered", loop.task)
          /\ task' = [task EXCEPT ![loop.task].pending = Append(@, loop.input)]
     ELSE /\ Answer("rejected", NoTurn)
          /\ UNCHANGED task
  /\ UNCHANGED <<nextInput, active, toolVars, events, rollout>>

AbortWithoutWaiting(why, next) ==     \* mutant: no wait for task.done
  /\ loop' = [loop EXCEPT !.pc = next]
  /\ task' = IF active = NoTurn THEN task
             ELSE [task EXCEPT ![active] = [@ EXCEPT !.cancelled = TRUE,
                                                     !.reason = why]]

\* abortActive up to its wait: cancel the active turn and block until its
\* goroutine is gone, then continue at `next`.
AbortActive(why, next) ==
  IF active = NoTurn
  THEN /\ loop' = [loop EXCEPT !.pc = next]
       /\ UNCHANGED task
  ELSE /\ loop' = [loop EXCEPT !.pc = "await", !.task = active, !.then = next]
       /\ task' = [task EXCEPT ![active] = [@ EXCEPT !.cancelled = TRUE, !.reason = why]]

Await ==
  /\ loop.pc = "await"
  /\ task[loop.task].pc = "exited"
  /\ loop' = [loop EXCEPT !.pc = loop.then]
  /\ UNCHANGED <<nextInput, admission, active, task, toolVars, events, rollout>>

\* spawnRegularTask, in two steps around its abortActive.
Spawn ==
  /\ loop.pc = "spawn"
  /\ AbortActive("replaced", "create")
  /\ UNCHANGED <<nextInput, admission, active, toolVars, events, rollout>>

Create ==
  /\ loop.pc = "create"
  /\ active' = loop.input
  /\ task' = [task EXCEPT ![loop.input] =
                [NewTask EXCEPT !.pc = "begin", !.accepting = TRUE]]
  /\ Answer("started", loop.input)
  /\ UNCHANGED <<nextInput, toolVars, events, rollout>>

\* OpInterrupt: InterruptTurn names the turn it means, Interrupt none.
SubmitInterrupt(expected) ==
  /\ loop.pc = "receive"
  /\ loop' = [Idle EXCEPT !.pc = "check", !.expected = expected]
  /\ UNCHANGED <<nextInput, admission, active, task, toolVars, events, rollout>>

CheckNothing ==               \* mutant: the expected turn is not compared
  /\ loop.pc = "check"
  /\ loop' = [loop EXCEPT !.pc = "interrupt"]
  /\ UNCHANGED <<nextInput, admission, active, task, toolVars, events, rollout>>

\* The expected turn is compared with s.active before abortActive reads it again.
CheckExpected ==
  /\ loop.pc = "check"
  /\ loop' = IF loop.expected \in {NoTurn, active}
             THEN [loop EXCEPT !.pc = "interrupt"] ELSE Idle
  /\ UNCHANGED <<nextInput, admission, active, task, toolVars, events, rollout>>

Interrupt ==
  /\ loop.pc = "interrupt"
  /\ AbortActive("interrupted", "reply")
  /\ UNCHANGED <<nextInput, admission, active, toolVars, events, rollout>>

Reply ==
  /\ loop.pc = "reply"
  /\ loop' = Idle
  /\ UNCHANGED <<nextInput, admission, active, task, toolVars, events, rollout>>

\* OpShutdown ends the loop; its defers close the rollout, kill the processes,
\* cancel the session context and close the events channel.
SubmitShutdown ==
  /\ loop.pc = "receive"
  /\ loop' = [Idle EXCEPT !.pc = "shutdown"]
  /\ UNCHANGED <<nextInput, admission, active, task, toolVars, events, rollout>>

Shutdown ==
  /\ loop.pc = "shutdown"
  /\ AbortActive("shutdown", "teardown")
  /\ UNCHANGED <<nextInput, admission, active, toolVars, events, rollout>>

Teardown ==
  /\ loop.pc = "teardown"
  /\ loop' = [Idle EXCEPT !.pc = "stopped"]
  /\ UNCHANGED <<nextInput, admission, active, task, toolVars, events, rollout>>

SubmitApprovalAnyTurn(t, c, decision) ==     \* mutant: the turn is not compared
  /\ loop.pc = "receive"
  /\ calls[t][c] \notin {"unused", "queued"}
  /\ granted' = IF decision = "approved" THEN granted \cup {<<t, c>>} ELSE granted
  /\ approvals' = IF approvals[c].turn # NoTurn /\ approvals[c].decision = "none"
                  THEN [approvals EXCEPT ![c].decision = decision]
                  ELSE approvals
  /\ UNCHANGED <<loopVars, active, task, calls, events, rollout>>

\* OpExecApproval: the map is keyed by call id alone, so the turn is compared;
\* the result channel holds one decision and later ones are dropped.  A
\* client answers a call, at once or much later, only after it was asked.
SubmitApproval(t, c, decision) ==
  /\ loop.pc = "receive"
  /\ calls[t][c] \notin {"unused", "queued"}
  /\ granted' = IF decision = "approved" THEN granted \cup {<<t, c>>} ELSE granted
  /\ approvals' = IF approvals[c] = [turn |-> t, decision |-> "none"]
                  THEN [approvals EXCEPT ![c].decision = decision]
                  ELSE approvals
  /\ UNCHANGED <<loopVars, active, task, calls, events, rollout>>

Loop ==
  \/ Complain \/ Lookup \/ Enqueue \/ Await \/ Spawn \/ Create
  \/ CheckExpected \/ Interrupt \/ Reply \/ Shutdown \/ Teardown

Client ==
  \/ \E t \in Turns \cup {NoTurn} : SubmitInput(t) \/ SubmitInterrupt(t)
  \/ SubmitInvalid
  \/ SubmitShutdown
  \/ \E t \in Turns, c \in Calls, d \in Decisions : SubmitApproval(t, c, d)

-----------------------------------------------------------------------------
(* The goroutine of turn t.                                                *)

\* runRegularTask: turn_started, then runTurn records the first input.
Begin(t) ==
  /\ At(t, "begin")
  /\ task' = [task EXCEPT ![t] = [@ EXCEPT !.pc = "record", !.out = "update"]]
  /\ rollout' = Append(rollout, Log(t, "started"))
  /\ UNCHANGED <<loopVars, active, toolVars, events>>

RecordInput(t) ==
  /\ At(t, "record")
  /\ task' = [task EXCEPT ![t].pc = "top"]
  /\ rollout' = Append(rollout, LogInput(t, t))
  /\ UNCHANGED <<loopVars, active, toolVars, events>>

\* The head of runTurn's loop: whether the history must be compacted first
\* depends on token counts, which are abstracted to a choice.
Top(t) ==
  /\ At(t, "top")
  /\ \E next \in {"compact", "sample"} :
       task' = [task EXCEPT ![t] = [@ EXCEPT !.pc = next, !.followUp = FALSE]]
  /\ UNCHANGED <<loopVars, active, toolVars, events, rollout>>

Compacted(t) ==
  /\ At(t, "compact")
  /\ task' = [task EXCEPT ![t] = [@ EXCEPT !.pc = "sample", !.out = "update"]]
  /\ UNCHANGED <<loopVars, active, toolVars, events, rollout>>

\* runTurn's error return: an error event, and the turn finishes as it is.
Abandon(t) ==
  /\ task' = [task EXCEPT ![t] = [@ EXCEPT !.pc = "finish", !.out = "update",
                                           !.failed = TRUE, !.followUp = FALSE]]
  /\ rollout' = Append(rollout, Log(t, "error"))
  /\ UNCHANGED <<loopVars, active, toolVars, events>>

\* The stream or the compaction fails by itself.
ModelFails(t) == (At(t, "compact") \/ At(t, "sample")) /\ Abandon(t)

SeesCancelCompacting(t) ==    \* mutant: no ctx.Done() case in the sampling loop
  At(t, "compact") /\ task[t].cancelled /\ Abandon(t)

\* The select takes ctx.Done().
SeesCancel(t) ==
  /\ At(t, "compact") \/ At(t, "sample")
  /\ task[t].cancelled
  /\ Abandon(t)

\* A text delta.
Delta(t) ==
  /\ At(t, "sample")
  /\ task' = [task EXCEPT ![t].out = "update"]
  /\ UNCHANGED <<loopVars, active, toolVars, events, rollout>>

\* A well formed function_call item, announced and kept for later.
CallItem(t, c) ==
  /\ At(t, "sample")
  /\ calls[t][c] = "unused"
  /\ calls' = [calls EXCEPT ![t][c] = "queued"]
  /\ task' = [task EXCEPT ![t].out = "update"]
  /\ UNCHANGED <<loopVars, active, approvals, granted, events, rollout>>

\* A function_call item with no call_id or name is answered at once.
BadCallItem(t) ==
  /\ At(t, "sample")
  /\ task' = [task EXCEPT ![t].followUp = TRUE]
  /\ UNCHANGED <<loopVars, active, toolVars, events, rollout>>

\* response.completed and both stream channels closed.
Completed(t) ==
  /\ At(t, "sample")
  /\ task' = [task EXCEPT
       ![t].pc = IF \E c \in Calls : calls[t][c] = "queued" THEN "tools" ELSE "drain"]
  /\ UNCHANGED <<loopVars, active, toolVars, events, rollout>>

-----------------------------------------------------------------------------
(* The tool goroutines of turn t, one per queued call.                     *)

\* A tool that needs no approval: it returns an output.
RunDirectly(t, c) ==
  /\ At(t, "tools") /\ calls[t][c] = "queued"
  /\ calls' = [calls EXCEPT ![t][c] = "finished"]
  /\ UNCHANGED <<loopVars, active, task, approvals, granted, events, rollout>>

\* requestCommandApproval: register under activeTurnID(), send, wait.
Ask(t, c) ==
  /\ At(t, "tools") /\ calls[t][c] = "queued"
  /\ calls' = [calls EXCEPT ![t][c] = "asking"]
  /\ approvals' = [approvals EXCEPT ![c] = [turn |-> active, decision |-> "none"]]
  /\ UNCHANGED <<loopVars, active, task, granted, events, rollout>>

Asked(t, c) ==
  /\ calls[t][c] = "asking"
  /\ Push(approvals[c].turn, "update")
  /\ calls' = [calls EXCEPT ![t][c] = "waiting"]
  /\ UNCHANGED <<loopVars, active, task, approvals, granted, rollout>>

Decided(t, c) ==
  /\ calls[t][c] = "waiting"
  /\ approvals[c].decision # "none"
  /\ calls' = [calls EXCEPT ![t][c] =
                 IF approvals[c].decision = "approved" THEN "running" ELSE "finished"]
  /\ approvals' = [approvals EXCEPT ![c] = NoApproval]
  /\ UNCHANGED <<loopVars, active, task, granted, events, rollout>>

LeaveEntryBehind(t, c) ==     \* mutant: the entry is not deleted on ctx.Done()
  /\ calls[t][c] = "waiting" /\ task[t].cancelled
  /\ calls' = [calls EXCEPT ![t][c] = "finished"]
  /\ UNCHANGED <<loopVars, active, task, approvals, granted, events, rollout>>

\* The select takes ctx.Done(), and the deferred delete runs.
GiveUp(t, c) ==
  /\ calls[t][c] = "waiting" /\ task[t].cancelled
  /\ calls' = [calls EXCEPT ![t][c] = "finished"]
  /\ approvals' = [approvals EXCEPT ![c] = NoApproval]
  /\ UNCHANGED <<loopVars, active, task, granted, events, rollout>>

\* The running command prints: its writer emits a delta and waits for room.
Output(t, c) ==
  /\ calls[t][c] = "running"
  /\ Push(t, "update")
  /\ UNCHANGED <<loopVars, active, task, toolVars, rollout>>

\* The approved command exits, yields as a background session, or is killed.
Finished(t, c) ==
  /\ calls[t][c] = "running"
  /\ calls' = [calls EXCEPT ![t][c] = "finished"]
  /\ UNCHANGED <<loopVars, active, task, approvals, granted, events, rollout>>

\* After wait.Wait(): the outputs are recorded and announced one by one.
RecordOutput(t, c) ==
  /\ At(t, "tools")
  /\ \A d \in Calls : calls[t][d] \in {"unused", "finished", "recorded"}
  /\ calls[t][c] = "finished"
  /\ calls' = [calls EXCEPT ![t][c] = "recorded"]
  /\ task' = [task EXCEPT ![t] = [@ EXCEPT !.out = "update", !.followUp = TRUE]]
  /\ UNCHANGED <<loopVars, active, approvals, granted, events, rollout>>

ToolsDone(t) ==
  /\ At(t, "tools")
  /\ \A c \in Calls : calls[t][c] \in {"unused", "recorded"}
  /\ task' = [task EXCEPT ![t].pc = "drain"]
  /\ UNCHANGED <<loopVars, active, toolVars, events, rollout>>

Tool(t, c) ==
  \/ RunDirectly(t, c) \/ Ask(t, c) \/ Asked(t, c) \/ Decided(t, c)
  \/ GiveUp(t, c) \/ Finished(t, c) \/ RecordOutput(t, c)

-----------------------------------------------------------------------------
(* The end of a sampling step, and of a turn.                              *)

InputRecords(t) ==
  [k \in 1 .. Len(task[t].pending) |-> LogInput(t, task[t].pending[k])]

DrainAndStayOpen(t) ==        \* mutant: the empty queue is not closed
  /\ At(t, "drain")
  /\ task' = [task EXCEPT ![t] = [@ EXCEPT !.pending = << >>,
       !.pc = IF task[t].pending # << >> \/ task[t].followUp THEN "top" ELSE "finish"]]
  /\ rollout' = rollout \o InputRecords(t)
  /\ UNCHANGED <<loopVars, active, toolVars, events>>

\* takePendingInput: taking the queue and closing it is one critical section.
Drain(t) ==
  /\ At(t, "drain")
  /\ IF task[t].pending # << >> \/ task[t].followUp
     THEN task' = [task EXCEPT ![t] = [@ EXCEPT !.pc = "top", !.pending = << >>]]
     ELSE task' = [task EXCEPT ![t] = [@ EXCEPT !.pc = "finish", !.accepting = FALSE]]
  /\ rollout' = rollout \o InputRecords(t)
  /\ UNCHANGED <<loopVars, active, toolVars, events>>

FinishSilently(t) ==          \* mutant: s.active is released before the report
  /\ At(t, "finish")
  /\ task' = [task EXCEPT ![t].pc = "closing"]
  /\ active' = NoTurn
  /\ UNCHANGED <<loopVars, toolVars, events, rollout>>

FinishAndRelease(t) ==        \* mutant: s.active is released before the hooks
  /\ At(t, "finish")
  /\ task' = [task EXCEPT ![t] = [@ EXCEPT !.pc = "hooks", !.out = "end"]]
  /\ active' = NoTurn
  /\ rollout' = Append(rollout, Log(t, "complete"))
  /\ UNCHANGED <<loopVars, toolVars, events>>

\* onTaskFinished: one terminal event, and the hooks of a turn that was not
\* cancelled.
Finish(t) ==
  /\ At(t, "finish")
  /\ LET last == IF task[t].cancelled THEN "aborted" ELSE "complete" IN
       /\ task' = [task EXCEPT ![t] = [@ EXCEPT
            !.out = "end",
            !.pc = IF task[t].cancelled THEN "clear" ELSE "hooks"]]
       /\ rollout' = Append(rollout, Log(t, last))
  /\ UNCHANGED <<loopVars, active, toolVars, events>>

RunHooks(t) ==
  /\ At(t, "hooks")
  /\ task' = [task EXCEPT ![t].pc = "clear"]
  /\ UNCHANGED <<loopVars, active, toolVars, events, rollout>>

ClearOther(t) ==              \* mutant: the test of s.active is inverted
  /\ At(t, "clear")
  /\ task' = [task EXCEPT ![t].pc = "closing"]
  /\ active' = IF active = t THEN active ELSE NoTurn
  /\ UNCHANGED <<loopVars, toolVars, events, rollout>>

\* The session is free again; task.done closes after that.
Clear(t) ==
  /\ At(t, "clear")
  /\ task' = [task EXCEPT ![t].pc = "closing"]
  /\ active' = IF active = t THEN NoTurn ELSE active
  /\ UNCHANGED <<loopVars, toolVars, events, rollout>>

ExitUncancelled(t) ==         \* mutant: task.done stays open on an abort
  /\ At(t, "closing") /\ ~task[t].cancelled
  /\ task' = [task EXCEPT ![t].pc = "exited"]
  /\ UNCHANGED <<loopVars, active, toolVars, events, rollout>>

\* close(task.done).
Exit(t) ==
  /\ At(t, "closing")
  /\ task' = [task EXCEPT ![t].pc = "exited"]
  /\ UNCHANGED <<loopVars, active, toolVars, events, rollout>>

\* What turn t does by itself, the model and the tools apart.
Own(t) ==
  \/ Deliver(t) \/ Begin(t) \/ RecordInput(t) \/ Top(t) \/ ToolsDone(t)
  \/ Drain(t) \/ Finish(t) \/ RunHooks(t) \/ Clear(t) \/ Exit(t)

Model(t) ==
  \/ Compacted(t) \/ ModelFails(t) \/ Delta(t) \/ BadCallItem(t) \/ Completed(t)
  \/ \E c \in Calls : CallItem(t, c)

-----------------------------------------------------------------------------
(* NextEvent: a client takes the oldest event.                             *)

NextEvent ==
  /\ events # << >>
  /\ events' = Tail(events)
  /\ UNCHANGED <<loopVars, active, task, toolVars, rollout>>

Next ==
  \/ Client \/ Loop \/ NextEvent
  \/ \E t \in Turns : \/ Own(t) \/ Model(t) \/ SeesCancel(t)
                     \/ \E c \in Calls : Tool(t, c) \/ Output(t, c)

Spec == Init /\ [][Next]_vars

\* Goroutines that can run do run.  A select with two ready cases picks either,
\* so a turn that keeps passing a ready ctx.Done() takes it in the end; blocked
\* senders of a channel are served in turn, so one that finds room again and
\* again gets it.  Neither clients nor the model owe anybody anything.
Scheduled ==
  /\ WF_vars(Loop) /\ SF_vars(Complain)
  /\ \A t \in Turns :
       /\ WF_vars(Own(t)) /\ SF_vars(Deliver(t))
       /\ SF_vars(SeesCancel(t))
       /\ \A c \in Calls : WF_vars(Tool(t, c)) /\ SF_vars(Asked(t, c))

\* With a client that goes on reading events ...
FairSpec == Spec /\ Scheduled /\ WF_vars(NextEvent)
\* ... and with one that may have gone away.
UnreadSpec == Spec /\ Scheduled
-----------------------------------------------------------------------------
(* Properties.                                                             *)

LoopState == [pc : LoopPC, expected : Turns \cup {NoTurn},
              input : Turns \cup {NoTurn}, task : Turns \cup {NoTurn},
              then : {"receive", "create", "reply", "teardown"}]
TaskState == [pc : TaskPC, cancelled : BOOLEAN, reason : Reasons,
              accepting : BOOLEAN, pending : Seq(Turns), followUp : BOOLEAN,
              failed : BOOLEAN, out : {"none", "update", "end"}]
Admission == [mode : {"none", "started", "steered", "rejected"},
              turn : Turns \cup {NoTurn}]
Approval  == [turn : Turns \cup {NoTurn}, decision : Decisions \cup {"none"}]

\* The submission loop, whose input and task are set while it needs them.
LoopTyped ==
  /\ loop \in LoopState
  /\ loop.pc \in {"lookup", "enqueue", "spawn", "create"} => loop.input \in Turns
  /\ loop.pc = "await" /\ loop.then = "create" => loop.input \in Turns
  /\ loop.pc \in {"enqueue", "await"} => loop.task \in Turns

\* The type of every variable, and the capacity of the channel.
TypeOK ==
  /\ LoopTyped
  /\ nextInput \in 1 .. MaxInputs + 1
  /\ admission \in [Turns -> Admission]
  /\ active \in Turns \cup {NoTurn}
  /\ task \in [Turns -> TaskState]
  /\ calls \in [Turns -> [Calls -> CallState]]
  /\ approvals \in [Calls -> Approval]
  /\ granted \in SUBSET (Turns \X Calls)
  /\ events \in Seq(Event) /\ Len(events) <= Cap
  /\ rollout \in Seq(Record)

Recorded(i) == \E k \in DOMAIN rollout : rollout[k].kind = "input" /\ rollout[k].input = i

\* At most one turn's goroutine is between its creation and the release of
\* s.active, although abortActive and that goroutine race for s.active.
OneTurnAtATime == \A t \in Turns : task[t].pc \in Running => active = t

\* The rollout is a sequence of whole turns, in submission order: each opens
\* with turn_started, closes with one terminal event, and nothing of it comes
\* later.  ReadRolloutTurns attributes every record by this rule.
Terminal(r) == r.kind \in {"complete", "aborted"}
TurnsAreSerial ==
  \A k \in DOMAIN rollout :
    LET r == rollout[k] IN
      IF r.kind = "started"
      THEN k = 1 \/ (Terminal(rollout[k - 1]) /\ rollout[k - 1].turn < r.turn)
      ELSE k > 1 /\ rollout[k - 1].turn = r.turn /\ ~Terminal(rollout[k - 1])

\* User inputs enter the history at most once and in the order in which the
\* loop admitted them, whether they started a turn or were queued to one.
InputsInOrder ==
  \A j, k \in DOMAIN rollout :
    j < k /\ rollout[j].kind = "input" /\ rollout[k].kind = "input"
      => rollout[j].input < rollout[k].input

\* A steer that was answered "steered" is in the history by the time its turn
\* finishes, if no model error ended that turn: enqueueInput cannot slip in
\* between takePendingInput's look and the end of the turn.
CleanTurnConsumesSteers ==
  \A i \in Turns :
    admission[i].mode = "steered" =>
      LET t == admission[i].turn IN
        task[t].pc \in Closing \cup {"closing", "exited"} /\ ~task[t].failed
          => Recorded(i)

\* No turn is ever aborted to make room for another: spawnRegularTask's
\* abortActive("replaced") finds nothing, because only the loop sets s.active.
NeverReplaced == \A t \in Turns : task[t].reason # "replaced"

\* When an interrupt is acknowledged, and when the session tears down, no turn
\* is running and no approval is pending.
AcknowledgedMeansQuiet ==
  loop.pc \in {"reply", "teardown", "stopped"} =>
    /\ active = NoTurn
    /\ \A t \in Turns : task[t].pc \in {"none", "closing", "exited"}
    /\ \A c \in Calls : approvals[c] = NoApproval

\* A pending approval belongs to the active turn and to a call that waits for
\* it: no entry outlives its request.
ApprovalsAreLive ==
  \A c \in Calls : approvals[c] # NoApproval =>
    active # NoTurn /\ approvals[c].turn = active
      /\ calls[active][c] \in {"asking", "waiting"}

\* A command that needed approval runs only if a client approved this call of
\* this turn; the answer to an equal call id of an earlier turn does not count.
ApprovedBeforeRunning ==
  \A t \in Turns, c \in Calls : calls[t][c] = "running" => <<t, c>> \in granted

\* An interrupt that names a turn cancels no other one, although it looks at
\* s.active twice.
InterruptHitsItsTurn ==
  [][\A t \in Turns : ~task[t].cancelled /\ task'[t].cancelled
       => loop.expected \in {NoTurn, t}]_vars

\* The submission loop always gets back to its next submission, or stops.
LoopComesBack == loop.pc # "receive" ~> loop.pc \in {"receive", "stopped"}

\* An interrupt or a shutdown that aborts a turn comes to an end, wherever the
\* turn was: streaming, compacting, waiting for an approval, or finishing.
AbortReturns == loop.pc \in {"interrupt", "shutdown"} ~> active = NoTurn

\* A turn that has reported its end gives the session back.
ReportedTurnFreesSession ==
  \A t \in Turns : task[t].pc = "finish" ~> active # t

\* Claimed, and violated when a model error ends the turn: a steer that was
\* answered "steered" is in the history by the time its turn, which nobody
\* interrupted, is over.
SteerReachesHistory ==
  \A i \in Turns :
    admission[i].mode = "steered" =>
      LET t == admission[i].turn IN
        task[t].pc = "exited" /\ ~task[t].cancelled => Recorded(i)

\* What a reader of the log, and of the answers to submissions, sees of a turn.
Holds(t, kinds) == \E k \in DOMAIN rollout : rollout[k].turn = t /\ rollout[k].kind \in kinds
Begun(t) == Holds(t, {"started"})
Erred(t) == Holds(t, {"error"})
Over(t)  == Holds(t, {"complete", "aborted"})
StageOf(t) ==
  IF Over(t) THEN IF Erred(t) THEN "broken" ELSE "whole"
  ELSE IF Begun(t) THEN IF Erred(t) THEN "failing" ELSE "open"
  ELSE IF admission[t].mode = "started" THEN "due" ELSE "none"

Owner   == [i \in Turns |-> admission[i].turn]
Stage   == [t \in Turns |-> StageOf(t)]
History == {i \in Turns : Recorded(i)}
Promised == INSTANCE TurnLog WITH
  Inputs <- Turns, owner <- Owner, stage <- Stage, history <- History

\* An input is answered "started" or "steered" only if the turn it goes to will have
\* it in the history, in order, unless an error ends that turn; turns run one at a
\* time; and no input is accepted for a turn that has closed in good order.  The
\* loop and the turn's goroutine see to it together, under two mutexes.
TurnLogPromise == Promised!Spec

-----------------------------------------------------------------------------
(* Inductive invariants, from which SessionProofs derives the properties.  *)

\* s.active is the one running turn, what the loop knows of it outlives the
\* release of activeMu, and turns not yet created have not begun.
ActiveRuns == \A t \in Turns : task[t].pc \in Running <=> active = t
LoopKnows ==
  /\ loop.pc \in {"spawn", "create", "reply", "teardown", "stopped"} => active = NoTurn
  /\ loop.pc = "await" => /\ active \in {NoTurn, loop.task}
                          /\ loop.then \in {"reply", "teardown"}
  /\ loop.pc = "interrupt" => loop.expected = NoTurn \/ active \in {NoTurn, loop.expected}
  /\ loop.pc = "shutdown" => loop.expected = NoTurn
HoldsInput == loop.pc \in {"lookup", "enqueue", "spawn", "create"}
FreshTurns ==
  /\ \A t \in Turns : t >= nextInput => task[t].pc = "none"
  /\ HoldsInput => loop.input < nextInput /\ task[loop.input].pc = "none"
ControlInv == ActiveRuns /\ LoopKnows /\ FreshTurns /\ NeverReplaced

\* A turn whose queue is closed has read it, and a steer is in the queue of
\* its turn until it is in the history.
Closed(t) == ~task[t].accepting /\ task[t].pending = << >>
QueuesClosed ==
  \A t \in Turns :
    \/ task[t].pc = "none"
    \/ task[t].pc \in Closing \cup {"closing", "exited"} /\ ~task[t].failed
    => Closed(t)
Queued(i, t) == \E k \in DOMAIN task[t].pending : task[t].pending[k] = i
SteersKept ==
  \A i \in Turns : admission[i].mode = "steered" =>
    admission[i].turn \in Turns /\ (Recorded(i) \/ Queued(i, admission[i].turn))
QueueInv == QueuesClosed /\ SteersKept

\* A call that was asked for holds its turn among the tools and owns its entry.
ToolsHold ==
  \A t \in Turns, c \in Calls :
    calls[t][c] \in {"asking", "waiting", "running", "finished"} => task[t].pc = "tools"
EntriesOwned ==
  \A t \in Turns, c \in Calls :
    calls[t][c] \in {"asking", "waiting"} => approvals[c].turn = t
DecisionsGranted ==
  \A c \in Calls : approvals[c].decision = "approved" => <<approvals[c].turn, c>> \in granted
ToolInv == /\ ToolsHold /\ ApprovalsAreLive /\ EntriesOwned
           /\ DecisionsGranted /\ ApprovedBeforeRunning

\* The log ends with the turn that runs, from its first record to its last, or
\* with a whole one.
Logging == {"record", "finish"} \cup Sampling
LastRecord == rollout[Len(rollout)]
LogTail ==
  /\ \A t \in Turns : task[t].pc \in Logging =>
       rollout # << >> /\ LastRecord.turn = t /\ ~Terminal(LastRecord)
  /\ (\A t \in Turns : task[t].pc \notin Logging) => rollout = << >> \/ Terminal(LastRecord)

\* Turns and inputs are numbered as they were submitted: the next one comes after
\* all that are in the log or in the queue of a turn that runs, and so does the one
\* the loop holds; a queue comes after the log, and after its turn's own input.
LoggedBefore(n) == \A k \in DOMAIN rollout : rollout[k].turn < n /\ rollout[k].input < n
QueuedBefore(n) ==
  \A t \in Turns : task[t].pc \in Running =>
    t < n /\ \A k \in DOMAIN task[t].pending : task[t].pending[k] < n
NewestLast ==
  /\ LoggedBefore(nextInput) /\ QueuedBefore(nextInput)
  /\ HoldsInput => LoggedBefore(loop.input) /\ QueuedBefore(loop.input)
InputsBefore(n) == \A k \in DOMAIN rollout : rollout[k].input < n
QueueOrdered(t) ==
  /\ \A j, k \in DOMAIN task[t].pending : j < k => task[t].pending[j] < task[t].pending[k]
  /\ \A k \in DOMAIN task[t].pending : InputsBefore(task[t].pending[k])
  /\ task[t].pc = "begin" => LoggedBefore(t)
  /\ task[t].pc \in {"begin", "record"} =>
       InputsBefore(t) /\ \A k \in DOMAIN task[t].pending : t < task[t].pending[k]
QueuesOrdered == \A t \in Turns : task[t].pc \in Running => QueueOrdered(t)
LogInv == TurnsAreSerial /\ InputsInOrder /\ LogTail /\ NewestLast /\ QueuesOrdered

\* What the log says of a turn is how far its goroutine is.  What was answered says
\* who owns an input, and a queue holds only its turn's.
After == {"hooks", "clear", "closing", "exited"}
Stretch(t) ==
  /\ Begun(t) <=> task[t].pc \in Logging \cup After
  /\ Over(t) <=> task[t].pc \in After
  /\ Erred(t) <=> task[t].failed
  /\ task[t].failed => task[t].pc \in {"finish"} \cup After
  /\ task[t].pc \notin {"none", "begin", "record"} => Recorded(t)
  /\ task[t].pc # "none" <=> admission[t].mode = "started"
  /\ \A k \in DOMAIN task[t].pending : admission[task[t].pending[k]].turn = t
Answered(i) ==
  /\ admission[i].mode = "started" => admission[i].turn = i
  /\ admission[i].mode \in {"none", "rejected"} => admission[i].turn = NoTurn
  /\ admission[i].turn # NoTurn =>
       /\ admission[i].turn <= i /\ i < nextInput
       /\ HoldsInput => i < loop.input
NewestCurrent ==
  /\ HoldsInput => nextInput = loop.input + 1
  /\ \A t, u \in Turns : task[u].pc # "none" =>
       /\ active = t => u <= t
       /\ loop.pc = "enqueue" => u <= loop.task
AnswersInv == NewestCurrent /\ \A t \in Turns : Stretch(t) /\ Answered(t)

\* The types, who runs, where steers are, who waits for an approval, in which order
\* all that is logged, and what was answered.
IInv == TypeOK /\ ControlInv /\ QueueInv /\ ToolInv /\ LogInv /\ AnswersInv
=============================================================================
