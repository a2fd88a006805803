---------------------------- MODULE SessionProofs ----------------------------
(***************************************************************************)
(* Theorems about Session, for every number of inputs, every set of call   *)
(* ids and every capacity of the events channel: the types, the safety     *)
(* properties, and that Session implements TurnLog.                        *)
(*                                                                         *)
(* The inductive invariant comes in five parts, each inductive given the   *)
(* types and ControlInv: ControlInv (who runs), QueueInv (where steers     *)
(* are), ToolInv (who waits for an approval), LogInv (in which order the   *)
(* log is) and, given QueueInv too, AnswersInv (what was answered, and     *)
(* what the log says of a turn).  For the first four, a first lemma says   *)
(* what a step that leaves that part alone looks like, and the theorem     *)
(* goes through the actions.  For the last one and for the refinement,     *)
(* StepKinds sorts the actions into seven kinds once, and the lemmas go    *)
(* through the kinds.                                                      *)
(***************************************************************************)
EXTENDS Session, SequenceTheorems, TLAPS

-----------------------------------------------------------------------------
(* The types.                                                              *)


\* The records that Drain appends are records.
LEMMA InputRecordsType ==
  ASSUME TypeOK, NEW t \in Turns
  PROVE  InputRecords(t) \in Seq(Record)
PROOF
<1>1. task[t].pending \in Seq(Turns)
  BY DEF TypeOK, TaskState
<1>2. \A k \in 1 .. Len(task[t].pending) : task[t].pending[k] \in Turns
  BY <1>1
<1>3. \A k \in 1 .. Len(task[t].pending) : LogInput(t, task[t].pending[k]) \in Record
  BY <1>2 DEF LogInput, Record
<1>4. Len(task[t].pending) \in Nat
  BY <1>1
<1> QED
  BY <1>3, <1>4 DEF InputRecords

\* Aborting the active turn keeps the types.
LEMMA AbortType ==
  ASSUME TypeOK, NEW why \in Reasons, NEW next \in {"create", "reply", "teardown"},
         next = "create" => loop.input \in Turns, AbortActive(why, next)
  PROVE  LoopTyped' /\ task' \in [Turns -> TaskState]
PROOF
<1>1. /\ loop \in LoopState /\ active \in Turns \cup {NoTurn}
      /\ task \in [Turns -> TaskState]
  BY DEF TypeOK, LoopTyped
<1>2. CASE active = NoTurn
  <2>1. loop' = [loop EXCEPT !.pc = next] /\ task' = task
    BY <1>2 DEF AbortActive
  <2> QED
    BY <2>1, <1>1 DEF LoopTyped, LoopState, LoopPC
<1>3. CASE active # NoTurn
  <2>1. /\ loop' = [loop EXCEPT !.pc = "await", !.task = active, !.then = next]
        /\ task' = [task EXCEPT ![active] = [@ EXCEPT !.cancelled = TRUE, !.reason = why]]
    BY <1>3 DEF AbortActive
  <2>2. LoopTyped'
    BY <2>1, <1>1, <1>3 DEF LoopTyped, LoopState, LoopPC
  <2>3. task' \in [Turns -> TaskState]
    BY <2>1, <1>1, <1>3 DEF TaskState
  <2> QED
    BY <2>2, <2>3
<1> QED
  BY <1>2, <1>3

\* Every state has its type, and the events channel never holds more than Cap.
THEOREM TypeCorrect == Spec => []TypeOK
PROOF
<1>1. Init => TypeOK
  BY SessionAssumption DEF Init, TypeOK, LoopTyped, LoopState, TaskState, Admission, Approval, CallState,
     TaskPC, LoopPC, Reasons, Idle, NewTask, NoApproval
<1>2. TypeOK /\ [Next]_vars => TypeOK'
  <2> SUFFICES ASSUME TypeOK, [Next]_vars PROVE TypeOK'
    OBVIOUS
  <2>a. /\ LoopTyped /\ loop \in LoopState /\ active \in Turns \cup {NoTurn}
        /\ admission \in [Turns -> Admission]
    BY DEF TypeOK, LoopTyped
  <2>b. task \in [Turns -> TaskState]
    BY DEF TypeOK
  <2>p. /\ {"begin", "record", "top", "compact", "sample", "tools", "drain"} \subseteq TaskPC
        /\ {"finish", "hooks", "clear", "none", "closing", "exited"} \subseteq TaskPC
    BY DEF TaskPC, Running, Sampling, Closing
  <2>c. /\ calls \in [Turns -> [Calls -> CallState]]
        /\ approvals \in [Calls -> Approval] /\ granted \in SUBSET (Turns \X Calls)
    BY DEF TypeOK
  <2>d. /\ events \in Seq(Event) /\ Len(events) <= Cap /\ rollout \in Seq(Record)
    BY DEF TypeOK
  <2>e. loop' = loop => LoopTyped'
    BY <2>a DEF LoopTyped
  <2>1. ASSUME NEW t \in Turns \cup {NoTurn}, SubmitInput(t) PROVE TypeOK'
    <3>1. nextInput \in Turns /\ nextInput' \in 1 .. MaxInputs + 1
      BY <2>1, SessionAssumption DEF SubmitInput, TypeOK, Turns
    <3>2. LoopTyped'
      BY <2>1, <3>1 DEF LoopTyped, SubmitInput, LoopState, LoopPC, Idle
    <3> QED
      BY <2>1, <3>1, <3>2 DEF SubmitInput, TypeOK, loopVars, toolVars
  <2>2. ASSUME NEW t \in Turns \cup {NoTurn}, SubmitInterrupt(t) PROVE TypeOK'
    <3>1. LoopTyped'
      BY <2>2, <2>a DEF LoopTyped, SubmitInterrupt, LoopState, LoopPC, Idle
    <3> QED
      BY <2>2, <3>1 DEF SubmitInterrupt, TypeOK, loopVars, toolVars
  <2>3. CASE SubmitInvalid
    <3>1. LoopTyped'
      BY <2>3, <2>a DEF LoopTyped, SubmitInvalid, LoopState, LoopPC, Idle
    <3> QED
      BY <2>3, <3>1 DEF SubmitInvalid, TypeOK, loopVars, toolVars
  <2>4. CASE SubmitShutdown
    <3>1. LoopTyped'
      BY <2>4, <2>a DEF LoopTyped, SubmitShutdown, LoopState, LoopPC, Idle
    <3> QED
      BY <2>4, <3>1 DEF SubmitShutdown, TypeOK, loopVars, toolVars
  <2>5. ASSUME NEW t \in Turns, NEW c \in Calls, NEW d \in Decisions, SubmitApproval(t, c, d) PROVE TypeOK'
    <3>1. approvals' \in [Calls -> Approval]
      BY <2>5, <2>a, <2>c DEF SubmitApproval, Approval, NoApproval, Decisions
    <3>2. granted' \in SUBSET (Turns \X Calls)
      BY <2>5, <2>c DEF SubmitApproval
    <3> QED
      BY <2>5, <2>e, <3>1, <3>2 DEF SubmitApproval, TypeOK, loopVars, toolVars
  <2>6. CASE Complain
    <3>1. LoopTyped'
      BY <2>6, <2>a DEF LoopTyped, Complain, LoopState, LoopPC, Idle
    <3>2. [turn |-> NoTurn, kind |-> "update"] \in Event
      BY DEF Event
    <3>3. events' \in Seq(Event) /\ Len(events') <= Cap
      BY <2>6, <3>2, <2>d, SessionAssumption, AppendProperties DEF Complain,
         Push
    <3> QED
      BY <2>6, <3>1, <3>2, <3>3 DEF Complain, TypeOK, loopVars, toolVars
  <2>7. CASE Lookup
    <3>1. \/ active \in Turns /\ loop' = [loop EXCEPT !.pc = "enqueue", !.task = active]
          \/ loop' = [loop EXCEPT !.pc = "spawn"]
          \/ loop' = Idle
      BY <2>7, <2>a DEF Lookup, Answer
    <3>2. LoopTyped'
      <4>1. loop.input \in Turns
        BY <2>7, <2>a DEF Lookup, LoopTyped
      <4>2. CASE active \in Turns /\ loop' = [loop EXCEPT !.pc = "enqueue", !.task = active]
        BY <4>1, <4>2, <2>a DEF LoopTyped, LoopState, LoopPC
      <4>3. CASE loop' = [loop EXCEPT !.pc = "spawn"]
        BY <4>1, <4>3, <2>a DEF LoopTyped, LoopState, LoopPC
      <4>4. CASE loop' = Idle
        BY <4>4, <2>a DEF LoopTyped, LoopState, LoopPC, Idle
      <4> QED
        BY <3>1, <4>2, <4>3, <4>4
    <3>3. admission' \in [Turns -> Admission]
      BY <2>7, <2>a DEF Lookup, Answer, Admission, LoopState
    <3> QED
      BY <2>7, <3>2, <3>3 DEF Lookup, TypeOK, loopVars, toolVars, Answer
  <2>8. CASE Enqueue
    <3>1. LoopTyped'
      BY <2>8, <2>a DEF LoopTyped, Enqueue, LoopState, LoopPC, Idle, Answer
    <3>2. admission' \in [Turns -> Admission]
      BY <2>8, <2>a DEF Enqueue, Answer, Admission, LoopState
    <3>3. \/ task' = task
          \/ task' = [task EXCEPT ![loop.task].pending = Append(@, loop.input)]
      BY <2>8 DEF Enqueue
    <3>4. loop.input \in Turns
      BY <2>8, <2>a DEF Enqueue, LoopTyped
    <3>5. task' \in [Turns -> TaskState]
      <4>1. loop.task \in Turns
        BY <2>8, <2>a DEF Enqueue, LoopTyped
      <4>2. Append(task[loop.task].pending, loop.input) \in Seq(Turns)
        BY <3>4, <4>1, <2>b, AppendProperties DEF TaskState
      <4>3. PICK more \in Seq(Turns) : more = Append(task[loop.task].pending, loop.input)
        BY <4>2
      <4>4. \/ task' = task
            \/ task' = [task EXCEPT ![loop.task] = [task[loop.task] EXCEPT !.pending = more]]
        BY <3>3, <4>3
      <4>5. [task[loop.task] EXCEPT !.pending = more] \in TaskState
        <5>1. task[loop.task] \in TaskState
          BY <4>1, <2>b
        <5> QED
          BY <5>1 DEF TaskState
      <4> QED
        BY <4>1, <4>4, <4>5, <2>b
    <3> QED
      BY <2>8, <3>1, <3>2, <3>5 DEF Enqueue, TypeOK, loopVars, toolVars,
         Answer
  <2>9. CASE Await
    <3>1. LoopTyped'
      BY <2>9, <2>a DEF LoopTyped, Await, LoopState, LoopPC
    <3> QED
      BY <2>9, <3>1 DEF Await, TypeOK, loopVars, toolVars
  <2>10. CASE Spawn
    <3>1. LoopTyped' /\ task' \in [Turns -> TaskState]
      BY <2>10, <2>a, AbortType DEF Spawn, LoopTyped, Reasons
    <3> QED
      BY <2>10, <3>1 DEF Spawn, TypeOK, loopVars, toolVars
  <2>11. CASE Create
    <3>1. LoopTyped'
      BY <2>11, <2>a DEF LoopTyped, Create, LoopState, LoopPC, Idle, Answer
    <3>2. admission' \in [Turns -> Admission]
      BY <2>11, <2>a DEF Create, Answer, Admission, LoopTyped
    <3>3. active' \in Turns \cup {NoTurn}
      BY <2>11, <2>a DEF Create, LoopTyped
    <3>4. task' \in [Turns -> TaskState]
      <4>1. task' = [task EXCEPT ![loop.input] =
                       [NewTask EXCEPT !.pc = "begin", !.accepting = TRUE]]
        BY <2>11 DEF Create
      <4>2. [NewTask EXCEPT !.pc = "begin", !.accepting = TRUE] \in TaskState
        <5>1. << >> \in Seq(Turns)
          OBVIOUS
        <5> QED
          BY <5>1 DEF NewTask, TaskState, TaskPC, Running, Reasons
      <4> QED
        BY <4>1, <4>2, <2>b
    <3> QED
      BY <2>11, <3>1, <3>2, <3>3, <3>4 DEF Create, TypeOK, loopVars, toolVars,
         Answer
  <2>12. CASE CheckExpected
    <3>1. LoopTyped'
      BY <2>12, <2>a DEF LoopTyped, CheckExpected, LoopState, LoopPC, Idle
    <3> QED
      BY <2>12, <3>1 DEF CheckExpected, TypeOK, loopVars, toolVars
  <2>13. CASE Interrupt
    <3>1. LoopTyped' /\ task' \in [Turns -> TaskState]
      BY <2>13, AbortType DEF Interrupt, Reasons
    <3> QED
      BY <2>13, <3>1 DEF Interrupt, TypeOK, loopVars, toolVars
  <2>14. CASE Reply
    <3>1. LoopTyped'
      BY <2>14, <2>a DEF LoopTyped, Reply, LoopState, LoopPC, Idle
    <3> QED
      BY <2>14, <3>1 DEF Reply, TypeOK, loopVars, toolVars
  <2>15. CASE Shutdown
    <3>1. LoopTyped' /\ task' \in [Turns -> TaskState]
      BY <2>15, AbortType DEF Shutdown, Reasons
    <3> QED
      BY <2>15, <3>1 DEF Shutdown, TypeOK, loopVars, toolVars
  <2>16. CASE Teardown
    <3>1. LoopTyped'
      BY <2>16, <2>a DEF LoopTyped, Teardown, LoopState, LoopPC, Idle
    <3> QED
      BY <2>16, <3>1 DEF Teardown, TypeOK, loopVars, toolVars
  <2>17. CASE NextEvent
    <3>1. events' \in Seq(Event) /\ Len(events') <= Cap
      BY <2>17, <2>d, HeadTailProperties, SessionAssumption DEF NextEvent
    <3> QED
      BY <2>17, <2>e, <3>1 DEF NextEvent, TypeOK, loopVars, toolVars
  <2>18. ASSUME NEW t \in Turns, Deliver(t) PROVE TypeOK'
    <3>1. task' \in [Turns -> TaskState]
      BY <2>18, <2>b, <2>p DEF Deliver, TaskState
    <3>2. [turn |-> t, kind |-> task[t].out] \in Event
      BY <2>18, <2>b DEF Deliver, Event, TaskState
    <3>3. events' \in Seq(Event) /\ Len(events') <= Cap
      BY <2>18, <3>2, <2>d, SessionAssumption, AppendProperties DEF Deliver,
         Push
    <3> QED
      BY <2>18, <2>e, <3>1, <3>2, <3>3 DEF Deliver, TypeOK, loopVars, toolVars
  <2>19. ASSUME NEW t \in Turns, Begin(t) PROVE TypeOK'
    <3>1. task' \in [Turns -> TaskState]
      BY <2>19, <2>b, <2>p DEF Begin, TaskState
    <3>2. Log(t, "started") \in Record
      BY DEF Log, Record
    <3>3. rollout' \in Seq(Record)
      BY <2>19, <3>2, <2>d, AppendProperties DEF Begin
    <3> QED
      BY <2>19, <2>e, <3>1, <3>2, <3>3 DEF Begin, TypeOK, loopVars, toolVars
  <2>20. ASSUME NEW t \in Turns, RecordInput(t) PROVE TypeOK'
    <3>1. task' \in [Turns -> TaskState]
      BY <2>20, <2>b, <2>p DEF RecordInput, TaskState
    <3>2. LogInput(t, t) \in Record
      BY DEF LogInput, Record
    <3>3. rollout' \in Seq(Record)
      BY <2>20, <3>2, <2>d, AppendProperties DEF RecordInput
    <3> QED
      BY <2>20, <2>e, <3>1, <3>2, <3>3 DEF RecordInput, TypeOK, loopVars, toolVars
  <2>21. ASSUME NEW t \in Turns, Top(t) PROVE TypeOK'
    <3>1. PICK next \in TaskPC :
           task' = [task EXCEPT ![t] = [task[t] EXCEPT !.pc = next, !.followUp = FALSE]]
      BY <2>21, <2>p DEF Top
    <3>2. task' \in [Turns -> TaskState]
      <4>1. [task[t] EXCEPT !.pc = next, !.followUp = FALSE] \in TaskState
        BY <2>b DEF TaskState
      <4> QED
        BY <3>1, <4>1, <2>b
    <3> QED
      BY <2>21, <2>e, <3>1, <3>2 DEF Top, TypeOK, loopVars, toolVars
  <2>22. ASSUME NEW t \in Turns, ToolsDone(t) PROVE TypeOK'
    <3>1. task' \in [Turns -> TaskState]
      <4>1. task' = [task EXCEPT ![t] = [task[t] EXCEPT !.pc = "drain"]]
        BY <2>22 DEF ToolsDone
      <4>2. [task[t] EXCEPT !.pc = "drain"] \in TaskState
        BY <2>b, <2>p DEF TaskState
      <4> QED
        BY <4>1, <4>2, <2>b
    <3> QED
      BY <2>22, <2>e, <3>1 DEF ToolsDone, TypeOK, loopVars, toolVars
  <2>23. ASSUME NEW t \in Turns, Drain(t) PROVE TypeOK'
    <3>1. task' \in [Turns -> TaskState]
      <4>1. << >> \in Seq(Turns)
        OBVIOUS
      <4>2. CASE task' = [task EXCEPT ![t] = [@ EXCEPT !.pc = "top", !.pending = << >>]]
        BY <4>1, <4>2, <2>b, <2>p DEF TaskState
      <4>3. CASE task' = [task EXCEPT ![t] = [@ EXCEPT !.pc = "finish", !.accepting = FALSE]]
        BY <4>3, <2>b, <2>p DEF TaskState
      <4> QED
        BY <2>23, <4>2, <4>3 DEF Drain
    <3>2. rollout' \in Seq(Record)
      BY <2>23, <2>d, InputRecordsType, ConcatProperties DEF Drain
    <3> QED
      BY <2>23, <2>e, <3>1, <3>2 DEF Drain, TypeOK, loopVars, toolVars
  <2>24. ASSUME NEW t \in Turns, Finish(t) PROVE TypeOK'
    <3>1. task' \in [Turns -> TaskState]
      <4>1. PICK next \in {"clear", "hooks"} :
              task' = [task EXCEPT ![t] = [@ EXCEPT !.out = "end", !.pc = next]]
        BY <2>24 DEF Finish
      <4> QED
        BY <4>1, <2>b, <2>p DEF TaskState
    <3>2. Log(t, "aborted") \in Record /\ Log(t, "complete") \in Record
      BY DEF Log, Record
    <3>3. rollout' \in Seq(Record)
      BY <2>24, <3>2, <2>d, AppendProperties DEF Finish
    <3> QED
      BY <2>24, <2>e, <3>1, <3>2, <3>3 DEF Finish, TypeOK, loopVars, toolVars
  <2>25. ASSUME NEW t \in Turns, RunHooks(t) PROVE TypeOK'
    <3>1. task' \in [Turns -> TaskState]
      BY <2>25, <2>b, <2>p DEF RunHooks, TaskState
    <3> QED
      BY <2>25, <2>e, <3>1 DEF RunHooks, TypeOK, loopVars, toolVars
  <2>26. ASSUME NEW t \in Turns, Clear(t) PROVE TypeOK'
    <3>1. active' \in Turns \cup {NoTurn}
      BY <2>26, <2>a DEF Clear
    <3>2. task' \in [Turns -> TaskState]
      BY <2>26, <2>b, <2>p DEF Clear, TaskState
    <3> QED
      BY <2>26, <2>e, <3>1, <3>2 DEF Clear, TypeOK, loopVars, toolVars
  <2>27. ASSUME NEW t \in Turns, Exit(t) PROVE TypeOK'
    <3>1. task' \in [Turns -> TaskState]
      BY <2>27, <2>b, <2>p DEF Exit, TaskState
    <3> QED
      BY <2>27, <2>e, <3>1 DEF Exit, TypeOK, loopVars, toolVars
  <2>28. ASSUME NEW t \in Turns, Compacted(t) PROVE TypeOK'
    <3>1. task' \in [Turns -> TaskState]
      BY <2>28, <2>b, <2>p DEF Compacted, TaskState
    <3> QED
      BY <2>28, <2>e, <3>1 DEF Compacted, TypeOK, loopVars, toolVars
  <2>29. ASSUME NEW t \in Turns, ModelFails(t) PROVE TypeOK'
    <3>1. task' \in [Turns -> TaskState]
      <4>1. task' = [task EXCEPT ![t] = [task[t] EXCEPT !.pc = "finish", !.out = "update",
                                                        !.failed = TRUE, !.followUp = FALSE]]
        BY <2>29 DEF ModelFails, Abandon
      <4>2. [task[t] EXCEPT !.pc = "finish", !.out = "update", !.failed = TRUE,
                            !.followUp = FALSE] \in TaskState
        BY <2>b, <2>p DEF TaskState
      <4> QED
        BY <4>1, <4>2, <2>b
    <3>2. Log(t, "error") \in Record
      BY DEF Log, Record
    <3>3. rollout' \in Seq(Record)
      BY <2>29, <3>2, <2>d, AppendProperties DEF ModelFails, Abandon
    <3> QED
      BY <2>29, <2>e, <3>1, <3>2, <3>3 DEF ModelFails, TypeOK, loopVars, toolVars,
         Abandon
  <2>30. ASSUME NEW t \in Turns, Delta(t) PROVE TypeOK'
    <3>1. task' \in [Turns -> TaskState]
      BY <2>30, <2>b, <2>p DEF Delta, TaskState
    <3> QED
      BY <2>30, <2>e, <3>1 DEF Delta, TypeOK, loopVars, toolVars
  <2>31. ASSUME NEW t \in Turns, BadCallItem(t) PROVE TypeOK'
    <3>1. task' \in [Turns -> TaskState]
      BY <2>31, <2>b, <2>p DEF BadCallItem, TaskState
    <3> QED
      BY <2>31, <2>e, <3>1 DEF BadCallItem, TypeOK, loopVars, toolVars
  <2>32. ASSUME NEW t \in Turns, Completed(t) PROVE TypeOK'
    <3>1. task' \in [Turns -> TaskState]
      <4>1. PICK next \in TaskPC : task' = [task EXCEPT ![t] = [task[t] EXCEPT !.pc = next]]
        BY <2>32, <2>p DEF Completed
      <4>2. [task[t] EXCEPT !.pc = next] \in TaskState
        BY <2>b DEF TaskState
      <4> QED
        BY <4>1, <4>2, <2>b
    <3> QED
      BY <2>32, <2>e, <3>1 DEF Completed, TypeOK, loopVars, toolVars
  <2>33. ASSUME NEW t \in Turns, SeesCancel(t) PROVE TypeOK'
    <3>1. task' \in [Turns -> TaskState]
      <4>1. task' = [task EXCEPT ![t] = [task[t] EXCEPT !.pc = "finish", !.out = "update",
                                                        !.failed = TRUE, !.followUp = FALSE]]
        BY <2>33 DEF SeesCancel, Abandon
      <4>2. [task[t] EXCEPT !.pc = "finish", !.out = "update", !.failed = TRUE,
                            !.followUp = FALSE] \in TaskState
        BY <2>b, <2>p DEF TaskState
      <4> QED
        BY <4>1, <4>2, <2>b
    <3>2. Log(t, "error") \in Record
      BY DEF Log, Record
    <3>3. rollout' \in Seq(Record)
      BY <2>33, <3>2, <2>d, AppendProperties DEF SeesCancel, Abandon
    <3> QED
      BY <2>33, <2>e, <3>1, <3>2, <3>3 DEF SeesCancel, TypeOK, loopVars, toolVars,
         Abandon
  <2>34. ASSUME NEW t \in Turns, NEW c \in Calls, CallItem(t, c) PROVE TypeOK'
    <3>1. task' \in [Turns -> TaskState]
      BY <2>34, <2>b, <2>p DEF CallItem, TaskState
    <3>2. calls' \in [Turns -> [Calls -> CallState]]
      BY <2>34, <2>c DEF CallItem, CallState
    <3> QED
      BY <2>34, <2>e, <3>1, <3>2 DEF CallItem, TypeOK, loopVars, toolVars
  <2>35. ASSUME NEW t \in Turns, NEW c \in Calls, RunDirectly(t, c) PROVE TypeOK'
    <3>1. calls' \in [Turns -> [Calls -> CallState]]
      BY <2>35, <2>c DEF RunDirectly, CallState
    <3> QED
      BY <2>35, <2>e, <3>1 DEF RunDirectly, TypeOK, loopVars, toolVars
  <2>36. ASSUME NEW t \in Turns, NEW c \in Calls, Ask(t, c) PROVE TypeOK'
    <3>1. calls' \in [Turns -> [Calls -> CallState]]
      BY <2>36, <2>c DEF Ask, CallState
    <3>2. approvals' \in [Calls -> Approval]
      BY <2>36, <2>a, <2>c DEF Ask, Approval, NoApproval, Decisions
    <3> QED
      BY <2>36, <2>e, <3>1, <3>2 DEF Ask, TypeOK, loopVars, toolVars
  <2>37. ASSUME NEW t \in Turns, NEW c \in Calls, Asked(t, c) PROVE TypeOK'
    <3>1. calls' \in [Turns -> [Calls -> CallState]]
      BY <2>37, <2>c DEF Asked, CallState
    <3>2. [turn |-> approvals[c].turn, kind |-> "update"] \in Event
      BY <2>c DEF Approval, Event
    <3>3. events' \in Seq(Event) /\ Len(events') <= Cap
      BY <2>37, <3>2, <2>d, SessionAssumption, AppendProperties DEF Asked,
         Push
    <3> QED
      BY <2>37, <2>e, <3>1, <3>2, <3>3 DEF Asked, TypeOK, loopVars, toolVars
  <2>38. ASSUME NEW t \in Turns, NEW c \in Calls, Decided(t, c) PROVE TypeOK'
    <3>1. calls' \in [Turns -> [Calls -> CallState]]
      BY <2>38, <2>c DEF Decided, CallState
    <3>2. approvals' \in [Calls -> Approval]
      BY <2>38, <2>a, <2>c DEF Decided, Approval, NoApproval, Decisions
    <3> QED
      BY <2>38, <2>e, <3>1, <3>2 DEF Decided, TypeOK, loopVars, toolVars
  <2>39. ASSUME NEW t \in Turns, NEW c \in Calls, GiveUp(t, c) PROVE TypeOK'
    <3>1. calls' \in [Turns -> [Calls -> CallState]]
      BY <2>39, <2>c DEF GiveUp, CallState
    <3>2. approvals' \in [Calls -> Approval]
      BY <2>39, <2>a, <2>c DEF GiveUp, Approval, NoApproval, Decisions
    <3> QED
      BY <2>39, <2>e, <3>1, <3>2 DEF GiveUp, TypeOK, loopVars, toolVars
  <2>40. ASSUME NEW t \in Turns, NEW c \in Calls, Finished(t, c) PROVE TypeOK'
    <3>1. calls' \in [Turns -> [Calls -> CallState]]
      BY <2>40, <2>c DEF Finished, CallState
    <3> QED
      BY <2>40, <2>e, <3>1 DEF Finished, TypeOK, loopVars, toolVars
  <2>41. ASSUME NEW t \in Turns, NEW c \in Calls, RecordOutput(t, c) PROVE TypeOK'
    <3>1. task' \in [Turns -> TaskState]
      <4>1. task' = [task EXCEPT ![t] = [task[t] EXCEPT !.out = "update", !.followUp = TRUE]]
        BY <2>41 DEF RecordOutput
      <4>2. [task[t] EXCEPT !.out = "update", !.followUp = TRUE] \in TaskState
        BY <2>b DEF TaskState
      <4> QED
        BY <4>1, <4>2, <2>b
    <3>2. calls' \in [Turns -> [Calls -> CallState]]
      BY <2>41, <2>c DEF RecordOutput, CallState
    <3> QED
      BY <2>41, <2>e, <3>1, <3>2 DEF RecordOutput, TypeOK, loopVars, toolVars
  <2>42. ASSUME NEW t \in Turns, NEW c \in Calls, Output(t, c) PROVE TypeOK'
    <3>1. [turn |-> t, kind |-> "update"] \in Event
      BY DEF Event
    <3>2. events' \in Seq(Event) /\ Len(events') <= Cap
      BY <2>42, <3>1, <2>d, SessionAssumption, AppendProperties DEF Output, Push
    <3> QED
      BY <2>42, <2>e, <3>2 DEF Output, TypeOK, loopVars, toolVars
  <2>43. CASE UNCHANGED vars
    BY <2>43, <2>e DEF TypeOK, vars, loopVars, toolVars
  <2> QED
    BY <2>1, <2>2, <2>3, <2>4, <2>5, <2>6, <2>7, <2>8, <2>9, <2>10, <2>11,
       <2>12, <2>13, <2>14, <2>15, <2>16, <2>17, <2>18, <2>19, <2>20, <2>21,
       <2>22, <2>23, <2>24, <2>25, <2>26, <2>27, <2>28, <2>29, <2>30, <2>31,
       <2>32, <2>33, <2>34, <2>35, <2>36, <2>37, <2>38, <2>39, <2>40, <2>41,
       <2>42, <2>43 DEF Next, Client, Loop, Own, Model, Tool
<1> QED
  BY <1>1, <1>2, PTL DEF Spec

-----------------------------------------------------------------------------
(* Who runs.                                                               *)

\* No turn is created, ends or is aborted for another.
SameStage ==
  \A s \in Turns :
    /\ task'[s].pc \in Running <=> task[s].pc \in Running
    /\ task[s].pc = "none" => task'[s].pc = "none"
    /\ task'[s].reason = task[s].reason

\* A step of a turn's goroutine that keeps its stage keeps ControlInv.
LEMMA ControlFrame ==
  ASSUME TypeOK, ControlInv, SameStage, UNCHANGED <<loop, nextInput, active>>
  PROVE  ControlInv'
PROOF
<1>1. ActiveRuns'
  BY DEF ControlInv, ActiveRuns, SameStage
<1>2. LoopKnows'
  BY DEF ControlInv, LoopKnows
<1>3. FreshTurns'
  BY DEF ControlInv, FreshTurns, HoldsInput, SameStage, TypeOK, LoopTyped
<1>4. NeverReplaced'
  BY DEF ControlInv, NeverReplaced, SameStage
<1> QED
  BY <1>1, <1>2, <1>3, <1>4 DEF ControlInv

\* A step of the loop that leaves the turns alone needs LoopKnows and its input.
LEMMA LoopFrame ==
  ASSUME TypeOK, ControlInv, UNCHANGED <<task, active>>, LoopKnows', nextInput' >= nextInput,
         nextInput' \in Nat,
         HoldsInput' => /\ loop'.input \in Turns /\ loop'.input < nextInput'
                        /\ task[loop'.input].pc = "none"
  PROVE  ControlInv'
PROOF
<1>1. ActiveRuns' /\ NeverReplaced'
  BY DEF ControlInv, ActiveRuns, NeverReplaced
<1>2. nextInput \in Nat /\ \A t \in Turns : t \in Nat
  BY SessionAssumption DEF TypeOK, Turns
<1>3. FreshTurns'
  BY <1>2 DEF ControlInv, FreshTurns, HoldsInput
<1> QED
  BY <1>1, <1>3 DEF ControlInv

\* Cancelling the active turn keeps every stage.
LEMMA AbortKeepsStage ==
  ASSUME TypeOK, NEW why \in Reasons \ {"replaced"}, NEW next, AbortActive(why, next),
         NeverReplaced
  PROVE  /\ \A s \in Turns : task'[s].pc = task[s].pc
         /\ NeverReplaced'
PROOF
<1>1. task \in [Turns -> TaskState] /\ active \in Turns \cup {NoTurn}
  BY DEF TypeOK
<1>2. CASE active = NoTurn
  <2>1. task' = task
    BY <1>2 DEF AbortActive
  <2> QED
    BY <2>1 DEF NeverReplaced
<1>3. CASE active \in Turns
  <2>1. task' = [task EXCEPT ![active] = [@ EXCEPT !.cancelled = TRUE, !.reason = why]]
    BY <1>3 DEF AbortActive, Turns, NoTurn
  <2> QED
    BY <2>1, <1>1, <1>3 DEF NeverReplaced, TaskState
<1> QED
  BY <1>1, <1>2, <1>3

\* s.active is always the one turn that runs: ControlInv is inductive, given the types.
THEOREM ControlCorrect == Spec => []ControlInv
PROOF
<1>1. Init => ControlInv
  BY SessionAssumption DEF Init, ControlInv, ActiveRuns, LoopKnows, FreshTurns,
     NeverReplaced, HoldsInput, Idle, NewTask, Running, Sampling, Closing, Turns,
     NoTurn
<1>2. TypeOK /\ ControlInv /\ [Next]_vars => ControlInv'
  <2> SUFFICES ASSUME TypeOK, ControlInv, [Next]_vars PROVE ControlInv'
    OBVIOUS
  <2>a. LoopTyped /\ loop \in LoopState /\ active \in Turns \cup {NoTurn}
    BY DEF TypeOK, LoopTyped
  <2>b. task \in [Turns -> TaskState]
    BY DEF TypeOK
  <2>c. ActiveRuns /\ LoopKnows /\ FreshTurns /\ NeverReplaced
    BY DEF ControlInv
  <2>d. nextInput \in Nat /\ nextInput >= nextInput
    BY SessionAssumption DEF TypeOK
  <2>1. ASSUME NEW t \in Turns \cup {NoTurn}, SubmitInput(t) PROVE ControlInv'
    <3>1. /\ nextInput \in Turns /\ nextInput' = nextInput + 1 /\ nextInput \in Nat
          /\ loop'.pc = "lookup" /\ loop'.input = nextInput
      BY <2>1, SessionAssumption DEF SubmitInput, TypeOK, Turns, Idle
    <3>2. task[nextInput].pc = "none"
      BY <3>1, <2>c DEF FreshTurns
    <3>3. LoopKnows'
      BY <3>1 DEF LoopKnows
    <3>4. nextInput' >= nextInput /\ nextInput' \in Nat /\ loop'.input < nextInput'
      BY <3>1
    <3> QED
      BY <2>1, <3>1, <3>2, <3>3, <3>4, LoopFrame DEF SubmitInput
  <2>2. ASSUME NEW t \in Turns \cup {NoTurn}, SubmitInterrupt(t) PROVE ControlInv'
    <3>1. LoopKnows' /\ ~HoldsInput'
      BY <2>2, <2>a, <2>c DEF SubmitInterrupt, LoopKnows, HoldsInput, Idle
    <3> QED
      BY <2>2, <3>1, <2>d, LoopFrame DEF SubmitInterrupt
  <2>3. CASE SubmitInvalid
    <3>1. LoopKnows' /\ ~HoldsInput'
      BY <2>3, <2>a, <2>c DEF SubmitInvalid, LoopKnows, HoldsInput, Idle
    <3> QED
      BY <2>3, <3>1, <2>d, LoopFrame DEF SubmitInvalid
  <2>4. CASE SubmitShutdown
    <3>1. LoopKnows' /\ ~HoldsInput'
      BY <2>4, <2>a, <2>c DEF SubmitShutdown, LoopKnows, HoldsInput, Idle
    <3> QED
      BY <2>4, <3>1, <2>d, LoopFrame DEF SubmitShutdown
  <2>5. ASSUME NEW t \in Turns, NEW c \in Calls, NEW d \in Decisions, SubmitApproval(t, c, d) PROVE ControlInv'
    <3>1. SameStage
      BY <2>5 DEF SubmitApproval, SameStage
    <3> QED
      BY <2>5, <3>1, ControlFrame DEF SubmitApproval, loopVars
  <2>6. CASE Complain
    <3>1. LoopKnows' /\ ~HoldsInput'
      BY <2>6, <2>a, <2>c DEF Complain, LoopKnows, HoldsInput, Idle
    <3> QED
      BY <2>6, <3>1, <2>d, LoopFrame DEF Complain
  <2>7. CASE Lookup
    <3>1. loop.input \in Turns /\ loop.input < nextInput /\ task[loop.input].pc = "none"
      BY <2>7, <2>a, <2>c DEF Lookup, LoopTyped, FreshTurns, HoldsInput
    <3>2. \/ loop'.pc = "enqueue" /\ loop'.input = loop.input
          \/ loop'.pc = "spawn" /\ loop'.input = loop.input /\ active = NoTurn
          \/ loop'.pc = "receive"
      <4>1. CASE loop' = [loop EXCEPT !.pc = "enqueue", !.task = active]
        BY <4>1, <2>a DEF LoopState
      <4>2. CASE active = NoTurn /\ loop' = [loop EXCEPT !.pc = "spawn"]
        BY <4>2, <2>a DEF LoopState
      <4>3. CASE loop' = Idle
        BY <4>3 DEF Idle
      <4> QED
        BY <2>7, <4>1, <4>2, <4>3 DEF Lookup, Answer
    <3>3. LoopKnows' /\ active' = active
      BY <2>7, <3>2 DEF Lookup, LoopKnows
    <3>4. HoldsInput' => loop'.input = loop.input
      BY <3>2 DEF HoldsInput
    <3> QED
      BY <2>7, <3>1, <3>3, <3>4, <2>d, LoopFrame DEF Lookup
  <2>8. CASE Enqueue
    <3>1. SameStage
      <4>1. CASE task' = task
        BY <4>1 DEF SameStage
      <4>2. CASE task' = [task EXCEPT ![loop.task].pending = Append(@, loop.input)]
        BY <4>2, <2>b DEF SameStage, TaskState
      <4> QED
        BY <2>8, <4>1, <4>2 DEF Enqueue
    <3>2. loop' = Idle /\ active' = active /\ nextInput' = nextInput
      BY <2>8 DEF Enqueue, Answer
    <3>3. ActiveRuns' /\ NeverReplaced'
      BY <3>1, <3>2, <2>c DEF ActiveRuns, NeverReplaced, SameStage
    <3>4. LoopKnows'
      BY <3>2 DEF LoopKnows, Idle
    <3>5. FreshTurns'
      BY <3>1, <3>2, <2>c DEF FreshTurns, HoldsInput, Idle, SameStage
    <3> QED
      BY <3>3, <3>4, <3>5 DEF ControlInv
  <2>9. CASE Await
    <3>1. active = NoTurn
      BY <2>9, <2>a, <2>c DEF Await, LoopKnows, ActiveRuns, LoopTyped, Running,
         Sampling, Closing
    <3>2. LoopKnows'
      BY <2>9, <3>1, <2>a, <2>c DEF Await, LoopKnows, LoopTyped, LoopState
    <3>3. ~HoldsInput'
      BY <2>9, <2>a, <2>c DEF Await, HoldsInput, LoopKnows, LoopTyped, LoopState
    <3> QED
      BY <2>9, <3>2, <3>3, <2>d, LoopFrame DEF Await
  <2>10. CASE Spawn
    <3>1. active = NoTurn
      BY <2>10, <2>c DEF Spawn, LoopKnows
    <3>2. loop' = [loop EXCEPT !.pc = "create"] /\ task' = task
      BY <2>10, <3>1 DEF Spawn, AbortActive
    <3>3. LoopKnows'
      BY <2>10, <3>1, <3>2, <2>a DEF Spawn, LoopKnows, LoopState
    <3>4. loop'.input = loop.input
      BY <3>2, <2>a DEF LoopState
    <3>5. loop.input \in Turns /\ loop.input < nextInput /\ task[loop.input].pc = "none"
      BY <2>10, <2>a, <2>c DEF Spawn, LoopTyped, FreshTurns, HoldsInput
    <3> QED
      BY <2>10, <3>2, <3>3, <3>4, <3>5, <2>d, LoopFrame DEF Spawn
  <2>11. CASE Create
    <3>1. active = NoTurn /\ loop.input \in Turns /\ loop.input < nextInput
      BY <2>11, <2>a, <2>c DEF Create, LoopTyped, LoopKnows, FreshTurns, HoldsInput
    <3>2. /\ task'[loop.input].pc = "begin" /\ task'[loop.input].reason = "none"
          /\ \A s \in Turns \ {loop.input} : task'[s] = task[s]
      BY <2>11, <3>1, <2>b DEF Create, NewTask
    <3>3. loop' = Idle /\ active' = loop.input /\ nextInput' = nextInput
      BY <2>11 DEF Create, Answer
    <3>4. ActiveRuns'
      BY <3>1, <3>2, <3>3, <2>c DEF ActiveRuns, Running, Turns, NoTurn
    <3>5. LoopKnows' /\ ~HoldsInput'
      BY <3>3 DEF LoopKnows, HoldsInput, Idle
    <3>6. FreshTurns'
      BY <3>1, <3>2, <3>3, <3>5, <2>c, <2>d DEF FreshTurns, Turns
    <3>7. NeverReplaced'
      BY <3>2, <2>c DEF NeverReplaced
    <3> QED
      BY <3>4, <3>5, <3>6, <3>7 DEF ControlInv
  <2>12. CASE CheckExpected
    <3>1. \/ /\ loop' = [loop EXCEPT !.pc = "interrupt"]
             /\ loop.expected = NoTurn \/ loop.expected = active
          \/ loop' = Idle
      BY <2>12 DEF CheckExpected
    <3>2. LoopKnows' /\ ~HoldsInput'
      BY <2>12, <3>1, <2>a DEF CheckExpected, LoopKnows, HoldsInput, LoopState, Idle
    <3> QED
      BY <2>12, <3>2, <2>d, LoopFrame DEF CheckExpected
  <2>13. CASE Interrupt
    <3>1. (\A s \in Turns : task'[s].pc = task[s].pc) /\ NeverReplaced'
      BY <2>13, <2>c, AbortKeepsStage DEF Interrupt, Reasons
    <3>2. ActiveRuns'
      BY <2>13, <3>1, <2>c DEF Interrupt, ActiveRuns
    <3>3. \/ active = NoTurn /\ loop' = [loop EXCEPT !.pc = "reply"]
          \/ loop' = [loop EXCEPT !.pc = "await", !.task = active, !.then = "reply"]
      BY <2>13 DEF Interrupt, AbortActive
    <3>4. LoopKnows' /\ ~HoldsInput'
      BY <2>13, <3>3, <2>a DEF Interrupt, LoopKnows, HoldsInput, LoopState
    <3>5. FreshTurns'
      BY <2>13, <3>1, <3>4, <2>c DEF Interrupt, FreshTurns
    <3> QED
      BY <3>1, <3>2, <3>4, <3>5 DEF ControlInv
  <2>14. CASE Reply
    <3>1. LoopKnows' /\ ~HoldsInput'
      BY <2>14, <2>a, <2>c DEF Reply, LoopKnows, HoldsInput, Idle
    <3> QED
      BY <2>14, <3>1, <2>d, LoopFrame DEF Reply
  <2>15. CASE Shutdown
    <3>1. (\A s \in Turns : task'[s].pc = task[s].pc) /\ NeverReplaced'
      BY <2>15, <2>c, AbortKeepsStage DEF Shutdown, Reasons
    <3>2. ActiveRuns'
      BY <2>15, <3>1, <2>c DEF Shutdown, ActiveRuns
    <3>3. \/ active = NoTurn /\ loop' = [loop EXCEPT !.pc = "teardown"]
          \/ loop' = [loop EXCEPT !.pc = "await", !.task = active, !.then = "teardown"]
      BY <2>15 DEF Shutdown, AbortActive
    <3>4. LoopKnows' /\ ~HoldsInput'
      BY <2>15, <3>3, <2>a DEF Shutdown, LoopKnows, HoldsInput, LoopState
    <3>5. FreshTurns'
      BY <2>15, <3>1, <3>4, <2>c DEF Shutdown, FreshTurns
    <3> QED
      BY <3>1, <3>2, <3>4, <3>5 DEF ControlInv
  <2>16. CASE Teardown
    <3>1. LoopKnows' /\ ~HoldsInput'
      BY <2>16, <2>a, <2>c DEF Teardown, LoopKnows, HoldsInput, Idle
    <3> QED
      BY <2>16, <3>1, <2>d, LoopFrame DEF Teardown
  <2>17. CASE NextEvent
    <3>1. SameStage
      BY <2>17 DEF NextEvent, SameStage
    <3> QED
      BY <2>17, <3>1, ControlFrame DEF NextEvent, loopVars
  <2>18. ASSUME NEW t \in Turns, Deliver(t) PROVE ControlInv'
    <3>1. SameStage
      BY <2>18, <2>b DEF Deliver, SameStage, Running, Sampling, Closing, TaskState
    <3> QED
      BY <2>18, <3>1, ControlFrame DEF Deliver, loopVars
  <2>19. ASSUME NEW t \in Turns, Begin(t) PROVE ControlInv'
    <3>1. SameStage
      BY <2>19, <2>b DEF Begin, At, SameStage, Running, Sampling, Closing, TaskState
    <3> QED
      BY <2>19, <3>1, ControlFrame DEF Begin, loopVars
  <2>20. ASSUME NEW t \in Turns, RecordInput(t) PROVE ControlInv'
    <3>1. SameStage
      BY <2>20, <2>b DEF RecordInput, At, SameStage, Running, Sampling, Closing,
         TaskState
    <3> QED
      BY <2>20, <3>1, ControlFrame DEF RecordInput, loopVars
  <2>21. ASSUME NEW t \in Turns, Top(t) PROVE ControlInv'
    <3>1. PICK next \in {"compact", "sample"} :
             task' = [task EXCEPT ![t] = [@ EXCEPT !.pc = next, !.followUp = FALSE]]
      BY <2>21 DEF Top
    <3>2. SameStage
      BY <2>21, <3>1, <2>b DEF Top, At, SameStage, Running, Sampling, Closing,
         TaskState
    <3> QED
      BY <2>21, <3>2, ControlFrame DEF Top, loopVars
  <2>22. ASSUME NEW t \in Turns, ToolsDone(t) PROVE ControlInv'
    <3>1. SameStage
      BY <2>22, <2>b DEF ToolsDone, At, SameStage, Running, Sampling, Closing,
         TaskState
    <3> QED
      BY <2>22, <3>1, ControlFrame DEF ToolsDone, loopVars
  <2>23. ASSUME NEW t \in Turns, Drain(t) PROVE ControlInv'
    <3>1. SameStage
      <4>1. CASE task' = [task EXCEPT ![t] = [@ EXCEPT !.pc = "top", !.pending = << >>]]
        BY <2>23, <4>1, <2>b DEF Drain, At, SameStage, TaskState, Running, Sampling
      <4>2. CASE task' = [task EXCEPT ![t] = [@ EXCEPT !.pc = "finish", !.accepting = FALSE]]
        BY <2>23, <4>2, <2>b DEF Drain, At, SameStage, TaskState, Running, Sampling, Closing
      <4> QED
        BY <2>23, <4>1, <4>2 DEF Drain
    <3> QED
      BY <2>23, <3>1, ControlFrame DEF Drain, loopVars
  <2>24. ASSUME NEW t \in Turns, Finish(t) PROVE ControlInv'
    <3>1. PICK next \in {"clear", "hooks"} :
             task' = [task EXCEPT ![t] = [@ EXCEPT !.out = "end", !.pc = next]]
      BY <2>24 DEF Finish
    <3>2. SameStage
      BY <2>24, <3>1, <2>b DEF Finish, At, SameStage, Running, Sampling, Closing,
         TaskState
    <3> QED
      BY <2>24, <3>2, ControlFrame DEF Finish, loopVars
  <2>25. ASSUME NEW t \in Turns, RunHooks(t) PROVE ControlInv'
    <3>1. SameStage
      BY <2>25, <2>b DEF RunHooks, At, SameStage, Running, Sampling, Closing,
         TaskState
    <3> QED
      BY <2>25, <3>1, ControlFrame DEF RunHooks, loopVars
  <2>26. ASSUME NEW t \in Turns, Clear(t) PROVE ControlInv'
    <3>1. /\ task[t].pc = "clear" /\ task'[t].pc = "closing" /\ task'[t].reason = task[t].reason
          /\ \A s \in Turns \ {t} : task'[s] = task[s]
      BY <2>26, <2>b DEF Clear, At, TaskState
    <3>2. active = t
      BY <3>1, <2>c DEF ActiveRuns, Running, Closing
    <3>3. active' = NoTurn /\ UNCHANGED <<loop, nextInput>>
      BY <2>26, <3>2 DEF Clear, loopVars
    <3>4. ActiveRuns'
      BY <3>1, <3>2, <3>3, <2>c DEF ActiveRuns, Running, Sampling, Closing, Turns,
         NoTurn
    <3>5. LoopKnows'
      BY <3>3, <2>c DEF LoopKnows
    <3>6. FreshTurns'
      BY <3>1, <3>3, <2>a, <2>c DEF FreshTurns, HoldsInput, LoopTyped
    <3>7. NeverReplaced'
      BY <3>1, <2>c DEF NeverReplaced
    <3> QED
      BY <3>4, <3>5, <3>6, <3>7 DEF ControlInv
  <2>27. ASSUME NEW t \in Turns, Exit(t) PROVE ControlInv'
    <3>1. SameStage
      BY <2>27, <2>b DEF Exit, At, SameStage, Running, Sampling, Closing, TaskState
    <3> QED
      BY <2>27, <3>1, ControlFrame DEF Exit, loopVars
  <2>28. ASSUME NEW t \in Turns, Compacted(t) PROVE ControlInv'
    <3>1. SameStage
      BY <2>28, <2>b DEF Compacted, At, SameStage, Running, Sampling, Closing,
         TaskState
    <3> QED
      BY <2>28, <3>1, ControlFrame DEF Compacted, loopVars
  <2>29. ASSUME NEW t \in Turns, ModelFails(t) PROVE ControlInv'
    <3>1. SameStage
      BY <2>29, <2>b DEF ModelFails, At, SameStage, Running, Sampling, Closing,
         TaskState, Abandon
    <3> QED
      BY <2>29, <3>1, ControlFrame DEF ModelFails, loopVars, Abandon
  <2>30. ASSUME NEW t \in Turns, Delta(t) PROVE ControlInv'
    <3>1. SameStage
      BY <2>30, <2>b DEF Delta, At, SameStage, Running, Sampling, Closing, TaskState
    <3> QED
      BY <2>30, <3>1, ControlFrame DEF Delta, loopVars
  <2>31. ASSUME NEW t \in Turns, BadCallItem(t) PROVE ControlInv'
    <3>1. SameStage
      BY <2>31, <2>b DEF BadCallItem, At, SameStage, Running, Sampling, Closing,
         TaskState
    <3> QED
      BY <2>31, <3>1, ControlFrame DEF BadCallItem, loopVars
  <2>32. ASSUME NEW t \in Turns, Completed(t) PROVE ControlInv'
    <3>1. PICK next \in {"tools", "drain"} : task' = [task EXCEPT ![t].pc = next]
      BY <2>32 DEF Completed
    <3>2. SameStage
      BY <2>32, <3>1, <2>b DEF Completed, At, SameStage, Running, Sampling, Closing,
         TaskState
    <3> QED
      BY <2>32, <3>2, ControlFrame DEF Completed, loopVars
  <2>33. ASSUME NEW t \in Turns, SeesCancel(t) PROVE ControlInv'
    <3>1. SameStage
      BY <2>33, <2>b DEF SeesCancel, At, SameStage, Running, Sampling, Closing,
         TaskState, Abandon
    <3> QED
      BY <2>33, <3>1, ControlFrame DEF SeesCancel, loopVars, Abandon
  <2>34. ASSUME NEW t \in Turns, NEW c \in Calls, CallItem(t, c) PROVE ControlInv'
    <3>1. SameStage
      BY <2>34, <2>b DEF CallItem, At, SameStage, Running, Sampling, Closing,
         TaskState
    <3> QED
      BY <2>34, <3>1, ControlFrame DEF CallItem, loopVars
  <2>35. ASSUME NEW t \in Turns, NEW c \in Calls, RunDirectly(t, c) PROVE ControlInv'
    <3>1. SameStage
      BY <2>35 DEF RunDirectly, SameStage
    <3> QED
      BY <2>35, <3>1, ControlFrame DEF RunDirectly, loopVars
  <2>36. ASSUME NEW t \in Turns, NEW c \in Calls, Ask(t, c) PROVE ControlInv'
    <3>1. SameStage
      BY <2>36 DEF Ask, SameStage
    <3> QED
      BY <2>36, <3>1, ControlFrame DEF Ask, loopVars
  <2>37. ASSUME NEW t \in Turns, NEW c \in Calls, Asked(t, c) PROVE ControlInv'
    <3>1. SameStage
      BY <2>37 DEF Asked, SameStage
    <3> QED
      BY <2>37, <3>1, ControlFrame DEF Asked, loopVars
  <2>38. ASSUME NEW t \in Turns, NEW c \in Calls, Decided(t, c) PROVE ControlInv'
    <3>1. SameStage
      BY <2>38 DEF Decided, SameStage
    <3> QED
      BY <2>38, <3>1, ControlFrame DEF Decided, loopVars
  <2>39. ASSUME NEW t \in Turns, NEW c \in Calls, GiveUp(t, c) PROVE ControlInv'
    <3>1. SameStage
      BY <2>39 DEF GiveUp, SameStage
    <3> QED
      BY <2>39, <3>1, ControlFrame DEF GiveUp, loopVars
  <2>40. ASSUME NEW t \in Turns, NEW c \in Calls, Output(t, c) PROVE ControlInv'
    <3>1. SameStage
      BY <2>40 DEF Output, SameStage
    <3> QED
      BY <2>40, <3>1, ControlFrame DEF Output, loopVars
  <2>41. ASSUME NEW t \in Turns, NEW c \in Calls, Finished(t, c) PROVE ControlInv'
    <3>1. SameStage
      BY <2>41 DEF Finished, SameStage
    <3> QED
      BY <2>41, <3>1, ControlFrame DEF Finished, loopVars
  <2>42. ASSUME NEW t \in Turns, NEW c \in Calls, RecordOutput(t, c) PROVE ControlInv'
    <3>1. SameStage
      BY <2>42, <2>b DEF RecordOutput, At, SameStage, Running, Sampling, Closing,
         TaskState
    <3> QED
      BY <2>42, <3>1, ControlFrame DEF RecordOutput, loopVars
  <2>43. CASE UNCHANGED vars
    BY <2>43, ControlFrame DEF vars, loopVars, SameStage
  <2> QED
    BY <2>1, <2>2, <2>3, <2>4, <2>5, <2>6, <2>7, <2>8, <2>9, <2>10, <2>11, <2>12,
       <2>13, <2>14, <2>15, <2>16, <2>17, <2>18, <2>19, <2>20, <2>21, <2>22, <2>23,
       <2>24, <2>25, <2>26, <2>27, <2>28, <2>29, <2>30, <2>31, <2>32, <2>33, <2>34,
       <2>35, <2>36, <2>37, <2>38, <2>39, <2>40, <2>41, <2>42, <2>43 DEF Next,
       Client, Loop, Own, Model, Tool
<1> QED
  BY <1>1, <1>2, TypeCorrect,  PTL DEF Spec

-----------------------------------------------------------------------------
(* Where steers are.                                                       *)

\* A record of the history stays there.
LEMMA RecordedForGood ==
  ASSUME TypeOK, NEW more \in Seq(Record), rollout' = rollout \o more,
         NEW i \in Turns, Recorded(i)
  PROVE  Recorded(i)'
PROOF
<1>1. rollout \in Seq(Record)
  BY DEF TypeOK
<1>2. PICK k \in DOMAIN rollout : rollout[k].kind = "input" /\ rollout[k].input = i
  BY DEF Recorded
<1>3. k \in DOMAIN rollout' /\ rollout'[k] = rollout[k]
  BY <1>1, <1>2, ConcatProperties
<1> QED
  BY <1>2, <1>3 DEF Recorded

\* The same, of the one record that most steps append.
LEMMA RecordedAfterAppend ==
  ASSUME TypeOK, NEW r \in Record, rollout' = Append(rollout, r), NEW i \in Turns, Recorded(i)
  PROVE  Recorded(i)'
PROOF
<1>1. rollout \in Seq(Record)
  BY DEF TypeOK
<1>2. PICK k \in DOMAIN rollout : rollout[k].kind = "input" /\ rollout[k].input = i
  BY DEF Recorded
<1>3. k \in DOMAIN rollout' /\ rollout'[k] = rollout[k]
  BY <1>1, <1>2, AppendProperties
<1> QED
  BY <1>2, <1>3 DEF Recorded

\* A step that admits nothing keeps QueueInv, if the turns it closes have read
\* their queues and what leaves a queue is in the history.
LEMMA QueueFrame ==
  ASSUME QueueInv, admission' = admission, NEW t \in Turns,
         \A s \in Turns \ {t} : task'[s] = task[s],
         \/ task'[t].pc = "none"
         \/ task'[t].pc \in Closing \cup {"closing", "exited"} /\ ~task'[t].failed
         => Closed(t)',
         \A i \in Turns : Recorded(i) => Recorded(i)',
         \A i \in Turns : Queued(i, t) => Queued(i, t)' \/ Recorded(i)'
  PROVE  QueueInv'
PROOF
<1>1. QueuesClosed'
  BY DEF QueueInv, QueuesClosed, Closed
<1>2. SteersKept'
  <2> SUFFICES ASSUME NEW i \in Turns, admission[i].mode = "steered"
               PROVE  /\ admission[i].turn \in Turns
                      /\ Recorded(i)' \/ Queued(i, admission[i].turn)'
    BY DEF SteersKept
  <2>1. admission[i].turn \in Turns /\ (Recorded(i) \/ Queued(i, admission[i].turn))
    BY DEF QueueInv, SteersKept
  <2>2. CASE admission[i].turn = t
    BY <2>1, <2>2
  <2>3. CASE admission[i].turn # t
    BY <2>1, <2>3 DEF Queued
  <2> QED
    BY <2>1, <2>2, <2>3
<1> QED
  BY <1>1, <1>2 DEF QueueInv

\* A step that changes neither turns' queues nor the history keeps QueueInv.
SameQueues ==
  \A s \in Turns :
    /\ task'[s].pc = task[s].pc /\ task'[s].failed = task[s].failed
    /\ task'[s].accepting = task[s].accepting /\ task'[s].pending = task[s].pending

LEMMA QueuesUntouched ==
  ASSUME QueueInv, SameQueues, UNCHANGED <<admission, rollout>>
  PROVE  QueueInv'
PROOF
<1>1. QueuesClosed'
  BY DEF QueueInv, QueuesClosed, Closed, SameQueues
<1>2. \A i, s \in Turns : Queued(i, s)' <=> Queued(i, s)
  BY DEF Queued, SameQueues
<1>3. \A i \in Turns : Recorded(i)' <=> Recorded(i)
  BY DEF Recorded
<1>4. SteersKept'
  BY <1>2, <1>3 DEF QueueInv, SteersKept
<1> QED
  BY <1>1, <1>4 DEF QueueInv

\* Answering an input otherwise than "steered" keeps QueueInv.
LEMMA AnsweredElsewise ==
  ASSUME TypeOK, QueueInv, UNCHANGED <<task, rollout>>, loop.input \in Turns,
         NEW how \in {"started", "rejected"}, NEW s, Answer(how, s)
  PROVE  QueueInv'
PROOF
<1>1. QueuesClosed'
  BY DEF QueueInv, QueuesClosed, Closed
<1>2. /\ \A i \in Turns \ {loop.input} : admission'[i] = admission[i]
      /\ admission'[loop.input].mode = how
  BY DEF Answer, TypeOK
<1>3. \A i \in Turns, u \in Turns : Queued(i, u)' = Queued(i, u)
  BY DEF Queued
<1>4. \A i \in Turns : Recorded(i)' = Recorded(i)
  BY DEF Recorded
<1>5. SteersKept'
  BY <1>2, <1>3, <1>4 DEF QueueInv, SteersKept
<1> QED
  BY <1>1, <1>5 DEF QueueInv

\* No steer is lost before its turn closes its queue: QueueInv is inductive, given
\* the types and ControlInv.
THEOREM QueueCorrect == Spec => []QueueInv
PROOF
<1>1. Init => QueueInv
  BY DEF Init, QueueInv, QueuesClosed, SteersKept, Closed, NewTask
<1>2. TypeOK /\ ControlInv /\ QueueInv /\ [Next]_vars => QueueInv'
  <2> SUFFICES ASSUME TypeOK, ControlInv, QueueInv, [Next]_vars PROVE QueueInv'
    OBVIOUS
  <2>a. LoopTyped /\ loop \in LoopState /\ active \in Turns \cup {NoTurn}
    BY DEF TypeOK, LoopTyped
  <2>b. task \in [Turns -> TaskState]
    BY DEF TypeOK
  <2>c. QueuesClosed /\ SteersKept
    BY DEF QueueInv
  <2>1. ASSUME NEW t \in Turns \cup {NoTurn}, SubmitInput(t) PROVE QueueInv'
    <3>1. SameQueues
      BY <2>1 DEF SubmitInput, SameQueues
    <3> QED
      BY <2>1, <3>1, QueuesUntouched DEF SubmitInput, loopVars
  <2>2. ASSUME NEW t \in Turns \cup {NoTurn}, SubmitInterrupt(t) PROVE QueueInv'
    <3>1. SameQueues
      BY <2>2 DEF SubmitInterrupt, SameQueues
    <3> QED
      BY <2>2, <3>1, QueuesUntouched DEF SubmitInterrupt, loopVars
  <2>3. CASE SubmitInvalid
    <3>1. SameQueues
      BY <2>3 DEF SubmitInvalid, SameQueues
    <3> QED
      BY <2>3, <3>1, QueuesUntouched DEF SubmitInvalid, loopVars
  <2>4. CASE SubmitShutdown
    <3>1. SameQueues
      BY <2>4 DEF SubmitShutdown, SameQueues
    <3> QED
      BY <2>4, <3>1, QueuesUntouched DEF SubmitShutdown, loopVars
  <2>5. ASSUME NEW t \in Turns, NEW c \in Calls, NEW d \in Decisions, SubmitApproval(t, c, d) PROVE QueueInv'
    <3>1. SameQueues
      BY <2>5 DEF SubmitApproval, SameQueues
    <3> QED
      BY <2>5, <3>1, QueuesUntouched DEF SubmitApproval, loopVars
  <2>6. CASE Complain
    <3>1. SameQueues
      BY <2>6 DEF Complain, SameQueues
    <3> QED
      BY <2>6, <3>1, QueuesUntouched DEF Complain, loopVars
  <2>7. CASE Lookup
    <3>1. CASE UNCHANGED admission
      <4>1. SameQueues
        BY <2>7 DEF Lookup, SameQueues
      <4> QED
        BY <2>7, <3>1, <4>1, QueuesUntouched DEF Lookup
    <3>2. CASE Answer("rejected", NoTurn)
      BY <2>7, <3>2, <2>a, AnsweredElsewise DEF Lookup, LoopTyped
    <3> QED
      BY <2>7, <3>1, <3>2 DEF Lookup
  <2>8. CASE Enqueue
    <3>1. loop.input \in Turns /\ loop.task \in Turns
      BY <2>8, <2>a DEF Enqueue, LoopTyped
    <3>2. CASE ~task[loop.task].accepting
      BY <2>8, <3>1, <3>2, AnsweredElsewise DEF Enqueue
    <3>3. CASE task[loop.task].accepting
      <4> PICK t \in Turns, j \in Turns : t = loop.task /\ j = loop.input
        BY <3>1
      <4>1. /\ Answer("steered", t)
            /\ task' = [task EXCEPT ![t].pending = Append(@, j)]
            /\ UNCHANGED rollout
        BY <2>8, <3>3 DEF Enqueue
      <4>2. /\ \A i \in Turns \ {j} : admission'[i] = admission[i]
            /\ admission'[j].turn = t
        BY <4>1 DEF Answer, TypeOK
      <4>3. /\ \A s \in Turns \ {t} : task'[s] = task[s]
            /\ task'[t].pc = task[t].pc
            /\ task'[t].failed = task[t].failed
            /\ task'[t].pending = Append(task[t].pending, j)
        BY <4>1, <2>b DEF TaskState
      <4>4. QueuesClosed'
        BY <4>3, <3>3, <2>c DEF QueuesClosed, Closed
      <4>5. task[t].pending \in Seq(Turns)
        BY <2>b DEF TaskState
      <4>6. LET after == Append(task[t].pending, j) IN
              /\ \A k \in DOMAIN task[t].pending :
                   k \in DOMAIN after /\ after[k] = task[t].pending[k]
              /\ Len(task[t].pending) + 1 \in DOMAIN after
              /\ after[Len(task[t].pending) + 1] = j
        <5> PICK s \in Seq(Turns) : s = task[t].pending
          BY <4>5
        <5>1. j \in Turns /\ Len(s) \in Nat /\ DOMAIN s = 1 .. Len(s)
          BY <3>3
        <5>2. /\ DOMAIN Append(s, j) = 1 .. Len(s) + 1 /\ Append(s, j)[Len(s) + 1] = j
              /\ \A k \in 1 .. Len(s) : Append(s, j)[k] = s[k]
          BY <5>1, AppendProperties
        <5>3. \A k \in 1 .. Len(s) : k \in 1 .. Len(s) + 1
          BY <5>1
        <5>4. Len(s) + 1 \in 1 .. Len(s) + 1
          BY <5>1
        <5> QED
          BY <5>1, <5>2, <5>3, <5>4
      <4>7. Queued(j, t)' /\ \A i \in Turns : Queued(i, t) => Queued(i, t)'
        BY <4>3, <4>6 DEF Queued
      <4>8. \A i \in Turns, s \in Turns \ {t} : Queued(i, s) => Queued(i, s)'
        BY <4>3 DEF Queued
      <4>9. \A i \in Turns : Recorded(i) => Recorded(i)'
        BY <4>1 DEF Recorded
      <4>10. SteersKept'
        BY <4>2, <4>7, <4>8, <4>9, <2>c DEF SteersKept
      <4> QED
        BY <4>4, <4>10 DEF QueueInv
    <3> QED
      BY <3>2, <3>3
  <2>9. CASE Await
    <3>1. SameQueues
      BY <2>9 DEF Await, SameQueues
    <3> QED
      BY <2>9, <3>1, QueuesUntouched DEF Await, loopVars
  <2>10. CASE Spawn
    <3>1. SameQueues
      <4>1. CASE task' = task
        BY <4>1 DEF SameQueues
      <4>2. CASE active \in Turns /\ \E why \in Reasons :
              task' = [task EXCEPT ![active] = [@ EXCEPT !.cancelled = TRUE, !.reason = why]]
        BY <4>2, <2>b DEF SameQueues, TaskState
      <4> QED
        BY <2>10, <2>a, <4>1, <4>2 DEF Spawn, AbortActive, Reasons, Turns, NoTurn
    <3> QED
      BY <2>10, <3>1, QueuesUntouched DEF Spawn
  <2>11. CASE Create
    <3>1. loop.input \in Turns /\ task[loop.input].pc = "none"
      BY <2>11, <2>a DEF Create, LoopTyped, ControlInv, FreshTurns, HoldsInput
    <3>2. /\ task'[loop.input].pc = "begin" /\ UNCHANGED rollout
          /\ \A s \in Turns \ {loop.input} : task'[s] = task[s]
      BY <2>11, <3>1, <2>b DEF Create, NewTask
    <3>3. /\ \A i \in Turns \ {loop.input} : admission'[i] = admission[i]
          /\ admission'[loop.input].mode = "started"
      BY <2>11, <3>1 DEF Create, Answer, TypeOK
    <3>4. task[loop.input].pending = << >>
      BY <3>1, <2>c DEF QueuesClosed, Closed
    <3>5. \A i \in Turns : ~Queued(i, loop.input)
      BY <3>4 DEF Queued
    <3>6. \A i \in Turns, s \in Turns \ {loop.input} : Queued(i, s) => Queued(i, s)'
      BY <3>2 DEF Queued
    <3>7. \A i \in Turns : Recorded(i) => Recorded(i)'
      BY <3>2 DEF Recorded
    <3>8. QueuesClosed'
      BY <3>1, <3>2, <2>c DEF QueuesClosed, Closed, Closing
    <3>9. SteersKept'
      BY <3>3, <3>5, <3>6, <3>7, <2>c DEF SteersKept
    <3> QED
      BY <3>8, <3>9 DEF QueueInv
  <2>12. CASE CheckExpected
    <3>1. SameQueues
      BY <2>12 DEF CheckExpected, SameQueues
    <3> QED
      BY <2>12, <3>1, QueuesUntouched DEF CheckExpected, loopVars
  <2>13. CASE Interrupt
    <3>1. SameQueues
      <4>1. CASE task' = task
        BY <4>1 DEF SameQueues
      <4>2. CASE active \in Turns /\ \E why \in Reasons :
              task' = [task EXCEPT ![active] = [@ EXCEPT !.cancelled = TRUE, !.reason = why]]
        BY <4>2, <2>b DEF SameQueues, TaskState
      <4> QED
        BY <2>13, <2>a, <4>1, <4>2 DEF Interrupt, AbortActive, Reasons, Turns, NoTurn
    <3> QED
      BY <2>13, <3>1, QueuesUntouched DEF Interrupt
  <2>14. CASE Reply
    <3>1. SameQueues
      BY <2>14 DEF Reply, SameQueues
    <3> QED
      BY <2>14, <3>1, QueuesUntouched DEF Reply, loopVars
  <2>15. CASE Shutdown
    <3>1. SameQueues
      <4>1. CASE task' = task
        BY <4>1 DEF SameQueues
      <4>2. CASE active \in Turns /\ \E why \in Reasons :
              task' = [task EXCEPT ![active] = [@ EXCEPT !.cancelled = TRUE, !.reason = why]]
        BY <4>2, <2>b DEF SameQueues, TaskState
      <4> QED
        BY <2>15, <2>a, <4>1, <4>2 DEF Shutdown, AbortActive, Reasons, Turns, NoTurn
    <3> QED
      BY <2>15, <3>1, QueuesUntouched DEF Shutdown
  <2>16. CASE Teardown
    <3>1. SameQueues
      BY <2>16 DEF Teardown, SameQueues
    <3> QED
      BY <2>16, <3>1, QueuesUntouched DEF Teardown, loopVars
  <2>17. CASE NextEvent
    <3>1. SameQueues
      BY <2>17 DEF NextEvent, SameQueues
    <3> QED
      BY <2>17, <3>1, QueuesUntouched DEF NextEvent, loopVars
  <2>18. ASSUME NEW t \in Turns, Deliver(t) PROVE QueueInv'
    <3>1. SameQueues
      BY <2>18, <2>b DEF Deliver, SameQueues, TaskState
    <3> QED
      BY <2>18, <3>1, QueuesUntouched DEF Deliver, loopVars
  <2>19. ASSUME NEW t \in Turns, Begin(t) PROVE QueueInv'
    <3>1. /\ task'[t].pending = task[t].pending /\ task'[t].accepting = task[t].accepting
          /\ \A s \in Turns \ {t} : task'[s] = task[s]
          /\ admission' = admission
          /\ task'[t].pc \in Running \ Closing
      BY <2>19, <2>b DEF Begin, At, TaskState, loopVars, Running, Sampling, Closing
    <3>2. Log(t, "started") \in Record
      BY DEF Log, LogInput, Record
    <3>3. \A i \in Turns : Recorded(i) => Recorded(i)'
      BY <2>19, <3>2, RecordedAfterAppend DEF Begin
    <3>4. \A i \in Turns : Queued(i, t) => Queued(i, t)'
      BY <3>1 DEF Queued
    <3>5. task'[t].pc # "none" /\ task'[t].pc \notin Closing \cup {"closing", "exited"}
      BY <3>1 DEF Running, Sampling, Closing
    <3> QED
      BY <3>1, <3>3, <3>4, <3>5, QueueFrame
  <2>20. ASSUME NEW t \in Turns, RecordInput(t) PROVE QueueInv'
    <3>1. /\ task'[t].pending = task[t].pending /\ task'[t].accepting = task[t].accepting
          /\ \A s \in Turns \ {t} : task'[s] = task[s]
          /\ admission' = admission
          /\ task'[t].pc \in Running \ Closing
      BY <2>20, <2>b DEF RecordInput, At, TaskState, loopVars, Running, Sampling,
         Closing
    <3>2. LogInput(t, t) \in Record
      BY DEF Log, LogInput, Record
    <3>3. \A i \in Turns : Recorded(i) => Recorded(i)'
      BY <2>20, <3>2, RecordedAfterAppend DEF RecordInput
    <3>4. \A i \in Turns : Queued(i, t) => Queued(i, t)'
      BY <3>1 DEF Queued
    <3>5. task'[t].pc # "none" /\ task'[t].pc \notin Closing \cup {"closing", "exited"}
      BY <3>1 DEF Running, Sampling, Closing
    <3> QED
      BY <3>1, <3>3, <3>4, <3>5, QueueFrame
  <2>21. ASSUME NEW t \in Turns, Top(t) PROVE QueueInv'
    <3>1. PICK next \in {"compact", "sample"} :
             task' = [task EXCEPT ![t] = [@ EXCEPT !.pc = next, !.followUp = FALSE]]
      BY <2>21 DEF Top
    <3>2. /\ task'[t].pending = task[t].pending /\ task'[t].accepting = task[t].accepting
          /\ \A s \in Turns \ {t} : task'[s] = task[s]
          /\ admission' = admission
          /\ task'[t].pc \in Running \ Closing
      BY <2>21, <3>1, <2>b DEF Top, At, TaskState, loopVars, Running, Sampling,
         Closing
    <3>3. \A i \in Turns : Recorded(i) => Recorded(i)'
      BY <2>21 DEF Top, Recorded
    <3>4. \A i \in Turns : Queued(i, t) => Queued(i, t)'
      BY <3>2 DEF Queued
    <3>5. task'[t].pc # "none" /\ task'[t].pc \notin Closing \cup {"closing", "exited"}
      BY <3>2 DEF Running, Sampling, Closing
    <3> QED
      BY <3>2, <3>3, <3>4, <3>5, QueueFrame
  <2>22. ASSUME NEW t \in Turns, ToolsDone(t) PROVE QueueInv'
    <3>1. /\ task'[t].pending = task[t].pending /\ task'[t].accepting = task[t].accepting
          /\ \A s \in Turns \ {t} : task'[s] = task[s]
          /\ admission' = admission
          /\ task'[t].pc \in Running \ Closing
      BY <2>22, <2>b DEF ToolsDone, At, TaskState, loopVars, Running, Sampling,
         Closing
    <3>2. \A i \in Turns : Recorded(i) => Recorded(i)'
      BY <2>22 DEF ToolsDone, Recorded
    <3>3. \A i \in Turns : Queued(i, t) => Queued(i, t)'
      BY <3>1 DEF Queued
    <3>4. task'[t].pc # "none" /\ task'[t].pc \notin Closing \cup {"closing", "exited"}
      BY <3>1 DEF Running, Sampling, Closing
    <3> QED
      BY <3>1, <3>2, <3>3, <3>4, QueueFrame
  <2>23. ASSUME NEW t \in Turns, Drain(t) PROVE QueueInv'
    <3>1. /\ task[t].pc = "drain" /\ rollout' = rollout \o InputRecords(t) /\ admission' = admission
      BY <2>23 DEF Drain, At, loopVars
    <3>2. \A i \in Turns : Recorded(i) => Recorded(i)'
      BY <3>1, InputRecordsType, RecordedForGood
    <3>3. \A i \in Turns : Queued(i, t) => Recorded(i)'
      <4> SUFFICES ASSUME NEW i \in Turns, Queued(i, t) PROVE Recorded(i)'
        OBVIOUS
      <4>1. PICK k \in DOMAIN task[t].pending : task[t].pending[k] = i
        BY DEF Queued
      <4>2. task[t].pending \in Seq(Turns) /\ rollout \in Seq(Record)
        BY <2>b DEF TaskState, TypeOK
      <4>3. InputRecords(t) \in Seq(Record)
        BY InputRecordsType
      <4>4. /\ k \in 1 .. Len(InputRecords(t))
            /\ InputRecords(t)[k] = LogInput(t, i)
        BY <4>1, <4>2 DEF InputRecords
      <4>5. /\ Len(rollout) + k \in DOMAIN rollout'
            /\ rollout'[Len(rollout) + k] = LogInput(t, i)
        BY <3>1, <4>2, <4>3, <4>4, ConcatProperties
      <4> QED
        BY <4>5 DEF Recorded, LogInput
    <3>4. CASE task[t].pending # << >> \/ task[t].followUp
      <4>1. /\ task'[t].pc = "top"
            /\ \A s \in Turns \ {t} : task'[s] = task[s]
        BY <2>23, <3>4, <2>b DEF Drain, TaskState
      <4>2. task'[t].pc # "none" /\ task'[t].pc \notin Closing \cup {"closing", "exited"}
        BY <4>1 DEF Closing
      <4> QED
        BY <3>1, <3>2, <3>3, <4>1, <4>2, QueueFrame
    <3>5. CASE ~(task[t].pending # << >> \/ task[t].followUp)
      <4>1. /\ task'[t].accepting = FALSE /\ task'[t].pending = task[t].pending
            /\ \A s \in Turns \ {t} : task'[s] = task[s]
        BY <2>23, <3>5, <2>b DEF Drain, TaskState
      <4>2. Closed(t)'
        BY <3>5, <4>1 DEF Closed
      <4> QED
        BY <3>1, <3>2, <3>3, <4>1, <4>2, QueueFrame
    <3> QED
      BY <3>4, <3>5
  <2>24. ASSUME NEW t \in Turns, Finish(t) PROVE QueueInv'
    <3>1. PICK next \in {"clear", "hooks"} :
             task' = [task EXCEPT ![t] = [@ EXCEPT !.out = "end", !.pc = next]]
      BY <2>24 DEF Finish
    <3>2. /\ task'[t].pending = task[t].pending /\ task'[t].accepting = task[t].accepting
          /\ \A s \in Turns \ {t} : task'[s] = task[s]
          /\ admission' = admission
          /\ task[t].pc \in Closing \cup {"closing"} /\ task'[t].failed = task[t].failed /\ task'[t].pc # "none"
      BY <2>24, <3>1, <2>b DEF Finish, At, TaskState, loopVars, Closing
    <3>3. Log(t, "aborted") \in Record /\ Log(t, "complete") \in Record
      BY DEF Log, Record
    <3>4. \A i \in Turns : Recorded(i) => Recorded(i)'
      BY <2>24, <3>3, RecordedAfterAppend DEF Finish
    <3>5. \A i \in Turns : Queued(i, t) => Queued(i, t)'
      BY <3>2 DEF Queued
    <3>6. task'[t].pc \in Closing \cup {"closing", "exited"} /\ ~task'[t].failed => Closed(t)'
      BY <3>2, <2>c DEF QueuesClosed, Closed
    <3> QED
      BY <3>2, <3>4, <3>5, <3>6, QueueFrame
  <2>25. ASSUME NEW t \in Turns, RunHooks(t) PROVE QueueInv'
    <3>1. /\ task'[t].pending = task[t].pending /\ task'[t].accepting = task[t].accepting
          /\ \A s \in Turns \ {t} : task'[s] = task[s]
          /\ admission' = admission
          /\ task[t].pc \in Closing \cup {"closing"} /\ task'[t].failed = task[t].failed /\ task'[t].pc # "none"
      BY <2>25, <2>b DEF RunHooks, At, TaskState, loopVars, Closing
    <3>2. \A i \in Turns : Recorded(i) => Recorded(i)'
      BY <2>25 DEF RunHooks, Recorded
    <3>3. \A i \in Turns : Queued(i, t) => Queued(i, t)'
      BY <3>1 DEF Queued
    <3>4. task'[t].pc \in Closing \cup {"closing", "exited"} /\ ~task'[t].failed => Closed(t)'
      BY <3>1, <2>c DEF QueuesClosed, Closed
    <3> QED
      BY <3>1, <3>2, <3>3, <3>4, QueueFrame
  <2>26. ASSUME NEW t \in Turns, Clear(t) PROVE QueueInv'
    <3>1. /\ task'[t].pending = task[t].pending /\ task'[t].accepting = task[t].accepting
          /\ \A s \in Turns \ {t} : task'[s] = task[s]
          /\ admission' = admission
          /\ task[t].pc \in Closing \cup {"closing"} /\ task'[t].failed = task[t].failed /\ task'[t].pc # "none"
      BY <2>26, <2>b DEF Clear, At, TaskState, loopVars, Closing
    <3>2. \A i \in Turns : Recorded(i) => Recorded(i)'
      BY <2>26 DEF Clear, Recorded
    <3>3. \A i \in Turns : Queued(i, t) => Queued(i, t)'
      BY <3>1 DEF Queued
    <3>4. task'[t].pc \in Closing \cup {"closing", "exited"} /\ ~task'[t].failed => Closed(t)'
      BY <3>1, <2>c DEF QueuesClosed, Closed
    <3> QED
      BY <3>1, <3>2, <3>3, <3>4, QueueFrame
  <2>27. ASSUME NEW t \in Turns, Exit(t) PROVE QueueInv'
    <3>1. /\ task'[t].pending = task[t].pending /\ task'[t].accepting = task[t].accepting
          /\ \A s \in Turns \ {t} : task'[s] = task[s]
          /\ admission' = admission
          /\ task[t].pc \in Closing \cup {"closing"} /\ task'[t].failed = task[t].failed /\ task'[t].pc # "none"
      BY <2>27, <2>b DEF Exit, At, TaskState, loopVars, Closing
    <3>2. \A i \in Turns : Recorded(i) => Recorded(i)'
      BY <2>27 DEF Exit, Recorded
    <3>3. \A i \in Turns : Queued(i, t) => Queued(i, t)'
      BY <3>1 DEF Queued
    <3>4. task'[t].pc \in Closing \cup {"closing", "exited"} /\ ~task'[t].failed => Closed(t)'
      BY <3>1, <2>c DEF QueuesClosed, Closed
    <3> QED
      BY <3>1, <3>2, <3>3, <3>4, QueueFrame
  <2>28. ASSUME NEW t \in Turns, Compacted(t) PROVE QueueInv'
    <3>1. /\ task'[t].pending = task[t].pending /\ task'[t].accepting = task[t].accepting
          /\ \A s \in Turns \ {t} : task'[s] = task[s]
          /\ admission' = admission
          /\ task'[t].pc \in Running \ Closing
      BY <2>28, <2>b DEF Compacted, At, TaskState, loopVars, Running, Sampling,
         Closing
    <3>2. \A i \in Turns : Recorded(i) => Recorded(i)'
      BY <2>28 DEF Compacted, Recorded
    <3>3. \A i \in Turns : Queued(i, t) => Queued(i, t)'
      BY <3>1 DEF Queued
    <3>4. task'[t].pc # "none" /\ task'[t].pc \notin Closing \cup {"closing", "exited"}
      BY <3>1 DEF Running, Sampling, Closing
    <3> QED
      BY <3>1, <3>2, <3>3, <3>4, QueueFrame
  <2>29. ASSUME NEW t \in Turns, ModelFails(t) PROVE QueueInv'
    <3>1. /\ task'[t].pending = task[t].pending /\ task'[t].accepting = task[t].accepting
          /\ \A s \in Turns \ {t} : task'[s] = task[s]
          /\ admission' = admission
          /\ task'[t].failed /\ task'[t].pc = "finish"
      BY <2>29, <2>b DEF ModelFails, At, TaskState, loopVars, Abandon
    <3>2. Log(t, "error") \in Record
      BY DEF Log, LogInput, Record
    <3>3. \A i \in Turns : Recorded(i) => Recorded(i)'
      BY <2>29, <3>2, RecordedAfterAppend DEF ModelFails, Abandon
    <3>4. \A i \in Turns : Queued(i, t) => Queued(i, t)'
      BY <3>1 DEF Queued
    <3> QED
      BY <3>1, <3>3, <3>4, QueueFrame
  <2>30. ASSUME NEW t \in Turns, Delta(t) PROVE QueueInv'
    <3>1. SameQueues
      BY <2>30, <2>b DEF Delta, SameQueues, TaskState
    <3> QED
      BY <2>30, <3>1, QueuesUntouched DEF Delta, loopVars
  <2>31. ASSUME NEW t \in Turns, BadCallItem(t) PROVE QueueInv'
    <3>1. SameQueues
      BY <2>31, <2>b DEF BadCallItem, SameQueues, TaskState
    <3> QED
      BY <2>31, <3>1, QueuesUntouched DEF BadCallItem, loopVars
  <2>32. ASSUME NEW t \in Turns, Completed(t) PROVE QueueInv'
    <3>1. PICK next \in {"tools", "drain"} : task' = [task EXCEPT ![t].pc = next]
      BY <2>32 DEF Completed
    <3>2. /\ task'[t].pending = task[t].pending /\ task'[t].accepting = task[t].accepting
          /\ \A s \in Turns \ {t} : task'[s] = task[s]
          /\ admission' = admission
          /\ task'[t].pc \in Running \ Closing
      BY <2>32, <3>1, <2>b DEF Completed, At, TaskState, loopVars, Running,
         Sampling, Closing
    <3>3. \A i \in Turns : Recorded(i) => Recorded(i)'
      BY <2>32 DEF Completed, Recorded
    <3>4. \A i \in Turns : Queued(i, t) => Queued(i, t)'
      BY <3>2 DEF Queued
    <3>5. task'[t].pc # "none" /\ task'[t].pc \notin Closing \cup {"closing", "exited"}
      BY <3>2 DEF Running, Sampling, Closing
    <3> QED
      BY <3>2, <3>3, <3>4, <3>5, QueueFrame
  <2>33. ASSUME NEW t \in Turns, SeesCancel(t) PROVE QueueInv'
    <3>1. /\ task'[t].pending = task[t].pending /\ task'[t].accepting = task[t].accepting
          /\ \A s \in Turns \ {t} : task'[s] = task[s]
          /\ admission' = admission
          /\ task'[t].failed /\ task'[t].pc = "finish"
      BY <2>33, <2>b DEF SeesCancel, At, TaskState, loopVars, Abandon
    <3>2. Log(t, "error") \in Record
      BY DEF Log, LogInput, Record
    <3>3. \A i \in Turns : Recorded(i) => Recorded(i)'
      BY <2>33, <3>2, RecordedAfterAppend DEF SeesCancel, Abandon
    <3>4. \A i \in Turns : Queued(i, t) => Queued(i, t)'
      BY <3>1 DEF Queued
    <3> QED
      BY <3>1, <3>3, <3>4, QueueFrame
  <2>34. ASSUME NEW t \in Turns, NEW c \in Calls, CallItem(t, c) PROVE QueueInv'
    <3>1. SameQueues
      BY <2>34, <2>b DEF CallItem, SameQueues, TaskState
    <3> QED
      BY <2>34, <3>1, QueuesUntouched DEF CallItem, loopVars
  <2>35. ASSUME NEW t \in Turns, NEW c \in Calls, RunDirectly(t, c) PROVE QueueInv'
    <3>1. SameQueues
      BY <2>35 DEF RunDirectly, SameQueues
    <3> QED
      BY <2>35, <3>1, QueuesUntouched DEF RunDirectly, loopVars
  <2>36. ASSUME NEW t \in Turns, NEW c \in Calls, Ask(t, c) PROVE QueueInv'
    <3>1. SameQueues
      BY <2>36 DEF Ask, SameQueues
    <3> QED
      BY <2>36, <3>1, QueuesUntouched DEF Ask, loopVars
  <2>37. ASSUME NEW t \in Turns, NEW c \in Calls, Asked(t, c) PROVE QueueInv'
    <3>1. SameQueues
      BY <2>37 DEF Asked, SameQueues
    <3> QED
      BY <2>37, <3>1, QueuesUntouched DEF Asked, loopVars
  <2>38. ASSUME NEW t \in Turns, NEW c \in Calls, Decided(t, c) PROVE QueueInv'
    <3>1. SameQueues
      BY <2>38 DEF Decided, SameQueues
    <3> QED
      BY <2>38, <3>1, QueuesUntouched DEF Decided, loopVars
  <2>39. ASSUME NEW t \in Turns, NEW c \in Calls, GiveUp(t, c) PROVE QueueInv'
    <3>1. SameQueues
      BY <2>39 DEF GiveUp, SameQueues
    <3> QED
      BY <2>39, <3>1, QueuesUntouched DEF GiveUp, loopVars
  <2>40. ASSUME NEW t \in Turns, NEW c \in Calls, Output(t, c) PROVE QueueInv'
    <3>1. SameQueues
      BY <2>40 DEF Output, SameQueues
    <3> QED
      BY <2>40, <3>1, QueuesUntouched DEF Output, loopVars
  <2>41. ASSUME NEW t \in Turns, NEW c \in Calls, Finished(t, c) PROVE QueueInv'
    <3>1. SameQueues
      BY <2>41 DEF Finished, SameQueues
    <3> QED
      BY <2>41, <3>1, QueuesUntouched DEF Finished, loopVars
  <2>42. ASSUME NEW t \in Turns, NEW c \in Calls, RecordOutput(t, c) PROVE QueueInv'
    <3>1. SameQueues
      BY <2>42, <2>b DEF RecordOutput, SameQueues, TaskState
    <3> QED
      BY <2>42, <3>1, QueuesUntouched DEF RecordOutput, loopVars
  <2>43. CASE UNCHANGED vars
    BY <2>43, QueuesUntouched DEF vars, loopVars, SameQueues
  <2> QED
    BY <2>1, <2>2, <2>3, <2>4, <2>5, <2>6, <2>7, <2>8, <2>9, <2>10, <2>11, <2>12,
       <2>13, <2>14, <2>15, <2>16, <2>17, <2>18, <2>19, <2>20, <2>21, <2>22, <2>23,
       <2>24, <2>25, <2>26, <2>27, <2>28, <2>29, <2>30, <2>31, <2>32, <2>33, <2>34,
       <2>35, <2>36, <2>37, <2>38, <2>39, <2>40, <2>41, <2>42, <2>43 DEF Next,
       Client, Loop, Own, Model, Tool
<1> QED
  BY <1>1, <1>2, TypeCorrect, ControlCorrect,  PTL DEF Spec

-----------------------------------------------------------------------------
(* Who waits for an approval.                                              *)

\* A call that was asked for and is not yet recorded.
Busy(t, c) == calls[t][c] \in {"asking", "waiting", "running", "finished"}

\* A step that leaves the calls alone keeps ToolInv, if every turn with a busy
\* call stays among its tools.
LEMMA ToolFrame ==
  ASSUME ToolInv, UNCHANGED <<active, toolVars>>,
         \A s \in Turns : task[s].pc = "tools" =>
           task'[s].pc = "tools" \/ \A c \in Calls : ~Busy(s, c)
  PROVE  ToolInv'
PROOF
<1>1. ToolsHold'
  BY DEF ToolInv, ToolsHold, Busy, toolVars
<1>2. ApprovalsAreLive' /\ EntriesOwned' /\ DecisionsGranted' /\ ApprovedBeforeRunning'
  BY DEF ToolInv, ApprovalsAreLive, EntriesOwned, DecisionsGranted, ApprovedBeforeRunning,
         toolVars
<1> QED
  BY <1>1, <1>2 DEF ToolInv

\* A turn with a busy call is the active one.
LEMMA BusyIsActive ==
  ASSUME ControlInv, ToolInv, NEW t \in Turns, NEW c \in Calls, Busy(t, c)
  PROVE  task[t].pc = "tools" /\ active = t
BY DEF ControlInv, ActiveRuns, ToolInv, ToolsHold, Busy, Running, Sampling

\* A call that moves on without leaving its place among the tools or its entry.
LEMMA CallMoves ==
  ASSUME TypeOK, ToolInv, UNCHANGED <<active, approvals, granted>>,
         NEW t \in Turns, NEW c \in Calls, NEW next \in CallState,
         calls' = [calls EXCEPT ![t][c] = next],
         \A s \in Turns : task[s].pc = "tools" => task'[s].pc = "tools",
         \/ next \in {"queued", "recorded"} /\ calls[t][c] \notin {"asking", "waiting"}
         \/ next = "finished" /\ calls[t][c] \in {"queued", "running"} /\ task'[t].pc = "tools"
         \/ next = "waiting" /\ calls[t][c] = "asking"
  PROVE  ToolInv'
PROOF
<1>1. /\ calls'[t][c] = next
      /\ \A s \in Turns, d \in Calls : s # t \/ d # c => calls'[s][d] = calls[s][d]
  BY DEF TypeOK
<1>2. ToolsHold'
  BY <1>1 DEF ToolInv, ToolsHold
<1>3. ApprovalsAreLive'
  <2> SUFFICES ASSUME NEW d \in Calls, approvals[d] # NoApproval
               PROVE  /\ active # NoTurn /\ approvals[d].turn = active
                      /\ calls'[active][d] \in {"asking", "waiting"}
    BY DEF ApprovalsAreLive
  <2>1. /\ active # NoTurn /\ approvals[d].turn = active
        /\ calls[active][d] \in {"asking", "waiting"}
    BY DEF ToolInv, ApprovalsAreLive
  <2>2. active \in Turns
    BY <2>1 DEF TypeOK
  <2> QED
    BY <1>1, <2>1, <2>2
<1>4. EntriesOwned' /\ DecisionsGranted' /\ ApprovedBeforeRunning'
  BY <1>1 DEF ToolInv, EntriesOwned, DecisionsGranted, ApprovedBeforeRunning
<1> QED
  BY <1>2, <1>3, <1>4 DEF ToolInv

\* A call that gives its entry back: it is the only call of that id that waits.
LEMMA EntryReturned ==
  ASSUME TypeOK, ControlInv, ToolInv, UNCHANGED <<active, task, granted>>,
         NEW t \in Turns, NEW c \in Calls, calls[t][c] = "waiting",
         NEW next \in {"running", "finished"},
         next = "running" => approvals[c].decision = "approved",
         calls' = [calls EXCEPT ![t][c] = next],
         approvals' = [approvals EXCEPT ![c] = NoApproval]
  PROVE  ToolInv'
PROOF
<1>1. /\ calls'[t][c] = next
      /\ \A s \in Turns, d \in Calls : s # t \/ d # c => calls'[s][d] = calls[s][d]
  BY DEF TypeOK
<1>2. /\ approvals'[c] = NoApproval
      /\ \A d \in Calls \ {c} : approvals'[d] = approvals[d]
  BY DEF TypeOK
<1>3. active = t /\ task[t].pc = "tools"
  BY BusyIsActive DEF Busy
<1>4. ToolsHold'
  BY <1>1, <1>3 DEF ToolInv, ToolsHold
<1>5. ApprovalsAreLive'
  BY <1>1, <1>2, <1>3 DEF ToolInv, ApprovalsAreLive
<1>6. EntriesOwned'
  <2>1. \A s \in Turns \ {t} : ~Busy(s, c)
    BY <1>3, BusyIsActive
  <2> QED
    BY <1>1, <1>2, <2>1 DEF ToolInv, EntriesOwned, Busy
<1>7. DecisionsGranted'
  BY <1>2 DEF ToolInv, DecisionsGranted, NoApproval
<1>8. ApprovedBeforeRunning'
  <2>1. approvals[c].turn = t
    BY DEF ToolInv, EntriesOwned
  <2> QED
    BY <1>1, <2>1 DEF ToolInv, ApprovedBeforeRunning, DecisionsGranted
<1> QED
  BY <1>4, <1>5, <1>6, <1>7, <1>8 DEF ToolInv

\* No approval outlives its request, and no command runs without one of its own:
\* ToolInv is inductive, given the types and ControlInv.
THEOREM ToolCorrect == Spec => []ToolInv
PROOF
<1>1. Init => ToolInv
  BY DEF Init, ToolInv, ToolsHold, ApprovalsAreLive, EntriesOwned, DecisionsGranted,
     ApprovedBeforeRunning, NoApproval
<1>2. TypeOK /\ ControlInv /\ ToolInv /\ [Next]_vars => ToolInv'
  <2> SUFFICES ASSUME TypeOK, ControlInv, ToolInv, [Next]_vars PROVE ToolInv'
    OBVIOUS
  <2>a. LoopTyped /\ active \in Turns \cup {NoTurn}
    BY DEF TypeOK
  <2>b. task \in [Turns -> TaskState]
    BY DEF TypeOK
  <2>c. ToolsHold /\ ApprovalsAreLive /\ EntriesOwned /\ DecisionsGranted /\ ApprovedBeforeRunning
    BY DEF ToolInv
  <2>d. approvals \in [Calls -> Approval]
    BY DEF TypeOK
  <2>e. ActiveRuns /\ LoopKnows /\ FreshTurns
    BY DEF ControlInv
  <2>1. ASSUME NEW t \in Turns \cup {NoTurn}, SubmitInput(t) PROVE ToolInv'
    BY <2>1, ToolFrame DEF SubmitInput
  <2>2. ASSUME NEW t \in Turns \cup {NoTurn}, SubmitInterrupt(t) PROVE ToolInv'
    BY <2>2, ToolFrame DEF SubmitInterrupt
  <2>3. CASE SubmitInvalid
    BY <2>3, ToolFrame DEF SubmitInvalid
  <2>4. CASE SubmitShutdown
    BY <2>4, ToolFrame DEF SubmitShutdown
  <2>5. ASSUME NEW t \in Turns, NEW c \in Calls, NEW d \in Decisions, SubmitApproval(t, c, d) PROVE ToolInv'
    <3>1. /\ granted \subseteq granted'
          /\ d = "approved" => <<t, c>> \in granted'
      BY <2>5 DEF SubmitApproval
    <3>2. \/ approvals' = approvals
          \/ /\ approvals[c].turn = t /\ approvals[c] # NoApproval
             /\ approvals' = [approvals EXCEPT ![c].decision = d]
      BY <2>5, <2>d DEF SubmitApproval, NoApproval, Turns, NoTurn
    <3>3. \A e \in Calls : /\ approvals'[e].turn = approvals[e].turn
                           /\ approvals[e] = NoApproval => approvals'[e] = NoApproval
                           /\ \/ approvals'[e].decision = approvals[e].decision
                              \/ e = c /\ approvals[e].turn = t /\ approvals'[e].decision = d
      BY <3>2, <2>d DEF Approval
    <3>4. ToolsHold' /\ ApprovedBeforeRunning'
      BY <2>5, <3>1, <2>c DEF SubmitApproval, ToolsHold, ApprovedBeforeRunning
    <3>5. ApprovalsAreLive' /\ EntriesOwned'
      BY <2>5, <3>3, <2>c DEF SubmitApproval, ApprovalsAreLive, EntriesOwned
    <3>6. DecisionsGranted'
      BY <3>1, <3>3, <2>c DEF DecisionsGranted
    <3> QED
      BY <3>4, <3>5, <3>6 DEF ToolInv
  <2>6. CASE Complain
    BY <2>6, ToolFrame DEF Complain
  <2>7. CASE Lookup
    BY <2>7, ToolFrame DEF Lookup
  <2>8. CASE Enqueue
    <3>1. \A s \in Turns : task'[s].pc = task[s].pc
      <4>1. CASE task' = task
        BY <4>1
      <4>2. CASE task' = [task EXCEPT ![loop.task].pending = Append(@, loop.input)]
        BY <4>2, <2>b DEF TaskState
      <4> QED
        BY <2>8, <4>1, <4>2 DEF Enqueue
    <3> QED
      BY <2>8, <3>1, ToolFrame DEF Enqueue
  <2>9. CASE Await
    BY <2>9, ToolFrame DEF Await
  <2>10. CASE Spawn
    <3>1. \A s \in Turns : task'[s].pc = task[s].pc
      <4>1. CASE task' = task
        BY <4>1
      <4>2. CASE active \in Turns /\ \E why \in Reasons :
              task' = [task EXCEPT ![active] = [@ EXCEPT !.cancelled = TRUE, !.reason = why]]
        BY <4>2, <2>b DEF TaskState
      <4> QED
        BY <2>10, <2>a, <4>1, <4>2 DEF Spawn, AbortActive, Reasons, Turns, NoTurn
    <3> QED
      BY <2>10, <3>1, ToolFrame DEF Spawn
  <2>11. CASE Create
    <3>1. active = NoTurn /\ loop.input \in Turns /\ task[loop.input].pc = "none"
      BY <2>11, <2>a, <2>e DEF Create, LoopTyped, LoopKnows, FreshTurns, HoldsInput
    <3>2. \A s \in Turns \ {loop.input} : task'[s] = task[s]
      BY <2>11, <3>1, <2>b DEF Create
    <3>3. UNCHANGED toolVars
      BY <2>11 DEF Create
    <3>4. \A e \in Calls : approvals[e] = NoApproval
      BY <3>1, <2>c DEF ApprovalsAreLive
    <3>5. ToolsHold'
      BY <3>1, <3>2, <3>3, <2>c DEF ToolsHold, toolVars
    <3>6. ApprovalsAreLive'
      BY <3>3, <3>4 DEF ApprovalsAreLive, toolVars
    <3>7. EntriesOwned' /\ DecisionsGranted' /\ ApprovedBeforeRunning'
      BY <3>3, <2>c DEF EntriesOwned, DecisionsGranted, ApprovedBeforeRunning,
         toolVars
    <3> QED
      BY <3>5, <3>6, <3>7 DEF ToolInv
  <2>12. CASE CheckExpected
    BY <2>12, ToolFrame DEF CheckExpected
  <2>13. CASE Interrupt
    <3>1. \A s \in Turns : task'[s].pc = task[s].pc
      <4>1. CASE task' = task
        BY <4>1
      <4>2. CASE active \in Turns /\ \E why \in Reasons :
              task' = [task EXCEPT ![active] = [@ EXCEPT !.cancelled = TRUE, !.reason = why]]
        BY <4>2, <2>b DEF TaskState
      <4> QED
        BY <2>13, <2>a, <4>1, <4>2 DEF Interrupt, AbortActive, Reasons, Turns, NoTurn
    <3> QED
      BY <2>13, <3>1, ToolFrame DEF Interrupt
  <2>14. CASE Reply
    BY <2>14, ToolFrame DEF Reply
  <2>15. CASE Shutdown
    <3>1. \A s \in Turns : task'[s].pc = task[s].pc
      <4>1. CASE task' = task
        BY <4>1
      <4>2. CASE active \in Turns /\ \E why \in Reasons :
              task' = [task EXCEPT ![active] = [@ EXCEPT !.cancelled = TRUE, !.reason = why]]
        BY <4>2, <2>b DEF TaskState
      <4> QED
        BY <2>15, <2>a, <4>1, <4>2 DEF Shutdown, AbortActive, Reasons, Turns, NoTurn
    <3> QED
      BY <2>15, <3>1, ToolFrame DEF Shutdown
  <2>16. CASE Teardown
    BY <2>16, ToolFrame DEF Teardown
  <2>17. CASE NextEvent
    BY <2>17, ToolFrame DEF NextEvent
  <2>18. ASSUME NEW t \in Turns, Deliver(t) PROVE ToolInv'
    <3>1. \A s \in Turns : task'[s].pc = task[s].pc
      BY <2>18, <2>b DEF Deliver, TaskState
    <3> QED
      BY <2>18, <3>1, ToolFrame DEF Deliver
  <2>19. ASSUME NEW t \in Turns, Begin(t) PROVE ToolInv'
    <3>1. task[t].pc # "tools" /\ \A s \in Turns \ {t} : task'[s] = task[s]
      BY <2>19, <2>b DEF Begin, At
    <3> QED
      BY <2>19, <3>1, ToolFrame DEF Begin
  <2>20. ASSUME NEW t \in Turns, RecordInput(t) PROVE ToolInv'
    <3>1. task[t].pc # "tools" /\ \A s \in Turns \ {t} : task'[s] = task[s]
      BY <2>20, <2>b DEF RecordInput, At
    <3> QED
      BY <2>20, <3>1, ToolFrame DEF RecordInput
  <2>21. ASSUME NEW t \in Turns, Top(t) PROVE ToolInv'
    <3>1. task[t].pc # "tools" /\ \A s \in Turns \ {t} : task'[s] = task[s]
      BY <2>21, <2>b DEF Top, At
    <3> QED
      BY <2>21, <3>1, ToolFrame DEF Top
  <2>22. ASSUME NEW t \in Turns, ToolsDone(t) PROVE ToolInv'
    <3>1. \A e \in Calls : ~Busy(t, e)
      BY <2>22 DEF ToolsDone, Busy
    <3>2. \A s \in Turns \ {t} : task'[s] = task[s]
      BY <2>22, <2>b DEF ToolsDone
    <3> QED
      BY <2>22, <3>1, <3>2, ToolFrame DEF ToolsDone
  <2>23. ASSUME NEW t \in Turns, Drain(t) PROVE ToolInv'
    <3>1. task[t].pc # "tools" /\ \A s \in Turns \ {t} : task'[s] = task[s]
      BY <2>23, <2>b DEF Drain, At
    <3> QED
      BY <2>23, <3>1, ToolFrame DEF Drain
  <2>24. ASSUME NEW t \in Turns, Finish(t) PROVE ToolInv'
    <3>1. task[t].pc # "tools" /\ \A s \in Turns \ {t} : task'[s] = task[s]
      BY <2>24, <2>b DEF Finish, At
    <3> QED
      BY <2>24, <3>1, ToolFrame DEF Finish
  <2>25. ASSUME NEW t \in Turns, RunHooks(t) PROVE ToolInv'
    <3>1. task[t].pc # "tools" /\ \A s \in Turns \ {t} : task'[s] = task[s]
      BY <2>25, <2>b DEF RunHooks, At
    <3> QED
      BY <2>25, <3>1, ToolFrame DEF RunHooks
  <2>26. ASSUME NEW t \in Turns, Clear(t) PROVE ToolInv'
    <3>1. /\ task[t].pc = "clear" /\ \A s \in Turns \ {t} : task'[s] = task[s]
          /\ UNCHANGED toolVars
      BY <2>26, <2>b DEF Clear, At
    <3>2. active = t
      BY <3>1, <2>e DEF ActiveRuns, Running, Closing
    <3>3. \A e \in Calls : approvals[e] = NoApproval
      BY <3>1, <3>2, <2>c DEF ApprovalsAreLive, ToolsHold
    <3>4. ToolsHold'
      BY <3>1, <2>c DEF ToolsHold, toolVars
    <3>5. ApprovalsAreLive'
      BY <3>1, <3>3 DEF ApprovalsAreLive, toolVars
    <3>6. EntriesOwned' /\ DecisionsGranted' /\ ApprovedBeforeRunning'
      BY <3>1, <2>c DEF EntriesOwned, DecisionsGranted, ApprovedBeforeRunning,
         toolVars
    <3> QED
      BY <3>4, <3>5, <3>6 DEF ToolInv
  <2>27. ASSUME NEW t \in Turns, Exit(t) PROVE ToolInv'
    <3>1. task[t].pc # "tools" /\ \A s \in Turns \ {t} : task'[s] = task[s]
      BY <2>27, <2>b DEF Exit, At
    <3> QED
      BY <2>27, <3>1, ToolFrame DEF Exit
  <2>28. ASSUME NEW t \in Turns, Compacted(t) PROVE ToolInv'
    <3>1. task[t].pc # "tools" /\ \A s \in Turns \ {t} : task'[s] = task[s]
      BY <2>28, <2>b DEF Compacted, At
    <3> QED
      BY <2>28, <3>1, ToolFrame DEF Compacted
  <2>29. ASSUME NEW t \in Turns, ModelFails(t) PROVE ToolInv'
    <3>1. task[t].pc # "tools" /\ \A s \in Turns \ {t} : task'[s] = task[s]
      BY <2>29, <2>b DEF ModelFails, At, Abandon
    <3> QED
      BY <2>29, <3>1, ToolFrame DEF ModelFails, Abandon
  <2>30. ASSUME NEW t \in Turns, Delta(t) PROVE ToolInv'
    <3>1. \A s \in Turns : task'[s].pc = task[s].pc
      BY <2>30, <2>b DEF Delta, TaskState
    <3> QED
      BY <2>30, <3>1, ToolFrame DEF Delta
  <2>31. ASSUME NEW t \in Turns, BadCallItem(t) PROVE ToolInv'
    <3>1. \A s \in Turns : task'[s].pc = task[s].pc
      BY <2>31, <2>b DEF BadCallItem, TaskState
    <3> QED
      BY <2>31, <3>1, ToolFrame DEF BadCallItem
  <2>32. ASSUME NEW t \in Turns, Completed(t) PROVE ToolInv'
    <3>1. task[t].pc # "tools" /\ \A s \in Turns \ {t} : task'[s] = task[s]
      BY <2>32, <2>b DEF Completed, At
    <3> QED
      BY <2>32, <3>1, ToolFrame DEF Completed
  <2>33. ASSUME NEW t \in Turns, SeesCancel(t) PROVE ToolInv'
    <3>1. task[t].pc # "tools" /\ \A s \in Turns \ {t} : task'[s] = task[s]
      BY <2>33, <2>b DEF SeesCancel, At, Abandon
    <3> QED
      BY <2>33, <3>1, ToolFrame DEF SeesCancel, Abandon
  <2>34. ASSUME NEW t \in Turns, NEW c \in Calls, CallItem(t, c) PROVE ToolInv'
    <3>1. \A s \in Turns : task'[s].pc = task[s].pc
      BY <2>34, <2>b DEF CallItem, TaskState
    <3> QED
      BY <2>34, <3>1, CallMoves DEF CallItem, At, CallState
  <2>35. ASSUME NEW t \in Turns, NEW c \in Calls, RunDirectly(t, c) PROVE ToolInv'
    <3>1. calls[t][c] = "running" => task[t].pc = "tools"
      BY <2>c DEF ToolsHold
    <3> QED
      BY <2>35, <3>1, CallMoves DEF RunDirectly, At, CallState
  <2>36. ASSUME NEW t \in Turns, NEW c \in Calls, Ask(t, c) PROVE ToolInv'
    <3>1. task[t].pc = "tools" /\ active = t
      BY <2>36, <2>e DEF Ask, At, ActiveRuns, Running, Sampling
    <3>2. /\ calls'[t][c] = "asking"
          /\ \A s \in Turns, e \in Calls : s # t \/ e # c => calls'[s][e] = calls[s][e]
      BY <2>36 DEF Ask, TypeOK
    <3>3. /\ approvals'[c] = [turn |-> t, decision |-> "none"]
          /\ \A e \in Calls \ {c} : approvals'[e] = approvals[e]
      BY <2>36, <3>1, <2>d DEF Ask
    <3>4. ToolsHold' /\ ApprovedBeforeRunning'
      BY <2>36, <3>1, <3>2, <2>c DEF Ask, ToolsHold, ApprovedBeforeRunning
    <3>5. ApprovalsAreLive'
      BY <2>36, <3>1, <3>2, <3>3, <2>c DEF Ask, ApprovalsAreLive, Turns, NoTurn
    <3>6. \A s \in Turns \ {t} : ~Busy(s, c)
      BY <3>1, BusyIsActive
    <3>7. EntriesOwned'
      BY <3>2, <3>3, <3>6, <2>c DEF EntriesOwned, Busy
    <3>8. DecisionsGranted'
      BY <2>36, <3>3, <2>c DEF Ask, DecisionsGranted
    <3> QED
      BY <3>4, <3>5, <3>7, <3>8 DEF ToolInv
  <2>37. ASSUME NEW t \in Turns, NEW c \in Calls, Asked(t, c) PROVE ToolInv'
    <3>1. calls[t][c] = "running" => task[t].pc = "tools"
      BY <2>c DEF ToolsHold
    <3> QED
      BY <2>37, <3>1, CallMoves DEF Asked, At, CallState
  <2>38. ASSUME NEW t \in Turns, NEW c \in Calls, Decided(t, c) PROVE ToolInv'
    <3>1. PICK next \in {"running", "finished"} :
            /\ next = "running" => approvals[c].decision = "approved"
            /\ calls' = [calls EXCEPT ![t][c] = next]
      BY <2>38 DEF Decided
    <3> QED
      BY <2>38, <3>1, EntryReturned DEF Decided
  <2>39. ASSUME NEW t \in Turns, NEW c \in Calls, GiveUp(t, c) PROVE ToolInv'
    BY <2>39, EntryReturned DEF GiveUp
  <2>40. ASSUME NEW t \in Turns, NEW c \in Calls, Output(t, c) PROVE ToolInv'
    BY <2>40, ToolFrame DEF Output
  <2>41. ASSUME NEW t \in Turns, NEW c \in Calls, Finished(t, c) PROVE ToolInv'
    <3>1. calls[t][c] = "running" => task[t].pc = "tools"
      BY <2>c DEF ToolsHold
    <3> QED
      BY <2>41, <3>1, CallMoves DEF Finished, At, CallState
  <2>42. ASSUME NEW t \in Turns, NEW c \in Calls, RecordOutput(t, c) PROVE ToolInv'
    <3>1. \A s \in Turns : task'[s].pc = task[s].pc
      BY <2>42, <2>b DEF RecordOutput, TaskState
    <3> QED
      BY <2>42, <3>1, CallMoves DEF RecordOutput, At, CallState
  <2>43. CASE UNCHANGED vars
    BY <2>43, ToolFrame DEF vars, toolVars
  <2> QED
    BY <2>1, <2>2, <2>3, <2>4, <2>5, <2>6, <2>7, <2>8, <2>9, <2>10, <2>11, <2>12,
       <2>13, <2>14, <2>15, <2>16, <2>17, <2>18, <2>19, <2>20, <2>21, <2>22, <2>23,
       <2>24, <2>25, <2>26, <2>27, <2>28, <2>29, <2>30, <2>31, <2>32, <2>33, <2>34,
       <2>35, <2>36, <2>37, <2>38, <2>39, <2>40, <2>41, <2>42, <2>43 DEF Next,
       Client, Loop, Own, Model, Tool
<1> QED
  BY <1>1, <1>2, TypeCorrect, ControlCorrect,  PTL DEF Spec

-----------------------------------------------------------------------------
(* The order of the log.                                                   *)

\* What a record at the end of the log makes of it.
LEMMA LogAfterAppend ==
  ASSUME TypeOK, NEW r \in Record, rollout' = Append(rollout, r)
  PROVE  /\ rollout' # << >> /\ LastRecord' = r
         /\ Len(rollout') = Len(rollout) + 1 /\ Len(rollout) \in Nat
         /\ DOMAIN rollout = 1 .. Len(rollout) /\ DOMAIN rollout' = 1 .. Len(rollout) + 1
         /\ \A k \in 1 .. Len(rollout) : rollout'[k] = rollout[k]
         /\ rollout'[Len(rollout) + 1] = r
PROOF
<1>1. rollout \in Seq(Record)
  BY DEF TypeOK
<1> QED
  BY <1>1, AppendProperties DEF LastRecord

LEMMA BoundsAfterAppend ==
  ASSUME TypeOK, NEW r \in Record, rollout' = Append(rollout, r), NEW n \in Nat
  PROVE  /\ LoggedBefore(n) /\ r.turn < n /\ r.input < n => LoggedBefore(n)'
         /\ InputsBefore(n) /\ r.input < n => InputsBefore(n)'
BY LogAfterAppend DEF LoggedBefore, InputsBefore

\* A record that goes on with the turn, or begins one after a whole one, keeps
\* the turns serial.
LEMMA SerialAppend ==
  ASSUME TypeOK, TurnsAreSerial, NEW r \in Record, rollout' = Append(rollout, r),
         IF r.kind = "started"
         THEN rollout = << >> \/ (Terminal(LastRecord) /\ LastRecord.turn < r.turn)
         ELSE rollout # << >> /\ LastRecord.turn = r.turn /\ ~Terminal(LastRecord)
  PROVE  TurnsAreSerial'
PROOF
<1> SUFFICES ASSUME NEW k \in DOMAIN rollout'
             PROVE  IF rollout'[k].kind = "started"
                    THEN k = 1 \/ (Terminal(rollout'[k - 1]) /\ rollout'[k - 1].turn < rollout'[k].turn)
                    ELSE k > 1 /\ rollout'[k - 1].turn = rollout'[k].turn /\ ~Terminal(rollout'[k - 1])
  BY DEF TurnsAreSerial, Terminal
<1>1. CASE k \in DOMAIN rollout
  <2>1. k \in 1 .. Len(rollout) /\ rollout'[k] = rollout[k] /\ (k > 1 => rollout'[k - 1] = rollout[k - 1])
    BY <1>1, LogAfterAppend
  <2>2. k = 1 \/ k > 1
    BY <2>1, LogAfterAppend
  <2> QED
    BY <1>1, <2>1, <2>2 DEF TurnsAreSerial, Terminal
<1>2. CASE k = Len(rollout) + 1
  <2>1. rollout'[k] = r /\ k - 1 = Len(rollout) /\ Len(rollout) \in Nat
    BY <1>2, LogAfterAppend
  <2>2. CASE rollout = << >>
    <3>1. Len(rollout) = 0 /\ k = 1 /\ r.kind = "started"
      BY <1>2, <2>1, <2>2
    <3>2. k = 1 /\ rollout'[k].kind = "started"
      BY <2>1, <3>1
    <3> QED
      BY <3>2
  <2>3. CASE rollout # << >>
    <3>1. Len(rollout) > 0
      BY <2>3, <2>1, EmptySeq DEF TypeOK
    <3>2. rollout'[k - 1] = LastRecord
      BY <2>1, <3>1, LogAfterAppend DEF LastRecord
    <3>3. k > 1 /\ rollout'[k] = r
      BY <1>2, <2>1, <3>1
    <3> QED
      BY <2>3, <3>2, <3>3 DEF Terminal
  <2> QED
    BY <2>2, <2>3
<1> QED
  BY <1>1, <1>2, LogAfterAppend

\* A record without an input, or with one that comes after all, keeps the inputs
\* in order.
LEMMA OrderAppend ==
  ASSUME TypeOK, InputsInOrder, NEW r \in Record, rollout' = Append(rollout, r),
         r.kind = "input" => InputsBefore(r.input)
  PROVE  InputsInOrder'
PROOF
<1> SUFFICES ASSUME NEW j \in DOMAIN rollout', NEW k \in DOMAIN rollout', j < k,
                    rollout'[j].kind = "input", rollout'[k].kind = "input"
             PROVE  rollout'[j].input < rollout'[k].input
  BY DEF InputsInOrder
<1>1. j \in 1 .. Len(rollout) /\ rollout'[j] = rollout[j]
  BY LogAfterAppend
<1>2. CASE k \in 1 .. Len(rollout)
  BY <1>1, <1>2, LogAfterAppend DEF InputsInOrder
<1>3. CASE k = Len(rollout) + 1
  BY <1>1, <1>3, LogAfterAppend DEF InputsBefore
<1> QED
  BY <1>2, <1>3, LogAfterAppend

\* Inputs and turns are numbers, and no record or input is one.
LEMMA Numbers ==
  /\ NoTurn = 0 /\ NoTurn \notin Turns /\ \A t \in Turns : t \in Nat /\ NoTurn < t
  /\ TypeOK => nextInput \in Nat
PROOF
<1>1. MaxInputs \in Nat
  BY SessionAssumption
<1> QED
  BY <1>1 DEF Turns, NoTurn, TypeOK

\* A step that neither logs nor takes an input, and moves turns only among the
\* stages of sampling or among those after the report, keeps LogInv.
Along(s) ==
  /\ task'[s].pending = task[s].pending
  /\ \/ task'[s].pc = task[s].pc
     \/ task[s].pc \in Sampling /\ task'[s].pc \in Sampling \cup {"finish"}
     \/ /\ task[s].pc \in After /\ task'[s].pc \in After
        /\ task'[s].pc \in Running => task[s].pc \in Running

LEMMA LogFrame ==
  ASSUME TypeOK, LogInv, UNCHANGED <<rollout, nextInput>>,
         HoldsInput' => HoldsInput /\ loop'.input = loop.input,
         \A s \in Turns : Along(s)
  PROVE  LogInv'
PROOF
<1>1. TurnsAreSerial' /\ InputsInOrder'
  BY DEF LogInv, TurnsAreSerial, InputsInOrder, Terminal
<1>2. \A s \in Turns :
        /\ task'[s].pending = task[s].pending
        /\ task'[s].pc \in Logging <=> task[s].pc \in Logging
        /\ task'[s].pc \in Running => task[s].pc \in Running
        /\ task'[s].pc = "begin" => task[s].pc = "begin"
        /\ task'[s].pc \in {"begin", "record"} => task[s].pc = task'[s].pc
  BY DEF Along, After, Logging, Running, Sampling, Closing
<1>3. LastRecord' = LastRecord
  BY DEF LastRecord
<1>4. LogTail'
  BY <1>2, <1>3 DEF LogInv, LogTail, Terminal
<1>5. \A n : /\ LoggedBefore(n)' = LoggedBefore(n) /\ InputsBefore(n)' = InputsBefore(n)
             /\ QueuedBefore(n) => QueuedBefore(n)'
  BY <1>2 DEF LoggedBefore, InputsBefore, QueuedBefore
<1>6. NewestLast'
  BY <1>5 DEF LogInv, NewestLast
<1>7. QueuesOrdered'
  BY <1>2, <1>5 DEF LogInv, QueuesOrdered, QueueOrdered
<1> QED
  BY <1>1, <1>4, <1>6, <1>7 DEF LogInv

\* The same, of a step of turn t alone that logs nothing.
LEMMA LogFrameOne ==
  ASSUME TypeOK, LogInv, NEW t \in Turns, UNCHANGED <<loop, rollout, nextInput>>,
         \A s \in Turns \ {t} : task'[s] = task[s], Along(t)
  PROVE  LogInv'
PROOF
<1>1. \A s \in Turns : Along(s)
  BY DEF Along
<1>2. HoldsInput' => HoldsInput
  BY DEF HoldsInput
<1> QED
  BY <1>1, <1>2, LogFrame

\* A record of turn t, the only one that runs, keeps LogInv.
Logs(t, r) ==
  \/ task[t].pc = "begin" /\ r = Log(t, "started") /\ task'[t].pc = "record"
  \/ task[t].pc = "record" /\ r = LogInput(t, t) /\ task'[t].pc = "top"
  \/ task[t].pc \in Sampling /\ r = Log(t, "error") /\ task'[t].pc = "finish"
  \/ /\ task[t].pc = "finish" /\ r \in {Log(t, "complete"), Log(t, "aborted")}
     /\ task'[t].pc \in {"hooks", "clear"}

LEMMA LogAppends ==
  ASSUME TypeOK, ControlInv, LogInv, NEW t \in Turns, NEW r, Logs(t, r),
         rollout' = Append(rollout, r), UNCHANGED <<loop, nextInput>>,
         \A s \in Turns \ {t} : task'[s] = task[s], task'[t].pending = task[t].pending
  PROVE  LogInv'
PROOF
<1>1. /\ r \in Record /\ r.turn = t /\ r.input \in {NoTurn, t}
      /\ r.input = NoTurn \/ (r.input = t /\ task[t].pc = "record")
      /\ r.kind = "input" => task[t].pc = "record" /\ r.input = t
      /\ r.kind = "started" <=> task[t].pc = "begin"
      /\ Terminal(r) <=> task[t].pc = "finish"
  BY DEF Logs, Log, LogInput, Record, Terminal, Sampling
<1>2. /\ task[t].pc \in Running /\ task'[t].pc \in Running /\ task'[t].pc # "begin"
      /\ task[t].pc \in Logging <=> task[t].pc # "begin"
      /\ task'[t].pc \in Logging <=> task[t].pc # "finish"
      /\ task'[t].pc = "record" => task[t].pc = "begin"
  BY DEF Logs, Logging, Running, Sampling, Closing
<1>3. \A s \in Turns \ {t} : task[s].pc \notin Running /\ task[s].pc \notin Logging
  BY <1>2 DEF ControlInv, ActiveRuns, Logging, Running, Closing
<1>4. task \in [Turns -> TaskState] /\ task[t].pending \in Seq(Turns)
  BY DEF TypeOK, TaskState
<1>5. t \in Nat /\ NoTurn < t /\ QueueOrdered(t)
  BY <1>2, Numbers DEF LogInv, QueuesOrdered
<1>6. TurnsAreSerial'
  <2>1. CASE task[t].pc = "begin"
    <3>1. LoggedBefore(t)
      BY <1>5, <2>1 DEF QueueOrdered
    <3>2. rollout = << >> \/ Terminal(LastRecord)
      BY <1>2, <1>3, <2>1 DEF LogInv, LogTail
    <3>3. rollout # << >> => LastRecord.turn < t
      <4> SUFFICES ASSUME rollout # << >> PROVE LastRecord.turn < t
        OBVIOUS
      <4>1. Len(rollout) \in DOMAIN rollout
        BY <1>1, LogAfterAppend, EmptySeq DEF TypeOK
      <4> QED
        BY <3>1, <4>1 DEF LoggedBefore, LastRecord
    <3> QED
      BY <1>1, <2>1, <3>2, <3>3, SerialAppend DEF LogInv
  <2>2. CASE task[t].pc # "begin"
    <3>1. rollout # << >> /\ LastRecord.turn = t /\ ~Terminal(LastRecord)
      BY <1>2, <2>2 DEF LogInv, LogTail
    <3> QED
      BY <1>1, <2>2, <3>1, SerialAppend DEF LogInv
  <2> QED
    BY <2>1, <2>2
<1>7. InputsInOrder'
  <2>1. r.kind = "input" => InputsBefore(r.input)
    BY <1>1, <1>5 DEF QueueOrdered
  <2> QED
    BY <1>1, <2>1, OrderAppend DEF LogInv
<1>8. LogTail'
  <2>1. rollout' # << >> /\ LastRecord' = r
    BY <1>1, LogAfterAppend
  <2>2. \A s \in Turns \ {t} : task'[s].pc \notin Logging
    BY <1>3
  <2> QED
    BY <1>1, <1>2, <2>1, <2>2 DEF LogTail, Terminal
<1>9. \A n \in Nat : QueuedBefore(n) => t < n /\ QueuedBefore(n)'
  BY <1>2, <1>3 DEF QueuedBefore
<1>10. \A n \in Nat : t < n /\ LoggedBefore(n) => LoggedBefore(n)'
  <2> SUFFICES ASSUME NEW n \in Nat, t < n, LoggedBefore(n) PROVE LoggedBefore(n)'
    OBVIOUS
  <2>1. r.turn < n /\ r.input < n
    BY <1>1, <1>5, Numbers
  <2> QED
    BY <1>1, <2>1, BoundsAfterAppend
<1>11. NewestLast'
  <2>1. LoggedBefore(nextInput)' /\ QueuedBefore(nextInput)'
    <3> DEFINE n == nextInput
    <3>1. n \in Nat /\ LoggedBefore(n) /\ QueuedBefore(n)
      BY Numbers DEF LogInv, NewestLast
    <3>2. n' = n
      OBVIOUS
    <3> HIDE DEF n
    <3>3. LoggedBefore(n)' /\ QueuedBefore(n)'
      BY <3>1, <3>2, <1>9, <1>10
    <3> QED
      BY <3>3 DEF n
  <2>2. ASSUME HoldsInput' PROVE LoggedBefore(loop.input)' /\ QueuedBefore(loop.input)'
    <3> DEFINE n == loop.input
    <3>1. n \in Nat /\ LoggedBefore(n) /\ QueuedBefore(n)
      BY <2>2, Numbers DEF LogInv, NewestLast, HoldsInput, TypeOK, LoopTyped
    <3>2. n' = n
      OBVIOUS
    <3> HIDE DEF n
    <3>3. LoggedBefore(n)' /\ QueuedBefore(n)'
      BY <3>1, <3>2, <1>9, <1>10
    <3> QED
      BY <3>3 DEF n
  <2> QED
    BY <2>1, <2>2 DEF NewestLast
<1>12. QueuesOrdered'
  <2>1. \A k \in DOMAIN task[t].pending : task[t].pending[k] \in Nat /\ r.input < task[t].pending[k]
    <3> SUFFICES ASSUME NEW k \in DOMAIN task[t].pending
                 PROVE  task[t].pending[k] \in Nat /\ r.input < task[t].pending[k]
      OBVIOUS
    <3>1. task[t].pending[k] \in Turns
      BY <1>4
    <3>2. task[t].pending[k] \in Nat /\ NoTurn < task[t].pending[k]
      BY <3>1, Numbers
    <3>3. CASE r.input = NoTurn
      BY <3>2, <3>3
    <3>4. CASE r.input = t /\ task[t].pc = "record"
      BY <1>5, <3>2, <3>4 DEF QueueOrdered
    <3> QED
      BY <1>1, <3>3, <3>4
  <2>2. \A k \in DOMAIN task[t].pending : InputsBefore(task[t].pending[k])'
    <3> SUFFICES ASSUME NEW k \in DOMAIN task[t].pending PROVE InputsBefore(task[t].pending[k])'
      OBVIOUS
    <3>1. InputsBefore(task[t].pending[k])
      BY <1>5 DEF QueueOrdered
    <3> QED
      BY <1>1, <2>1, <3>1, LogAfterAppend DEF InputsBefore
  <2>3. task'[t].pc = "record" => InputsBefore(t)'
    <3> SUFFICES ASSUME task'[t].pc = "record" PROVE InputsBefore(t)'
      OBVIOUS
    <3>1. InputsBefore(t) /\ r.input < t
      BY <1>1, <1>2, <1>5, Numbers DEF QueueOrdered
    <3> QED
      BY <1>1, <1>5, <3>1, LogAfterAppend DEF InputsBefore
  <2>4. QueueOrdered(t)'
    BY <1>2, <1>5, <2>2, <2>3 DEF QueueOrdered
  <2> QED
    BY <1>3, <2>4 DEF QueuesOrdered
<1> QED
  BY <1>6, <1>7, <1>8, <1>11, <1>12 DEF LogInv

\* The queue of the turn that drains it, all of it at the end of the log, keeps LogInv.
LEMMA LogDrains ==
  ASSUME TypeOK, ControlInv, LogInv, NEW t \in Turns, task[t].pc = "drain",
         rollout' = rollout \o InputRecords(t), UNCHANGED <<loop, nextInput>>,
         \A s \in Turns \ {t} : task'[s] = task[s], task'[t].pending = << >>,
         task'[t].pc \in {"top", "finish"}
  PROVE  LogInv'
PROOF
<1> DEFINE n == Len(rollout)
           q == task[t].pending
           m == Len(q)
<1>1. q \in Seq(Turns) /\ rollout \in Seq(Record) /\ InputRecords(t) \in Seq(Record)
  BY InputRecordsType DEF TypeOK, TaskState
<1>2. n \in Nat /\ m \in Nat /\ Len(InputRecords(t)) = m /\ DOMAIN rollout = 1 .. n /\ DOMAIN q = 1 .. m
  BY <1>1 DEF InputRecords
<1>3. DOMAIN rollout' = 1 .. n + m /\ Len(rollout') = n + m
  <2>1. rollout' \in Seq(Record)
    BY <1>1, ConcatProperties
  <2>2. Len(rollout') = Len(rollout) + Len(InputRecords(t))
    BY <1>1, ConcatProperties
  <2> QED
    BY <1>2, <2>1, <2>2
<1>4. \A k \in 1 .. n : rollout'[k] = rollout[k]
  BY <1>1, <1>2, ConcatProperties
<1>5. \A k \in 1 .. n + m : k > n => k - n \in 1 .. m /\ rollout'[k] = LogInput(t, q[k - n])
  <2> SUFFICES ASSUME NEW k \in 1 .. n + m, k > n
               PROVE  k - n \in 1 .. m /\ rollout'[k] = LogInput(t, q[k - n])
    OBVIOUS
  <2>1. k - n \in 1 .. m
    BY <1>2
  <2>2. rollout'[k] = InputRecords(t)[k - n]
    BY <1>1, <1>2, <2>1, ConcatProperties
  <2> QED
    BY <2>1, <2>2, <1>2 DEF InputRecords
<1>6. /\ QueueOrdered(t) /\ t \in Nat /\ NoTurn < t /\ rollout # << >>
      /\ LastRecord.turn = t /\ ~Terminal(LastRecord)
  BY Numbers DEF LogInv, QueuesOrdered, LogTail, Running, Logging, Sampling
<1>7. n > 0 /\ rollout'[n] = LastRecord
  BY <1>1, <1>2, <1>4, <1>6, EmptySeq DEF LastRecord
<1> HIDE DEF n, m
<1>8. \A s \in Turns \ {t} : task[s].pc \notin Running /\ task[s].pc \notin Logging
  BY DEF ControlInv, ActiveRuns, Logging, Running, Sampling, Closing
<1>9. \A k \in 1 .. m : q[k] \in Nat /\ NoTurn < q[k]
  BY <1>1, <1>2, Numbers
<1>10. \A k \in 1 .. n + m : k >= n => rollout'[k].turn = t /\ ~Terminal(rollout'[k])
  <2> SUFFICES ASSUME NEW k \in 1 .. n + m, k >= n
               PROVE  rollout'[k].turn = t /\ ~Terminal(rollout'[k])
    OBVIOUS
  <2>1. CASE k = n
    BY <1>6, <1>7, <2>1 DEF Terminal
  <2>2. CASE k > n
    <3>1. rollout'[k] = LogInput(t, q[k - n])
      BY <1>5, <2>2
    <3> QED
      BY <3>1 DEF LogInput, Terminal
  <2>3. k = n \/ k > n
    BY <1>2
  <2> QED
    BY <2>1, <2>2, <2>3
<1>11. TurnsAreSerial'
  <2> SUFFICES ASSUME NEW k \in 1 .. n + m
               PROVE  IF rollout'[k].kind = "started"
                      THEN k = 1 \/ (Terminal(rollout'[k - 1]) /\ rollout'[k - 1].turn < rollout'[k].turn)
                      ELSE k > 1 /\ rollout'[k - 1].turn = rollout'[k].turn /\ ~Terminal(rollout'[k - 1])
    BY <1>3 DEF TurnsAreSerial, Terminal
  <2>1. CASE k <= n
    <3>1. k \in 1 .. n /\ rollout'[k] = rollout[k] /\ (k > 1 => rollout'[k - 1] = rollout[k - 1])
      BY <1>2, <1>4, <2>1
    <3>2. k = 1 \/ k > 1
      BY <3>1
    <3> QED
      BY <1>2, <3>1, <3>2 DEF LogInv, TurnsAreSerial, Terminal
  <2>2. CASE k > n
    <3>1. k > 1 /\ k - 1 \in 1 .. n + m /\ k - 1 >= n
      BY <1>2, <1>7, <2>2
    <3>2. rollout'[k] = LogInput(t, q[k - n])
      BY <1>5, <2>2
    <3>3. rollout'[k - 1].turn = t /\ ~Terminal(rollout'[k - 1])
      BY <1>10, <3>1
    <3>4. rollout'[k].kind # "started" /\ rollout'[k].turn = t
      BY <3>2 DEF LogInput
    <3> QED
      BY <3>1, <3>3, <3>4
  <2> QED
    BY <1>2, <2>1, <2>2
<1>12. InputsInOrder'
  <2> SUFFICES ASSUME NEW j \in 1 .. n + m, NEW k \in 1 .. n + m, j < k,
                      rollout'[j].kind = "input", rollout'[k].kind = "input"
               PROVE  rollout'[j].input < rollout'[k].input
    BY <1>3 DEF InputsInOrder
  <2>1. CASE k <= n
    <3>1. j \in 1 .. n /\ k \in 1 .. n
      BY <1>2, <2>1
    <3>2. rollout'[j] = rollout[j] /\ rollout'[k] = rollout[k]
      BY <1>4, <3>1
    <3> QED
      BY <1>2, <3>1, <3>2 DEF LogInv, InputsInOrder
  <2>2. CASE k > n
    <3>0. rollout'[k] = LogInput(t, q[k - n]) /\ k - n \in 1 .. m
      BY <1>5, <2>2
    <3>1. rollout'[k].input = q[k - n] /\ k - n \in 1 .. m
      BY <3>0 DEF LogInput
    <3>2. CASE j <= n
      <4>1. InputsBefore(q[k - n])
        BY <1>2, <1>6, <3>1 DEF QueueOrdered
      <4>2. j \in 1 .. n /\ rollout'[j] = rollout[j]
        BY <1>2, <1>4, <3>2
      <4> QED
        BY <1>2, <3>1, <4>1, <4>2 DEF InputsBefore
    <3>3. CASE j > n
      <4>0. rollout'[j] = LogInput(t, q[j - n]) /\ j - n \in 1 .. m
        BY <1>5, <3>3
      <4>1. rollout'[j].input = q[j - n] /\ j - n \in 1 .. m
        BY <4>0 DEF LogInput
      <4>2. j - n < k - n
        BY <1>2
      <4>3. \A a, b \in DOMAIN task[t].pending : a < b => task[t].pending[a] < task[t].pending[b]
        BY <1>6 DEF QueueOrdered
      <4>4. q[j - n] < q[k - n]
        BY <1>2, <3>1, <4>1, <4>2, <4>3
      <4> QED
        BY <3>1, <4>1, <4>4
    <3> QED
      BY <1>2, <3>2, <3>3
  <2> QED
    BY <1>2, <2>1, <2>2
<1>13. LogTail'
  <2>1. rollout' # << >>
    BY <1>2, <1>3, <1>7
  <2>2. LastRecord'.turn = t /\ ~Terminal(LastRecord)'
    <3>1. n + m \in 1 .. n + m /\ n + m >= n
      BY <1>2, <1>7
    <3>2. rollout'[n + m].turn = t /\ ~Terminal(rollout'[n + m])
      BY <1>10, <3>1
    <3> QED
      BY <1>3, <3>2 DEF LastRecord, Terminal
  <2>3. \A s \in Turns \ {t} : task'[s].pc \notin Logging
    BY <1>8
  <2>4. task'[t].pc \in Logging
    BY DEF Logging, Sampling
  <2> QED
    BY <2>1, <2>2, <2>3, <2>4 DEF LogTail
<1>14. ASSUME NEW b \in Nat, LoggedBefore(b), QueuedBefore(b)
       PROVE  LoggedBefore(b)' /\ QueuedBefore(b)'
  <2>1. t < b /\ \A k \in 1 .. m : q[k] < b
    BY <1>2, <1>14 DEF QueuedBefore, Running, Sampling
  <2>2. \A k \in 1 .. n + m : rollout'[k].turn < b /\ rollout'[k].input < b
    <3> SUFFICES ASSUME NEW k \in 1 .. n + m PROVE rollout'[k].turn < b /\ rollout'[k].input < b
      OBVIOUS
    <3>1. CASE k <= n
      <4>1. k \in 1 .. n /\ rollout'[k] = rollout[k]
        BY <1>2, <1>4, <3>1
      <4> QED
        BY <1>2, <1>14, <4>1 DEF LoggedBefore
    <3>2. CASE k > n
      <4>1. k - n \in 1 .. m /\ rollout'[k] = LogInput(t, q[k - n])
        BY <1>5, <3>2
      <4> QED
        BY <2>1, <4>1 DEF LogInput
    <3> QED
      BY <1>2, <3>1, <3>2
  <2>3. LoggedBefore(b)'
    BY <1>3, <2>2 DEF LoggedBefore
  <2>4. QueuedBefore(b)'
    BY <1>8, <2>1 DEF QueuedBefore
  <2> QED
    BY <2>3, <2>4
<1>15. NewestLast'
  <2>1. LoggedBefore(nextInput)' /\ QueuedBefore(nextInput)'
    <3> DEFINE b == nextInput
    <3>1. b \in Nat /\ LoggedBefore(b) /\ QueuedBefore(b)
      BY Numbers DEF LogInv, NewestLast
    <3>2. b' = b
      OBVIOUS
    <3> HIDE DEF b
    <3> QED
      BY <1>14, <3>1, <3>2 DEF b
  <2>2. ASSUME HoldsInput' PROVE LoggedBefore(loop.input)' /\ QueuedBefore(loop.input)'
    <3> DEFINE b == loop.input
    <3>1. b \in Nat /\ LoggedBefore(b) /\ QueuedBefore(b)
      BY <2>2, Numbers DEF LogInv, NewestLast, HoldsInput, TypeOK, LoopTyped
    <3>2. b' = b
      OBVIOUS
    <3> HIDE DEF b
    <3> QED
      BY <1>14, <3>1, <3>2 DEF b
  <2> QED
    BY <2>1, <2>2 DEF NewestLast
<1>16. QueuesOrdered'
  <2>1. QueueOrdered(t)'
    BY DEF QueueOrdered
  <2> QED
    BY <1>8, <2>1 DEF QueuesOrdered
<1> QED
  BY <1>11, <1>12, <1>13, <1>15, <1>16 DEF LogInv

\* A step that leaves the log and the turns alone and gives the loop no input keeps LogInv.
LEMMA LogUntouched ==
  ASSUME TypeOK, LogInv, UNCHANGED <<rollout, nextInput, task>>,
         HoldsInput' => HoldsInput /\ loop'.input = loop.input
  PROVE  LogInv'
PROOF
<1>1. \A s \in Turns : Along(s)
  BY DEF Along
<1> QED
  BY <1>1, LogFrame

\* An abort moves no turn.
LEMMA AbortKeepsAlong ==
  ASSUME TypeOK, NEW why \in Reasons, NEW next, AbortActive(why, next)
  PROVE  \A s \in Turns : Along(s)
PROOF
<1>1. task \in [Turns -> TaskState] /\ active \in Turns \cup {NoTurn}
  BY DEF TypeOK
<1>2. CASE active = NoTurn
  BY <1>2 DEF AbortActive, Along
<1>3. CASE active \in Turns
  <2>1. task' = [task EXCEPT ![active] = [@ EXCEPT !.cancelled = TRUE, !.reason = why]]
    BY <1>3 DEF AbortActive, Turns, NoTurn
  <2> QED
    BY <2>1, <1>1, <1>3 DEF Along, TaskState
<1> QED
  BY <1>1, <1>2, <1>3

\* The log is in the order in which the loop admitted turns and inputs: LogInv is
\* inductive, given the types and ControlInv.
THEOREM LogCorrect == Spec => []LogInv
PROOF
<1>1. Init => LogInv
  BY SessionAssumption DEF Init, LogInv, TurnsAreSerial, InputsInOrder, LogTail, NewestLast, QueuesOrdered,
     LoggedBefore, QueuedBefore, HoldsInput, Idle, NewTask, Logging, Running, Sampling, Closing
<1>2. TypeOK /\ ControlInv /\ LogInv /\ [Next]_vars => LogInv'
  <2> SUFFICES ASSUME TypeOK, ControlInv, LogInv, [Next]_vars PROVE LogInv'
    OBVIOUS
  <2>a. LoopTyped /\ loop \in LoopState /\ active \in Turns \cup {NoTurn}
    BY DEF TypeOK, LoopTyped
  <2>b. task \in [Turns -> TaskState] /\ \A s \in Turns : task[s].pending \in Seq(Turns)
    BY DEF TypeOK, TaskState
  <2>c. ActiveRuns /\ LoopKnows /\ FreshTurns
    BY DEF ControlInv
  <2>d. TurnsAreSerial /\ InputsInOrder /\ LogTail /\ NewestLast /\ QueuesOrdered
    BY DEF LogInv
  <2>1. ASSUME NEW t \in Turns \cup {NoTurn}, SubmitInput(t) PROVE LogInv'
    <3>1. /\ nextInput \in Nat /\ nextInput' = nextInput + 1 /\ UNCHANGED <<task, rollout>>
          /\ loop'.pc = "lookup" /\ loop'.input = nextInput
      BY <2>1, Numbers DEF SubmitInput, Idle
    <3>2. TurnsAreSerial' /\ InputsInOrder'
      BY <3>1, <2>d DEF TurnsAreSerial, InputsInOrder, Terminal
    <3>3. LogTail' /\ QueuesOrdered'
      BY <3>1, <2>d DEF LogTail, QueuesOrdered, QueueOrdered, LoggedBefore, InputsBefore, LastRecord, Terminal
    <3>4. LoggedBefore(nextInput) /\ QueuedBefore(nextInput)
      BY <2>d DEF NewestLast
    <3>5. LoggedBefore(nextInput)'
      <4>1. \A k \in DOMAIN rollout : rollout[k].turn \in Nat /\ rollout[k].input \in Nat
        BY Numbers DEF TypeOK, Record
      <4> QED
        BY <3>1, <3>4, <4>1 DEF LoggedBefore
    <3>6. QueuedBefore(nextInput)'
      <4>1. \A s \in Turns : s \in Nat /\ \A k \in DOMAIN task[s].pending : task[s].pending[k] \in Nat
        BY <2>b, Numbers
      <4> QED
        BY <3>1, <3>4, <4>1 DEF QueuedBefore
    <3>7. LoggedBefore(loop.input)' /\ QueuedBefore(loop.input)'
      BY <3>1, <3>4 DEF LoggedBefore, QueuedBefore
    <3> QED
      BY <3>2, <3>3, <3>5, <3>6, <3>7 DEF LogInv, NewestLast
  <2>2. ASSUME NEW t \in Turns \cup {NoTurn}, SubmitInterrupt(t) PROVE LogInv'
    <3>1. ~HoldsInput'
      BY <2>2, <2>a DEF SubmitInterrupt, HoldsInput, Idle, LoopState
    <3> QED
      BY <2>2, <3>1, LogUntouched DEF SubmitInterrupt
  <2>3. CASE SubmitInvalid
    <3>1. ~HoldsInput'
      BY <2>3, <2>a DEF SubmitInvalid, HoldsInput, Idle, LoopState
    <3> QED
      BY <2>3, <3>1, LogUntouched DEF SubmitInvalid
  <2>4. CASE SubmitShutdown
    <3>1. ~HoldsInput'
      BY <2>4, <2>a DEF SubmitShutdown, HoldsInput, Idle, LoopState
    <3> QED
      BY <2>4, <3>1, LogUntouched DEF SubmitShutdown
  <2>5. ASSUME NEW t \in Turns, NEW c \in Calls, NEW d \in Decisions, SubmitApproval(t, c, d) PROVE LogInv'
    BY <2>5, LogUntouched DEF SubmitApproval, loopVars, HoldsInput
  <2>6. CASE Complain
    <3>1. ~HoldsInput'
      BY <2>6, <2>a DEF Complain, HoldsInput, Idle, LoopState
    <3> QED
      BY <2>6, <3>1, LogUntouched DEF Complain
  <2>7. CASE Lookup
    <3>1. \/ loop'.pc = "enqueue" /\ loop'.input = loop.input
          \/ loop'.pc = "spawn" /\ loop'.input = loop.input
          \/ loop'.pc = "receive"
      <4>1. CASE loop' = [loop EXCEPT !.pc = "enqueue", !.task = active]
        BY <4>1, <2>a DEF LoopState
      <4>2. CASE loop' = [loop EXCEPT !.pc = "spawn"]
        BY <4>2, <2>a DEF LoopState
      <4>3. CASE loop' = Idle
        BY <4>3 DEF Idle
      <4> QED
        BY <2>7, <4>1, <4>2, <4>3 DEF Lookup, Answer
    <3>2. HoldsInput' => HoldsInput /\ loop'.input = loop.input
      BY <2>7, <3>1 DEF Lookup, HoldsInput
    <3> QED
      BY <2>7, <3>2, LogUntouched DEF Lookup
  <2>8. CASE Enqueue
    <3>1. loop.input \in Turns /\ loop.task \in Turns /\ loop' = Idle /\ UNCHANGED <<rollout, nextInput>>
      BY <2>8, <2>a DEF Enqueue, LoopTyped, Answer
    <3>2. ~HoldsInput'
      BY <3>1 DEF HoldsInput, Idle
    <3>3. CASE UNCHANGED task
      BY <3>1, <3>2, <3>3, LogUntouched
    <3>4. CASE task' = [task EXCEPT ![loop.task].pending = Append(@, loop.input)]
      <4> PICK t \in Turns, i \in Turns : t = loop.task /\ i = loop.input
        BY <3>1
      <4>1. /\ task'[t].pc = task[t].pc /\ task'[t].pending = Append(task[t].pending, i)
            /\ \A s \in Turns \ {t} : task'[s] = task[s]
        BY <3>4, <2>b DEF TaskState
      <4>2. \A s \in Turns : task'[s].pc = task[s].pc
        BY <4>1
      <4>3. /\ i < nextInput /\ LoggedBefore(i) /\ QueuedBefore(i) /\ i \in Nat
        BY <2>8, <2>c, <2>d, Numbers DEF Enqueue, FreshTurns, NewestLast, HoldsInput
      <4>4. /\ DOMAIN task'[t].pending = 1 .. Len(task[t].pending) + 1
            /\ DOMAIN task[t].pending = 1 .. Len(task[t].pending) /\ Len(task[t].pending) \in Nat
            /\ \A k \in 1 .. Len(task[t].pending) : task'[t].pending[k] = task[t].pending[k]
            /\ task'[t].pending[Len(task[t].pending) + 1] = i
        BY <4>1, <2>b, AppendProperties
      <4>5. TurnsAreSerial' /\ InputsInOrder'
        BY <3>1, <2>d DEF TurnsAreSerial, InputsInOrder, Terminal
      <4>6. LogTail'
        BY <3>1, <4>2, <2>d DEF LogTail, LastRecord, Terminal
      <4>7. QueuedBefore(nextInput)'
        <5>1. QueuedBefore(nextInput)
          BY <2>d DEF NewestLast
        <5>2. task[t].pc \in Running => \A k \in DOMAIN task'[t].pending : task'[t].pending[k] < nextInput
          <6> SUFFICES ASSUME task[t].pc \in Running, NEW k \in DOMAIN task'[t].pending
                       PROVE  task'[t].pending[k] < nextInput
            OBVIOUS
          <6>1. CASE k \in 1 .. Len(task[t].pending)
            BY <4>4, <5>1, <6>1 DEF QueuedBefore
          <6>2. CASE k = Len(task[t].pending) + 1
            BY <4>3, <4>4, <6>2
          <6> QED
            BY <4>4, <6>1, <6>2
        <5> QED
          BY <3>1, <4>1, <4>2, <5>1, <5>2 DEF QueuedBefore
      <4>8. NewestLast'
        BY <3>1, <3>2, <4>7, <2>d DEF NewestLast, LoggedBefore
      <4>12. \A k \in DOMAIN task'[t].pending :
                \/ k \in DOMAIN task[t].pending /\ task'[t].pending[k] = task[t].pending[k]
                \/ task'[t].pending[k] = i
        <5> TAKE k \in DOMAIN task'[t].pending
        <5>1. k \in 1 .. Len(task[t].pending) \/ k = Len(task[t].pending) + 1
          BY <4>4
        <5> QED
          BY <4>4, <5>1
      <4>9. ASSUME task[t].pc \in Running PROVE QueueOrdered(t)'
        <5>1. QueueOrdered(t)
          BY <4>9, <2>d DEF QueuesOrdered
        <5>2. t < i /\ \A k \in 1 .. Len(task[t].pending) : task[t].pending[k] < i
          BY <4>3, <4>4, <4>9 DEF QueuedBefore
        <5>3. \A j, k \in DOMAIN task'[t].pending :
                j < k => task'[t].pending[j] < task'[t].pending[k]
          <6> SUFFICES ASSUME NEW j \in DOMAIN task'[t].pending, NEW k \in DOMAIN task'[t].pending, j < k
                       PROVE  task'[t].pending[j] < task'[t].pending[k]
            OBVIOUS
          <6>1. j \in 1 .. Len(task[t].pending) /\ task'[t].pending[j] = task[t].pending[j]
            BY <4>4
          <6>2. CASE k \in 1 .. Len(task[t].pending)
            <7>1. task'[t].pending[k] = task[t].pending[k]
              BY <4>4, <6>2
            <7> QED
              BY <4>4, <5>1, <6>1, <6>2, <7>1 DEF QueueOrdered
          <6>3. CASE k = Len(task[t].pending) + 1
            BY <4>4, <5>2, <6>1, <6>3
          <6>4. k \in 1 .. Len(task[t].pending) \/ k = Len(task[t].pending) + 1
            BY <4>4
          <6> QED
            BY <6>2, <6>3, <6>4
        <5>4. InputsBefore(i)
          BY <4>3 DEF LoggedBefore, InputsBefore
        <5>5. \A k \in DOMAIN task'[t].pending : InputsBefore(task'[t].pending[k])
          <6>1. \A k \in DOMAIN task[t].pending : InputsBefore(task[t].pending[k])
            BY <5>1 DEF QueueOrdered
          <6> QED
            BY <4>12, <5>4, <6>1
        <5>7. task'[t].pc \in {"begin", "record"} =>
                InputsBefore(t)' /\ \A k \in DOMAIN task'[t].pending : t < task'[t].pending[k]
          <6> SUFFICES ASSUME task'[t].pc \in {"begin", "record"}
                       PROVE  /\ InputsBefore(t)'
                              /\ \A k \in DOMAIN task'[t].pending : t < task'[t].pending[k]
            OBVIOUS
          <6>1. /\ InputsBefore(t)
                /\ \A k \in DOMAIN task[t].pending : t < task[t].pending[k]
            BY <4>1, <5>1 DEF QueueOrdered
          <6>2. InputsBefore(t)'
            BY <3>1, <6>1 DEF InputsBefore
          <6> QED
            BY <4>12, <5>2, <6>1, <6>2
        <5>8. task'[t].pc = "begin" => LoggedBefore(t)'
          BY <3>1, <4>1, <5>1 DEF QueueOrdered, LoggedBefore
        <5> QED
          BY <3>1, <5>3, <5>5, <5>7, <5>8 DEF QueueOrdered, InputsBefore
      <4>10. \A s \in Turns \ {t} : task[s].pc \in Running => QueueOrdered(s)'
        BY <3>1, <4>1, <2>d DEF QueuesOrdered, QueueOrdered, LoggedBefore, InputsBefore
      <4>11. QueuesOrdered'
        BY <4>2, <4>9, <4>10 DEF QueuesOrdered
      <4> QED
        BY <4>5, <4>6, <4>8, <4>11 DEF LogInv
    <3> QED
      BY <2>8, <3>3, <3>4 DEF Enqueue
  <2>9. CASE Await
    <3>1. ~HoldsInput'
      BY <2>9, <2>a, <2>c DEF Await, HoldsInput, LoopKnows, LoopTyped, LoopState
    <3> QED
      BY <2>9, <3>1, LogUntouched DEF Await
  <2>10. CASE Spawn
    <3>1. loop' = [loop EXCEPT !.pc = "create"] /\ task' = task
      BY <2>10, <2>c DEF Spawn, LoopKnows, AbortActive
    <3>2. HoldsInput /\ loop'.input = loop.input
      BY <2>10, <3>1, <2>a DEF Spawn, HoldsInput, LoopState
    <3> QED
      BY <2>10, <3>1, <3>2, LogUntouched DEF Spawn
  <2>11. CASE Create
    <3>1. /\ active = NoTurn /\ loop.input \in Turns /\ HoldsInput
          /\ loop.input < nextInput /\ LoggedBefore(loop.input)
      BY <2>11, <2>a, <2>c, <2>d DEF Create, LoopTyped, LoopKnows, FreshTurns, NewestLast, HoldsInput
    <3> PICK i \in Turns : i = loop.input
      BY <3>1
    <3>2. /\ task'[i].pc = "begin" /\ task'[i].pending = << >> /\ UNCHANGED <<rollout, nextInput>>
          /\ \A s \in Turns \ {i} : task'[s] = task[s]
      BY <2>11, <3>1, <2>b DEF Create, NewTask
    <3>3. ~HoldsInput'
      BY <2>11 DEF Create, Answer, HoldsInput, Idle
    <3>4. \A s \in Turns : task[s].pc \notin Running /\ task[s].pc \notin Logging
      BY <3>1, <2>c DEF ActiveRuns, Running, Logging, Sampling, Closing, Turns, NoTurn
    <3>5. TurnsAreSerial' /\ InputsInOrder'
      BY <3>2, <2>d DEF TurnsAreSerial, InputsInOrder, Terminal
    <3>6. LogTail'
      <4>1. \A s \in Turns : task'[s].pc \notin Logging
        BY <3>2, <3>4 DEF Logging, Sampling
      <4> QED
        BY <3>2, <3>4, <4>1, <2>d DEF LogTail, LastRecord, Terminal
    <3>7. NewestLast'
      <4>1. QueuedBefore(nextInput)'
        BY <3>1, <3>2, <3>4 DEF QueuedBefore
      <4> QED
        BY <3>2, <3>3, <4>1, <2>d DEF NewestLast, LoggedBefore
    <3>8. QueueOrdered(i)'
      BY <3>1, <3>2 DEF QueueOrdered, LoggedBefore, InputsBefore
    <3>9. QueuesOrdered'
      BY <3>2, <3>4, <3>8 DEF QueuesOrdered
    <3> QED
      BY <3>5, <3>6, <3>7, <3>9 DEF LogInv
  <2>12. CASE CheckExpected
    <3>1. ~HoldsInput'
      BY <2>12, <2>a DEF CheckExpected, HoldsInput, Idle, LoopState
    <3> QED
      BY <2>12, <3>1, LogUntouched DEF CheckExpected
  <2>13. CASE Interrupt
    <3>1. \A s \in Turns : Along(s)
      BY <2>13, AbortKeepsAlong DEF Interrupt, Reasons
    <3>2. \/ loop' = [loop EXCEPT !.pc = "reply"]
          \/ loop' = [loop EXCEPT !.pc = "await", !.task = active, !.then = "reply"]
      BY <2>13 DEF Interrupt, AbortActive
    <3>3. ~HoldsInput'
      BY <3>2, <2>a DEF HoldsInput, LoopState
    <3> QED
      BY <2>13, <3>1, <3>3, LogFrame DEF Interrupt
  <2>14. CASE Reply
    <3>1. ~HoldsInput'
      BY <2>14, <2>a DEF Reply, HoldsInput, Idle, LoopState
    <3> QED
      BY <2>14, <3>1, LogUntouched DEF Reply
  <2>15. CASE Shutdown
    <3>1. \A s \in Turns : Along(s)
      BY <2>15, AbortKeepsAlong DEF Shutdown, Reasons
    <3>2. \/ loop' = [loop EXCEPT !.pc = "teardown"]
          \/ loop' = [loop EXCEPT !.pc = "await", !.task = active, !.then = "teardown"]
      BY <2>15 DEF Shutdown, AbortActive
    <3>3. ~HoldsInput'
      BY <3>2, <2>a DEF HoldsInput, LoopState
    <3> QED
      BY <2>15, <3>1, <3>3, LogFrame DEF Shutdown
  <2>16. CASE Teardown
    <3>1. ~HoldsInput'
      BY <2>16, <2>a DEF Teardown, HoldsInput, Idle, LoopState
    <3> QED
      BY <2>16, <3>1, LogUntouched DEF Teardown
  <2>17. CASE NextEvent
    BY <2>17, LogUntouched DEF NextEvent, loopVars, HoldsInput
  <2>18. ASSUME NEW t \in Turns, Deliver(t) PROVE LogInv'
    <3>1. /\ Along(t) /\ UNCHANGED <<loop, rollout, nextInput>>
          /\ \A s \in Turns \ {t} : task'[s] = task[s]
      BY <2>18, <2>b DEF Deliver, At, Along, After, TaskState, loopVars, Sampling, Running, Closing
    <3> QED
      BY <3>1, LogFrameOne
  <2>19. ASSUME NEW t \in Turns, Begin(t) PROVE LogInv'
    <3>1. /\ Logs(t, Log(t, "started")) /\ rollout' = Append(rollout, Log(t, "started"))
          /\ task'[t].pending = task[t].pending /\ UNCHANGED <<loop, nextInput>>
          /\ \A s \in Turns \ {t} : task'[s] = task[s]
      BY <2>19, <2>b DEF Begin, At, Logs, Sampling, TaskState, loopVars
    <3> QED
      BY <3>1, LogAppends
  <2>20. ASSUME NEW t \in Turns, RecordInput(t) PROVE LogInv'
    <3>1. /\ Logs(t, LogInput(t, t)) /\ rollout' = Append(rollout, LogInput(t, t))
          /\ task'[t].pending = task[t].pending /\ UNCHANGED <<loop, nextInput>>
          /\ \A s \in Turns \ {t} : task'[s] = task[s]
      BY <2>20, <2>b DEF RecordInput, At, Logs, Sampling, TaskState, loopVars
    <3> QED
      BY <3>1, LogAppends
  <2>21. ASSUME NEW t \in Turns, Top(t) PROVE LogInv'
    <3>1. PICK next \in {"compact", "sample"} :
             task' = [task EXCEPT ![t] = [@ EXCEPT !.pc = next, !.followUp = FALSE]]
      BY <2>21 DEF Top
    <3>2. /\ Along(t) /\ UNCHANGED <<loop, rollout, nextInput>>
          /\ \A s \in Turns \ {t} : task'[s] = task[s]
      BY <2>21, <3>1, <2>b DEF Top, At, Along, After, TaskState, loopVars, Sampling, Running, Closing
    <3> QED
      BY <3>2, LogFrameOne
  <2>22. ASSUME NEW t \in Turns, ToolsDone(t) PROVE LogInv'
    <3>1. /\ Along(t) /\ UNCHANGED <<loop, rollout, nextInput>>
          /\ \A s \in Turns \ {t} : task'[s] = task[s]
      BY <2>22, <2>b DEF ToolsDone, At, Along, After, TaskState, loopVars, Sampling, Running, Closing
    <3> QED
      BY <3>1, LogFrameOne
  <2>23. ASSUME NEW t \in Turns, Drain(t) PROVE LogInv'
    <3>1. /\ task[t].pc = "drain" /\ rollout' = rollout \o InputRecords(t)
          /\ UNCHANGED <<loop, nextInput>>
      BY <2>23 DEF Drain, At, loopVars
    <3>2. /\ task'[t].pc \in {"top", "finish"} /\ task'[t].pending = << >>
          /\ \A s \in Turns \ {t} : task'[s] = task[s]
      <4>1. CASE task' = [task EXCEPT ![t] = [@ EXCEPT !.pc = "top", !.pending = << >>]]
        BY <4>1, <2>b DEF TaskState
      <4>2. CASE /\ task[t].pending = << >>
                 /\ task' = [task EXCEPT ![t] = [@ EXCEPT !.pc = "finish", !.accepting = FALSE]]
        BY <4>2, <2>b DEF TaskState
      <4> QED
        BY <2>23, <4>1, <4>2 DEF Drain
    <3> QED
      BY <3>1, <3>2, LogDrains
  <2>24. ASSUME NEW t \in Turns, Finish(t) PROVE LogInv'
    <3>1. PICK next \in {"clear", "hooks"}, last \in {"aborted", "complete"} :
             /\ task' = [task EXCEPT ![t] = [@ EXCEPT !.out = "end", !.pc = next]]
             /\ rollout' = Append(rollout, Log(t, last))
      BY <2>24 DEF Finish
    <3>2. Logs(t, Log(t, last))
      BY <2>24, <3>1, <2>b DEF Finish, At, Logs, TaskState
    <3>3. /\ task'[t].pending = task[t].pending /\ UNCHANGED <<loop, nextInput>>
          /\ \A s \in Turns \ {t} : task'[s] = task[s]
      BY <2>24, <3>1, <2>b DEF Finish, TaskState, loopVars
    <3> QED
      BY <3>1, <3>2, <3>3, LogAppends
  <2>25. ASSUME NEW t \in Turns, RunHooks(t) PROVE LogInv'
    <3>1. /\ Along(t) /\ UNCHANGED <<loop, rollout, nextInput>>
          /\ \A s \in Turns \ {t} : task'[s] = task[s]
      BY <2>25, <2>b DEF RunHooks, At, Along, After, TaskState, loopVars, Sampling, Running, Closing
    <3> QED
      BY <3>1, LogFrameOne
  <2>26. ASSUME NEW t \in Turns, Clear(t) PROVE LogInv'
    <3>1. /\ Along(t) /\ UNCHANGED <<loop, rollout, nextInput>>
          /\ \A s \in Turns \ {t} : task'[s] = task[s]
      BY <2>26, <2>b DEF Clear, At, Along, After, TaskState, loopVars, Sampling, Running, Closing
    <3> QED
      BY <3>1, LogFrameOne
  <2>27. ASSUME NEW t \in Turns, Exit(t) PROVE LogInv'
    <3>1. /\ Along(t) /\ UNCHANGED <<loop, rollout, nextInput>>
          /\ \A s \in Turns \ {t} : task'[s] = task[s]
      BY <2>27, <2>b DEF Exit, At, Along, After, TaskState, loopVars, Sampling, Running, Closing
    <3> QED
      BY <3>1, LogFrameOne
  <2>28. ASSUME NEW t \in Turns, Compacted(t) PROVE LogInv'
    <3>1. /\ Along(t) /\ UNCHANGED <<loop, rollout, nextInput>>
          /\ \A s \in Turns \ {t} : task'[s] = task[s]
      BY <2>28, <2>b DEF Compacted, At, Along, After, TaskState, loopVars, Sampling, Running, Closing
    <3> QED
      BY <3>1, LogFrameOne
  <2>29. ASSUME NEW t \in Turns, ModelFails(t) PROVE LogInv'
    <3>1. /\ Logs(t, Log(t, "error")) /\ rollout' = Append(rollout, Log(t, "error"))
          /\ task'[t].pending = task[t].pending /\ UNCHANGED <<loop, nextInput>>
          /\ \A s \in Turns \ {t} : task'[s] = task[s]
      BY <2>29, <2>b DEF ModelFails, Abandon, At, Logs, Sampling, TaskState, loopVars
    <3> QED
      BY <3>1, LogAppends
  <2>30. ASSUME NEW t \in Turns, Delta(t) PROVE LogInv'
    <3>1. /\ Along(t) /\ UNCHANGED <<loop, rollout, nextInput>>
          /\ \A s \in Turns \ {t} : task'[s] = task[s]
      BY <2>30, <2>b DEF Delta, At, Along, After, TaskState, loopVars, Sampling, Running, Closing
    <3> QED
      BY <3>1, LogFrameOne
  <2>31. ASSUME NEW t \in Turns, BadCallItem(t) PROVE LogInv'
    <3>1. /\ Along(t) /\ UNCHANGED <<loop, rollout, nextInput>>
          /\ \A s \in Turns \ {t} : task'[s] = task[s]
      BY <2>31, <2>b DEF BadCallItem, At, Along, After, TaskState, loopVars, Sampling, Running, Closing
    <3> QED
      BY <3>1, LogFrameOne
  <2>32. ASSUME NEW t \in Turns, Completed(t) PROVE LogInv'
    <3>1. PICK next \in {"tools", "drain"} : task' = [task EXCEPT ![t].pc = next]
      BY <2>32 DEF Completed
    <3>2. /\ Along(t) /\ UNCHANGED <<loop, rollout, nextInput>>
          /\ \A s \in Turns \ {t} : task'[s] = task[s]
      BY <2>32, <3>1, <2>b DEF Completed, At, Along, After, TaskState, loopVars, Sampling, Running, Closing
    <3> QED
      BY <3>2, LogFrameOne
  <2>33. ASSUME NEW t \in Turns, SeesCancel(t) PROVE LogInv'
    <3>1. /\ Logs(t, Log(t, "error")) /\ rollout' = Append(rollout, Log(t, "error"))
          /\ task'[t].pending = task[t].pending /\ UNCHANGED <<loop, nextInput>>
          /\ \A s \in Turns \ {t} : task'[s] = task[s]
      BY <2>33, <2>b DEF SeesCancel, Abandon, At, Logs, Sampling, TaskState, loopVars
    <3> QED
      BY <3>1, LogAppends
  <2>34. ASSUME NEW t \in Turns, NEW c \in Calls, CallItem(t, c) PROVE LogInv'
    <3>1. /\ Along(t) /\ UNCHANGED <<loop, rollout, nextInput>>
          /\ \A s \in Turns \ {t} : task'[s] = task[s]
      BY <2>34, <2>b DEF CallItem, At, Along, After, TaskState, loopVars, Sampling, Running, Closing
    <3> QED
      BY <3>1, LogFrameOne
  <2>35. ASSUME NEW t \in Turns, NEW c \in Calls, RunDirectly(t, c) PROVE LogInv'
    BY <2>35, LogUntouched DEF RunDirectly, loopVars, HoldsInput
  <2>36. ASSUME NEW t \in Turns, NEW c \in Calls, Ask(t, c) PROVE LogInv'
    BY <2>36, LogUntouched DEF Ask, loopVars, HoldsInput
  <2>37. ASSUME NEW t \in Turns, NEW c \in Calls, Asked(t, c) PROVE LogInv'
    BY <2>37, LogUntouched DEF Asked, loopVars, HoldsInput
  <2>38. ASSUME NEW t \in Turns, NEW c \in Calls, Decided(t, c) PROVE LogInv'
    BY <2>38, LogUntouched DEF Decided, loopVars, HoldsInput
  <2>39. ASSUME NEW t \in Turns, NEW c \in Calls, GiveUp(t, c) PROVE LogInv'
    BY <2>39, LogUntouched DEF GiveUp, loopVars, HoldsInput
  <2>40. ASSUME NEW t \in Turns, NEW c \in Calls, Output(t, c) PROVE LogInv'
    BY <2>40, LogUntouched DEF Output, loopVars, HoldsInput
  <2>41. ASSUME NEW t \in Turns, NEW c \in Calls, Finished(t, c) PROVE LogInv'
    BY <2>41, LogUntouched DEF Finished, loopVars, HoldsInput
  <2>42. ASSUME NEW t \in Turns, NEW c \in Calls, RecordOutput(t, c) PROVE LogInv'
    <3>1. /\ Along(t) /\ UNCHANGED <<loop, rollout, nextInput>>
          /\ \A s \in Turns \ {t} : task'[s] = task[s]
      BY <2>42, <2>b DEF RecordOutput, At, Along, After, TaskState, loopVars, Sampling, Running, Closing
    <3> QED
      BY <3>1, LogFrameOne
  <2>43. CASE UNCHANGED vars
    BY <2>43, LogUntouched DEF vars, loopVars, HoldsInput
  <2> QED
    BY <2>1, <2>2, <2>3, <2>4, <2>5, <2>6, <2>7, <2>8, <2>9, <2>10, <2>11, <2>12,
       <2>13, <2>14, <2>15, <2>16, <2>17, <2>18, <2>19, <2>20, <2>21, <2>22, <2>23,
       <2>24, <2>25, <2>26, <2>27, <2>28, <2>29, <2>30, <2>31, <2>32, <2>33, <2>34,
       <2>35, <2>36, <2>37, <2>38, <2>39, <2>40, <2>41, <2>42, <2>43 DEF Next,
       Client, Loop, Own, Model, Tool
<1> QED
  BY <1>1, <1>2, TypeCorrect, ControlCorrect, PTL DEF Spec

-----------------------------------------------------------------------------
(* What was answered, and what the log says of a turn.                     *)

\* The steps, as the log and the answers see them: a step that neither logs nor
\* answers, the loop taking an input and its three answers, a turn's record, and
\* the reading of its queue.
Quietly ==
  /\ UNCHANGED <<admission, rollout, nextInput>>
  /\ HoldsInput' => HoldsInput /\ loop'.input = loop.input
  /\ active' \in {active, NoTurn}
  /\ loop'.pc = "enqueue" => \/ loop.pc = "enqueue" /\ loop'.task = loop.task
                             \/ active # NoTurn /\ loop'.task = active
  /\ \A s \in Turns : Along(s) /\ task'[s].failed = task[s].failed
Takes ==
  /\ loop'.pc = "lookup" /\ loop'.input = nextInput /\ nextInput' = nextInput + 1
  /\ UNCHANGED <<admission, rollout, task, active>>
Answers(how, t) ==
  /\ HoldsInput /\ loop.input \in Turns /\ loop'.pc = "receive"
  /\ admission' = [admission EXCEPT ![loop.input] = [mode |-> how, turn |-> t]]
  /\ UNCHANGED <<rollout, nextInput>>
Rejects == Answers("rejected", NoTurn) /\ UNCHANGED <<task, active>>
Steers(t) ==
  /\ Answers("steered", t) /\ loop.pc = "enqueue" /\ loop.task = t /\ task[t].accepting
  /\ task' = [task EXCEPT ![t].pending = Append(@, loop.input)]
  /\ UNCHANGED active
Starts ==
  /\ Answers("started", loop.input) /\ active = NoTurn /\ active' = loop.input
  /\ task' = [task EXCEPT ![loop.input] = [NewTask EXCEPT !.pc = "begin", !.accepting = TRUE]]
Alone(t) ==
  /\ UNCHANGED <<admission, nextInput, loop, active>>
  /\ \A s \in Turns \ {t} : task'[s] = task[s]
Reports(t, r) ==
  /\ Alone(t) /\ Logs(t, r) /\ rollout' = Append(rollout, r)
  /\ task'[t].pending = task[t].pending
  /\ task'[t].failed = IF r.kind = "error" THEN TRUE ELSE task[t].failed
Drains(t) ==
  /\ Alone(t) /\ task[t].pc = "drain" /\ rollout' = rollout \o InputRecords(t)
  /\ task'[t].pending = << >> /\ task'[t].pc \in {"top", "finish"}
  /\ task'[t].failed = task[t].failed
Kinds ==
  \/ Quietly \/ Takes \/ Rejects \/ Starts
  \/ \E t \in Turns : Steers(t) \/ Drains(t) \/ \E r : Reports(t, r)

\* A step of the loop that gives it neither an input nor a turn to enqueue to, and
\* leaves the turns alone.
LEMMA QuietLoop ==
  ASSUME UNCHANGED <<task, active, admission, rollout, nextInput>>, ~HoldsInput'
  PROVE  Quietly
BY DEF Quietly, Along, HoldsInput

\* A step of a turn that logs nothing.
LEMMA QuietTurn ==
  ASSUME NEW t \in Turns, Along(t), task'[t].failed = task[t].failed,
         \A s \in Turns \ {t} : task'[s] = task[s], active' \in {active, NoTurn},
         UNCHANGED <<loop, admission, rollout, nextInput>>
  PROVE  Quietly
BY DEF Quietly, Along, HoldsInput

\* A step of a tool or of a client that leaves all of it alone.
LEMMA QuietElse ==
  ASSUME UNCHANGED <<loop, nextInput, admission, active, task, rollout>>
  PROVE  Quietly
BY DEF Quietly, Along, HoldsInput

\* An abort is quiet, too.
LEMMA QuietAbort ==
  ASSUME TypeOK, NEW why \in Reasons, NEW next, AbortActive(why, next), ~HoldsInput',
         UNCHANGED <<active, admission, rollout, nextInput>>
  PROVE  Quietly
PROOF
<1>1. task \in [Turns -> TaskState] /\ active \in Turns \cup {NoTurn}
  BY DEF TypeOK
<1>2. \A s \in Turns : task'[s].failed = task[s].failed
  <2>1. CASE active = NoTurn
    BY <2>1 DEF AbortActive
  <2>2. CASE active \in Turns
    <3>1. task' = [task EXCEPT ![active] = [@ EXCEPT !.cancelled = TRUE, !.reason = why]]
      BY <2>2 DEF AbortActive, Turns, NoTurn
    <3> QED
      BY <3>1, <1>1, <2>2 DEF TaskState
  <2> QED
    BY <1>1, <2>1, <2>2
<1>3. \A s \in Turns : Along(s)
  BY AbortKeepsAlong
<1> QED
  BY <1>2, <1>3 DEF Quietly, HoldsInput

\* Every step is of one of these kinds.
LEMMA StepKinds ==
  ASSUME TypeOK, ControlInv, [Next]_vars
  PROVE  Kinds
PROOF
<1>a. LoopTyped /\ loop \in LoopState /\ active \in Turns \cup {NoTurn}
  BY DEF TypeOK, LoopTyped
<1>b. task \in [Turns -> TaskState]
  BY DEF TypeOK
<1>c. LoopKnows
  BY DEF ControlInv
<1>k. /\ Quietly \/ Takes \/ Rejects \/ Starts => Kinds
      /\ \A t \in Turns : Steers(t) \/ Drains(t) \/ (\E r : Reports(t, r)) => Kinds
  BY DEF Kinds
<1> HIDE DEF Kinds
<1>1. ASSUME NEW t \in Turns \cup {NoTurn}, SubmitInput(t) PROVE Kinds
  <2>1. Takes
    BY <1>1 DEF SubmitInput, Takes, Idle
  <2> QED
    BY <1>k, <2>1
<1>2. ASSUME NEW t \in Turns \cup {NoTurn}, SubmitInterrupt(t) PROVE Kinds
  <2>1. ~HoldsInput'
    BY <1>2, <1>a DEF SubmitInterrupt, HoldsInput, Idle, LoopState
  <2> QED
    BY <1>k, <1>2, <2>1, QuietLoop DEF SubmitInterrupt
<1>3. CASE SubmitInvalid
  <2>1. ~HoldsInput'
    BY <1>3, <1>a DEF SubmitInvalid, HoldsInput, Idle, LoopState
  <2> QED
    BY <1>k, <1>3, <2>1, QuietLoop DEF SubmitInvalid
<1>4. CASE SubmitShutdown
  <2>1. ~HoldsInput'
    BY <1>4, <1>a DEF SubmitShutdown, HoldsInput, Idle, LoopState
  <2> QED
    BY <1>k, <1>4, <2>1, QuietLoop DEF SubmitShutdown
<1>5. CASE Complain
  <2>1. ~HoldsInput'
    BY <1>5, <1>a DEF Complain, HoldsInput, Idle, LoopState
  <2> QED
    BY <1>k, <1>5, <2>1, QuietLoop DEF Complain
<1>6. CASE Await
  <2>1. ~HoldsInput'
    BY <1>6, <1>a, <1>c DEF Await, HoldsInput, LoopKnows, LoopTyped, LoopState
  <2> QED
    BY <1>k, <1>6, <2>1, QuietLoop DEF Await
<1>7. CASE CheckExpected
  <2>1. ~HoldsInput'
    BY <1>7, <1>a DEF CheckExpected, HoldsInput, Idle, LoopState
  <2> QED
    BY <1>k, <1>7, <2>1, QuietLoop DEF CheckExpected
<1>8. CASE Reply
  <2>1. ~HoldsInput'
    BY <1>8, <1>a DEF Reply, HoldsInput, Idle, LoopState
  <2> QED
    BY <1>k, <1>8, <2>1, QuietLoop DEF Reply
<1>9. CASE Teardown
  <2>1. ~HoldsInput'
    BY <1>9, <1>a DEF Teardown, HoldsInput, Idle, LoopState
  <2> QED
    BY <1>k, <1>9, <2>1, QuietLoop DEF Teardown
<1>10. ASSUME NEW t \in Turns, NEW c \in Calls, NEW d \in Decisions, SubmitApproval(t, c, d) PROVE Kinds
  BY <1>k, <1>10, QuietElse DEF SubmitApproval, loopVars
<1>11. CASE Lookup
  <2>1. CASE active # NoTurn /\ loop' = [loop EXCEPT !.pc = "enqueue", !.task = active]
             /\ UNCHANGED admission
    <3>1. loop'.pc = "enqueue" /\ loop'.input = loop.input /\ loop'.task = active
      BY <2>1, <1>a DEF LoopState
    <3>2. Quietly
      BY <1>11, <2>1, <3>1 DEF Lookup, Quietly, Along, HoldsInput
    <3> QED
      BY <1>k, <3>2
  <2>2. CASE loop' = [loop EXCEPT !.pc = "spawn"] /\ UNCHANGED admission
    <3>1. loop'.pc = "spawn" /\ loop'.input = loop.input
      BY <2>2, <1>a DEF LoopState
    <3>2. Quietly
      BY <1>11, <2>2, <3>1 DEF Lookup, Quietly, Along, HoldsInput
    <3> QED
      BY <1>k, <3>2
  <2>3. CASE Answer("rejected", NoTurn)
    <3>1. Rejects
      BY <1>11, <2>3, <1>a DEF Lookup, Answer, Rejects, Answers, HoldsInput, LoopTyped, Idle
    <3> QED
      BY <1>k, <3>1
  <2> QED
    BY <1>11, <2>1, <2>2, <2>3 DEF Lookup
<1>12. CASE Enqueue
  <2>1. loop.input \in Turns /\ loop.task \in Turns /\ HoldsInput
    BY <1>12, <1>a DEF Enqueue, LoopTyped, HoldsInput
  <2>2. CASE task[loop.task].accepting
    <3>1. Steers(loop.task)
      BY <1>12, <2>1, <2>2 DEF Enqueue, Answer, Steers, Answers, Idle
    <3> QED
      BY <1>k, <2>1, <3>1
  <2>3. CASE ~task[loop.task].accepting
    <3>1. Rejects
      BY <1>12, <2>1, <2>3 DEF Enqueue, Answer, Rejects, Answers, Idle
    <3> QED
      BY <1>k, <3>1
  <2> QED
    BY <2>2, <2>3
<1>13. CASE Spawn
  <2>1. loop' = [loop EXCEPT !.pc = "create"] /\ task' = task
    BY <1>13, <1>c DEF Spawn, LoopKnows, AbortActive
  <2>2. loop'.pc = "create" /\ loop'.input = loop.input
    BY <2>1, <1>a DEF LoopState
  <2>3. Quietly
    BY <1>13, <2>1, <2>2 DEF Spawn, Quietly, Along, HoldsInput
  <2> QED
    BY <1>k, <2>3
<1>14. CASE Create
  <2>1. active = NoTurn /\ loop.input \in Turns /\ HoldsInput
    BY <1>14, <1>a, <1>c DEF Create, LoopTyped, LoopKnows, HoldsInput
  <2>2. Starts
    BY <1>14, <2>1 DEF Create, Answer, Starts, Answers, Idle
  <2> QED
    BY <1>k, <2>2
<1>15. CASE Interrupt
  <2>1. \/ loop' = [loop EXCEPT !.pc = "reply"]
        \/ loop' = [loop EXCEPT !.pc = "await", !.task = active, !.then = "reply"]
    BY <1>15 DEF Interrupt, AbortActive
  <2>2. ~HoldsInput'
    BY <2>1, <1>a DEF HoldsInput, LoopState
  <2>3. Quietly
    BY <1>15, <2>2, QuietAbort DEF Interrupt, Reasons
  <2> QED
    BY <1>k, <2>3
<1>16. CASE Shutdown
  <2>1. \/ loop' = [loop EXCEPT !.pc = "teardown"]
        \/ loop' = [loop EXCEPT !.pc = "await", !.task = active, !.then = "teardown"]
    BY <1>16 DEF Shutdown, AbortActive
  <2>2. ~HoldsInput'
    BY <2>1, <1>a DEF HoldsInput, LoopState
  <2>3. Quietly
    BY <1>16, <2>2, QuietAbort DEF Shutdown, Reasons
  <2> QED
    BY <1>k, <2>3
<1>17. CASE NextEvent
  BY <1>k, <1>17, QuietElse DEF NextEvent, loopVars
<1>18. ASSUME NEW t \in Turns, Deliver(t) PROVE Kinds
  <2>1. /\ Along(t) /\ task'[t].failed = task[t].failed
        /\ \A s \in Turns \ {t} : task'[s] = task[s]
    BY <1>18, <1>b DEF Deliver, At, Along, After, TaskState, loopVars, Sampling, Running, Closing
  <2> QED
    BY <1>k, <1>18, <2>1, QuietTurn DEF Deliver, loopVars
<1>19. ASSUME NEW t \in Turns, ToolsDone(t) PROVE Kinds
  <2>1. /\ Along(t) /\ task'[t].failed = task[t].failed
        /\ \A s \in Turns \ {t} : task'[s] = task[s]
    BY <1>19, <1>b DEF ToolsDone, At, Along, After, TaskState, loopVars, Sampling, Running, Closing
  <2> QED
    BY <1>k, <1>19, <2>1, QuietTurn DEF ToolsDone, loopVars
<1>20. ASSUME NEW t \in Turns, RunHooks(t) PROVE Kinds
  <2>1. /\ Along(t) /\ task'[t].failed = task[t].failed
        /\ \A s \in Turns \ {t} : task'[s] = task[s]
    BY <1>20, <1>b DEF RunHooks, At, Along, After, TaskState, loopVars, Sampling, Running, Closing
  <2> QED
    BY <1>k, <1>20, <2>1, QuietTurn DEF RunHooks, loopVars
<1>21. ASSUME NEW t \in Turns, Clear(t) PROVE Kinds
  <2>1. /\ Along(t) /\ task'[t].failed = task[t].failed
        /\ \A s \in Turns \ {t} : task'[s] = task[s]
    BY <1>21, <1>b DEF Clear, At, Along, After, TaskState, loopVars, Sampling, Running, Closing
  <2> QED
    BY <1>k, <1>21, <2>1, QuietTurn DEF Clear, loopVars
<1>22. ASSUME NEW t \in Turns, Exit(t) PROVE Kinds
  <2>1. /\ Along(t) /\ task'[t].failed = task[t].failed
        /\ \A s \in Turns \ {t} : task'[s] = task[s]
    BY <1>22, <1>b DEF Exit, At, Along, After, TaskState, loopVars, Sampling, Running, Closing
  <2> QED
    BY <1>k, <1>22, <2>1, QuietTurn DEF Exit, loopVars
<1>23. ASSUME NEW t \in Turns, Compacted(t) PROVE Kinds
  <2>1. /\ Along(t) /\ task'[t].failed = task[t].failed
        /\ \A s \in Turns \ {t} : task'[s] = task[s]
    BY <1>23, <1>b DEF Compacted, At, Along, After, TaskState, loopVars, Sampling, Running, Closing
  <2> QED
    BY <1>k, <1>23, <2>1, QuietTurn DEF Compacted, loopVars
<1>24. ASSUME NEW t \in Turns, Delta(t) PROVE Kinds
  <2>1. /\ Along(t) /\ task'[t].failed = task[t].failed
        /\ \A s \in Turns \ {t} : task'[s] = task[s]
    BY <1>24, <1>b DEF Delta, At, Along, After, TaskState, loopVars, Sampling, Running, Closing
  <2> QED
    BY <1>k, <1>24, <2>1, QuietTurn DEF Delta, loopVars
<1>25. ASSUME NEW t \in Turns, BadCallItem(t) PROVE Kinds
  <2>1. /\ Along(t) /\ task'[t].failed = task[t].failed
        /\ \A s \in Turns \ {t} : task'[s] = task[s]
    BY <1>25, <1>b DEF BadCallItem, At, Along, After, TaskState, loopVars, Sampling, Running, Closing
  <2> QED
    BY <1>k, <1>25, <2>1, QuietTurn DEF BadCallItem, loopVars
<1>26. ASSUME NEW t \in Turns, Top(t) PROVE Kinds
  <2>1. PICK next \in {"compact", "sample"} :
           task' = [task EXCEPT ![t] = [@ EXCEPT !.pc = next, !.followUp = FALSE]]
    BY <1>26 DEF Top
  <2>2. /\ Along(t) /\ task'[t].failed = task[t].failed
        /\ \A s \in Turns \ {t} : task'[s] = task[s]
    BY <1>26, <2>1, <1>b DEF Top, At, Along, After, TaskState, loopVars, Sampling, Running, Closing
  <2> QED
    BY <1>k, <1>26, <2>2, QuietTurn DEF Top, loopVars
<1>27. ASSUME NEW t \in Turns, Completed(t) PROVE Kinds
  <2>1. PICK next \in {"tools", "drain"} : task' = [task EXCEPT ![t].pc = next]
    BY <1>27 DEF Completed
  <2>2. /\ Along(t) /\ task'[t].failed = task[t].failed
        /\ \A s \in Turns \ {t} : task'[s] = task[s]
    BY <1>27, <2>1, <1>b DEF Completed, At, Along, After, TaskState, loopVars, Sampling, Running, Closing
  <2> QED
    BY <1>k, <1>27, <2>2, QuietTurn DEF Completed, loopVars
<1>28. ASSUME NEW t \in Turns, NEW c \in Calls, CallItem(t, c) PROVE Kinds
  <2>1. /\ Along(t) /\ task'[t].failed = task[t].failed
        /\ \A s \in Turns \ {t} : task'[s] = task[s]
    BY <1>28, <1>b DEF CallItem, At, Along, After, TaskState, loopVars, Sampling, Running, Closing
  <2> QED
    BY <1>k, <1>28, <2>1, QuietTurn DEF CallItem, loopVars
<1>29. ASSUME NEW t \in Turns, NEW c \in Calls, RecordOutput(t, c) PROVE Kinds
  <2>1. /\ Along(t) /\ task'[t].failed = task[t].failed
        /\ \A s \in Turns \ {t} : task'[s] = task[s]
    BY <1>29, <1>b DEF RecordOutput, At, Along, After, TaskState, loopVars, Sampling, Running, Closing
  <2> QED
    BY <1>k, <1>29, <2>1, QuietTurn DEF RecordOutput, loopVars
<1>30. ASSUME NEW t \in Turns, NEW c \in Calls, RunDirectly(t, c) PROVE Kinds
  BY <1>k, <1>30, QuietElse DEF RunDirectly, loopVars
<1>31. ASSUME NEW t \in Turns, NEW c \in Calls, Ask(t, c) PROVE Kinds
  BY <1>k, <1>31, QuietElse DEF Ask, loopVars
<1>32. ASSUME NEW t \in Turns, NEW c \in Calls, Asked(t, c) PROVE Kinds
  BY <1>k, <1>32, QuietElse DEF Asked, loopVars
<1>33. ASSUME NEW t \in Turns, NEW c \in Calls, Decided(t, c) PROVE Kinds
  BY <1>k, <1>33, QuietElse DEF Decided, loopVars
<1>34. ASSUME NEW t \in Turns, NEW c \in Calls, GiveUp(t, c) PROVE Kinds
  BY <1>k, <1>34, QuietElse DEF GiveUp, loopVars
<1>35. ASSUME NEW t \in Turns, NEW c \in Calls, Output(t, c) PROVE Kinds
  BY <1>k, <1>35, QuietElse DEF Output, loopVars
<1>36. ASSUME NEW t \in Turns, NEW c \in Calls, Finished(t, c) PROVE Kinds
  BY <1>k, <1>36, QuietElse DEF Finished, loopVars
<1>37. ASSUME NEW t \in Turns, Begin(t) PROVE Kinds
  <2>1. Alone(t) /\ rollout' = Append(rollout, Log(t, "started"))
    BY <1>37, <1>b DEF Begin, At, Alone, loopVars
  <2>2. Logs(t, Log(t, "started")) /\ task'[t].pending = task[t].pending
    BY <1>37, <1>b DEF Begin, At, Logs, Sampling, TaskState
  <2>3. task'[t].failed = IF Log(t, "started").kind = "error" THEN TRUE ELSE task[t].failed
    BY <1>37, <1>b DEF Begin, At, Log, LogInput, TaskState
  <2>4. Reports(t, Log(t, "started"))
    BY <2>1, <2>2, <2>3 DEF Reports
  <2> QED
    BY <1>k, <2>4
<1>38. ASSUME NEW t \in Turns, RecordInput(t) PROVE Kinds
  <2>1. Alone(t) /\ rollout' = Append(rollout, LogInput(t, t))
    BY <1>38, <1>b DEF RecordInput, At, Alone, loopVars
  <2>2. Logs(t, LogInput(t, t)) /\ task'[t].pending = task[t].pending
    BY <1>38, <1>b DEF RecordInput, At, Logs, Sampling, TaskState
  <2>3. task'[t].failed = IF LogInput(t, t).kind = "error" THEN TRUE ELSE task[t].failed
    BY <1>38, <1>b DEF RecordInput, At, Log, LogInput, TaskState
  <2>4. Reports(t, LogInput(t, t))
    BY <2>1, <2>2, <2>3 DEF Reports
  <2> QED
    BY <1>k, <2>4
<1>39. ASSUME NEW t \in Turns, ModelFails(t) PROVE Kinds
  <2>1. Alone(t) /\ rollout' = Append(rollout, Log(t, "error"))
    BY <1>39, <1>b DEF ModelFails, Abandon, At, Alone, loopVars
  <2>2. Logs(t, Log(t, "error")) /\ task'[t].pending = task[t].pending
    BY <1>39, <1>b DEF ModelFails, Abandon, At, Logs, Sampling, TaskState
  <2>3. task'[t].failed = IF Log(t, "error").kind = "error" THEN TRUE ELSE task[t].failed
    BY <1>39, <1>b DEF ModelFails, Abandon, At, Log, LogInput, TaskState
  <2>4. Reports(t, Log(t, "error"))
    BY <2>1, <2>2, <2>3 DEF Reports
  <2> QED
    BY <1>k, <2>4
<1>40. ASSUME NEW t \in Turns, SeesCancel(t) PROVE Kinds
  <2>1. Alone(t) /\ rollout' = Append(rollout, Log(t, "error"))
    BY <1>40, <1>b DEF SeesCancel, Abandon, At, Alone, loopVars
  <2>2. Logs(t, Log(t, "error")) /\ task'[t].pending = task[t].pending
    BY <1>40, <1>b DEF SeesCancel, Abandon, At, Logs, Sampling, TaskState
  <2>3. task'[t].failed = IF Log(t, "error").kind = "error" THEN TRUE ELSE task[t].failed
    BY <1>40, <1>b DEF SeesCancel, Abandon, At, Log, LogInput, TaskState
  <2>4. Reports(t, Log(t, "error"))
    BY <2>1, <2>2, <2>3 DEF Reports
  <2> QED
    BY <1>k, <2>4
<1>41. ASSUME NEW t \in Turns, Finish(t) PROVE Kinds
  <2>1. PICK next \in {"clear", "hooks"}, last \in {"aborted", "complete"} :
           /\ task' = [task EXCEPT ![t] = [@ EXCEPT !.out = "end", !.pc = next]]
           /\ rollout' = Append(rollout, Log(t, last))
    BY <1>41 DEF Finish
  <2>2. Alone(t) /\ Logs(t, Log(t, last))
    BY <1>41, <2>1, <1>b DEF Finish, At, Alone, Logs, TaskState, loopVars
  <2>3. /\ task'[t].pending = task[t].pending
        /\ task'[t].failed = task[t].failed /\ Log(t, last).kind # "error"
    BY <2>1, <1>b DEF TaskState, Log
  <2>4. Reports(t, Log(t, last))
    BY <2>1, <2>2, <2>3 DEF Reports
  <2> QED
    BY <1>k, <2>4
<1>42. ASSUME NEW t \in Turns, Drain(t) PROVE Kinds
  <2>1. Alone(t) /\ task[t].pc = "drain" /\ rollout' = rollout \o InputRecords(t)
    BY <1>42, <1>b DEF Drain, At, Alone, loopVars
  <2>2. CASE task' = [task EXCEPT ![t] = [@ EXCEPT !.pc = "top", !.pending = << >>]]
    <3>1. /\ task'[t].pending = << >> /\ task'[t].pc = "top"
          /\ task'[t].failed = task[t].failed
      BY <2>2, <1>b DEF TaskState
    <3> QED
      BY <1>k, <2>1, <3>1 DEF Drains
  <2>3. CASE /\ task[t].pending = << >>
             /\ task' = [task EXCEPT ![t] = [@ EXCEPT !.pc = "finish", !.accepting = FALSE]]
    <3>1. /\ task'[t].pending = << >> /\ task'[t].pc = "finish"
          /\ task'[t].failed = task[t].failed
      BY <2>3, <1>b DEF TaskState
    <3> QED
      BY <1>k, <2>1, <3>1 DEF Drains
  <2> QED
    BY <1>42, <2>2, <2>3 DEF Drain
<1>43. CASE UNCHANGED vars
  BY <1>k, <1>43, QuietElse DEF vars, loopVars
<1> QED
  BY <1>1, <1>2, <1>3, <1>4, <1>5, <1>6, <1>7, <1>8, <1>9, <1>10, <1>11, <1>12,
     <1>13, <1>14, <1>15, <1>16, <1>17, <1>18, <1>19, <1>20, <1>21, <1>22,
     <1>23, <1>24, <1>25, <1>26, <1>27, <1>28, <1>29, <1>30, <1>31, <1>32,
     <1>33, <1>34, <1>35, <1>36, <1>37, <1>38, <1>39, <1>40, <1>41, <1>42, <1>43
     DEF Next, Client, Loop, Own, Model, Tool

\* What one more record, or the records of a queue, say of the turns and the inputs.
LEMMA HoldsAppend ==
  ASSUME TypeOK, NEW r \in Record, rollout' = Append(rollout, r)
  PROVE  /\ \A t, kinds : Holds(t, kinds)' <=> Holds(t, kinds) \/ (r.turn = t /\ r.kind \in kinds)
         /\ \A i : Recorded(i)' <=> Recorded(i) \/ (r.kind = "input" /\ r.input = i)
PROOF
<1> DEFINE n == Len(rollout)
<1>1. /\ n \in Nat /\ DOMAIN rollout = 1 .. n /\ DOMAIN rollout' = 1 .. n + 1
      /\ \A k \in 1 .. n : rollout'[k] = rollout[k]
      /\ rollout'[n + 1] = r
  BY LogAfterAppend
<1> HIDE DEF n
<1>2. \A k \in 1 .. n + 1 : k \in 1 .. n \/ k = n + 1
  BY <1>1
<1>3. \A k \in 1 .. n : k \in 1 .. n + 1
  BY <1>1
<1>4. n + 1 \in 1 .. n + 1
  BY <1>1
<1>5. ASSUME NEW t, NEW kinds
      PROVE  Holds(t, kinds)' <=> Holds(t, kinds) \/ (r.turn = t /\ r.kind \in kinds)
  BY <1>1, <1>2, <1>3, <1>4 DEF Holds
<1>6. ASSUME NEW i
      PROVE  Recorded(i)' <=> Recorded(i) \/ (r.kind = "input" /\ r.input = i)
  BY <1>1, <1>2, <1>3, <1>4 DEF Recorded
<1> QED
  BY <1>5, <1>6

LEMMA HoldsDrain ==
  ASSUME TypeOK, NEW t \in Turns, rollout' = rollout \o InputRecords(t)
  PROVE  /\ \A s, kinds : "input" \notin kinds => (Holds(s, kinds)' <=> Holds(s, kinds))
         /\ \A i : Recorded(i)' <=> Recorded(i) \/ Queued(i, t)
PROOF
<1> DEFINE n == Len(rollout)
           q == task[t].pending
           m == Len(q)
<1>1. q \in Seq(Turns) /\ rollout \in Seq(Record) /\ InputRecords(t) \in Seq(Record)
  BY InputRecordsType DEF TypeOK, TaskState
<1>2. n \in Nat /\ m \in Nat /\ Len(InputRecords(t)) = m /\ DOMAIN rollout = 1 .. n /\ DOMAIN q = 1 .. m
  BY <1>1 DEF InputRecords
<1>3. DOMAIN rollout' = 1 .. n + m
  <2>1. rollout' \in Seq(Record)
    BY <1>1, ConcatProperties
  <2>2. Len(rollout') = Len(rollout) + Len(InputRecords(t))
    BY <1>1, ConcatProperties
  <2> QED
    BY <1>2, <2>1, <2>2
<1>4. \A k \in 1 .. n : rollout'[k] = rollout[k]
  BY <1>1, <1>2, ConcatProperties
<1>5. \A k \in 1 .. n + m : k > n => k - n \in 1 .. m /\ rollout'[k] = LogInput(t, q[k - n])
  <2> SUFFICES ASSUME NEW k \in 1 .. n + m, k > n
               PROVE  k - n \in 1 .. m /\ rollout'[k] = LogInput(t, q[k - n])
    OBVIOUS
  <2>1. k - n \in 1 .. m
    BY <1>2
  <2>2. rollout'[k] = InputRecords(t)[k - n]
    BY <1>1, <1>2, <2>1, ConcatProperties
  <2> QED
    BY <2>1, <2>2, <1>2 DEF InputRecords
<1> HIDE DEF n, m
<1>6. \A k \in 1 .. n + m : k \in 1 .. n \/ k > n
  BY <1>2
<1>7. \A k \in 1 .. n : k \in 1 .. n + m
  BY <1>2
<1>8. \A k \in 1 .. n + m : k > n =>
        /\ k - n \in 1 .. m /\ rollout'[k].kind = "input" /\ rollout'[k].input = q[k - n]
  <2> TAKE k \in 1 .. n + m
  <2>1. k > n => k - n \in 1 .. m /\ rollout'[k] = LogInput(t, q[k - n])
    BY <1>5
  <2>2. \A i : LogInput(t, i).kind = "input" /\ LogInput(t, i).input = i
    BY DEF LogInput
  <2> HIDE DEF q
  <2> QED
    BY <2>1, <2>2
<1>9. \A j \in 1 .. m : \E k \in 1 .. n + m : k > n /\ k - n = j
  <2> TAKE j \in 1 .. m
  <2>1. n + j \in 1 .. n + m /\ n + j > n /\ (n + j) - n = j
    BY <1>2
  <2> QED
    BY <2>1
<1>10. ASSUME NEW s, NEW kinds, "input" \notin kinds
       PROVE  Holds(s, kinds)' <=> Holds(s, kinds)
  BY <1>2, <1>3, <1>4, <1>6, <1>7, <1>8, <1>10 DEF Holds
<1>11. ASSUME NEW i PROVE Recorded(i)' <=> Recorded(i) \/ Queued(i, t)
  <2>1. ASSUME Recorded(i)' PROVE Recorded(i) \/ Queued(i, t)
    <3>1. PICK k \in 1 .. n + m : rollout'[k].kind = "input" /\ rollout'[k].input = i
      BY <1>3, <2>1 DEF Recorded
    <3>2. CASE k \in 1 .. n
      BY <1>2, <1>4, <3>1, <3>2 DEF Recorded
    <3>3. CASE k > n
      BY <1>2, <1>8, <3>1, <3>3 DEF Queued
    <3> QED
      BY <1>6, <3>2, <3>3
  <2>2. ASSUME Recorded(i) PROVE Recorded(i)'
    BY <1>2, <1>3, <1>4, <1>7, <2>2 DEF Recorded
  <2>3. ASSUME Queued(i, t) PROVE Recorded(i)'
    <3>1. PICK j \in 1 .. m : q[j] = i
      BY <1>2, <2>3 DEF Queued
    <3>2. PICK k \in 1 .. n + m : k > n /\ k - n = j
      BY <1>9
    <3> QED
      BY <1>3, <1>8, <3>1, <3>2 DEF Recorded
  <2> QED
    BY <2>1, <2>2, <2>3
<1> QED
  BY <1>10, <1>11

LEMMA HoldsSame ==
  ASSUME rollout' = rollout
  PROVE  /\ \A t, kinds : Holds(t, kinds)' <=> Holds(t, kinds)
         /\ \A i : Recorded(i)' <=> Recorded(i)
BY DEF Holds, Recorded

\* A turn's records and answers stay what they say of it while it stays where it is.
LEMMA QuietAnswers ==
  ASSUME TypeOK, AnswersInv, Quietly
  PROVE  AnswersInv'
PROOF
<1> USE DEF AnswersInv
<1>1. \A s \in Turns :
        /\ task'[s].pending = task[s].pending /\ task'[s].failed = task[s].failed
        /\ task'[s].pc \in Logging \cup After <=> task[s].pc \in Logging \cup After
        /\ task'[s].pc \in After <=> task[s].pc \in After
        /\ task[s].pc \in {"finish"} \cup After => task'[s].pc \in {"finish"} \cup After
        /\ task'[s].pc \notin {"none", "begin", "record"} =>
             task[s].pc \notin {"none", "begin", "record"}
        /\ task'[s].pc # "none" <=> task[s].pc # "none"
  BY DEF Quietly, Along, After, Logging, Sampling
<1>2. /\ \A t, kinds : Holds(t, kinds)' <=> Holds(t, kinds)
      /\ \A i : Recorded(i)' <=> Recorded(i)
  BY HoldsSame DEF Quietly
<1>3. admission' = admission /\ nextInput' = nextInput
  BY DEF Quietly
<1>4. ASSUME NEW s \in Turns PROVE Stretch(s)'
  <2>1. Stretch(s)
    OBVIOUS
  <2> QED
    BY <1>1, <1>2, <1>3, <2>1 DEF Stretch, Begun, Over, Erred
<1>5. ASSUME NEW i \in Turns PROVE Answered(i)'
  <2>1. Answered(i)
    OBVIOUS
  <2> QED
    BY <1>3, <2>1 DEF Answered, Quietly
<1>6. NewestCurrent'
  <2>1. active # NoTurn => active \in Turns
    BY DEF TypeOK
  <2> QED
    BY <1>1, <1>3, <2>1, Numbers DEF NewestCurrent, Quietly
<1> QED
  BY <1>4, <1>5, <1>6

\* The loop takes an input: it is newer than all that were answered.
LEMMA TakenAnswers ==
  ASSUME TypeOK, AnswersInv, Takes
  PROVE  AnswersInv'
PROOF
<1> USE DEF AnswersInv
<1>1. /\ \A t, kinds : Holds(t, kinds)' <=> Holds(t, kinds)
      /\ \A i : Recorded(i)' <=> Recorded(i)
  BY HoldsSame DEF Takes
<1>2. /\ admission' = admission /\ nextInput' = nextInput + 1 /\ nextInput \in Nat
      /\ task' = task /\ active' = active /\ loop'.input = nextInput /\ loop'.pc = "lookup"
  BY Numbers DEF Takes
<1>3. ASSUME NEW s \in Turns PROVE Stretch(s)'
  <2>1. Stretch(s)
    OBVIOUS
  <2> QED
    BY <1>1, <1>2, <2>1 DEF Stretch, Begun, Over, Erred
<1>4. ASSUME NEW i \in Turns PROVE Answered(i)'
  <2>1. Answered(i) /\ i \in Nat
    BY Numbers
  <2> QED
    BY <1>2, <2>1 DEF Answered
<1>5. NewestCurrent'
  BY <1>2 DEF NewestCurrent
<1> QED
  BY <1>3, <1>4, <1>5

\* An input that was turned down stays nobody's.
LEMMA RejectedAnswers ==
  ASSUME TypeOK, ControlInv, AnswersInv, Rejects
  PROVE  AnswersInv'
PROOF
<1> USE DEF AnswersInv
<1> PICK j \in Turns : j = loop.input
  BY DEF Rejects, Answers
<1>1. /\ \A t, kinds : Holds(t, kinds)' <=> Holds(t, kinds)
      /\ \A i : Recorded(i)' <=> Recorded(i)
  BY HoldsSame DEF Rejects, Answers
<1>2. /\ HoldsInput /\ loop'.pc = "receive" /\ nextInput' = nextInput
      /\ task' = task /\ active' = active /\ task[j].pc = "none"
  BY DEF Rejects, Answers, ControlInv, FreshTurns
<1>3. /\ admission'[j].mode = "rejected" /\ admission'[j].turn = NoTurn
      /\ \A i \in Turns \ {j} : admission'[i] = admission[i]
  BY DEF Rejects, Answers, TypeOK
<1>4. admission[j].turn = NoTurn /\ admission[j].mode # "started"
  <2>1. Answered(j) /\ Stretch(j) /\ j \in Nat
    BY Numbers
  <2> QED
    BY <1>2, <2>1 DEF Answered, Stretch
<1>5. ASSUME NEW s \in Turns PROVE Stretch(s)'
  <2>1. Stretch(s) /\ s # NoTurn /\ task[s].pending \in Seq(Turns)
    BY Numbers DEF TypeOK, TaskState
  <2>2. admission'[s].mode = "started" <=> admission[s].mode = "started"
    BY <1>3, <1>4
  <2>3. \A k \in DOMAIN task[s].pending : admission'[task[s].pending[k]].turn = s
    <3> TAKE k \in DOMAIN task[s].pending
    <3>1. task[s].pending[k] \in Turns
      BY <2>1
    <3>2. admission[task[s].pending[k]].turn = s
      BY <2>1 DEF Stretch
    <3> QED
      BY <1>3, <1>4, <2>1, <3>1, <3>2
  <2> QED
    BY <1>1, <1>2, <2>1, <2>2, <2>3 DEF Stretch, Begun, Over, Erred
<1>6. ASSUME NEW i \in Turns PROVE Answered(i)'
  <2>1. Answered(i) /\ ~HoldsInput'
    BY <1>2 DEF HoldsInput
  <2> QED
    BY <1>2, <1>3, <2>1 DEF Answered
<1>7. NewestCurrent'
  BY <1>2 DEF NewestCurrent, HoldsInput
<1> QED
  BY <1>5, <1>6, <1>7

\* A steered input is its turn's, and newer than the one that started it.
LEMMA SteeredAnswers ==
  ASSUME TypeOK, ControlInv, QueueInv, AnswersInv, NEW t \in Turns, Steers(t)
  PROVE  AnswersInv'
PROOF
<1> USE DEF AnswersInv
<1> PICK j \in Turns : j = loop.input
  BY DEF Steers, Answers
<1>1. /\ \A s, kinds : Holds(s, kinds)' <=> Holds(s, kinds)
      /\ \A i : Recorded(i)' <=> Recorded(i)
  BY HoldsSame DEF Steers, Answers
<1>2. /\ HoldsInput /\ loop'.pc = "receive" /\ nextInput' = nextInput
      /\ active' = active /\ task[j].pc = "none" /\ j < nextInput
  BY DEF Steers, Answers, ControlInv, FreshTurns
<1>3. /\ admission'[j].mode = "steered" /\ admission'[j].turn = t
      /\ \A i \in Turns \ {j} : admission'[i] = admission[i]
  BY DEF Steers, Answers, TypeOK
<1>4. admission[j].turn = NoTurn /\ admission[j].mode # "started"
  <2>1. Answered(j) /\ Stretch(j) /\ j \in Nat
    BY Numbers
  <2> QED
    BY <1>2, <2>1 DEF Answered, Stretch
<1>5. task[t].pc # "none" /\ t <= j
  <2>1. task[t].pc # "none"
    BY DEF QueueInv, QueuesClosed, Closed, Steers
  <2>2. t < nextInput
    BY <2>1, Numbers DEF ControlInv, FreshTurns
  <2>3. nextInput = j + 1
    BY <1>2 DEF NewestCurrent
  <2> QED
    BY <2>1, <2>2, <2>3, Numbers
<1>6. /\ task[t].pending \in Seq(Turns) /\ task'[t].pending = Append(task[t].pending, j)
      /\ \A s \in Turns : /\ task'[s].pc = task[s].pc /\ task'[s].failed = task[s].failed
                          /\ s # t => task'[s] = task[s]
  <2>1. task \in [Turns -> TaskState] /\ task' = [task EXCEPT ![t].pending = Append(@, j)]
    BY DEF Steers, TypeOK
  <2> QED
    BY <2>1 DEF TaskState
<1>7. ASSUME NEW s \in Turns PROVE Stretch(s)'
  <2>1. Stretch(s) /\ s # NoTurn /\ task[s].pending \in Seq(Turns)
    BY Numbers DEF TypeOK, TaskState
  <2>2. admission'[s].mode = "started" <=> admission[s].mode = "started"
    BY <1>3, <1>4
  <2>3. \A k \in DOMAIN task[s].pending : admission'[task[s].pending[k]].turn = s
    <3> TAKE k \in DOMAIN task[s].pending
    <3>1. task[s].pending[k] \in Turns
      BY <2>1
    <3>2. admission[task[s].pending[k]].turn = s
      BY <2>1 DEF Stretch
    <3> QED
      BY <1>3, <1>4, <2>1, <3>1, <3>2
  <2>4. \A k \in DOMAIN task'[s].pending : admission'[task'[s].pending[k]].turn = s
    <3>1. CASE s # t
      BY <1>6, <2>3, <3>1
    <3>2. CASE s = t
      <4> TAKE k \in DOMAIN task'[s].pending
      <4>1. \/ k \in DOMAIN task[s].pending /\ task'[s].pending[k] = task[s].pending[k]
            \/ task'[s].pending[k] = j
        <5> PICK q \in Seq(Turns) : q = task[s].pending
          BY <2>1
        <5>1. k \in DOMAIN Append(q, j) /\ task'[s].pending = Append(q, j)
          BY <1>6, <3>2
        <5>2. k \in 1 .. Len(q) \/ k = Len(q) + 1
          BY <5>1, AppendProperties
        <5>3. DOMAIN q = 1 .. Len(q)
          OBVIOUS
        <5> QED
          BY <5>1, <5>2, <5>3, AppendProperties
      <4> QED
        BY <1>3, <2>3, <3>2, <4>1
    <3> QED
      BY <3>1, <3>2
  <2> QED
    BY <1>1, <1>6, <2>1, <2>2, <2>4 DEF Stretch, Begun, Over, Erred
<1>8. ASSUME NEW i \in Turns PROVE Answered(i)'
  <2>1. Answered(i) /\ ~HoldsInput'
    BY <1>2 DEF HoldsInput
  <2> QED
    BY <1>2, <1>3, <1>5, <2>1 DEF Answered
<1>9. NewestCurrent'
  BY <1>2, <1>6 DEF NewestCurrent, HoldsInput
<1> QED
  BY <1>7, <1>8, <1>9

\* A started input is its own turn's, which has not logged anything.
LEMMA StartedAnswers ==
  ASSUME TypeOK, ControlInv, QueueInv, AnswersInv, Starts
  PROVE  AnswersInv'
PROOF
<1> USE DEF AnswersInv
<1> PICK j \in Turns : j = loop.input
  BY DEF Starts, Answers
<1>1. /\ \A s, kinds : Holds(s, kinds)' <=> Holds(s, kinds)
      /\ \A i : Recorded(i)' <=> Recorded(i)
  BY HoldsSame DEF Starts, Answers
<1>2. /\ HoldsInput /\ loop'.pc = "receive" /\ nextInput' = nextInput
      /\ active' = j /\ task[j].pc = "none" /\ j < nextInput
  BY DEF Starts, Answers, ControlInv, FreshTurns
<1>3. /\ admission'[j].mode = "started" /\ admission'[j].turn = j
      /\ \A i \in Turns \ {j} : admission'[i] = admission[i]
  BY DEF Starts, Answers, TypeOK
<1>4. admission[j].turn = NoTurn
  <2>1. Answered(j) /\ j \in Nat
    BY Numbers
  <2> QED
    BY <1>2, <2>1 DEF Answered
<1>5. /\ task'[j].pc = "begin" /\ task'[j].pending = << >> /\ task'[j].failed = FALSE
      /\ \A s \in Turns \ {j} : task'[s] = task[s]
  BY DEF Starts, TypeOK, NewTask
<1>6. ASSUME NEW s \in Turns PROVE Stretch(s)'
  <2>1. Stretch(s) /\ s # NoTurn /\ task[s].pending \in Seq(Turns)
    BY Numbers DEF TypeOK, TaskState
  <2>2. CASE s = j
    <3>1. ~Begun(s) /\ ~Over(s) /\ ~Erred(s)
      BY <1>2, <2>1, <2>2 DEF Stretch, Logging, Sampling, After
    <3>2. ~Begun(s)' /\ ~Over(s)' /\ ~Erred(s)'
      BY <1>1, <3>1 DEF Begun, Over, Erred
    <3>3. /\ task'[s].pc = "begin" /\ task'[s].failed = FALSE /\ DOMAIN task'[s].pending = {}
          /\ admission'[s].mode = "started"
      BY <1>3, <1>5, <2>2
    <3> QED
      BY <3>2, <3>3 DEF Stretch, Logging, Sampling, After
  <2>3. CASE s # j
    <3>1. \A k \in DOMAIN task[s].pending : admission'[task[s].pending[k]].turn = s
      <4> TAKE k \in DOMAIN task[s].pending
      <4>1. task[s].pending[k] \in Turns
        BY <2>1
      <4>2. admission[task[s].pending[k]].turn = s
        BY <2>1 DEF Stretch
      <4> QED
        BY <1>3, <1>4, <2>1, <4>1, <4>2
    <3>2. task'[s] = task[s] /\ admission'[s] = admission[s]
      BY <1>3, <1>5, <2>3
    <3> QED
      BY <1>1, <2>1, <3>1, <3>2 DEF Stretch, Begun, Over, Erred
  <2> QED
    BY <2>2, <2>3
<1>7. ASSUME NEW i \in Turns PROVE Answered(i)'
  <2>1. Answered(i) /\ ~HoldsInput' /\ i \in Nat
    BY <1>2, Numbers DEF HoldsInput
  <2> QED
    BY <1>2, <1>3, <2>1 DEF Answered
<1>8. NewestCurrent'
  <2>1. nextInput = j + 1
    BY <1>2 DEF NewestCurrent
  <2>2. \A u \in Turns : task'[u].pc # "none" => u <= j
    <3> SUFFICES ASSUME NEW u \in Turns, task'[u].pc # "none" PROVE u <= j
      OBVIOUS
    <3>1. CASE u = j
      BY <3>1, Numbers
    <3>2. CASE u # j
      <4>1. task[u].pc # "none"
        BY <1>5, <3>2
      <4>2. u < nextInput
        BY <4>1, Numbers DEF ControlInv, FreshTurns
      <4> QED
        BY <2>1, <4>2, Numbers
    <3> QED
      BY <3>1, <3>2
  <2> QED
    BY <1>2, <2>2 DEF NewestCurrent, HoldsInput
<1> QED
  BY <1>6, <1>7, <1>8

\* A turn's record moves its goroutine as it moves what a reader sees of it.
LEMMA ReportedAnswers ==
  ASSUME TypeOK, AnswersInv, NEW t \in Turns, NEW r, Reports(t, r)
  PROVE  AnswersInv'
PROOF
<1> USE DEF AnswersInv
<1>1. /\ r \in Record /\ r.turn = t
      /\ r.kind = "input" => r.input = t
      /\ r.kind # "input" => r.input = NoTurn
  BY DEF Reports, Logs, Log, LogInput, Record
<1>2. /\ \A s, kinds : Holds(s, kinds)' <=> Holds(s, kinds) \/ (r.turn = s /\ r.kind \in kinds)
      /\ \A i : Recorded(i)' <=> Recorded(i) \/ (r.kind = "input" /\ r.input = i)
  BY <1>1, HoldsAppend DEF Reports
<1>3. /\ UNCHANGED <<admission, nextInput, loop, active>>
      /\ \A s \in Turns \ {t} : task'[s] = task[s]
      /\ task'[t].pending = task[t].pending
      /\ task'[t].failed = IF r.kind = "error" THEN TRUE ELSE task[t].failed
  BY DEF Reports, Alone
<1>4. Stretch(t)'
  <2>1. Stretch(t)
    OBVIOUS
  <2>2. /\ admission'[t] = admission[t]
        /\ \A k \in DOMAIN task'[t].pending : admission'[task'[t].pending[k]].turn = t
    BY <1>3, <2>1 DEF Stretch
  <2>3. /\ Begun(t)' <=> Begun(t) \/ r.kind = "started"
        /\ Over(t)' <=> Over(t) \/ r.kind \in {"complete", "aborted"}
        /\ Erred(t)' <=> Erred(t) \/ r.kind = "error"
        /\ Recorded(t)' <=> Recorded(t) \/ r.kind = "input"
    <3>1. /\ r.turn = t /\ t # NoTurn
          /\ r.kind = "input" <=> r.kind = "input" /\ r.input = t
      BY <1>1, Numbers
    <3> QED
      BY <1>2, <3>1 DEF Begun, Over, Erred
  <2>4. CASE task[t].pc = "begin" /\ r.kind = "started" /\ task'[t].pc = "record"
    BY <1>3, <2>1, <2>2, <2>3, <2>4 DEF Stretch, Logging, Sampling, After
  <2>5. CASE task[t].pc = "record" /\ r.kind = "input" /\ task'[t].pc = "top"
    BY <1>3, <2>1, <2>2, <2>3, <2>5 DEF Stretch, Logging, Sampling, After
  <2>6. CASE task[t].pc \in Sampling /\ r.kind = "error" /\ task'[t].pc = "finish"
    BY <1>3, <2>1, <2>2, <2>3, <2>6 DEF Stretch, Logging, Sampling, After
  <2>7. CASE task[t].pc = "finish" /\ r.kind \in {"complete", "aborted"}
             /\ task'[t].pc \in {"hooks", "clear"}
    BY <1>3, <2>1, <2>2, <2>3, <2>7 DEF Stretch, Logging, Sampling, After
  <2> QED
    BY <2>4, <2>5, <2>6, <2>7 DEF Reports, Logs, Log, LogInput
<1>5. ASSUME NEW s \in Turns \ {t} PROVE Stretch(s)'
  <2>1. Stretch(s) /\ task'[s] = task[s]
    BY <1>3
  <2>2. /\ \A kinds : Holds(s, kinds)' <=> Holds(s, kinds)
        /\ Recorded(s)' <=> Recorded(s)
    BY <1>1, <1>2, Numbers
  <2> QED
    BY <1>3, <2>1, <2>2 DEF Stretch, Begun, Over, Erred
<1>6. ASSUME NEW i \in Turns PROVE Answered(i)'
  <2>1. Answered(i)
    OBVIOUS
  <2> QED
    BY <1>3, <2>1 DEF Answered, HoldsInput
<1>7. NewestCurrent'
  <2>1. \A u \in Turns : task'[u].pc # "none" => task[u].pc # "none"
    BY <1>3 DEF Reports, Logs, Sampling
  <2> QED
    BY <1>3, <2>1 DEF NewestCurrent, HoldsInput
<1> QED
  BY <1>4, <1>5, <1>6, <1>7

\* A queue that is read leaves all else as it was.
LEMMA DrainedAnswers ==
  ASSUME TypeOK, AnswersInv, NEW t \in Turns, Drains(t)
  PROVE  AnswersInv'
PROOF
<1> USE DEF AnswersInv
<1>1. /\ \A s : /\ Begun(s)' <=> Begun(s)
                /\ Over(s)' <=> Over(s)
                /\ Erred(s)' <=> Erred(s)
      /\ \A i : Recorded(i) => Recorded(i)'
  BY HoldsDrain DEF Drains, Begun, Over, Erred
<1>2. /\ UNCHANGED <<admission, nextInput, loop, active>>
      /\ \A s \in Turns \ {t} : task'[s] = task[s]
      /\ task'[t].pending = << >> /\ task'[t].failed = task[t].failed
      /\ task[t].pc = "drain" /\ task'[t].pc \in {"top", "finish"}
  BY DEF Drains, Alone
<1>3. ASSUME NEW s \in Turns PROVE Stretch(s)'
  <2>1. Stretch(s)
    OBVIOUS
  <2>2. CASE s = t
    <3>1. DOMAIN task'[s].pending = {}
      BY <1>2, <2>2
    <3> QED
      BY <1>1, <1>2, <2>1, <2>2, <3>1 DEF Stretch, Logging, Sampling, After
  <2>3. CASE s # t
    <3>1. task'[s] = task[s] /\ admission' = admission
      BY <1>2, <2>3
    <3> QED
      BY <1>1, <2>1, <3>1 DEF Stretch
  <2> QED
    BY <2>2, <2>3
<1>4. ASSUME NEW i \in Turns PROVE Answered(i)'
  <2>1. Answered(i)
    OBVIOUS
  <2> QED
    BY <1>2, <2>1 DEF Answered, HoldsInput
<1>5. NewestCurrent'
  <2>1. \A u \in Turns : task'[u].pc # "none" => task[u].pc # "none"
    BY <1>2
  <2> QED
    BY <1>2, <2>1 DEF NewestCurrent, HoldsInput
<1> QED
  BY <1>3, <1>4, <1>5

\* What was answered and what the log says of a turn agree with its goroutine:
\* AnswersInv is inductive, given the types, ControlInv and QueueInv.
THEOREM AnswersCorrect == Spec => []AnswersInv
PROOF
<1>1. Init => AnswersInv
  <2> SUFFICES ASSUME Init PROVE AnswersInv
    OBVIOUS
  <2>1. DOMAIN rollout = {} /\ \A t \in Turns : DOMAIN task[t].pending = {}
    BY DEF Init, NewTask
  <2>2. \A t \in Turns : /\ task[t].pc = "none" /\ task[t].failed = FALSE
                         /\ admission[t].mode = "none" /\ admission[t].turn = NoTurn
    BY DEF Init, NewTask
  <2>3. loop.pc = "receive"
    BY DEF Init, Idle
  <2>4. \A t \in Turns : ~Begun(t) /\ ~Over(t) /\ ~Erred(t)
    BY <2>1 DEF Begun, Over, Erred, Holds
  <2>5. \A t \in Turns : Stretch(t)
    BY <2>1, <2>2, <2>4 DEF Stretch, Logging, Sampling, After
  <2>6. \A t \in Turns : Answered(t)
    BY <2>2 DEF Answered
  <2>7. NewestCurrent
    BY <2>2, <2>3 DEF NewestCurrent, HoldsInput
  <2> QED
    BY <2>5, <2>6, <2>7 DEF AnswersInv
<1>2. TypeOK /\ ControlInv /\ QueueInv /\ AnswersInv /\ [Next]_vars => AnswersInv'
  <2> SUFFICES ASSUME TypeOK, ControlInv, QueueInv, AnswersInv, [Next]_vars
               PROVE  AnswersInv'
    OBVIOUS
  <2>1. Kinds
    BY StepKinds
  <2>2. CASE Quietly
    BY <2>2, QuietAnswers
  <2>3. CASE Takes
    BY <2>3, TakenAnswers
  <2>4. CASE Rejects
    BY <2>4, RejectedAnswers
  <2>5. CASE Starts
    BY <2>5, StartedAnswers
  <2>6. ASSUME NEW t \in Turns, Steers(t) PROVE AnswersInv'
    BY <2>6, SteeredAnswers
  <2>7. ASSUME NEW t \in Turns, Drains(t) PROVE AnswersInv'
    BY <2>7, DrainedAnswers
  <2>8. ASSUME NEW t \in Turns, NEW r, Reports(t, r) PROVE AnswersInv'
    BY <2>8, ReportedAnswers
  <2> QED
    BY <2>1, <2>2, <2>3, <2>4, <2>5, <2>6, <2>7, <2>8 DEF Kinds
<1> QED
  BY <1>1, <1>2, TypeCorrect, ControlCorrect, QueueCorrect, PTL DEF Spec

-----------------------------------------------------------------------------
(* What follows.                                                           *)

\* The inductive invariant that the runs check holds in every reachable state.
THEOREM InvariantHolds == Spec => []IInv
PROOF
<1>1. TypeOK /\ ControlInv /\ QueueInv /\ ToolInv /\ LogInv /\ AnswersInv => IInv
  BY DEF IInv
<1> QED
  BY <1>1, TypeCorrect, ControlCorrect, QueueCorrect, ToolCorrect, LogCorrect,
     AnswersCorrect, PTL

\* At most one turn runs, although submission loop and turn share s.active.
THEOREM OneTurn == Spec => []OneTurnAtATime
PROOF
<1>1. ControlInv => OneTurnAtATime
  BY DEF ControlInv, ActiveRuns, OneTurnAtATime
<1> QED
  BY <1>1, ControlCorrect, PTL

\* spawnRegularTask never finds a turn to replace.
THEOREM NoReplacement == Spec => []NeverReplaced
PROOF
<1>1. ControlInv => NeverReplaced
  BY DEF ControlInv
<1> QED
  BY <1>1, ControlCorrect, PTL

\* An acknowledged interrupt or a teardown leaves no turn and no approval behind.
THEOREM Quiet == Spec => []AcknowledgedMeansQuiet
PROOF
<1>1. TypeOK /\ ControlInv /\ ToolInv => AcknowledgedMeansQuiet
  <2> SUFFICES ASSUME TypeOK, ControlInv, ToolInv, loop.pc \in {"reply", "teardown", "stopped"}
               PROVE  /\ active = NoTurn
                      /\ \A t \in Turns : task[t].pc \in {"none", "closing", "exited"}
                      /\ \A c \in Calls : approvals[c] = NoApproval
    BY DEF AcknowledgedMeansQuiet
  <2>1. active = NoTurn
    BY DEF ControlInv, LoopKnows
  <2>2. \A t \in Turns : task[t].pc \in TaskPC /\ task[t].pc \notin Running
    BY <2>1 DEF ControlInv, ActiveRuns, TypeOK, TaskState, Turns, NoTurn
  <2>3. \A c \in Calls : approvals[c] = NoApproval
    BY <2>1 DEF ToolInv, ApprovalsAreLive
  <2> QED
    BY <2>1, <2>2, <2>3 DEF TaskPC
<1> QED
  BY <1>1, TypeCorrect, ControlCorrect, ToolCorrect, PTL

\* A turn that no model error ended has every steer it accepted in the history.
THEOREM SteersConsumed == Spec => []CleanTurnConsumesSteers
PROOF
<1>1. QueueInv => CleanTurnConsumesSteers
  <2> SUFFICES ASSUME QueueInv, NEW i \in Turns, admission[i].mode = "steered",
                      NEW t, t = admission[i].turn,
                      task[t].pc \in Closing \cup {"closing", "exited"}, ~task[t].failed
               PROVE  Recorded(i)
    BY DEF CleanTurnConsumesSteers
  <2>1. t \in Turns /\ (Recorded(i) \/ Queued(i, t))
    BY DEF QueueInv, SteersKept
  <2>2. task[t].pending = << >>
    BY <2>1 DEF QueueInv, QueuesClosed, Closed
  <2> QED
    BY <2>1, <2>2 DEF Queued
<1> QED
  BY <1>1, QueueCorrect, PTL

\* The log is a sequence of whole turns in submission order: what ReadRolloutTurns
\* relies on to attribute a record to its turn.
THEOREM TurnsSerial == Spec => []TurnsAreSerial
PROOF
<1>1. LogInv => TurnsAreSerial
  BY DEF LogInv
<1> QED
  BY <1>1, LogCorrect, PTL

\* User inputs are in the log once, and as they were admitted, whatever turn they
\* started or were steered to.
THEOREM InputsOrdered == Spec => []InputsInOrder
PROOF
<1>1. LogInv => InputsInOrder
  BY DEF LogInv
<1> QED
  BY <1>1, LogCorrect, PTL

\* No entry of the approvals map outlives its request.
THEOREM LiveApprovals == Spec => []ApprovalsAreLive
PROOF
<1>1. ToolInv => ApprovalsAreLive
  BY DEF ToolInv
<1> QED
  BY <1>1, ToolCorrect, PTL

\* No command that needs approval runs on the answer to another call.
THEOREM ApprovalComesFirst == Spec => []ApprovedBeforeRunning
PROOF
<1>1. ToolInv => ApprovedBeforeRunning
  BY DEF ToolInv
<1> QED
  BY <1>1, ToolCorrect, PTL

\* An interrupt that names a turn cancels that turn or none, whatever happens
\* between the two looks at s.active.
THEOREM InterruptIsExact == Spec => InterruptHitsItsTurn
PROOF
<1> DEFINE Hit == \A t \in Turns : ~task[t].cancelled /\ task'[t].cancelled
                                     => loop.expected \in {NoTurn, t}
<1>1. TypeOK /\ ControlInv /\ [Next]_vars => Hit
  <2> SUFFICES ASSUME TypeOK, ControlInv, [Next]_vars, NEW s \in Turns,
                      ~task[s].cancelled, task'[s].cancelled
               PROVE  loop.expected \in {NoTurn, s}
    OBVIOUS
  <2>a. /\ task \in [Turns -> TaskState] /\ active \in Turns \cup {NoTurn}
        /\ LoopTyped /\ LoopKnows /\ FreshTurns
    BY DEF TypeOK, ControlInv
  <2>1. CASE Spawn
    BY <2>1, <2>a DEF Spawn, AbortActive, LoopKnows
  <2>2. ASSUME NEW why, NEW next, AbortActive(why, next) PROVE s = active
    <3>1. active \in Turns
      BY <2>2, <2>a DEF AbortActive
    <3>2. task' = [task EXCEPT ![active] = [@ EXCEPT !.cancelled = TRUE, !.reason = why]]
      BY <2>2, <3>1 DEF AbortActive, Turns, NoTurn
    <3> QED
      BY <3>2, <2>a
  <2>3. CASE Interrupt
    <3>1. s = active
      BY <2>3, <2>2 DEF Interrupt
    <3> QED
      BY <2>3, <3>1, <2>a DEF Interrupt, LoopKnows, Turns, NoTurn
  <2>4. CASE Shutdown
    BY <2>4, <2>a DEF Shutdown, LoopKnows
  <2>5. CASE Create
    <3>1. task' = [task EXCEPT ![loop.input] =
                     [NewTask EXCEPT !.pc = "begin", !.accepting = TRUE]]
      BY <2>5 DEF Create
    <3> QED
      BY <3>1, <2>a DEF NewTask
  <2>6. CASE Enqueue
    <3>1. \/ task' = task
          \/ task' = [task EXCEPT ![loop.task].pending = Append(@, loop.input)]
      BY <2>6 DEF Enqueue
    <3> QED
      BY <3>1, <2>a DEF TaskState
  <2>7. CASE UNCHANGED task
    BY <2>7
  <2>8. ASSUME NEW t \in Turns, \/ Own(t) \/ Model(t) \/ SeesCancel(t)
                                \/ \E c \in Calls : Tool(t, c) \/ Output(t, c)
        PROVE  UNCHANGED task \/ \E r : /\ task' = [task EXCEPT ![t] = r]
                                        /\ r.cancelled = task[t].cancelled
    <3>1. CASE Deliver(t)
      BY <3>1, <2>a DEF Deliver, TaskState
    <3>2. CASE Begin(t)
      BY <3>2, <2>a DEF Begin, TaskState
    <3>3. CASE RecordInput(t)
      BY <3>3, <2>a DEF RecordInput, TaskState
    <3>4. CASE Top(t)
      BY <3>4, <2>a DEF Top, TaskState
    <3>5. CASE ToolsDone(t)
      BY <3>5, <2>a DEF ToolsDone, TaskState
    <3>6. CASE Drain(t)
      <4>1. PICK r : /\ task' = [task EXCEPT ![t] = r]
                     /\ \/ r = [task[t] EXCEPT !.pc = "top", !.pending = << >>]
                        \/ r = [task[t] EXCEPT !.pc = "finish", !.accepting = FALSE]
        BY <3>6 DEF Drain
      <4>2. r.cancelled = task[t].cancelled
        BY <4>1, <2>a DEF TaskState
      <4> QED
        BY <4>1, <4>2
    <3>7. CASE Finish(t)
      BY <3>7, <2>a DEF Finish, TaskState
    <3>8. CASE RunHooks(t)
      BY <3>8, <2>a DEF RunHooks, TaskState
    <3>9. CASE Clear(t)
      BY <3>9, <2>a DEF Clear, TaskState
    <3>10. CASE Exit(t)
      BY <3>10, <2>a DEF Exit, TaskState
    <3>11. CASE Compacted(t)
      BY <3>11, <2>a DEF Compacted, TaskState
    <3>12. CASE ModelFails(t)
      BY <3>12, <2>a DEF ModelFails, Abandon, TaskState
    <3>13. CASE Delta(t)
      BY <3>13, <2>a DEF Delta, TaskState
    <3>14. CASE BadCallItem(t)
      BY <3>14, <2>a DEF BadCallItem, TaskState
    <3>15. CASE Completed(t)
      BY <3>15, <2>a DEF Completed, TaskState
    <3>16. CASE SeesCancel(t)
      BY <3>16, <2>a DEF SeesCancel, Abandon, TaskState
    <3>17. CASE \E c \in Calls : CallItem(t, c)
      BY <3>17, <2>a DEF CallItem, TaskState
    <3>18. CASE \E c \in Calls : RecordOutput(t, c)
      BY <3>18, <2>a DEF RecordOutput, TaskState
    <3>19. CASE \E c \in Calls : RunDirectly(t, c) \/ Ask(t, c) \/ Asked(t, c) \/ Decided(t, c)
                                 \/ GiveUp(t, c) \/ Output(t, c) \/ Finished(t, c)
      BY <3>19 DEF RunDirectly, Ask, Asked, Decided, GiveUp, Output, Finished
    <3> QED
      BY <2>8, <3>1, <3>2, <3>3, <3>4, <3>5, <3>6, <3>7, <3>8, <3>9, <3>10, <3>11,
         <3>12, <3>13, <3>14, <3>15, <3>16, <3>17, <3>18, <3>19 DEF Own, Model, Tool
  <2>9. ASSUME NEW t \in Turns, NEW r, task' = [task EXCEPT ![t] = r],
               r.cancelled = task[t].cancelled
        PROVE  FALSE
    BY <2>9, <2>a
  <2> QED
    BY <2>1, <2>3, <2>4, <2>5, <2>6, <2>7, <2>8, <2>9
       DEF Next, Client, Loop, vars, loopVars, SubmitInput, SubmitInterrupt, SubmitInvalid,
           SubmitShutdown, SubmitApproval, Complain, Lookup, Await, CheckExpected, Reply,
           Teardown, NextEvent
<1> QED
  BY <1>1, TypeCorrect, ControlCorrect, PTL DEF Spec, InterruptHitsItsTurn

-----------------------------------------------------------------------------
(* The session does what TurnLog says.                                     *)

\* How far a turn looks to a reader, by where its goroutine is.
Shown ==
  \A t \in Turns :
    /\ task[t].pc = "none" => StageOf(t) = "none"
    /\ task[t].pc = "begin" => StageOf(t) = "due"
    /\ task[t].pc \in Logging =>
         /\ task[t].failed => StageOf(t) = "failing"
         /\ ~task[t].failed => StageOf(t) = "open"
    /\ task[t].pc \in After =>
         /\ task[t].failed => StageOf(t) = "broken"
         /\ ~task[t].failed => StageOf(t) = "whole"
    /\ task[t].pc \in {"none", "begin"} \cup Logging \cup After

LEMMA StagesShown == TypeOK /\ AnswersInv => Shown
PROOF
<1> SUFFICES ASSUME TypeOK, AnswersInv, NEW t \in Turns
             PROVE  /\ task[t].pc = "none" => StageOf(t) = "none"
                    /\ task[t].pc = "begin" => StageOf(t) = "due"
                    /\ task[t].pc \in Logging =>
                         /\ task[t].failed => StageOf(t) = "failing"
                         /\ ~task[t].failed => StageOf(t) = "open"
                    /\ task[t].pc \in After =>
                         /\ task[t].failed => StageOf(t) = "broken"
                         /\ ~task[t].failed => StageOf(t) = "whole"
                    /\ task[t].pc \in {"none", "begin"} \cup Logging \cup After
  BY DEF Shown
<1>1. Stretch(t)
  BY DEF AnswersInv
<1>2. task[t].pc \in TaskPC
  BY DEF TypeOK, TaskState
<1>3. task[t].pc \in {"none", "begin"} \cup Logging \cup After
  BY <1>2 DEF TaskPC, Running, Sampling, Closing, Logging, After
<1>4. task[t].pc \in {"none", "begin"} => task[t].pc \notin Logging \cup After
  BY DEF Logging, Sampling, After
<1>5. task[t].pc \in Logging => task[t].pc \notin After
  BY DEF Logging, Sampling, After
<1> QED
  BY <1>1, <1>3, <1>4, <1>5 DEF Stretch, StageOf

\* What stands still, and what moves, of what a reader sees.
LEMMA OwnerSame == admission' = admission => Owner' = Owner
BY DEF Owner

LEMMA OwnerSet ==
  ASSUME TypeOK, NEW j \in Turns, NEW how, NEW t,
         admission' = [admission EXCEPT ![j] = [mode |-> how, turn |-> t]]
  PROVE  Owner' = [Owner EXCEPT ![j] = t]
BY DEF Owner, TypeOK

LEMMA StageSame == (\A s \in Turns : StageOf(s)' = StageOf(s)) => Stage' = Stage
BY DEF Stage

LEMMA StageSet ==
  ASSUME NEW t \in Turns, NEW x, StageOf(t)' = x, \A s \in Turns \ {t} : StageOf(s)' = StageOf(s)
  PROVE  Stage' = [Stage EXCEPT ![t] = x]
BY DEF Stage

LEMMA HistorySame == rollout' = rollout => History' = History
BY HoldsSame DEF History

\* A turn whose goroutine is as far as it was looks as far as it did.
LEMMA StageStays ==
  ASSUME Shown, Shown', NEW s \in Turns,
         task'[s].failed = task[s].failed,
         \/ task'[s].pc = task[s].pc
         \/ task[s].pc \in Logging /\ task'[s].pc \in Logging
         \/ task[s].pc \in After /\ task'[s].pc \in After
  PROVE  StageOf(s)' = StageOf(s)
PROOF
<1>1. CASE task'[s].pc = task[s].pc /\ task[s].pc \in {"none", "begin"}
  BY <1>1 DEF Shown
<1>2. CASE task[s].pc \in Logging /\ task'[s].pc \in Logging
  BY <1>2 DEF Shown
<1>3. CASE task[s].pc \in After /\ task'[s].pc \in After
  BY <1>3 DEF Shown
<1> QED
  BY <1>1, <1>2, <1>3 DEF Shown

\* The inputs that a turn is still to read are in its queue, once it has its own.
LEMMA DueQueued ==
  ASSUME TypeOK, QueueInv, AnswersInv, NEW t \in Turns,
         task[t].pc \notin {"none", "begin", "record"},
         NEW i \in Turns, admission[i].turn = t, ~Recorded(i)
  PROVE  Queued(i, t)
PROOF
<1>1. Answered(i) /\ Stretch(t) /\ t # NoTurn /\ admission[i] \in Admission
  BY Numbers DEF AnswersInv, TypeOK
<1>2. i # t
  BY <1>1 DEF Stretch
<1>3. admission[i].mode = "steered"
  BY <1>1, <1>2 DEF Answered, Admission
<1> QED
  BY <1>3 DEF QueueInv, SteersKept

\* Most steps are stutters: they move nothing that a reader sees.
LEMMA QuietPromise ==
  ASSUME Shown, Shown', Quietly
  PROVE  UNCHANGED Promised!vars
PROOF
<1>1. ASSUME NEW s \in Turns PROVE StageOf(s)' = StageOf(s)
  <2>1. /\ task'[s].failed = task[s].failed
        /\ \/ task'[s].pc = task[s].pc
           \/ task[s].pc \in Logging /\ task'[s].pc \in Logging
           \/ task[s].pc \in After /\ task'[s].pc \in After
    BY DEF Quietly, Along, Logging
  <2> QED
    BY <2>1, StageStays
<1>2. Owner' = Owner /\ Stage' = Stage /\ History' = History
  BY <1>1, OwnerSame, StageSame, HistorySame DEF Quietly
<1> QED
  BY <1>2 DEF Promised!vars

LEMMA ElsePromise ==
  ASSUME TypeOK, AnswersInv, Shown, Shown', Takes \/ Rejects
  PROVE  UNCHANGED Promised!vars
PROOF
<1>1. task' = task /\ rollout' = rollout
  BY DEF Takes, Rejects, Answers
<1>2. ASSUME NEW s \in Turns PROVE StageOf(s)' = StageOf(s)
  BY <1>1, StageStays
<1>3. Stage' = Stage /\ History' = History
  BY <1>1, <1>2, StageSame, HistorySame
<1>4. Owner' = Owner
  <2>1. CASE Takes
    BY <2>1, OwnerSame DEF Takes
  <2>2. CASE Rejects
    <3> PICK j \in Turns : j = loop.input
      BY <2>2 DEF Rejects, Answers
    <3>1. Owner' = [Owner EXCEPT ![j] = NoTurn]
      BY <2>2, OwnerSet DEF Rejects, Answers
    <3>2. Answered(j) /\ HoldsInput /\ j \in Nat
      BY <2>2, Numbers DEF AnswersInv, Rejects, Answers
    <3>3. Owner[j] = NoTurn
      BY <3>2 DEF Answered, Owner
    <3> QED
      BY <3>1, <3>3 DEF Owner
  <2> QED
    BY <2>1, <2>2
<1> QED
  BY <1>3, <1>4 DEF Promised!vars

\* The next input is newer than all that anyone owns.
LEMMA LatestInput ==
  ASSUME TypeOK, AnswersInv, HoldsInput, NEW j \in Turns, j = loop.input
  PROVE  Promised!Latest(j)
PROOF
<1>1. \A i \in Turns : Owner[i] = admission[i].turn /\ Answered(i) /\ i \in Nat
  BY Numbers DEF Owner, AnswersInv
<1>2. \A i \in Turns : Owner[i] # NoTurn => i < j
  BY <1>1 DEF Answered
<1>3. Owner[j] = NoTurn
  BY <1>1, <1>2
<1> QED
  BY <1>2, <1>3 DEF Promised!Latest, Promised!Nowhere, NoTurn

LEMMA StartPromise ==
  ASSUME TypeOK, ControlInv, AnswersInv, Shown, Shown', Starts
  PROVE  \E j \in Turns : Promised!Start(j)
PROOF
<1> PICK j \in Turns : j = loop.input
  BY DEF Starts, Answers
<1>1. Promised!Latest(j)
  BY LatestInput DEF Starts, Answers
<1>2. /\ task[j].pc = "none" /\ task'[j].pc = "begin"
      /\ \A s \in Turns \ {j} : task'[s] = task[s]
  <2>1. task[j].pc = "none"
    BY DEF ControlInv, FreshTurns, Starts, Answers
  <2> QED
    BY <2>1 DEF Starts, TypeOK, NewTask
<1>3. \A s \in Turns : Stage[s] = StageOf(s)
  BY DEF Stage
<1>4. \A s \in Turns : Stage[s] \in {"none", "whole", "broken"}
  <2> TAKE s \in Turns
  <2>1. task[s].pc \notin Running
    BY DEF ControlInv, ActiveRuns, Starts, Turns, NoTurn
  <2>2. task[s].pc \notin {"begin"} \cup Logging
    BY <2>1 DEF Running, Logging, Sampling, Closing
  <2> QED
    BY <1>3, <2>2 DEF Shown
<1>5. Stage[j] = "none"
  BY <1>2, <1>3 DEF Shown
<1>6. Owner' = [Owner EXCEPT ![j] = j]
  BY OwnerSet DEF Starts, Answers
<1>7. Stage' = [Stage EXCEPT ![j] = "due"]
  <2>1. StageOf(j)' = "due"
    BY <1>2 DEF Shown
  <2>2. \A s \in Turns \ {j} : StageOf(s)' = StageOf(s)
    BY <1>2, StageStays
  <2> QED
    BY <2>1, <2>2, StageSet
<1>8. History' = History
  BY HistorySame DEF Starts, Answers
<1> QED
  BY <1>1, <1>4, <1>5, <1>6, <1>7, <1>8 DEF Promised!Start

LEMMA SteerPromise ==
  ASSUME TypeOK, QueueInv, AnswersInv, Shown, Shown', NEW t \in Turns, Steers(t)
  PROVE  \E j \in Turns : Promised!Steer(j, t)
PROOF
<1> PICK j \in Turns : j = loop.input
  BY DEF Steers, Answers
<1>1. Promised!Latest(j)
  BY LatestInput DEF Steers, Answers
<1>2. \A s \in Turns : task'[s].pc = task[s].pc /\ task'[s].failed = task[s].failed
  <2>1. task \in [Turns -> TaskState] /\ task' = [task EXCEPT ![t].pending = Append(@, j)]
    BY DEF Steers, TypeOK
  <2> QED
    BY <2>1 DEF TaskState
<1>3. \A s \in Turns : Stage[s] = StageOf(s)
  BY DEF Stage
<1>4. Stage[t] \in {"due", "open", "failing", "broken"}
  <2>1. task[t].pc # "none" /\ (task[t].pc \in After => task[t].failed)
    BY DEF QueueInv, QueuesClosed, Closed, Steers, After, Closing
  <2> QED
    BY <1>3, <2>1 DEF Shown
<1>5. \A u \in Turns : Stage[u] # "none" => u <= t
  <2>1. \A u \in Turns : task[u].pc # "none" => u <= t
    BY DEF AnswersInv, NewestCurrent, Steers
  <2> QED
    BY <1>3, <2>1 DEF Shown
<1>6. Owner' = [Owner EXCEPT ![j] = t]
  BY OwnerSet DEF Steers, Answers
<1>7. \A s \in Turns : StageOf(s)' = StageOf(s)
  BY <1>2, StageStays
<1>8. Stage' = Stage /\ History' = History
  BY <1>7, StageSame, HistorySame DEF Steers, Answers
<1> QED
  BY <1>1, <1>4, <1>5, <1>6, <1>8 DEF Promised!Steer

\* The inputs of a turn that are not in the history wait in its queue.
LEMMA DueInQueue ==
  ASSUME TypeOK, QueueInv, AnswersInv, NEW t \in Turns,
         task[t].pc \notin {"none", "begin", "record"}
  PROVE  \A i \in Promised!Due(t) : Queued(i, t)
BY DueQueued DEF Promised!Due, Owner, History

\* The first record of a turn begins it, its own input is read, an error makes it
\* fail, and its last record closes it.
LEMMA ReportPromise ==
  ASSUME TypeOK, ControlInv, QueueInv, LogInv, AnswersInv, Shown, Shown',
         NEW t \in Turns, NEW r, Reports(t, r)
  PROVE  \/ Promised!Begin(t) \/ Promised!Fail(t) \/ Promised!Close(t)
         \/ \E some \in SUBSET Turns : Promised!Read(t, some)
PROOF
<1>1. /\ r \in Record /\ r.turn = t
      /\ r.kind = "input" => r.input = t
  BY DEF Reports, Logs, Log, LogInput, Record
<1>2. \A i \in Turns : Recorded(i)' <=> Recorded(i) \/ (r.kind = "input" /\ r.input = i)
  BY <1>1, HoldsAppend DEF Reports
<1>3. /\ Owner' = Owner
      /\ \A s \in Turns \ {t} : task'[s] = task[s]
      /\ task'[t].failed = IF r.kind = "error" THEN TRUE ELSE task[t].failed
  BY OwnerSame DEF Reports, Alone
<1>4. \A s \in Turns \ {t} : StageOf(s)' = StageOf(s)
  BY <1>3, StageStays
<1>5. Stretch(t) /\ Stage[t] = StageOf(t)
  BY DEF AnswersInv, Stage
<1>6. r.kind # "input" => History' = History
  BY <1>2 DEF History
<1>7. CASE task[t].pc = "begin" /\ r.kind = "started" /\ task'[t].pc = "record"
  <2>1. Stage[t] = "due"
    BY <1>5, <1>7 DEF Shown
  <2>2. ~task'[t].failed
    BY <1>3, <1>5, <1>7 DEF Stretch, After
  <2>3. StageOf(t)' = "open"
    BY <1>7, <2>2 DEF Shown, Logging
  <2>4. Stage' = [Stage EXCEPT ![t] = "open"]
    BY <1>4, <2>3, StageSet
  <2> QED
    BY <1>3, <1>6, <1>7, <2>1, <2>4 DEF Promised!Begin
<1>8. CASE task[t].pc = "record" /\ r.kind = "input" /\ task'[t].pc = "top"
  <2>1. ~task[t].failed /\ task'[t].failed = task[t].failed
    BY <1>3, <1>5, <1>8 DEF Stretch, After
  <2>2. Stage[t] = "open"
    BY <1>5, <1>8, <2>1 DEF Shown, Logging
  <2>3. Stage' = Stage
    <3>1. StageOf(t)' = StageOf(t)
      BY <1>8, <2>1, StageStays DEF Logging, Sampling
    <3> QED
      BY <1>4, <3>1, StageSame
  <2>4. InputsBefore(t)
    BY <1>8 DEF LogInv, QueuesOrdered, QueueOrdered, Running
  <2>5. \A j \in History : j < t
    <3> SUFFICES ASSUME NEW j \in Turns, Recorded(j) PROVE j < t
      BY DEF History
    <3> QED
      BY <2>4 DEF InputsBefore, Recorded
  <2>6. Owner[t] = t
    <3>1. admission[t].mode = "started"
      BY <1>5, <1>8 DEF Stretch
    <3> QED
      BY <3>1 DEF AnswersInv, Answered, Owner
  <2>7. t \notin History /\ t \in Nat
    BY <2>5, Numbers
  <2>8. {t} \subseteq Promised!Due(t)
    BY <2>6, <2>7 DEF Promised!Due
  <2>9. \A j \in Promised!Due(t) \ {t} : t < j
    <3> SUFFICES ASSUME NEW j \in Turns, admission[j].turn = t, j # t PROVE t < j
      BY DEF Promised!Due, Owner
    <3>1. t <= j
      BY Numbers DEF AnswersInv, Answered
    <3> QED
      BY <3>1, Numbers
  <2>10. History' = History \cup {t}
    BY <1>1, <1>2, <1>8 DEF History
  <2>11. Promised!Read(t, {t})
    BY <1>3, <2>2, <2>3, <2>5, <2>8, <2>9, <2>10 DEF Promised!Read
  <2>12. {t} \in SUBSET Turns
    OBVIOUS
  <2> QED
    BY <2>11, <2>12
<1>9. CASE task[t].pc \in Sampling /\ r.kind = "error" /\ task'[t].pc = "finish"
  <2>1. ~task[t].failed /\ task'[t].failed
    BY <1>3, <1>5, <1>9 DEF Stretch, After, Sampling
  <2>2. Stage[t] = "open"
    BY <1>5, <1>9, <2>1 DEF Shown, Logging
  <2>3. StageOf(t)' = "failing"
    BY <1>9, <2>1 DEF Shown, Logging
  <2>4. Stage' = [Stage EXCEPT ![t] = "failing"]
    BY <1>4, <2>3, StageSet
  <2> QED
    BY <1>3, <1>6, <1>9, <2>2, <2>4 DEF Promised!Fail
<1>10. CASE task[t].pc = "finish" /\ r.kind \in {"complete", "aborted"}
            /\ task'[t].pc \in {"hooks", "clear"}
  <2>1. task'[t].failed = task[t].failed /\ task[t].failed \in BOOLEAN
    BY <1>3, <1>10 DEF TypeOK, TaskState
  <2>2. CASE task[t].failed
    <3>1. Stage[t] = "failing"
      BY <1>5, <1>10, <2>2 DEF Shown, Logging
    <3>2. StageOf(t)' = "broken"
      BY <1>10, <2>1, <2>2 DEF Shown, After
    <3>3. Stage' = [Stage EXCEPT ![t] = "broken"]
      BY <1>4, <3>2, StageSet
    <3> QED
      BY <1>3, <1>6, <1>10, <3>1, <3>3 DEF Promised!Close
  <2>3. CASE ~task[t].failed
    <3>1. Stage[t] = "open"
      BY <1>5, <1>10, <2>3 DEF Shown, Logging
    <3>2. StageOf(t)' = "whole"
      BY <1>10, <2>1, <2>3 DEF Shown, After
    <3>3. Stage' = [Stage EXCEPT ![t] = "whole"]
      BY <1>4, <3>2, StageSet
    <3>4. task[t].pending = << >>
      BY <1>10, <2>3 DEF QueueInv, QueuesClosed, Closed, Closing
    <3>5. Promised!Due(t) = {}
      BY <1>10, <3>4, DueInQueue DEF Queued
    <3> QED
      BY <1>3, <1>6, <1>10, <3>1, <3>3, <3>5 DEF Promised!Close
  <2> QED
    BY <2>2, <2>3
<1> QED
  BY <1>7, <1>8, <1>9, <1>10 DEF Reports, Logs, Log, LogInput

\* A turn that takes its queue reads all that it is owed.
LEMMA DrainPromise ==
  ASSUME TypeOK, ControlInv, QueueInv, LogInv, AnswersInv, Shown, Shown',
         NEW t \in Turns, Drains(t)
  PROVE  \E some \in SUBSET Turns : Promised!Read(t, some)
PROOF
<1> DEFINE some == {i \in Turns : Queued(i, t)}
<1>1. /\ Owner' = Owner
      /\ \A s \in Turns \ {t} : task'[s] = task[s]
  BY OwnerSame DEF Drains, Alone
<1>2. Stretch(t) /\ Stage[t] = StageOf(t)
  BY DEF AnswersInv, Stage
<1>3. ~task[t].failed
  BY <1>2 DEF Drains, Stretch, After
<1>4. Stage[t] = "open"
  BY <1>2, <1>3 DEF Drains, Shown, Logging, Sampling
<1>5. Stage' = Stage
  <2>1. StageOf(t)' = StageOf(t)
    BY StageStays DEF Drains, Logging, Sampling
  <2>2. \A s \in Turns \ {t} : StageOf(s)' = StageOf(s)
    BY <1>1, StageStays
  <2> QED
    BY <2>1, <2>2, StageSame
<1>6. QueueOrdered(t)
  BY DEF Drains, LogInv, QueuesOrdered, Running, Sampling
<1>7. ASSUME NEW i \in Turns, Queued(i, t)
      PROVE  admission[i].turn = t /\ InputsBefore(i)
  BY <1>2, <1>6, <1>7 DEF Queued, Stretch, QueueOrdered
<1>8. ASSUME NEW i \in Turns, InputsBefore(i), NEW j \in Turns, Recorded(j)
      PROVE  j < i
  BY <1>8 DEF InputsBefore, Recorded
<1>9. some \subseteq Promised!Due(t)
  <2> SUFFICES ASSUME NEW i \in Turns, Queued(i, t)
               PROVE  admission[i].turn = t /\ ~Recorded(i)
    BY DEF Promised!Due, Owner, History
  <2>1. Recorded(i) => i < i
    BY <1>7, <1>8
  <2> QED
    BY <1>7, <2>1, Numbers
<1>10. Promised!Due(t) \ some = {}
  <2>1. \A i \in Promised!Due(t) : Queued(i, t)
    BY DueInQueue DEF Drains
  <2> QED
    BY <2>1 DEF Promised!Due
<1>11. \A i \in some : \A j \in History : j < i
  BY <1>7, <1>8 DEF History
<1>12. History' = History \cup some
  BY HoldsDrain DEF Drains, History
<1> HIDE DEF some
<1>13. Promised!Read(t, some)
  BY <1>1, <1>4, <1>5, <1>9, <1>10, <1>11, <1>12 DEF Promised!Read
<1>14. some \in SUBSET Turns
  BY DEF some
<1> QED
  BY <1>13, <1>14

\* Nothing was answered and nothing was logged at first.
LEMMA PromiseInit == Init => Promised!Init
PROOF
<1> SUFFICES ASSUME Init PROVE Promised!Init
  OBVIOUS
<1>1. \A t, kinds : ~Holds(t, kinds)
  BY DEF Init, Holds
<1>2. \A i : ~Recorded(i)
  BY DEF Init, Recorded
<1>3. \A t \in Turns : StageOf(t) = "none"
  BY <1>1 DEF Init, StageOf, Begun, Over
<1>4. Stage = [t \in Turns |-> "none"]
  BY <1>3 DEF Stage
<1>5. Owner = [i \in Turns |-> Promised!Nowhere]
  BY DEF Init, Owner, Promised!Nowhere, NoTurn
<1>6. History = {}
  BY <1>2 DEF History
<1> QED
  BY <1>4, <1>5, <1>6 DEF Promised!Init

\* Every step of the session is a step of the log, or moves nothing of it.
LEMMA PromiseStep ==
  ASSUME TypeOK, ControlInv, QueueInv, LogInv, AnswersInv, Shown, Shown', [Next]_vars
  PROVE  [Promised!Step]_(Promised!vars)
PROOF
<1>1. Kinds
  BY StepKinds
<1>2. CASE Quietly
  BY <1>2, QuietPromise
<1>3. CASE Takes \/ Rejects
  BY <1>3, ElsePromise
<1>4. CASE Starts
  BY <1>4, StartPromise DEF Promised!Step
<1>5. ASSUME NEW t \in Turns, Steers(t) PROVE Promised!Step
  BY <1>5, SteerPromise DEF Promised!Step
<1>6. ASSUME NEW t \in Turns, Drains(t) PROVE Promised!Step
  BY <1>6, DrainPromise DEF Promised!Step
<1>7. ASSUME NEW t \in Turns, NEW r, Reports(t, r) PROVE Promised!Step
  BY <1>7, ReportPromise DEF Promised!Step
<1> QED
  BY <1>1, <1>2, <1>3, <1>4, <1>5, <1>6, <1>7 DEF Kinds

\* The session keeps the promise of TurnLog: what it answers to an input, and what
\* its log then shows, is what a log of turns that run one after the other and
\* leave out no input they were given would show.
THEOREM ImplementsTurnLog == Spec => TurnLogPromise
PROOF
<1>1. TypeOK /\ AnswersInv => Shown
  BY StagesShown
<1>2. /\ TypeOK /\ ControlInv /\ QueueInv /\ LogInv /\ AnswersInv
      /\ Shown /\ Shown' /\ [Next]_vars
      => [Promised!Step]_(Promised!vars)
  BY PromiseStep
<1> QED
  BY <1>1, <1>2, PromiseInit, TypeCorrect, ControlCorrect, QueueCorrect, LogCorrect,
     AnswersCorrect, PTL DEF Spec, TurnLogPromise, Promised!Spec

=============================================================================
