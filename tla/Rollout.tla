------------------------------- MODULE Rollout -------------------------------
(***************************************************************************)
(* The rollout of one thread: the JSONL file, the recorder of the session  *)
(* that appends to it, the history that session keeps in memory, restarts, *)
(* forks, and what readers make of the file.                               *)
(*                                                                         *)
(* The turn is what decides in which order things are recorded: its steps  *)
(* are those of runTurn, one action for what is recorded together.  An     *)
(* append may fail, wholly or in the middle of a line, and the program may *)
(* be killed between two actions or in the middle of a line.               *)
(***************************************************************************)
EXTENDS ConversationHistory, FiniteSets

CONSTANTS
  Calls,      \* the call ids a model may use, any number of times
  MaxItems,   \* bound: how many times models and users produce an item
  MaxTurns,   \* bound: how many turns begin
  MaxOpens,   \* bound: how often a session opens the rollout
  Faulty,     \* whether appends may fail and a kill may cut one short
  Oversized   \* whether a user input may outgrow the readers' line limit

ASSUME RolloutAssumption ==
  /\ MaxItems \in Nat /\ MaxTurns \in Nat /\ MaxOpens \in Nat
  /\ Faulty \in BOOLEAN /\ Oversized \in BOOLEAN

VARIABLES
  file,      \* the lines of the file
  recorder,  \* up: a session has it open; its next ordinal; its sticky error
  history,   \* the history of that session
  turn,      \* its turn: place, calls not yet answered, follow-up, error
  used       \* bounds: items, turns, opens; history: turns that were left without an end

vars == <<file, recorder, history, turn, used>>

NoTurn == [pc |-> "idle", pending |-> << >>, followUp |-> FALSE, failed |-> FALSE]

-----------------------------------------------------------------------------
(* Lines.                                                                  *)

Line(type, items, t) == [type |-> type, ordinal |-> 0, turn |-> t, items |-> items]
Torn == [type |-> "torn", ordinal |-> 0, turn |-> 0, items |-> << >>]

\* Every reader stops with an error at a line that does not parse or is longer
\* than its buffer.
Readable(lines) ==
  \A k \in DOMAIN lines :
    /\ lines[k].type # "torn"
    /\ \A item \in ToSet(lines[k].items) : ~item.long

NextOrdinalAgain(lines) ==           \* mutant: the last ordinal is used again
  IF lines = << >> THEN 0 ELSE Max({lines[k].ordinal : k \in DOMAIN lines})

NextOrdinal(lines) ==
  IF lines = << >> THEN 0 ELSE 1 + Max({lines[k].ordinal : k \in DOMAIN lines})

ReplayIgnoringCompaction(lines) ==   \* mutant
  FlattenSeq([k \in DOMAIN lines |->
    IF lines[k].type = "response_item" THEN lines[k].items ELSE << >>])

\* ReadRollout: the items since the last compaction, after what that left.
Replay(lines) ==
  LET last == SelectLastInSeq(lines, LAMBDA line : line.type = "compacted")
      base == IF last = 0 THEN << >> ELSE lines[last].items
      rest == SubSeq(lines, last + 1, Len(lines))
  IN base \o FlattenSeq([k \in DOMAIN rest |->
       IF rest[k].type = "response_item" THEN rest[k].items ELSE << >>])

WriteOn(r, lines) ==                 \* mutant: the error is not sticky
  \E k \in 0 .. Len(lines), torn \in BOOLEAN :
    /\ k = Len(lines) \/ Faulty
    /\ torn => k < Len(lines)
    /\ file' = file \o [i \in 1 .. k |-> [lines[i] EXCEPT !.ordinal = r.ordinal + i - 1]]
                    \o (IF torn THEN <<Torn>> ELSE << >>)
    /\ recorder' = [r EXCEPT !.ordinal = @ + k]

\* recordItem for each line in turn: after the first append that fails nothing
\* is appended any more, although the session goes on.
Write(r, lines) ==
  \E k \in 0 .. Len(lines), torn \in BOOLEAN :
    /\ IF r.err THEN k = 0 /\ ~torn ELSE k = Len(lines) \/ Faulty
    /\ torn => k < Len(lines)
    /\ file' = file \o [i \in 1 .. k |-> [lines[i] EXCEPT !.ordinal = r.ordinal + i - 1]]
                    \o (IF torn THEN <<Torn>> ELSE << >>)
    /\ recorder' = [r EXCEPT !.ordinal = @ + k, !.err = @ \/ k < Len(lines)]

-----------------------------------------------------------------------------
(* The session.                                                            *)

ItemLines(items) ==
  [k \in DOMAIN items |-> Line("response_item", <<items[k]>>, used.turns)]
Event == Line("event", << >>, used.turns)

Init ==
  /\ file = << >>
  /\ recorder = [up |-> FALSE, ordinal |-> 0, err |-> FALSE]
  /\ history = << >>
  /\ turn = NoTurn
  /\ used = [items |-> 0, turns |-> 0, opens |-> 0, broken |-> {}]

\* NewInWorkspaceWithRollout, for a thread that no session has open.
Open ==
  LET next   == NextOrdinal(file)
      opened == [up |-> TRUE, ordinal |-> next, err |-> FALSE]
  IN /\ ~recorder.up /\ used.opens < MaxOpens
     /\ Readable(file)
     /\ Write(opened, IF next = 0 THEN <<Line("session_meta", << >>, 0)>> ELSE << >>)
     /\ history' = Restored(Replay(file))
     /\ turn' = NoTurn
     /\ used' = [used EXCEPT !.opens = @ + 1]

\* spawnRegularTask and runRegularTask, up to runTurn.
Begin ==
  LET t == used.turns + 1
  IN /\ recorder.up /\ turn.pc = "idle" /\ used.turns < MaxTurns
     /\ Write(recorder, <<Line("turn_started", << >>, t), Line("turn_context", << >>, t)>>)
     /\ turn' = [NoTurn EXCEPT !.pc = "input"]
     /\ used' = [used EXCEPT !.turns = t]
     /\ UNCHANGED history

\* recordConversationItems, and the events sent after it.
RecordThen(items, events) ==
  /\ history' = Extended(history, items)
  /\ Write(recorder, ItemLines(items) \o events)

Item(kind, id) ==
  [kind |-> kind, id |-> id, n |-> used.items + 1, turn |-> used.turns, long |-> FALSE]
Fresh == used.items < MaxItems
Produce == Fresh /\ used' = [used EXCEPT !.items = @ + 1]

\* recordTurnInput; more input may be queued.  The extension instructions that
\* may follow the message are for a history what the model's first words are.
RecordInput ==
  /\ recorder.up /\ turn.pc = "input"
  /\ Produce
  /\ \E long \in {FALSE, Oversized} :
       RecordThen(<<[Item("user", NoId) EXCEPT !.long = long]>>, << >>)
  /\ turn' \in {turn, [turn EXCEPT !.pc = "top", !.followUp = FALSE]}

\* compactHistory; whether the estimate has reached the window is the choice.
Compact ==
  /\ recorder.up /\ turn.pc = "top" /\ Len(ForPrompt(history)) > 2
  /\ Produce
  /\ LET replacement == Compacted(history, Item("user", NoId))
     IN /\ history' = Restored(replacement)
        /\ Write(recorder, <<Line("compacted", replacement, used.turns), Event>>)
  /\ turn' = [turn EXCEPT !.pc = "sample"]

-----------------------------------------------------------------------------
(* One sampling request.                                                   *)

Streaming == recorder.up /\ turn.pc \in {"top", "sample"}

\* An item that is no function call; "other" is a type no history keeps.
Say ==
  /\ Streaming /\ Produce
  /\ \E kind \in {"assistant", "other"} : RecordThen(<<Item(kind, NoId)>>, << >>)
  /\ turn' = [turn EXCEPT !.pc = "sample"]

Call(c) ==
  /\ Streaming /\ Produce
  /\ RecordThen(<<Item("call", c)>>, <<Event>>)
  /\ turn' = [turn EXCEPT !.pc = "sample", !.pending = Append(@, c)]

\* A call without an id or without a name is answered at once.
BadCall ==
  /\ Streaming /\ Produce
  /\ \E id \in Calls \union {NoId} :
       RecordThen(<<Item("call", id),
                    Item("output", IF id = NoId THEN InvalidId ELSE id)>>, << >>)
  /\ turn' = [turn EXCEPT !.pc = "sample", !.followUp = TRUE]

\* The stream ended after response.completed; the calls run in parallel.
Complete ==
  /\ Streaming
  /\ turn' = [turn EXCEPT !.pc = IF turn.pending = << >> THEN "end" ELSE "tools",
                          !.followUp = @ \/ turn.pending # << >>]
  /\ UNCHANGED <<file, recorder, history, used>>

\* The outputs are recorded in the order of the calls, once all have returned.
RecordOutput ==
  /\ recorder.up /\ turn.pc = "tools"
  /\ RecordThen(<<[Item("output", Head(turn.pending)) EXCEPT !.n = 0]>>, <<Event>>)
  /\ turn' = [turn EXCEPT !.pending = Tail(@),
                          !.pc = IF Len(turn.pending) = 1 THEN "end" ELSE "tools"]
  /\ UNCHANGED used

\* Text that came without an item of its own becomes one.
RecordText ==
  /\ recorder.up /\ turn.pc = "end" /\ Produce
  /\ RecordThen(<<Item("assistant", NoId)>>, << >>)
  /\ turn' = [turn EXCEPT !.pc = "drain"]

\* Steered input is recorded, or the model is asked again, or the turn is over.
Drain ==
  /\ recorder.up /\ turn.pc \in {"end", "drain"}
  /\ \/ Fresh /\ turn' = [turn EXCEPT !.pc = "input"]
     \/ turn.followUp /\ turn' = [turn EXCEPT !.pc = "top", !.followUp = FALSE]
     \/ ~turn.followUp /\ turn' = [turn EXCEPT !.pc = "finish"]
  /\ UNCHANGED <<file, recorder, history, used>>

\* Compaction or the request failed, or was cancelled: calls stay unanswered.
Break ==
  /\ Streaming
  /\ Write(recorder, <<Event>>)
  /\ turn' = [NoTurn EXCEPT !.pc = "finish", !.failed = TRUE]
  /\ UNCHANGED <<history, used>>

\* The turn is over, and the rollout does not say so.
Unended == [used EXCEPT !.broken = @ \cup {used.turns}]

EndOf(failed) == {"turn_aborted", IF failed THEN "turn_failed" ELSE "turn_complete"}

FinishSilently ==   \* mutant: an aborted turn leaves no event
  /\ recorder.up /\ turn.pc = "finish"
  /\ \E type \in EndOf(turn.failed) :
       Write(recorder, IF type = "turn_aborted" THEN << >>
                       ELSE <<Line(type, << >>, used.turns)>>)
  /\ turn' = NoTurn
  /\ used' = IF recorder'.err THEN Unended ELSE used
  /\ UNCHANGED history

\* onTaskFinished.
Finish ==
  /\ recorder.up /\ turn.pc = "finish"
  /\ \E type \in EndOf(turn.failed) : Write(recorder, <<Line(type, << >>, used.turns)>>)
  /\ turn' = NoTurn
  /\ used' = IF recorder'.err THEN Unended ELSE used
  /\ UNCHANGED history

-----------------------------------------------------------------------------
(* The end of a session, and forks.                                        *)

Down == [up |-> FALSE, ordinal |-> 0, err |-> FALSE]

\* The last thing Shutdown does, after the turn was aborted.
Close ==
  /\ recorder.up /\ turn.pc = "idle"
  /\ recorder' = Down
  /\ history' = << >>
  /\ UNCHANGED <<file, turn, used>>

\* The process is killed, perhaps in the middle of an append.
Crash ==
  /\ recorder.up
  /\ \/ UNCHANGED file
     \/ Faulty /\ ~recorder.err /\ file' = Append(file, Torn)
  /\ recorder' = Down
  /\ history' = << >>
  /\ turn' = NoTurn
  /\ used' = IF turn.pc = "idle" THEN used ELSE Unended

\* forkThread: the model goes on with the new thread, which no session has
\* opened (one more that may be opened, for the bound).  A fork that could not be
\* written is removed.
Fork ==
  LET items   == Replay(file)
      meta    == Line("session_meta", << >>, 0)
      copy(k) == [Line("response_item", <<items[k]>>, items[k].turn) EXCEPT !.ordinal = k]
  IN /\ Readable(file) /\ used.opens \in 1 .. MaxOpens - 1
     /\ \E count \in 0 .. Len(items) :
          file' = [k \in 1 .. count + 1 |-> IF k = 1 THEN meta ELSE copy(k - 1)]
     /\ recorder' = Down
     /\ history' = << >>
     /\ turn' = NoTurn
     /\ UNCHANGED used

Next ==
  \/ Open \/ Begin \/ RecordInput \/ Compact
  \/ Say \/ \E c \in Calls : Call(c)
  \/ BadCall \/ Complete \/ RecordOutput \/ RecordText \/ Drain \/ Break \/ Finish
  \/ Close \/ Crash \/ Fork

Spec == Init /\ [][Next]_vars

-----------------------------------------------------------------------------
(* What a reader makes of the file.                                        *)

\* ReadRolloutEvents, what v2Events answers to ?after=: lines (by their places,
\* whose order it keeps) and the cursor to ask with next.
EventsAfter(after) == {k \in DOMAIN file : file[k].ordinal >= after}
CursorAfter(after) ==
  IF EventsAfter(after) = {} THEN after
  ELSE 1 + Max({file[k].ordinal : k \in EventsAfter(after)})

Started == {k \in DOMAIN file : file[k].type = "turn_started"}

BlockUntilEnd(k) ==   \* mutant: only an end ends a turn
  {i \in DOMAIN file : i > k /\ \A j \in k .. i - 1 :
     file[j].type \notin {"turn_complete", "turn_failed", "turn_aborted"}}

\* The lines that ReadRolloutTurns attributes to the turn started at line k.
BlockOf(k) ==
  {i \in DOMAIN file : i > k /\ \A j \in Started : j <= k \/ i < j}

StatusOf(k) ==
  LET ends == {i \in BlockOf(k) :
                 file[i].type \in {"turn_complete", "turn_failed", "turn_aborted"}}
  IN IF ends = {} THEN "inProgress" ELSE file[Max(ends)].type

-----------------------------------------------------------------------------
(* Properties.                                                             *)

\* Every variable has its type (rollout.go:17-52, session.go:157-188).
TypeOK ==
  /\ \A k \in DOMAIN file :
       /\ DOMAIN file[k] = {"type", "ordinal", "turn", "items"}
       /\ file[k].ordinal \in Nat /\ file[k].turn \in 0 .. MaxTurns
  /\ recorder \in [up : BOOLEAN, ordinal : Nat, err : BOOLEAN]
  /\ \A item \in ToSet(history) : item.kind \in Conversational
  /\ turn \in [pc : {"idle", "input", "top", "sample", "tools", "end", "drain", "finish"},
               pending : Seq(Calls), followUp : BOOLEAN, failed : BOOLEAN]
  /\ used \in [items : 0 .. MaxItems, turns : 0 .. MaxTurns, opens : 0 .. MaxOpens,
               broken : SUBSET (0 .. MaxTurns)]

\* While no append has failed, a session that reopened the rollout now would
\* have the very history this one has, whatever was compacted, forked, left
\* unanswered by a broken turn or cut off by a kill (rollout.go:202-243,
\* turn.go:143-145, session.go:627-630).
ReplayIsHistory ==
  recorder.up /\ ~recorder.err => Restored(Replay(file)) = history

\* After an append that was cut short nothing is ever appended: a line that no
\* reader can parse is the last one (rollout.go:424-437).
CutLineIsLast ==
  \A k \in DOMAIN file : file[k].type = "torn" => k = Len(file)

\* The prompt of the next request pairs calls with outputs, although turns
\* break between a call and its output, a fork may fall there too, calls come
\* without an id and ids come back (history.go:52-82).
PromptsArePaired == Paired(ForPrompt(history))

\* Each item is shown under the turn that recorded it, also after a turn that a
\* kill left without an end (rollout.go:126-169).
ItemsInTheirTurn ==
  \A k \in Started : \A i \in BlockOf(k) :
    file[i].type = "response_item" => file[i].items[1].turn = file[k].turn

\* A stored turn is "inProgress" exactly if it is the one that runs, or one that a
\* kill broke off or whose end could not be appended: those stay so for ever, which is
\* what v2ThreadObject reports as "active" (v2.go:37-46, task.go:61-86).  No later
\* turn, of whatever session, ends one of them or is taken for one of them.
StatusIsLive ==
  \A k \in Started :
    StatusOf(k) = "inProgress" <=>
      (turn.pc # "idle" /\ file[k].turn = used.turns) \/ file[k].turn \in used.broken

\* A client that asks for what follows its last answer, from cursor 0 on, gets
\* every line once and in order, over restarts, forks and failed appends
\* (rollout.go:97-124, 213-215, 436-440, v2.go:103-116).
PollsLoseNothing ==
  Readable(file) =>
    \A after \in 0 .. Len(file) :
      /\ EventsAfter(after) = after + 1 .. Len(file)
      /\ CursorAfter(after) = Len(file)

\* docs/CODEX_PARITY.md:190: a thread loaded at startup gets its history back
\* from its rollout when its session is loaded (rollout.go:202-243).
StoredThreadsReopen == ~recorder.up => Readable(file)
=============================================================================
