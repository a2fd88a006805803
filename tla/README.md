# A TLA+ model of LOB Codex

LOB Codex (`src/`) is a Go harness that runs a coding agent: clients submit
prompts to a *session*, the session runs *turns* that sample a model, execute
the tools it calls and feed the outputs back, and everything is written to a
JSONL *rollout*. What is hard about it is not any one function but the
goroutines: a submission loop, a goroutine per turn, one per tool call, one or
two per child process, one per MCP connection, and HTTP handlers on top, which
meet in a handful of mutexes and channels.

This directory holds TLA+ modules of those parts, the TLC configurations that
check them on small instances, and proofs for every instance. `PROJECT.json`
indexes it: which lines each definition models, what each run checks, which
mutation of the code each property would catch, and the hazards.

    tlc -workers 2 -config MCSessionTurns.cfg MCSession    # one run
    tlapm SessionProofs.tla                                # one proof module

Sections 2 and 3 model the two parts that carry the most concurrency, the
session and its processes, section 4 the rollout that a session leaves behind,
section 5 what surrounds them: the application server, the exec server, patches,
the exec policy and MCP. Section 6 says what is proved.

## 1. Inventory

| Component | State it keeps | Operations | Talks to |
|---|---|---|---|
| Session (`session.go`, `task.go`, `turn.go`) | `active` turn; per turn its context, abort reason, `pendingInput`, `acceptingInput`; `approvals`, `elicitations`; events channel (128) | turn input (start or steer), interrupt, shutdown, approval and elicitation answers, refresh extensions, clean terminals; the turn: record, compact, sample, run tools, drain, finish | clients through `IO` (an unbuffered submission channel, the events channel), model client, tool router, rollout, MCP clients |
| Rollout and history (`rollout.go`, `history.go`) | append-only file, next ordinal, sticky error; in-memory items | append item, event, compaction; open, replay, list turns, fork; prompt normalisation | Session writes, application server reads the same file |
| Process manager (`process_manager.go`, `head_tail_buffer.go`, `write_stdin.go`) | `processes` by session id; per process an output buffer, `done`, exit code, count of emitted deltas | start with yield, poll or write stdin, interrupt, clean, close | child processes or the exec server; emits deltas into the events channel |
| Exec server (`execserver/`) | `processes` by id, output buffer, `done` | start, write, poll, kill over HTTP JSON-RPC | process manager polls it |
| Application server (`appserver/`) | `threads` map, per thread its lazily started session, `chatMu`; files of the thread store | create, list, fork, remove thread; remove workspace; chat stream, steer, interrupt, approval | Session IO, rollout files |
| MCP client (`mcp/`) | `pending` calls by id, notification and request channels, `done` | start, call, notify, read loop, SSE, close, token refresh | Session's watcher and tool router, servers by pipe or HTTP |
| Exec policy and router (`exec_policy.go`, `router.go`) | session rules, persistent rules and their file; executors by name | evaluate, add a rule, register, unregister by prefix | exec_command, apply_patch, MCP refresh |
| Patch application (`apply_patch*.go`) | files of the workspace | parse, apply hunks | tool goroutines, possibly in parallel |
| Model client (`model/`) | none between requests | stream with retries | the turn's select |
| Extensions (`extensions/`) | plugin directories, disabled list in a settings file | load, enable, install, uninstall | Session refresh |
| Sandboxes, PTY, protocol types, configuration, `main`, web page | none of their own | wrappers and data | |

What makes each of them correct, and what makes it hard:

* **Session.** Turns are serial although the loop and the goroutine of the
  ending turn both touch `active`; a steer is never acknowledged and lost; an
  interrupt cancels the turn it names and comes back; a command runs only after
  an approval of *this* call. Hard because `handleTurnInput` acts on a snapshot
  of `active`, because a turn's end is four separate steps (terminal event,
  hooks, `active = nil`, `close(done)`), because the loop waits for the turn
  inside a submission, and because both send on one bounded channel.
* **Rollout.** Replay gives back what was live; ordinals grow; a crash costs at
  most the last line. Hard: torn lines, sticky errors, two recorders on a file,
  compaction that separates a call from its output.
* **Process manager and exec server.** Every byte of output is delivered at most
  once and in order, and the exit code only after the last byte; a session id
  names a process until its exit was reported. Hard: the exit, the copier, the
  yield deadline and several readers race; the remote side is polled.
* **Application server.** A thread has at most one session; a removed thread
  does not come back; a request that was accepted gets an end. Hard: map,
  per-thread lock, files and session shutdown are separate steps, each may fail.
* **MCP client.** A reply reaches the call that asked or nobody; every call
  ends; the registered tools are those of the live client. Hard: late replies,
  close against reader, notifications during a turn.
* **Policy, patches, extensions.** Read-modify-write of files shared by several
  sessions or parallel calls.

| Part | Modules |
|---|---|
| session and its turns | `TurnLog` (the promise), `Session`, `SessionProofs`, `MCSession` |
| local processes | `HeadTailBuffer`, `ProcessOutput` (the promise), `ProcessManager`, their proofs, `MCProcess` |
| rollout and history | `ConversationHistory`, `Rollout`, `SequenceFacts`, `RolloutProofs`, `MCRollout` |
| exec server | `RemoteProcess`, `ToolProofs` |
| application server | `Threads`, `ThreadsProofs` |
| patches | `PatchParse`, `PatchText`, `ApplyPatch`, `SequenceFacts`, `PatchProofs` |
| exec policy | `ExecPolicy`, `ToolProofs` |
| MCP | `McpServers`, `McpCalls`, `ToolProofs` |
| all of the last five | `MCServices` |

`PROJECT.json` lists 40 hazards at their lines, with the properties that cover
them or, for five, why none does. Where a property covers a hazard in part, because
the code does go wrong in the rest, a note says what its premise leaves out.

## 2. What is modelled: the session

`Session.tla` models one session, after `session.go`, `task.go` and `turn.go`.
An action is one step of one goroutine between two points where it can be
overtaken: taking a mutex, a blocking send, a wait.

| Code | Model |
|---|---|
| the local variables of `submissionLoop` and what it calls | `loop`: a program counter, the submission in hand, the task it looked up, where to go after `<-task.done` |
| `s.active` | `active` |
| `runningTask` and the turn's goroutine | `task[t]`: place, `cancelled` (the context), `reason`, `accepting`, `pending`, whether the step needs a follow-up, whether it failed, and `out`, the event it is stuck sending |
| the goroutines of `runSamplingRequest`'s tool calls | `calls[t][c]`, from `unused` to `recorded` |
| `s.approvals` | `approvals[c]`, keyed by call id alone as in the code |
| `s.events` | `events`, a sequence of at most `Cap` |
| the rollout | `rollout`: turn boundaries, errors and user inputs |
| `TurnInputAdmission` | `admission[i]`; for a chat prompt, which gets no reply, it records the outcome all the same |

A turn is named by the input that started it (`TurnContext.SubID` is the
submission's id). `granted` is a history variable: which calls a client ever
approved.

*Submission loop.* `SubmitInput`, `SubmitInvalid`, `SubmitInterrupt`,
`SubmitShutdown` hand a submission over the unbuffered channel. A turn input
goes through `Lookup` (read `active` under `activeMu`), then `Enqueue`
(`enqueueInput` under the task's own mutex, on the task *seen*) or `Spawn` and
`Create`. An interrupt goes through `CheckExpected`, `Interrupt` (which reads
`active` a second time), `Await` (`<-task.done`) and `Reply`. A shutdown ends in
`Teardown`. `SubmitApproval` is one step: nothing in `handleExecApproval` can
block, and the two outcomes of its non-blocking send are in its guard. A client
may answer a call at once, late, twice, or after the turn is over.

*Turn.* `Begin`, `RecordInput`, then the loop of `runTurn`: `Top` chooses
compaction or sampling (token counts are abstracted), `Compacted`, `Delta`,
`CallItem`, `BadCallItem`, `Completed` and `ModelFails` are what the stream may
bring, in any order and number; `SeesCancel` is the `ctx.Done()` case of the two
selects. Between `Completed` and `ToolsDone` the tool goroutines run:
`RunDirectly`, or `Ask`, `Asked`, `Decided` or `GiveUp`, `Output`, `Finished`;
`RecordOutput` after all of them. `Drain` is `takePendingInput` with what
follows it; `Finish` is `onTaskFinished`; then `RunHooks`, `Clear`
(`active = nil`) and `Exit` (`close(task.done)`).

*Sending.* `sendEvent` first appends to the rollout, then sends: the action that
causes it does the append and sets `out`; `Deliver` is the send, enabled when
the channel has room. Nothing else of the turn moves meanwhile.

### Properties

Safety: `OneTurnAtATime`, `TurnsAreSerial`, `InputsInOrder`,
`AcknowledgedMeansQuiet`, `ApprovalsAreLive`,
`ApprovedBeforeRunning`, the action property `InterruptHitsItsTurn`, and `IInv`,
the inductive invariant, which contains `TypeOK` and implies `NeverReplaced`. Liveness: `LoopComesBack`, `AbortReturns`,
`ReportedTurnFreesSession`. Each is stated in words above its definition.

`TurnLogPromise` says that `Session` implements `TurnLog`, which is what a session
promises to someone who sees only its answers to turn inputs and its log. An
accepted input (`owner`) starts a turn or is owed to the newest one; turns (`stage`)
run one at a time; `Read` moves inputs that are owed to the open turn into the
`history`, all that is in there first, and what is still owed later; `Close` leaves
nothing owed unless an error came before; and `Steer` cannot give anything to a turn
that closed in good order. It may give something to one that an error has ended:
that is finding 2, which the promise has to allow. `CleanTurnConsumesSteers` states
that part of it about the goroutines; it is proved, and no run has it as a property
of its own. The mapping takes `owner` from
`admission`, `stage` from the records of a turn (`StageOf`), and `history` from the
recorded inputs, so that nothing of the goroutines shows. Most steps are stutters;
`Create` is `Start`, the successful `Enqueue` is `Steer`, `RecordInput` and `Drain`
are `Read`, and the records `started`, `error`, `complete` and `aborted` are
`Begin`, `Fail` and `Close`.

`NeverReplaced` says that the `"replaced"` path of `spawnRegularTask` is dead
code: only the loop sets `active`, and it looks before it spawns.

### Runs

| Run | Specification and bounds | Distinct states | Shows |
|---|---|---|---|
| `session_turns` | `Spec`, 3 inputs, no tools, channel of 2 | 400,710 | three inputs are enough for: a turn, a steer to it that arrives while it ends, and a turn after it; two turns cannot show that an old turn clears a *later* one's `active`; checks the refinement of `TurnLog` |
| `session_tools` | `Spec`, 2 inputs, 2 calls, channel of 1, call symmetry | 1,507,566 | two turns that use the same two call ids in parallel: stale, double and early answers, interrupts while asking, waiting and running; checks the inductive invariant of the proofs, types included |
| `session_live` | `FairSpec`, 1 input, 2 calls, channel of 2 | 57,861 | one turn with everything it can be interrupted in, against interrupts and a shutdown without bound |
| `session_unread` | `UnreadSpec`, 1 input, no tools, channel of 2 | | **violated**: see finding 1 |
| `session_steer` | `Spec`, 2 inputs, no tools, channel of 1 | | **violated**: see finding 2 |

Bounds: `MaxInputs` (turn inputs a client submits; interrupts, approvals,
invalid inputs and events are not bounded), `Calls` (call ids, each used at most
once a turn), `Cap` (128 in the code; 1 and 2 make every send wait). Deadlock is
not checked: after `Teardown` the session has stopped.

### Fairness

`Scheduled` is what the Go runtime gives: a goroutine that can go on does (weak
fairness of `Loop`, of `Own(t)` and of each `Tool(t, c)`). Two places need more.
A `select` with two ready cases picks at random, so a turn that meets a ready
`ctx.Done()` again and again takes it: strong fairness of `SeesCancel`. Blocked
senders of a channel queue up, so a sender that finds room again and again gets
it: strong fairness of `Deliver`, `Asked` and `Complain`. `Finished` is in
`Tool`: `exec_command` returns by its yield deadline at the latest. The model's
stream (`Model`), the clients and the output of commands are not fair. Only
`FairSpec` adds that some client goes on calling `NextEvent`.

### Findings

1. **An unread session cannot be interrupted** (`session_unread`).
   `sendEventRaw` waits for room until the *session's* context is cancelled, but
   only the submission loop cancels that, and the loop is waiting in
   `abortActive` for the turn that is stuck in `sendEventRaw`. The only reader is
   the HTTP handler of the chat request; when the browser goes away it stops.
   After 128 more events the turn blocks, and interrupt, shutdown, approval and
   steer with it.
2. **An acknowledged steer is lost when the model fails** (`session_steer`).
   `runTurn`'s error returns skip `takePendingInput`: inputs that `Steer`
   reported as steered are dropped, and `acceptingInput` stays true, so that more
   are accepted until `active` is cleared.

## 3. What is modelled: processes

Four modules model `exec_command` and `write_stdin`, after
`process_manager.go`, `process_pty.go` and `head_tail_buffer.go`.

* `HeadTailBuffer.tla` is the output buffer as a value, with `PushChunk` and
  `WithLimit` statement by statement. A byte is any value. `HeadTail(printed, n)`
  is the reference: the prefix and the suffix that a buffer of `n` bytes ought to
  hold of everything printed, and how many bytes lie between them.
* `ProcessOutput.tla` is the promise to the model that calls the tools: output is
  delivered in order and once, nothing follows the exit code, and the exit code
  follows all of the output, except of a process marked `lossy`.
* `ProcessManager.tla` is one process with everybody who meets around it: the
  calls, the child, its copiers, the waiter, the turn and the session.
* `MCProcess.tla` instantiates it for TLC.

| Code | Model |
|---|---|
| a call of `start` or `writeStdin` (one goroutine per tool call) | `call[c]`: place, what it writes, and its local `finished` |
| `process.interactionMu` | `lock`. Only `writeStdin` takes it: the call that started the process waits beside it |
| `manager.processes` | `mapped`; `manager.mu` is held within one action |
| `process.output` | `buffer`, the bytes being 1, 2, 3, ... in the order they are printed |
| `process.done` | `done` |
| the writers of standard output and standard error, or of the terminal | `Copy` and `Emitted`; `emitting` counts those that are blocked sending a delta |
| the goroutine of `start` that waits for the child | `CloseTerminal`, `Settle` |
| the pipe or terminal to the child's input | `stdin`, at most `StdinCap` |
| the context under which the child was started | `own` while the turn that started it may still be cancelled, `turn` |

`counted` is history: how many bytes `result` drained, as `totalBytes` counts
them. `told`, `reported` and `stopped` remember what results carried and who
closed the manager.

*A start* is `Start` (the child runs), `Insert` (its entry in the map) and
`AwaitDone`; between the first two the manager does not know of the child, and
`Clean` may empty the map there, or afterwards while the start is waiting.
*A write* is `Lookup`, `Lock`, then `WriteText`, `Signal` or `WriteFails`, then
the `select`: `Wake` or `Cancelled`. `Look` asks `isClosed(process.done)` once
more. Both end with `Drain` (`drain().withLimit(...)`) and `Report`. `Wake` covers
both the deadline and `done`, since the code asks for `done` again; in `AwaitDone`
the outcome of the `select` is the answer. A call looks its process up while its
turn is open; one that was dispatched and overtaken by the interrupt finds the
same entry or fails.

*Output.* `Copy` takes any part of what was printed and not copied, as `Read`
may, so the buffer sees every way of cutting the output into chunks. Standard
output and standard error are one stream, in the order they arrive. The delta to
the events channel may wait for a reader, and `done` waits with it.

*The end.* On pipes `command.Wait` returns after both copiers: `Settle` requires
everything copied. On a terminal the code closes the terminal once the child has
exited and waits for the copier, which then stops where it is: what it had not
read is lost (`lossy`). A child's descendants that keep its pipes open after it
died are taken as part of the child. `Close` of the session leaves out the
cancellation of the session's context that follows it; `NoOrphan` holds without.

### Properties

`BufferHoldsTheNews` relates the buffer to all that was copied since the last
drain, whoever drained; `ExitAfterOutput` is about the order in which `done` is
closed, looked at and drained; `KnownIdsWork` and `NoOrphan` relate the map to
what was promised and to the child; `OutputPromise` says that the manager
implements `ProcessOutput`. `IInv` is the inductive invariant of the proofs, types
included. `CallsReturn` is the liveness of the calls.

### Runs

| Run | Specification and bounds | Distinct states | Shows |
|---|---|---|---|
| `process` | `Spec`, 2 callers, 4 bytes, buffer of 3, limit of 1, caller symmetry | 1,658,530 | a start and a write, or two writes, against each other; four bytes overflow head and tail in one chunk and in several, and the limit cuts again; each caller calls any number of times |
| `process_live` | `FairSpec`, 2 callers, 1 byte | 321,618 | every call returns, also while others queue for the lock |
| `process_deaf` | `DeafSpec`, the same | | **violated**: see finding 3 |

Bounds: `MaxBytes` printed, `BufferMax` (1 MiB in the code), `OutputLimit`,
`StdinCap` (a pipe's 64 KiB). A head of one byte and a tail of two are the
smallest with different budgets. One process is enough: processes share only the
map and its lock. Deadlock is not checked: a closed session has stopped.

### Fairness

`Scheduled`: goroutines that can go on do; a Go mutex hands itself to the waiter
that starves (strong fairness of `Lock`); deltas find a reader (otherwise finding
1 applies); a killed child dies. The yield timer is part of `Step`: a call never
waits for the child's exit. `FairSpec` adds that a running child goes on reading
its input; `DeafSpec` does not.

### Finding

3. **A call that writes to a deaf child cannot be interrupted** (`process_deaf`).
   `io.WriteString` comes before the `select` on `ctx.Done()`, the exit and the
   yield timer, and none of them ends it. If the child belongs to an earlier turn
   the interrupt does not kill it either. The call keeps `interactionMu`, so
   polling the process with `write_stdin` hangs as well, and the submission loop
   waits for the turn. Cleaning the terminals would end it, but that is a
   submission.

## 4. What is modelled: the rollout

`Rollout.tla` is the JSONL file of one thread with everybody who appends to it or
reads it, after `rollout.go`; `ConversationHistory.tla` is the model-visible
history as a value, after `history.go`, with `ForPrompt` (`normalizeForPrompt`)
and the replacement that compaction computes. `MCRollout.tla` instantiates them.

| Code | Model |
|---|---|
| the lines of the file | `file`: type, ordinal, the turn that wrote it (history), the items it carries |
| `rolloutRecorder` | `recorder`: whether a session has it open, next ordinal, sticky error |
| `ConversationHistory.items` | `history` |
| where `runTurn` is | `turn`: place, calls without an output, follow-up, failure |
| `ResponseItem` | a record: kind, call id, a number for the text, the turn (history), whether its line outgrows the readers |

The turn is here for the order in which it records things: `Begin` (the started
event, the turn context), `RecordInput`, `Compact`, `Say`, `Call`, `BadCall`,
`Complete`, `RecordOutput`, `RecordText`, `Drain`, `Break` and `Finish`, one action
for what is recorded together, history and file alike. `Session` models the same
turn for its concurrency; a single goroutine of a turn does all this recording, so
nothing overtakes it here. `Write` is `recordItem` for each line in turn: with
`Faulty`, any append may be refused or leave part of a line, after which nothing
more is written although the session goes on. `Crash` may cut a line too, and
together with a refused append it may fall between two lines. `Open` is a restart;
`Fork` is `forkThread`, after which the model follows the new thread.

Readers have no state: `Replay` is `ReadRollout`, `EventsAfter` and `CursorAfter`
are `ReadRolloutEvents`, `BlockOf` and `StatusOf` are `ReadRolloutTurns`. A reader
that meets a line while it is being appended fails once and is asked again; this
is left out.

### Properties

`ReplayIsHistory` is the point of the file: at any moment of any turn, a session
that opened the rollout would have the history the live session has.
`CutLineIsLast` says what a fault may cost, `PromptsArePaired` that the prompt is
acceptable after whatever broke off, `ItemsInTheirTurn` and `StatusIsLive` that the
v2 interface shows items and statuses where they belong although only the order
of lines says so. A turn that a kill broke off, or whose end could not be appended,
has no end in the file: `used.broken` remembers which ones those are, and
`StatusIsLive` says that besides the running turn just these are `inProgress`, for
ever. So an interface that takes `inProgress` for running is wrong about them
(`v2.go:37-46`); what the property excludes is that the end of a later turn, perhaps of
another session, is read as theirs, or their missing end as its. `PollsLoseNothing` says that a client following the events by cursor sees each line once.

### Runs

| Run | Bounds | Distinct states | Shows |
|---|---|---|---|
| `rollout` | 2 calls, 4 items, 2 turns, 2 sessions, faults, call symmetry | 1,113,674 | a turn that compacts, breaks or is killed, and one after it in the same session, after a restart, or in a fork of any prefix |
| `rollout_reopen` | 2 items, 1 turn, 2 sessions, no faults, long inputs | | **violated**: see finding 4 |

Bounds: `MaxItems` (items of users and models; outputs come on top), `MaxTurns`,
`MaxOpens`. Four items are two calls with their outputs and a compaction with
something after it. Ids repeat, so two calls suffice for every way of confusing
them. Deadlock is not checked: a thread whose file ends in a cut line cannot be
opened, and stops. `Rollout` has no liveness property.

### Finding

4. **A large image makes a thread unreadable** (`rollout_reopen`). The server
   accepts 16 MiB of images per message and the recorder appends the message as
   one line; all three readers stop at 4 MiB. The running session goes on, but
   forks and event readers fail at once and the session never loads again.

A line that a fault cut short has the same effect (`ReadRollout` fails on the whole
file), which the implementation plan means to tolerate (`docs/IMPLEMENTATION_PLAN.md:95`);
the model has it, and `CutLineIsLast` is what would make such tolerance safe.

## 5. What is modelled: the services around them

Five parts share no state with each other, so `MCServices.tla` checks them in one
run: its variable `part` names one of eight modules in the first state, that
module's actions are the behaviour, and the others stay as they began. Every
bound below is that module's own. None of these modules has fairness or a
liveness property: requests, servers, users and other processes may stop at any
moment, and several of the waits have no end in the code either.

### The application server

`Threads.tla` is the handler after `appserver/server.go`, `v2.go` and
`thread_store.go`. A request is one goroutine.

| Code | Model |
|---|---|
| `h.threads` | `known`: the runtime object of each id; `made` counts the objects an id has had, so that an old pointer and a new one differ |
| the metadata files | `stored` |
| `threadRuntime` with `mu` and `chatMu` | `runtime[r]`: its session, and who holds either mutex |
| a session, seen from outside | `sessions[s]`: the submission in hand, the turn, the terminal events, whether it has stopped; its inside is `Session` |
| an HTTP request | `req[q]`: its place, and the runtime and session **it has already fetched** |

`Find` is `thread`, `Enter`, `Opened` and `NotOpened` are `sessionIO` under `mu`,
`LockChat` is `chatMu`, `Submit` and `NextEvent` are `streamTurn`; a request may be
abandoned wherever its context is looked at (`GiveUp`), not while it waits for a
mutex. `Create` and `InsertRuntimes` are two steps, as the file is there before the
runtime; `ListThreads` reads the files without a lock and inserts later.
`RemoveThread` and `RemoveWorkspace` differ as in the code: at a failed shutdown the
first puts the runtime back (without its session), the second does not.

`NoDeadHandout`: no request is given a session that was asked to stop. `OneWriter`:
two live sessions never write one rollout, except for an id that a removal or a
list has touched; that exception is what the code does (a removal whose shutdown
fails leaves the session running, and the next request starts another).
`StartedTurnsAreHeard`: the stream of a prompt that *started* a turn gets that
turn's end. A prompt that was steered, or refused while the turn was ending, gets
none: `streamTurn` waits for its own submission id (`server.go:710`).

Bounds: 3 requests (symmetric), the default thread and one other, 2 runtime
objects per id, 2 sessions: enough for a removal, a list and a chat on one thread.

### The exec server

`RemoteProcess.tla` is one process there (`execserver/server.go`) and the goroutine
that polls it (`startRemote`, `pollRemote` in `process_manager.go`). Output is
counted in chunks: `printed` by the child, `copied` by the server, `held` in
`process.output`, in the answer of `poll`, and `received` by the session.
`PollTakes` and `PollLooks` are the two looks of the poll handler, and what the
child writes in between goes with the process. Requests and answers may be lost;
`PollFails` is what the client makes of it.

`RemoteAccounts`: while polls are answered, each chunk read is in one place and the
exit code comes last. `RemoteNoOrphan`: a child that runs unharmed can be killed by
`process/kill`. The promise stops at a failed poll: the session then forgets a
process that goes on running.

Finding:

5. **A remote command dies with the request that started it** (`remote_killed`).
   `ServeHTTP` passes the request's context down to `exec.CommandContext`; it is
   cancelled as soon as the answer to `process/start` was written, so a command
   that has not ended by then is killed. The repository's test uses a spawner that
   ignores its context. The model keeps `CancelRequest` as a step that may also
   come late, so that the rest of the protocol is checked with children that live.

### Patches

`PatchParse.tla` reads the text of a patch, line by line, after
`apply_patch_format.go`; a line is one of its kinds. `ReadAsWritten` compares the
reader with a definition without a reader, `WellFormed` and `AreHunks`, which say
from the places of the lines where hunks and chunks begin and end and what is in
them: every text of at most 5 lines, with and without a here-document around it. Blank lines are where it is easy to go wrong:
one between chunks is skipped, one after a line of a chunk is context of it.

`PatchText.tla` is `seekSequence`, `computeReplacements` and `applyReplacements`
on lines that are equal at one of the four levels of the search. `ChunksSplice` has
three parts. Every place that is found lies within the file (`Within`). When the
places follow one another (`Following`), the result is what all replacements at once
would make, and no slice is out of range. And they do follow one another when every
chunk is sought from where the one before it ended (`Sought`). A chunk without old
lines goes to the end, one marked end-of-file is sought there first, and replacements
are applied in the order of the *chunks*: after such a chunk one can be placed before
it, the code then changes other lines than the patch names or slices out of range,
and only the first part is claimed. Bounds: files of 3 lines, 2 old lines a chunk,
2 chunks.

`ApplyPatch.tla` is what calls do to files, hunk by hunk: reading a file, opening the
one to write, writing it and removing one are steps of their own, and calls of one
step run in parallel without a lock. `os.WriteFile` empties the file when it opens
it (`OpenFile`; `AddFile` begins there), so a write that fails or is killed after that
leaves it cut (`EndPatch`, at `fill`, ends in `torn`), and the code restores nothing.
`EditsAreKept`: as long as no two calls are at work on one path at a time, every file
is at every moment, and wherever a call fails, what its finished hunks made of it,
except the file whose write is under way or has failed (`Spoiled`). So a failing write
does cost its file, with the edits it held; it costs no other, and a move whose write
fails still has its source. `crossed` is the other exception, and it is real too: two
parallel updates of one file lose one. Bounds: 2 calls of 2 hunks on 2 paths and one that is refused.

### The exec policy

`ExecPolicy.tla` is `exec_policy.go` with the approval path of `exec_command` and
`apply_patch`. A command is a sequence of words, `;` for any operator and `$` for
whatever is opaque to the parser. `Execute` evaluates, then runs, refuses or asks;
`Decide`, `DecideForSession` and `DecideAmendment` are the user's answers.
`AddPersistentRule` is two steps, writing the temporary file and renaming it, and
all sessions of a workspace use one name for it.

`Consented`: a command writes only when the user approved this call, or granted a
prefix of the *one plain* command it is, and has the network only on the user's
word for this call. `AmendmentsKept`: while one session alone amends, its rules are
in the file. With two amenders they are not (each writes its own copy), which is
why it says so. `apply_patch` offers a rule of one word, which
`AddPersistentRule` refuses: that amendment always fails (`AmendmentFails`).
Bounds: 2 sessions, 2 calls, 2 rules granted, five commands chosen to meet a long
prefix, a compound command, an opaque one, git with a global option and a patch.

### MCP

`McpServers.tla` is one server of a session: the submission loop that connects it
and refreshes, and `watchMCPNotifications`, one goroutine per client, which both
write the router and `mcpStatuses`. The watcher looks for a turn, asks the server,
unregisters and registers in separate steps, during which anything may happen.
`TurnKeepsItsTools`: the tools of a turn do not change, unless a watcher was
already past that look. `ReadyMeansUsable`: behind every tool in the router is the
newest client, or one of `late`: a client that a refresh closed while its watcher was on
its way with a list, and which then registers tools of a closed client. Nothing else
leaves a tool of an old client behind, whatever fails. Without such a watcher, between
refreshes, what a ready server lists is what the router has, and the client behind it
is open. A change that comes during a turn is noted as
`stale` and never acted on (`MarkStale`). A server that lists a tool twice keeps
the tools before it registered for a client that is closed (`RegisterTool`).
`mcpStatuses` is read without its lock on the way (`session.go:486`); each access
is one step here. Bounds: 2 tools, 3 lists, one with a duplicate, 2 clients.

`McpCalls.tla` is the calls of one client. Over pipes: `pending`, the reader that
first finds the entry and then hands the reply over, and a server that answers
late, never or more than once. Over HTTP: up to three attempts. `AnswersAreOwn`:
no reply reaches another call, and `pending` holds the calls under way only. The
history `runs` is bounded by the attempts (`CallsType`): a call that is retried may
be carried out up to three times. Of an event stream the first event is taken for
the answer; when it is something else the call ends without a result
(`PostAnswered`). Bounds: 2 goroutines, 3 calls.

### Runs

| Run | Distinct states | Shows |
|---|---|---|
| `services` | 1,611,075 | the properties above, of which `TypesOK` is all type invariants; about 640,000 states are patches, 350,000 the policy, 250,000 the placing of chunks, 180,000 MCP servers, 93,000 threads, 68,000 patch texts, 19,000 calls, 11,000 the remote process |
| `remote_killed` | | **violated**: see finding 5 |

Deadlock is not checked: each part ends when its requests, hunks, rules or calls
are used up. The parts are one run since each is a question of seconds, and their
bounds are independent.

## 6. What is proved

`SessionProofs.tla` proves, for
every `MaxInputs`, `Calls` and `Cap` that satisfy `SessionAssumption` (the bounds
are positive; `Calls` may be any set):

| Theorem | Property |
|---|---|
| `TypeCorrect` | `TypeOK` |
| `OneTurn`, `NoReplacement` | `OneTurnAtATime`, `NeverReplaced` |
| `Quiet` | `AcknowledgedMeansQuiet` |
| `SteersConsumed` | `CleanTurnConsumesSteers` |
| `LiveApprovals`, `ApprovalComesFirst` | `ApprovalsAreLive`, `ApprovedBeforeRunning` |
| `InterruptIsExact` | `InterruptHitsItsTurn` |
| `TurnsSerial`, `InputsOrdered` | `TurnsAreSerial`, `InputsInOrder` |
| `InvariantHolds` | `IInv`, the inductive invariant |
| `ImplementsTurnLog` | `TurnLogPromise`, the refinement |

None of the properties is inductive. `IInv` is, in five layers, each of which
uses the type invariant and the layers before it that it needs:

* `ControlInv`: a turn is between creation and release **iff** it is `active`;
  once the loop has found `active` empty it stays empty until the loop itself
  creates a turn (only the loop does); while the loop waits in `abortActive`
  nobody else can become active; turns not yet created have not begun. The proof
  turns on the fact that the goroutine of `t` changes `active` only in `Clear(t)`
  and only from `t`.
* `QueueInv`: an acknowledged steer is in its turn's `pending` or in the rollout,
  and a turn that ended without an error has closed an empty queue. This is where
  `takePendingInput` emptying and closing in one critical section matters.
* `ToolInv`: a call that was asked for keeps its turn among the tools, and owns
  the entry under its id; a decision in an entry was granted to that turn and
  call. It needs `ControlInv`: `requestCommandApproval` registers the call under
  `activeTurnID()`, not under its own turn.
* `LogInv`: the log is whole turns, one after the other, with the inputs in the
  order in which they were admitted. To hold on to that it says where the log ends:
  in the turn that runs, if any (`LogTail`); that turn is the newest one
  (`NewestLast`); and the inputs that still wait, in `pending` or in the loop's
  queue, are in order and after all that were recorded (`QueuesOrdered`).
* `AnswersInv`: what an outsider sees agrees with where the goroutines are. A turn
  has a `started` record iff it is past `begin`, a terminal one iff it is past
  `finish`, an error iff it failed, and its own input once it has begun to sample
  (`Stretch`); an input that was accepted is owned by a turn not later than itself,
  and is older than the one the loop holds (`Answered`); and the turn that the loop
  is about to steer to is the newest one (`NewestCurrent`), which it goes on being
  although the loop has let go of `activeMu`, because only the loop starts turns.

Lemmas of the form "this step leaves alone what the layer looks at"
(`ControlFrame`, `LoopFrame`, `QueueFrame`, `ToolFrame`, ...) dispose of most
actions in the first four layers; the rest have a step each. For `AnswersInv` and
the refinement, `StepKinds` shows once that every action is of one of seven kinds
(`Quietly`, `Takes`, `Rejects`, `Starts`, `Steers(t)`, `Reports(t, r)`,
`Drains(t)`), and both arguments go through the kinds.

The refinement (`PromiseStep`) then reads off each kind the step of `TurnLog` that
it is. `StagesShown` turns places of goroutines into stages. That `Close` leaves
nothing owed is `QueueInv`: an input that is owed and not recorded is in the queue
(`DueQueued`), and the queue is empty. That `Read` keeps the order is `LogInv`. That
`Start` and `Steer` get the newest input is `AnswersInv`, and that `Steer` never
meets a turn that closed in good order is `QueueInv` again: such a turn no longer
accepts, whatever the loop had read before.

### Processes

`HeadTailBufferProofs.tla` proves of the buffer, for every sequence `s` of
whatever values, every chunk and every limit in `Nat`:

| Theorem | States |
|---|---|
| `PushChunkCorrect` | `PushChunk(HeadTail(s, max), chunk) = HeadTail(s \o chunk, max)` |
| `WithLimitCorrect` | `WithLimit(HeadTail(s, max), limit)` is `HeadTail(s, limit)`, or the buffer itself when it fits |
| `NothingUncounted` | the total of `HeadTail(s, max)` is `Len(s)`, of which it keeps `Least(Len(s), max)` |

The argument is arithmetic on four lengths (`Sizes`, `PushSizes`) followed by the
algebra of `Take` and `Skip` (`TakeConcat`, `SkipConcat`, `SkipSkip`, ...); the two
are kept apart, so that no step needs both.

`ProcessProofs.tla` proves, for any set of callers and every bound that satisfies
`ProcessAssumption`: `ProcessTypeCorrect` (`TypeOK`), `BufferCorrect`
(`BufferHoldsTheNews`), `ExitIsLast` (`ExitAfterOutput`), `KnownIds`
(`KnownIdsWork`), `NoOrphans` (`NoOrphan`), `ProcessInvariant` (`IInv`) and
`ImplementsOutput` (`OutputPromise`, the refinement). The invariant has layers
again: types; the buffer, by `PushChunkCorrect` for `Copy` and by
`WithLimitCorrect` and `NothingUncounted` for `Drain`; `DoneInv`, that a call
which saw `done` drains *after* it and finds nothing new once it has drained;
`KnownInv`, that a process leaves the map only with its exit code or when all do;
`AliveInv`, that a running child is in the map, or about to be, or killed.
`ExitAfterOutput` is a consequence of `DoneInv`: it fails if `done` is looked at
after the drain, and an invariant that does not mention the call's own `finished`
cannot tell the difference. For each action a lemma (`StartMoves`, ...) says how
it changes the calls; the layers use those lemmas and not the definitions.

### Rollout

`RolloutProofs.tla` proves, for every bound and any set of call ids, with or
without faults:

| Theorem | Property |
|---|---|
| `RolloutTypeCorrect` | `TypeOK` |
| `CutLinesStayLast` | `CutLineIsLast` |
| `OrdinalsArePlaces` | a line that parses has its place in the file as its ordinal |
| `CursorsAreExact` | `PollsLoseNothing` |
| `ReplaysAreHistory` | `ReplayIsHistory` |
| `PromptsPaired` | `PromptsArePaired`, if `InvalidId \notin Calls` |
| `ItemsStayInTurn` | `ItemsInTheirTurn` |
| `StatusLive` | `StatusIsLive` |

There are two invariants. `FileInv` says that ordinals are places, that only the
last line may be cut, and that a recorder which has not failed has nothing cut
behind it and knows the length of the file. The sticky error is what it needs:
without it a line could follow a cut one. `RolloutInv` has the rest:

* `Good`: the lines of the file are typed, an item lies in the block of the turn
  it names, calls precede their outputs in what is restored from it, and that is
  the history of the session, unless an append failed (`ReplayIsHistory`);
* `TurnTyped`, `UsedTyped`: the running turn and the bounded counts;
* `TurnInv`: a turn runs in a session that began it, and the calls it waits for
  are in the history;
* `StoredInv`: what the file says of the last turn, while appends succeed.

`StatusLive` needs an invariant of its own, `StatusInv`, because it is about every turn
in the file and about failed appends: the started turns whose block has no end line
(`OpenTurns`, of what `Told` reads in the file) are those that `used.broken` names and
the one that runs. Most steps append nothing that begins or ends a turn, and then it
goes on by itself (`GoesOn`, `QuietFrom`).

`WriteOne` and `WriteTwo` carry these over an append that may fail at any point,
and each action only has to say what it appends. What a file replays to is one
`FlattenSeq` of what its lines bring; `SequenceFacts.tla` proves what that
operator computes (`FlattenIs`, `FlattenAppend`). The induction this needs is
lemma `Induction`, stated with a set of numbers and proved from the library's
fact that `<` on `Nat` is well founded, because the library's own induction
theorems take an operator. `Restored` and `ForPrompt` are written with
`FlattenSeq` for the sake of these proofs.

The hypothesis of `PromptsPaired` is about `InvalidId`, the id with which
`turn.go:210` answers a call that came without one: were a model to use it too,
two outputs could go by that id. The runs' `Calls` satisfy it.

### The exec server

`ToolProofs.tla` proves, for every amount of output, `NoRemoteOrphans`
(`RemoteNoOrphan`), `RemoteOutputAccounted` (`RemoteAccounts`) and
`RemoteTypeCorrect` (`RemoteType`). `RemoteAccounts` alone is not inductive, since
it is silent about failed polls; `PlacesInv` counts the chunks whatever became of
the polls, `SettledInv` says when `done` is closed, and `EndInv` that an answer
"exited" is only given when the process was forgotten.

### Patches

`PatchProofs.tla` proves `ChunksAreSpliced` (`ChunksSplice`), for any lines,
files of any length and hunks of any number of chunks, with the premises it has.
`ReplacementsWithin` is its first part: whatever the chunks, `computeReplacements`
gives places within the file. `ReplacementsInOrder`: when all chunks are sought, the
search is at or behind `lineIndex`, and the places follow each other. Then
`ReplacementsSplice`, for places that do, by induction on how many
are already made from the last to the first: the text is then the file's up to
the start of the last one made, followed by what the parts behind it are to be,
so the next one still finds its lines where they were (`ApplyOneBefore`).

`PatchesReadAsWritten` (`ReadAsWritten`) holds of every text that begins with a
header, of any length and in any order of lines. The reader is a fold over the lines, and the invariant of that
fold is `TextRead`: after every prefix, either the reader has failed and no text
that begins with this prefix is well formed (`NeverFormed`), or

* the paths of the hunks are the headers read so far, in their order;
* every hunk but the last is well formed and what its lines say (`EarlierHunks`);
  no line that follows can change that (`HunkStays`), because a header ends it;
* the last one is what its lines say, and the reader is where they put it: `InHunk`
  and, for an update, `InUpdate`, which tells a header alone, blank lines, a chunk
  that is open and one whose end of file was read apart, and says that the chunks
  before the last one have lines.

`NextLineRead` takes one line on from there, `LineRead` within a hunk and
`HeaderRead` at the next one; a line that has no place is shown to spoil every
longer text (`RefusedLine`, `RefusedChunk`). At the end of the text the last hunk
may still be refused for want of a chunk or of its lines; this is the check with
which `ParsePatch` ends (`PatchRead`). `HereBody` and `BodyIsText` take the markers
and the here-document off.

`PatchTypeCorrect` (`PatchType`) and `PatchesKeepEdits` (`EditsAreKept`) hold for
any calls, paths and numbers of hunks. `EditsAreKept` is kept by `AloneInv`: as
long as nobody crossed another's path, the hunks under way are on paths of their
own, what one has read is still what the file holds, and a destination that is open is
cut by the call that opened it, so that its write puts a whole file there. A file
that a failed write has cut stays recognizable through later edits and moves, because
the cut is its first entry.

### The exec policy

For any sessions, calls, commands and rules: `PolicyTypeCorrect` (`PolicyType`),
`CommandsConsented` (`Consented`) and `AmendmentsReachFile` (`AmendmentsKept`).
`FileInv` says that until a second session amends, the temporary file is the one
that the amending session wrote, with every rule its policy and the file have;
`AskingInv` that a session renames for one call at a time. `Consented` rests on
`PrefixIsPlain`: what a rule grants is one plain command that begins with it.

### MCP

`ToolProofs.tla` also proves of the servers, for any lists of tools and any number of
clients, `ServersTypeCorrect` (`McpType`), `ToolsOfATurn` (`TurnKeepsItsTools`)
and `ReadyServers` (`ReadyMeansUsable`). `TurnInv` says that while a turn runs the
loop connects nothing and, unless the turn raced a watcher, none none is on its way
to a list. A conjunct of the invariant bounds the clients behind the tools of the
router by `late` and the newest one, which is the part of `ReadyMeansUsable` without a
premise. `ReadyInv` says that, unless a watcher came late, only the newest client
may write, and that while the loop or that client's watcher registers a list, the
router holds just the tools of it that were reached.

Of the calls, for any set of goroutines and any number of calls, it proves
`AnswersReachTheirCalls` (`AnswersAreOwn`) and `CallsTypeCorrect` (`CallsType`, with
its bound on how often a request is carried out). The invariant says that ids name
requests (`NamesInv`: they are never used again), that `pending` has exactly the
calls under way (`PendingInv`), and that a call holds no other reply than its own
(`OwnInv`). It is used where the reader hands over a reply: by then the call may have
returned and its goroutine may have begun another one. `AttemptsInv` adds that a
request belongs to one call, which has posted it once for each of its tries.

### Threads

`ThreadsProofs.tla` proves, for any requests, ids, runtimes and sessions,
`ThreadsTypeCorrect` (`ThreadsType`), `HandoutsLive` (`NoDeadHandout`), `WritersAlone`
(`OneWriter`) and `StreamsHear` (`StartedTurnsAreHeard`). `ThreadsInv` has, besides
types and the properties themselves:

* `KnownInv`: until an id is reborn it has the one runtime it ever had;
* `RequestsInv`: the runtime a request has is of its id, the mutexes it holds are
  its own, and no other runtime has the session it was given or stops;
* `SharedInv`: a session is in one runtime, and all that stream from it found it
  there;
* `WriterInv`: the session of an id that was never reborn is in its first runtime,
  so that there are not two of them;
* `StreamInv`: a prompt goes to one session, and its request streams from it.

### The services together

`MCServices` checks these parts in one specification. `PartsAreThemselves` (in
`ToolProofs`) shows that a behaviour of it is one of each part, which stutters while
another part is under way; so what is proved of a part holds of every behaviour that
the `services` run explores. `ServicesTyped` (`TypesOK`) is put together that way from
`ThreadsTypeCorrect`, `RemoteTypeCorrect`, `PatchTypeCorrect`, `PolicyTypeCorrect`,
`ServersTypeCorrect` and `CallsTypeCorrect`.

### Only model-checked

All liveness, which is outside what TLAPS proves; every safety property that a
passing run checks is a theorem. The runs that expect a violation show behaviours
of the code and have nothing to prove.

## 7. Not modelled, and abstracted

In the session: texts, tokens, usage, images; elicitations of a turn (those of MCP
servers are in `McpServers`); a call id used twice within a step; background
processes that print after their turn. `runHooks` is a step that ends (each hook
has a 5 s timeout). A denial, an unsupported decision and a policy error are one
outcome. The session's context is cancelled only in `Teardown`, when no turn runs.
Refreshing extensions is in `McpServers`, cleaning terminals in `ProcessManager`.

In the processes: text, ANSI stripping and token counts of a result;
`finishSandboxStart` failing after the child has started, which only Windows can
meet, and its job objects; the limit of 10,000 deltas per call, beyond which a
copier no longer sends (`Copy` may always choose not to); how the call's
terminal-interaction event waits for the events channel (that is finding 1). On the
exec server: `process/write`, on which nothing modelled depends.

In the rollout: `ReadRolloutFlow`'s statistics; timestamps; an append that lost
nothing but its newline, which would join the next session's first line to it; two
sessions on one file, which `Threads` shows can come about; the estimate of tokens
that decides on compaction, and what the summary says.

In the application server: `Handler.Close` when the process exits, titles and hidden
flags, the pages that list extensions and rollout events, and what the loop answers
to requests other than turns (`Session` has that).

In the services: symbolic links below the workspace; quoting and the spelling of
shell text, and most of the git options that read; the event stream of an HTTP
client (`readSSE`) with its close, which is listed as a hazard; the OAuth login,
which is a sequence of requests to other parties with one file at its end.

The model client's retries and SSE parsing are one loop without shared state.
Not modelled at all: the extensions catalogue and marketplace, which read and copy
directories (its settings file is written without a lock, like the rules file);
sandboxes and PTY back ends, which wrap system calls; protocol types,
configuration, the command line and the page, which are data.

## 8. Plan

Done: all modules of the table in section 1, and theorems for every safety property
that a passing run checks. Left, most important first:

1. The remote process against `ProcessOutput`, for the sessions whose polls are
   answered: the refinement `ImplementsOutput` has for local ones.
2. Two recorders on one rollout, with what `Threads` says of when that happens.
3. The teardown of a session with writers that outlive its turns (the closed events
   channel), which composes `Session` and `ProcessManager`.
