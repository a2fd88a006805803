------------------------------- MODULE Threads -------------------------------
(***************************************************************************)
(* The application server: HTTP requests that share the map of threads,    *)
(* the stored thread files, the mutexes of each thread's runtime and the   *)
(* sessions behind them.  A request is one goroutine; its client may leave *)
(* whenever the request waits for a session, never while it waits for a    *)
(* mutex.  A session is seen from outside: what it accepts, the turn it    *)
(* runs and the terminal events it queues; a turn is named by the request  *)
(* whose prompt started it.  Its inside is module Session.                 *)
(***************************************************************************)
EXTENDS Naturals, Sequences, FiniteSets

CONSTANTS
  Requests,     \* the requests that are ever made
  Default,      \* defaultID
  Others,       \* bound: the other thread ids
  MaxRuntimes,  \* bound: how many runtime objects one thread id may have
  MaxSessions   \* bound: how many sessions are started

ASSUME ThreadsAssumption ==
  /\ Default \notin Others /\ "nobody" \notin Requests
  /\ MaxRuntimes \in Nat \ {0} /\ MaxSessions \in Nat

VARIABLES
  known,     \* h.threads: the runtime object of each thread id
  made,      \* how many runtime objects each thread id has had
  stored,    \* the thread ids that have a metadata file
  runtime,   \* the runtime objects: io, and who holds mu and chatMu
  sessions,  \* the sessions, in the order they were started
  req,       \* the state of each request
  reborn     \* history: ids that were removed, or replaced while they were listed

threadVars == <<known, made, stored, runtime, sessions, req, reborn>>

Ids == Others \cup {Default}
Runtimes == Ids \X (1 .. MaxRuntimes)
NoRuntime == <<Default, 0>>
Nobody == "nobody"
NewRuntime == [io |-> 0, mu |-> Nobody, chatMu |-> Nobody]
NewRequest == [pc |-> "new", op |-> "none", id |-> Default, rt |-> NoRuntime,
               io |-> 0, ids |-> {}, rts |-> {}]

ThreadsStart(files) ==
  /\ stored = files
  /\ known = [t \in Ids |-> IF t \in files \cup {Default} THEN <<t, 1>> ELSE NoRuntime]
  /\ made = [t \in Ids |-> IF t \in files \cup {Default} THEN 1 ELSE 0]
  /\ runtime = [r \in Runtimes |-> NewRuntime]
  /\ sessions = <<>>
  /\ req = [q \in Requests |-> NewRequest]
  /\ reborn = {}

\* NewHandler: the default thread, and those that have a file.
ThreadsInit == \E files \in SUBSET Others : ThreadsStart(files)

At(q, pc) == req[q].pc = pc
Goto(q, pc) == req' = [req EXCEPT ![q].pc = pc]

\* The request is answered, and its deferred unlocks run.
Over(q) == [req EXCEPT ![q] = [NewRequest EXCEPT !.pc = "over"]]
Unlocked(q) ==
  [r \in Runtimes |-> [runtime[r] EXCEPT !.chatMu = IF @ = q THEN Nobody ELSE @]]
Finish(q) == req' = Over(q) /\ runtime' = Unlocked(q)

-----------------------------------------------------------------------------
(* Requests that work on a thread's session.                               *)

\* thread: the runtime of an id, or 404.
Find(q, op, t) ==
  /\ At(q, "new") /\ known[t] # NoRuntime
  /\ req' = [req EXCEPT ![q] = [NewRequest EXCEPT
               !.pc = IF op \in {"fork", "read"} THEN "chatMu" ELSE "open",
               !.op = op, !.id = t, !.rt = known[t]]]
  /\ UNCHANGED <<known, made, stored, runtime, sessions, reborn>>

Chat(q, t)            == Find(q, "turn", t)
V2StartTurn(q, t)     == Find(q, "turn", t)
InterruptTurn(q, t)   == Find(q, "interrupt", t)
V2InterruptTurn(q, t) == Find(q, "interrupt", t)
SteerTurn(q, t)       == Find(q, "other", t)
V2SteerTurn(q, t)     == Find(q, "other", t)
RespondApproval(q, t) == Find(q, "other", t)
RefreshExtensions(q, t) == Find(q, "other", t)
CleanBackgroundTerminals(q, t) == Find(q, "other", t)
ThreadHistory(q, t)   == Find(q, "read", t)
ThreadFlow(q, t)      == Find(q, "read", t)

WithSession(q, io) ==
  [req EXCEPT ![q].io = io, ![q].pc = IF req[q].op = "turn" THEN "chatMu" ELSE "submit"]

EnterUnlocked(q) ==           \* mutant: mu is not held while a session starts
  LET r == req[q].rt IN
  /\ At(q, "open")
  /\ IF runtime[r].io # 0
     THEN req' = WithSession(q, runtime[r].io)
     ELSE Goto(q, "opening")
  /\ UNCHANGED <<known, made, stored, runtime, sessions, reborn>>

\* sessionIO: the session of the runtime, or mu held until one has started.
Enter(q) ==
  LET r == req[q].rt IN
  /\ At(q, "open") /\ runtime[r].mu = Nobody
  /\ IF runtime[r].io # 0
     THEN req' = WithSession(q, runtime[r].io) /\ UNCHANGED runtime
     ELSE Goto(q, "opening") /\ runtime' = [runtime EXCEPT ![r].mu = q]
  /\ UNCHANGED <<known, made, stored, sessions, reborn>>

Opened(q) ==
  LET r == req[q].rt  s == Len(sessions) + 1 IN
  /\ At(q, "opening") /\ s <= MaxSessions
  /\ sessions' = Append(sessions, [id |-> req[q].id, inbox |-> <<>>, stopped |-> FALSE,
                                   active |-> Nobody, ending |-> FALSE, events |-> <<>>,
                                   begun |-> {}])
  /\ runtime' = [runtime EXCEPT ![r].io = s, ![r].mu = Nobody]
  /\ req' = WithSession(q, s)
  /\ UNCHANGED <<known, made, stored, reborn>>

\* The session does not start: 409.
NotOpened(q) ==
  /\ At(q, "opening")
  /\ req' = Over(q)
  /\ runtime' = [runtime EXCEPT ![req[q].rt].mu = Nobody]
  /\ UNCHANGED <<known, made, stored, sessions, reborn>>

Locked(op) == CASE op = "fork" -> "create" [] op = "read" -> "read" [] OTHER -> "submit"

LockChatNever(q) ==           \* mutant: two streams of a thread at once
  /\ At(q, "chatMu")
  /\ Goto(q, Locked(req[q].op))
  /\ UNCHANGED <<known, made, stored, runtime, sessions, reborn>>

LockChat(q) ==
  /\ At(q, "chatMu") /\ runtime[req[q].rt].chatMu = Nobody
  /\ runtime' = [runtime EXCEPT ![req[q].rt].chatMu = q]
  /\ Goto(q, Locked(req[q].op))
  /\ UNCHANGED <<known, made, stored, sessions, reborn>>

\* Submit: the loop of the session takes it.  What the loop answers to other
\* requests than a turn is left out.
Submit(q) ==
  LET s == req[q].io IN
  /\ At(q, "submit") /\ ~sessions[s].stopped /\ sessions[s].inbox = <<>>
  /\ sessions' = [sessions EXCEPT ![s].inbox = <<req[q].op, q>>]
  /\ IF req[q].op = "turn" THEN Goto(q, "stream") /\ UNCHANGED runtime ELSE Finish(q)
  /\ UNCHANGED <<known, made, stored, reborn>>

\* streamTurn: the terminal event of another turn is dropped.
NextEvent(q) ==
  LET s == req[q].io IN
  /\ At(q, "stream") /\ sessions[s].events # <<>>
  /\ sessions' = [sessions EXCEPT ![s].events = Tail(@)]
  /\ IF Head(sessions[s].events) = q THEN Finish(q) ELSE UNCHANGED <<runtime, req>>
  /\ UNCHANGED <<known, made, stored, reborn>>

\* The rollout is read, between the turns of the thread.
ReadStored(q) ==
  /\ At(q, "read")
  /\ Finish(q)
  /\ UNCHANGED <<known, made, stored, sessions, reborn>>

\* The client leaves, or the session has stopped; a fork of what cannot be read.
GiveUp(q) ==
  /\ At(q, "submit") \/ At(q, "stream") \/ At(q, "create")
  /\ Finish(q)
  /\ UNCHANGED <<known, made, stored, sessions, reborn>>

-----------------------------------------------------------------------------
(* The session's submission loop and its task.                             *)

Asked(s) == sessions[s].stopped \/ (sessions[s].inbox # <<>> /\ sessions[s].inbox[1] = "shutdown")

\* abortActive waits for the task, which says so unless it has already ended.
Aborted(s) ==
  [sessions[s] EXCEPT !.inbox = <<>>, !.active = Nobody, !.ending = FALSE,
     !.events = IF sessions[s].active # Nobody /\ ~sessions[s].ending
                THEN Append(@, sessions[s].active) ELSE @]

\* handleTurnInput: with a turn running the prompt is steered into it, or
\* refused without a word when that turn is ending.
Prompted(s, q) ==
  [sessions[s] EXCEPT !.inbox = <<>>,
     !.active = IF @ = Nobody THEN q ELSE @,
     !.begun = IF sessions[s].active = Nobody THEN @ \cup {q} ELSE @]

Handle(s) ==
  LET op == sessions[s].inbox[1]  q == sessions[s].inbox[2] IN
  /\ sessions[s].inbox # <<>>
  /\ sessions' = [sessions EXCEPT ![s] =
       CASE op = "turn" -> Prompted(s, q)
         [] op = "interrupt" -> Aborted(s)
         [] op = "shutdown" -> [Aborted(s) EXCEPT !.stopped = TRUE]
         [] OTHER -> [@ EXCEPT !.inbox = <<>>]]
  /\ UNCHANGED <<known, made, stored, runtime, req, reborn>>

TurnEnds(s) ==
  /\ sessions[s].active # Nobody /\ ~sessions[s].ending
  /\ sessions' = [sessions EXCEPT ![s].ending = TRUE,
                                  ![s].events = Append(@, sessions[s].active)]
  /\ UNCHANGED <<known, made, stored, runtime, req, reborn>>

TurnClears(s) ==
  /\ sessions[s].ending
  /\ sessions' = [sessions EXCEPT ![s].ending = FALSE, ![s].active = Nobody]
  /\ UNCHANGED <<known, made, stored, runtime, req, reborn>>

-----------------------------------------------------------------------------
(* Requests that change the set of threads.                                *)

\* Room for one more runtime object of these ids.
Room(ids) == \A t \in ids : made[t] < MaxRuntimes
Insert(ids) ==
  /\ Room(ids)
  /\ made' = [t \in Ids |-> IF t \in ids THEN made[t] + 1 ELSE made[t]]
  /\ known' = [t \in Ids |-> IF t \in ids THEN <<t, made'[t]>> ELSE known[t]]

\* store.create: the file is there before the runtime is.
Create(q, t) ==
  /\ made[t] = 0 /\ t \notin stored
  /\ stored' = stored \cup {t}
  /\ req' = [req EXCEPT ![q].pc = "insert", ![q].op = "start", ![q].ids = {t}]
  /\ UNCHANGED <<known, made, runtime, sessions, reborn>>

StartThread(q, t)   == At(q, "new") /\ Create(q, t)
V2StartThread(q, t) == At(q, "new") /\ Create(q, t)

\* ForkThread has the source's chatMu until it is over, ...
ForkThread(q, t) == Find(q, "fork", t)
Fork(q, t) == At(q, "create") /\ Create(q, t)

\* ... and takes the new file away when the rollout cannot be written.
ForkFails(q) ==
  /\ At(q, "insert") /\ req[q].rt # NoRuntime
  /\ stored' = stored \ req[q].ids
  /\ Finish(q)
  /\ UNCHANGED <<known, made, sessions, reborn>>

ListThreads(q) ==
  /\ At(q, "new")
  /\ req' = [req EXCEPT ![q].pc = "insert", ![q].op = "list", ![q].ids = stored]
  /\ UNCHANGED <<known, made, stored, runtime, sessions, reborn>>

\* A list adds the ids that have no runtime, a new thread replaces what is there.
InsertRuntimes(q) ==
  LET ids == IF req[q].op = "list"
             THEN {t \in req[q].ids : known[t] = NoRuntime} ELSE req[q].ids IN
  /\ At(q, "insert")
  /\ Insert(ids)
  /\ reborn' = reborn \cup {t \in ids : known[t] # NoRuntime}
  /\ Finish(q)
  /\ UNCHANGED <<stored, sessions>>

Forget(q, op, ids) ==
  /\ At(q, "new") /\ \E t \in ids : known[t] # NoRuntime
  /\ known' = [t \in Ids |-> IF t \in ids \ {Default} THEN NoRuntime ELSE known[t]]
  /\ req' = [req EXCEPT ![q].pc = "take", ![q].op = op,
                        ![q].ids = {t \in ids : known[t] # NoRuntime},
                        ![q].rts = {known[t] : t \in ids} \ {NoRuntime}]
  /\ reborn' = reborn \cup ids
  /\ UNCHANGED <<made, stored, runtime, sessions>>

RemoveThread(q, t)  == Forget(q, "remove", {t})
\* All threads of one workspace; the default thread's comes last.
RemoveWorkspace(q) == Forget(q, "workspace", Ids)

Takes(q, r) ==
  /\ At(q, "take") /\ r \in req[q].rts /\ runtime[r].mu = Nobody
  /\ r[1] = Default => req[q].rts = {r}
  /\ req' = [req EXCEPT ![q].rt = r, ![q].rts = @ \ {r}, ![q].io = runtime[r].io,
                        ![q].pc = IF runtime[r].io = 0 THEN "take" ELSE "shutdown"]
  /\ UNCHANGED <<known, made, stored, sessions, reborn>>

TakeLeaving(q, r) ==          \* mutant: the session stays in the runtime
  Takes(q, r) /\ UNCHANGED runtime

\* shutdownThread: the session leaves the runtime, then is asked to stop.
TakeSession(q, r) == Takes(q, r) /\ runtime' = [runtime EXCEPT ![r].io = 0]

Shutdown(q) ==
  LET s == req[q].io IN
  /\ At(q, "shutdown") /\ ~sessions[s].stopped /\ sessions[s].inbox = <<>>
  /\ sessions' = [sessions EXCEPT ![s].inbox = <<"shutdown", q>>]
  /\ Goto(q, "stopping")
  /\ UNCHANGED <<known, made, stored, runtime, reborn>>

Stopped(q) ==
  /\ At(q, "stopping") /\ sessions[req[q].io].stopped
  /\ Goto(q, "take")
  /\ UNCHANGED <<known, made, stored, runtime, sessions, reborn>>

\* The client leaves before the session has stopped: a removed thread comes
\* back, the threads of a workspace do not.
ShutdownFails(q) ==
  LET t == req[q].rt[1] IN
  /\ At(q, "shutdown") \/ At(q, "stopping")
  /\ known' = IF req[q].op = "remove" /\ t # Default
              THEN [known EXCEPT ![t] = req[q].rt] ELSE known
  /\ req' = Over(q)
  /\ UNCHANGED <<made, stored, runtime, sessions, reborn>>

\* Every session has stopped: the files go.
Removed(q) ==
  /\ At(q, "take") /\ req[q].rts = {}
  /\ stored' = stored \ req[q].ids
  /\ req' = Over(q)
  /\ UNCHANGED <<known, made, runtime, sessions, reborn>>

-----------------------------------------------------------------------------
Arrive(q, t) ==
  \/ Chat(q, t) \/ V2StartTurn(q, t) \/ InterruptTurn(q, t) \/ V2InterruptTurn(q, t)
  \/ SteerTurn(q, t) \/ V2SteerTurn(q, t) \/ RespondApproval(q, t)
  \/ RefreshExtensions(q, t) \/ CleanBackgroundTerminals(q, t)
  \/ ThreadHistory(q, t) \/ ThreadFlow(q, t)
  \/ StartThread(q, t) \/ V2StartThread(q, t) \/ ForkThread(q, t)
  \/ RemoveThread(q, t)

Proceed(q) ==
  \/ Enter(q) \/ Opened(q) \/ NotOpened(q) \/ LockChat(q) \/ Submit(q)
  \/ NextEvent(q) \/ ReadStored(q) \/ GiveUp(q) \/ ForkFails(q) \/ InsertRuntimes(q)
  \/ Shutdown(q) \/ Stopped(q) \/ ShutdownFails(q) \/ Removed(q)

ThreadsNext ==
  \/ \E q \in Requests :
       \/ Proceed(q) \/ ListThreads(q) \/ RemoveWorkspace(q)
       \/ \E t \in Ids : Arrive(q, t) \/ Fork(q, t)
       \/ \E r \in Runtimes : TakeSession(q, r)
  \/ \E s \in DOMAIN sessions : Handle(s) \/ TurnEnds(s) \/ TurnClears(s)

ThreadsSpec == ThreadsInit /\ [][ThreadsNext]_threadVars

-----------------------------------------------------------------------------
(* Properties.                                                             *)

SessionNumbers == 0 .. MaxSessions

\* The type of every variable.
ThreadsType ==
  /\ known \in [Ids -> Runtimes \cup {NoRuntime}]
  /\ made \in [Ids -> 0 .. MaxRuntimes]
  /\ stored \subseteq Ids /\ reborn \subseteq Ids
  /\ runtime \in [Runtimes -> [io : SessionNumbers, mu : Requests \cup {Nobody},
                               chatMu : Requests \cup {Nobody}]]
  /\ \A s \in DOMAIN sessions : s \in SessionNumbers
  /\ \A q \in Requests : req[q].rt \in Runtimes \cup {NoRuntime} /\ req[q].io \in SessionNumbers

\* No request is given a session that was asked to stop, also while a removal
\* fails half way and the thread comes back.
NoDeadHandout == \A r \in Runtimes : runtime[r].io # 0 => ~Asked(runtime[r].io)

\* Two sessions never write one rollout, however many requests find the thread
\* without a session; only a removal, whose session may live on when it fails,
\* and a list that meets a thread being started make a second one.
OneWriter ==
  \A s1, s2 \in DOMAIN sessions :
    /\ s1 # s2 /\ sessions[s1].id = sessions[s2].id
    /\ ~sessions[s1].stopped /\ ~sessions[s2].stopped
    => sessions[s1].id \in reborn

\* A stream whose prompt started a turn hears its end: the terminal event is
\* queued, or still to come, and no other stream of the session takes it,
\* whoever leaves, interrupts, removes or sends further prompts.
StartedTurnsAreHeard ==
  \A s \in DOMAIN sessions : \A q \in sessions[s].begun :
    req[q].pc = "stream" =>
      \/ sessions[s].active = q /\ ~sessions[s].ending
      \/ \E i \in DOMAIN sessions[s].events : sessions[s].events[i] = q
=============================================================================
