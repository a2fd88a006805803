---------------------------- MODULE ThreadsProofs ----------------------------
(***************************************************************************)
(* Proofs about Threads, for any requests, thread ids, runtime objects and *)
(* sessions: no request is given a session that was asked to stop, a       *)
(* thread has one session unless it was removed, and a stream whose prompt *)
(* started a turn hears its end.  They rest on who holds what: a request   *)
(* that opens a session holds mu, one that streams holds chatMu, and a     *)
(* session is in one runtime only, which is the one of every request that  *)
(* streams from it.                                                        *)
(***************************************************************************)
EXTENDS Threads, SequenceTheorems, TLAPS

\* What a runtime object, a request and a session are.
Runtime == [io : SessionNumbers, mu : Requests \cup {Nobody}, chatMu : Requests \cup {Nobody}]

Op == {"none", "turn", "interrupt", "other", "fork", "read", "start", "list", "remove",
       "workspace"}
Request ==
  [pc : {"new", "open", "opening", "chatMu", "submit", "stream", "read", "create", "insert",
         "take", "shutdown", "stopping", "over"},
   op : Op, id : Ids, rt : Runtimes \cup {NoRuntime}, io : SessionNumbers,
   ids : SUBSET Ids, rts : SUBSET Runtimes]

Session ==
  [id : Ids, inbox : {<<>>} \cup ((Op \cup {"shutdown"}) \X Requests), stopped : BOOLEAN,
   active : Requests \cup {Nobody}, ending : BOOLEAN, events : Seq(Requests),
   begun : SUBSET Requests]

\* The type of every variable, all of it.
TypesInv ==
  /\ known \in [Ids -> Runtimes \cup {NoRuntime}] /\ made \in [Ids -> 0 .. MaxRuntimes]
  /\ stored \subseteq Ids /\ reborn \subseteq Ids
  /\ runtime \in [Runtimes -> Runtime]
  /\ sessions \in Seq(Session) /\ Len(sessions) <= MaxSessions
  /\ req \in [Requests -> Request]

\* Until an id is reborn it has had the one runtime object that it has.
KnownInv ==
  \A t \in Ids :
    /\ known[t] # NoRuntime => known[t][1] = t
    /\ t \notin reborn => known[t] = IF made[t] = 0 THEN NoRuntime ELSE <<t, 1>>
    /\ t \notin reborn => made[t] <= 1

\* A request that has a runtime found it for its id; one that removes threads has
\* marked their ids before it takes their sessions.
Found(q) ==
  /\ req[q].pc \in {"open", "opening", "submit", "stream", "chatMu"} =>
       /\ req[q].rt \in Runtimes /\ req[q].rt[1] = req[q].id
       /\ req[q].id \notin reborn => req[q].rt[2] = 1
  /\ req[q].pc \in {"open", "opening", "submit"} => req[q].op \in {"turn", "interrupt", "other"}
  /\ req[q].pc = "chatMu" => req[q].op \in {"turn", "fork", "read"}
  /\ req[q].pc = "stream" => req[q].op = "turn"
  /\ req[q].pc \in {"take", "shutdown", "stopping"} => \A r \in req[q].rts : r[1] \in reborn
  /\ req[q].pc \in {"shutdown", "stopping"} => req[q].rt \in Runtimes /\ req[q].rt[1] \in reborn

\* What a request that runs a turn does under chatMu, and what opens a session under mu.
Locks(q) ==
  /\ req[q].pc = "opening" => runtime[req[q].rt].mu = q /\ runtime[req[q].rt].io = 0
  /\ req[q].op = "turn" /\ req[q].pc \in {"submit", "stream"} => runtime[req[q].rt].chatMu = q

\* A request that has been given a session.
Turning(q) == req[q].op = "turn" /\ req[q].pc \in {"chatMu", "submit", "stream"}
Given(q) == Turning(q) \/ req[q].pc \in {"submit", "shutdown", "stopping"}

\* No other runtime has the session a request was given, none the session it stops.
Owns(q) ==
  /\ req[q].io <= Len(sessions) /\ (Given(q) => req[q].io # 0)
  /\ Turning(q) => \A r \in Runtimes : runtime[r].io = req[q].io => r = req[q].rt
  /\ req[q].pc \in {"shutdown", "stopping"} => \A r \in Runtimes : runtime[r].io # req[q].io

\* Every request is where it says it is.
RequestsInv == \A q \in Requests : Found(q) /\ Locks(q) /\ Owns(q)

\* A session is in one runtime, and all that stream from it found that runtime.
SharedInv ==
  /\ \A r \in Runtimes : runtime[r].io <= Len(sessions)
  /\ \A r1, r2 \in Runtimes : runtime[r1].io = runtime[r2].io => r1 = r2 \/ runtime[r1].io = 0
  /\ \A q1, q2 \in Requests :
       Turning(q1) /\ Turning(q2) /\ req[q1].io = req[q2].io => req[q1].rt = req[q2].rt

\* The session of an id that was never reborn is in its first runtime object.
WriterInv ==
  \A s \in DOMAIN sessions : sessions[s].id \notin reborn => runtime[<<sessions[s].id, 1>>].io = s

\* A prompt is submitted once, and its request streams from the session it went to.
Sent(q, s) == q \in sessions[s].begun \/ sessions[s].inbox = <<"turn", q>>
StreamInv ==
  /\ \A s \in DOMAIN sessions : sessions[s].ending => sessions[s].active # Nobody
  /\ \A s \in DOMAIN sessions : \A q \in Requests : Sent(q, s) =>
       req[q].pc = "over" \/ (req[q].pc = "stream" /\ req[q].io = s)

\* All of it.
ThreadsInv ==
  /\ TypesInv /\ KnownInv /\ RequestsInv /\ SharedInv /\ WriterInv /\ StreamInv
  /\ NoDeadHandout /\ StartedTurnsAreHeard

\* What the assumptions say of the ids and the runtime objects.
LEMMA FirstRuntimes ==
  /\ Default \in Ids /\ MaxRuntimes \in Nat /\ MaxSessions \in Nat /\ 0 \in SessionNumbers
  /\ NoRuntime \notin Runtimes /\ \A t \in Ids : <<t, 1>> \in Runtimes
  /\ Nobody \notin Requests
<1>1. MaxRuntimes \in Nat \ {0} /\ MaxSessions \in Nat /\ "nobody" \notin Requests
  BY ThreadsAssumption
<1> QED
  BY <1>1 DEF Ids, Runtimes, NoRuntime, Nobody, SessionNumbers

\* A step of one request, which becomes n, and may let go of its locks and take free ones.
StepOf(q, n) ==
  /\ req' = [req EXCEPT ![q] = n]
  /\ sessions' \in Seq(Session) /\ Len(sessions') = Len(sessions)
  /\ \A s \in DOMAIN sessions : sessions'[s].id = sessions[s].id
  /\ runtime' \in [Runtimes -> Runtime]
  /\ \A r \in Runtimes : /\ runtime'[r].io = runtime[r].io
                         /\ runtime[r].mu \in Requests \ {q} => runtime'[r].mu = runtime[r].mu
                         /\ runtime[r].chatMu \in Requests \ {q} =>
                              runtime'[r].chatMu = runtime[r].chatMu
  /\ known' \in [Ids -> Runtimes \cup {NoRuntime}] /\ made' \in [Ids -> 0 .. MaxRuntimes]
  /\ stored' \subseteq Ids /\ reborn \subseteq reborn' /\ reborn' \subseteq Ids
  /\ Found(q)' /\ Locks(q)' /\ Owns(q)'
  /\ Turning(q)' => \A p \in Requests \ {q} :
                      Turning(p) /\ req[p].io = n.io => req[p].rt = n.rt

\* It leaves the other requests and every session's place as they are.
LEMMA RequestFrame ==
  ASSUME ThreadsInv, NEW q \in Requests, NEW n \in Request, StepOf(q, n)
  PROVE  /\ TypesInv' /\ RequestsInv' /\ SharedInv' /\ WriterInv'
         /\ req'[q] = n /\ \A p \in Requests \ {q} : req'[p] = req[p]
<1> USE DEF ThreadsInv, StepOf
<1>1. req'[q] = n /\ \A p \in Requests \ {q} : req'[p] = req[p]
  BY DEF TypesInv
<1>2. TypesInv'
  BY DEF TypesInv
<1>3. ASSUME NEW p \in Requests \ {q} PROVE Found(p)' /\ Locks(p)' /\ Owns(p)'
  <2>1. Found(p) /\ Locks(p) /\ Owns(p) /\ req'[p] = req[p]
    BY <1>1 DEF RequestsInv
  <2>2. Found(p)'
    BY <2>1 DEF Found
  <2>3. Locks(p)'
    <3>1. req[p].pc \in {"opening", "submit", "stream"} => req[p].rt \in Runtimes
      BY <2>1 DEF Found
    <3> QED
      BY <2>1, <3>1 DEF Locks
  <2>4. Owns(p)'
    BY <2>1 DEF Owns, Given, Turning
  <2> QED
    BY <2>2, <2>3, <2>4
<1>4. RequestsInv'
  BY <1>3 DEF RequestsInv
<1>5. SharedInv'
  <2>1. \A r1, r2 \in Runtimes : runtime'[r1].io = runtime'[r2].io => r1 = r2 \/ runtime'[r1].io = 0
    BY DEF SharedInv
  <2>2. \A r \in Runtimes : runtime'[r].io <= Len(sessions')
    BY DEF SharedInv
  <2>3. ASSUME NEW q1 \in Requests, NEW q2 \in Requests, Turning(q1)', Turning(q2)',
               req'[q1].io = req'[q2].io
        PROVE  req'[q1].rt = req'[q2].rt
    <3>1. CASE q1 # q /\ q2 # q
      BY <3>1, <2>3, <1>1 DEF SharedInv, Turning
    <3>2. CASE q1 = q /\ q2 # q
      BY <3>2, <2>3, <1>1 DEF Turning
    <3>3. CASE q1 # q /\ q2 = q
      BY <3>3, <2>3, <1>1 DEF Turning
    <3>4. CASE q1 = q /\ q2 = q
      BY <3>4
    <3> QED
      BY <3>1, <3>2, <3>3, <3>4
  <2> QED
    BY <2>1, <2>2, <2>3 DEF SharedInv
<1>6. WriterInv'
  <2> SUFFICES ASSUME NEW s \in DOMAIN sessions', sessions'[s].id \notin reborn'
               PROVE  runtime'[<<sessions'[s].id, 1>>].io = s
    BY DEF WriterInv
  <2>1. s \in DOMAIN sessions /\ sessions'[s].id = sessions[s].id
    BY DEF TypesInv
  <2>2. sessions[s].id \in Ids /\ sessions[s].id \notin reborn
    <3>1. sessions[s] \in Session
      BY <2>1 DEF TypesInv
    <3> QED
      BY <2>1, <3>1 DEF Session
  <2>3. <<sessions[s].id, 1>> \in Runtimes
    BY <2>2, FirstRuntimes
  <2> QED
    BY <2>1, <2>2, <2>3 DEF WriterInv
<1> QED
  BY <1>1, <1>2, <1>4, <1>5, <1>6

\* A step of one request that neither sends a prompt nor asks a session to stop.
LEMMA RequestStep ==
  ASSUME ThreadsInv, NEW q \in Requests, NEW n \in Request, req' = [req EXCEPT ![q] = n],
         sessions' = sessions, runtime' \in [Runtimes -> Runtime],
         \A r \in Runtimes : /\ runtime'[r].io = runtime[r].io
                             /\ runtime[r].mu \in Requests \ {q} => runtime'[r].mu = runtime[r].mu
                             /\ runtime[r].chatMu \in Requests \ {q} =>
                                  runtime'[r].chatMu = runtime[r].chatMu,
         known' \in [Ids -> Runtimes \cup {NoRuntime}], made' \in [Ids -> 0 .. MaxRuntimes],
         stored' \subseteq Ids, reborn \subseteq reborn', reborn' \subseteq Ids, KnownInv',
         Found(q)', Locks(q)', Owns(q)',
         Turning(q)' => \A p \in Requests \ {q} :
                          Turning(p) /\ req[p].io = n.io => req[p].rt = n.rt,
         n.pc = "over" \/ (req[q].pc \notin {"stream", "over"} /\ n.pc # "stream")
  PROVE  ThreadsInv'
<1>1. sessions \in Seq(Session)
  BY DEF ThreadsInv, TypesInv
<1>2. /\ TypesInv' /\ RequestsInv' /\ SharedInv' /\ WriterInv'
      /\ req'[q] = n /\ \A p \in Requests \ {q} : req'[p] = req[p]
  <2>1. StepOf(q, n)
    BY <1>1 DEF StepOf
  <2> QED
    BY <2>1, RequestFrame
<1>3. StreamInv'
  <2>1. \A p \in Requests, s \in DOMAIN sessions : Sent(p, s)' <=> Sent(p, s)
    BY DEF Sent
  <2>2. \A s \in DOMAIN sessions : Sent(q, s) => n.pc = "over"
    BY DEF ThreadsInv, StreamInv
  <2> QED
    BY <1>2, <2>1, <2>2 DEF ThreadsInv, StreamInv
<1>4. NoDeadHandout'
  BY DEF ThreadsInv, NoDeadHandout, Asked
<1>5. StartedTurnsAreHeard'
  <2> SUFFICES ASSUME NEW s \in DOMAIN sessions, NEW p \in sessions[s].begun, req'[p].pc = "stream"
               PROVE  \/ sessions[s].active = p /\ ~sessions[s].ending
                      \/ \E i \in DOMAIN sessions[s].events : sessions[s].events[i] = p
    BY DEF StartedTurnsAreHeard
  <2>1. p \in Requests
    <3>1. sessions[s] \in Session
      BY <1>1
    <3> QED
      BY <3>1 DEF Session
  <2>2. Sent(p, s)
    BY DEF Sent
  <2>3. p # q
    BY <1>2, <2>1, <2>2 DEF ThreadsInv, StreamInv
  <2> QED
    BY <1>2, <2>1, <2>3 DEF ThreadsInv, StartedTurnsAreHeard
<1> QED
  BY <1>2, <1>3, <1>4, <1>5 DEF ThreadsInv

\* The first states satisfy the invariant.
LEMMA ThreadsInitial == ThreadsInit => ThreadsInv
<1> SUFFICES ASSUME NEW files \in SUBSET Others, ThreadsStart(files) PROVE ThreadsInv
  BY DEF ThreadsInit
<1> USE DEF ThreadsStart
<1>1. files \subseteq Ids
  BY DEF Ids
<1>2. NewRequest \in Request /\ NewRequest.pc = "new" /\ NewRequest.op = "none" /\ NewRequest.io = 0
  BY FirstRuntimes DEF NewRequest, Request, Op
<1>3. NewRuntime \in Runtime /\ NewRuntime.io = 0
  BY FirstRuntimes DEF NewRuntime, Runtime
<1>4. /\ known \in [Ids -> Runtimes \cup {NoRuntime}] /\ made \in [Ids -> 0 .. MaxRuntimes]
      /\ \A t \in Ids : known[t] # NoRuntime => known[t] = <<t, 1>> /\ made[t] = 1
      /\ \A t \in Ids : known[t] = NoRuntime => made[t] = 0
  <2>1. 0 \in 0 .. MaxRuntimes /\ 1 \in 0 .. MaxRuntimes
    BY ThreadsAssumption
  <2>2. \A t \in Ids : <<t, 1>> # NoRuntime
    BY FirstRuntimes
  <2> QED
    BY <2>1, <2>2, FirstRuntimes
<1>5. sessions \in Seq(Session) /\ Len(sessions) = 0 /\ DOMAIN sessions = {}
  OBVIOUS
<1>6. TypesInv
  BY <1>1, <1>2, <1>3, <1>4, <1>5, FirstRuntimes DEF TypesInv
<1>7. KnownInv
  <2> SUFFICES ASSUME NEW t \in Ids
               PROVE  /\ known[t] # NoRuntime => known[t][1] = t
                      /\ known[t] = IF made[t] = 0 THEN NoRuntime ELSE <<t, 1>>
                      /\ made[t] <= 1
    BY DEF KnownInv
  <2>1. CASE known[t] = NoRuntime
    BY <2>1, <1>4
  <2>2. CASE known[t] # NoRuntime
    <3>1. known[t] = <<t, 1>> /\ made[t] = 1
      BY <2>2, <1>4
    <3> QED
      BY <3>1
  <2> QED
    BY <2>1, <2>2
<1>8. RequestsInv
  <2> SUFFICES ASSUME NEW q \in Requests PROVE Found(q) /\ Locks(q) /\ Owns(q)
    BY DEF RequestsInv
  <2>1. req[q].pc = "new" /\ req[q].op = "none" /\ req[q].io = 0
    BY <1>2
  <2> QED
    BY <2>1, <1>5 DEF Found, Locks, Owns, Given, Turning
<1>9. SharedInv
  BY <1>2, <1>3, <1>5 DEF SharedInv, Turning
<1>10. WriterInv /\ StreamInv /\ StartedTurnsAreHeard
  BY <1>5 DEF WriterInv, StreamInv, StartedTurnsAreHeard
<1>11. NoDeadHandout
  BY <1>3 DEF NoDeadHandout
<1> QED
  BY <1>6, <1>7, <1>8, <1>9, <1>10, <1>11 DEF ThreadsInv

\* A request that is over holds nothing.
LEMMA OverIsTyped ==
  ASSUME NEW n, n = [NewRequest EXCEPT !.pc = "over"]
  PROVE  n \in Request /\ n.pc = "over" /\ n.io = 0
BY FirstRuntimes DEF NewRequest, Request, Op

\* A request that is answered leaves the others as they were.
LEMMA OverKeeps ==
  ASSUME ThreadsInv, NEW q \in Requests, req' = Over(q), sessions' = sessions,
         runtime' \in [Runtimes -> Runtime],
         \A r \in Runtimes : /\ runtime'[r].io = runtime[r].io
                             /\ runtime[r].mu \in Requests \ {q} => runtime'[r].mu = runtime[r].mu
                             /\ runtime[r].chatMu \in Requests \ {q} =>
                                  runtime'[r].chatMu = runtime[r].chatMu,
         known' \in [Ids -> Runtimes \cup {NoRuntime}], made' \in [Ids -> 0 .. MaxRuntimes],
         stored' \subseteq Ids, reborn \subseteq reborn', reborn' \subseteq Ids, KnownInv'
  PROVE  ThreadsInv'
<1> DEFINE n == [NewRequest EXCEPT !.pc = "over"]
<1>1. n \in Request /\ n.pc = "over" /\ n.io = 0
  BY OverIsTyped
<1>2. req' = [req EXCEPT ![q] = n]
  BY DEF Over
<1> HIDE DEF n
<1>3. req'[q] = n
  BY <1>2 DEF ThreadsInv, TypesInv
<1>4. Len(sessions) \in Nat
  BY DEF ThreadsInv, TypesInv
<1>5. Found(q)' /\ Locks(q)' /\ Owns(q)' /\ ~Turning(q)'
  BY <1>1, <1>3, <1>4 DEF Found, Locks, Owns, Given, Turning
<1> QED
  BY <1>1, <1>2, <1>5, RequestStep

\* The deferred unlocks let go of the request's own locks only.
LEMMA UnlockedLocks ==
  ASSUME TypesInv, NEW q \in Requests, runtime' = Unlocked(q)
  PROVE  /\ runtime' \in [Runtimes -> Runtime]
         /\ \A r \in Runtimes : /\ runtime'[r].io = runtime[r].io
                                /\ runtime'[r].mu = runtime[r].mu
                                /\ runtime[r].chatMu # q => runtime'[r].chatMu = runtime[r].chatMu
<1> SUFFICES ASSUME NEW r \in Runtimes
             PROVE  /\ runtime'[r] \in Runtime /\ runtime'[r].io = runtime[r].io
                    /\ runtime'[r].mu = runtime[r].mu
                    /\ runtime[r].chatMu # q => runtime'[r].chatMu = runtime[r].chatMu
  BY DEF Unlocked
<1>1. runtime[r] \in Runtime
  BY DEF TypesInv
<1>2. runtime'[r] = [runtime[r] EXCEPT !.chatMu = IF @ = q THEN Nobody ELSE @]
  BY DEF Unlocked
<1> QED
  BY <1>1, <1>2 DEF Runtime

\* A request that finishes keeps the invariant.
LEMMA FinishKeeps ==
  ASSUME ThreadsInv, NEW q \in Requests, Finish(q), sessions' = sessions,
         known' \in [Ids -> Runtimes \cup {NoRuntime}], made' \in [Ids -> 0 .. MaxRuntimes],
         stored' \subseteq Ids, reborn \subseteq reborn', reborn' \subseteq Ids, KnownInv'
  PROVE  ThreadsInv'
<1>1. TypesInv /\ req' = Over(q) /\ runtime' = Unlocked(q)
  BY DEF Finish, ThreadsInv
<1>2. /\ runtime' \in [Runtimes -> Runtime]
      /\ \A r \in Runtimes : /\ runtime'[r].io = runtime[r].io
                             /\ runtime'[r].mu = runtime[r].mu
                             /\ runtime[r].chatMu # q => runtime'[r].chatMu = runtime[r].chatMu
  BY <1>1, UnlockedLocks
<1> QED
  BY <1>1, <1>2, OverKeeps

\* A request that leaves all but itself alone.
LEMMA AloneKeeps ==
  ASSUME ThreadsInv, NEW q \in Requests, NEW n \in Request, req' = [req EXCEPT ![q] = n],
         UNCHANGED <<known, made, stored, runtime, sessions, reborn>>,
         Found(q)', Locks(q)', Owns(q)',
         Turning(q)' => \A p \in Requests \ {q} :
                          Turning(p) /\ req[p].io = n.io => req[p].rt = n.rt,
         n.pc = "over" \/ (req[q].pc \notin {"stream", "over"} /\ n.pc # "stream")
  PROVE  ThreadsInv'
<1>1. /\ runtime \in [Runtimes -> Runtime] /\ known \in [Ids -> Runtimes \cup {NoRuntime}]
      /\ made \in [Ids -> 0 .. MaxRuntimes] /\ stored \subseteq Ids /\ reborn \subseteq Ids
      /\ KnownInv
  BY DEF ThreadsInv, TypesInv
<1>2. KnownInv'
  BY <1>1 DEF KnownInv
<1> QED
  BY <1>1, <1>2, RequestStep

\* A request finds the runtime object of its thread.
LEMMA FindKeeps ==
  ASSUME ThreadsInv, NEW q \in Requests, NEW t \in Ids,
         NEW op \in {"turn", "interrupt", "other", "fork", "read"}, Find(q, op, t)
  PROVE  ThreadsInv'
<1> DEFINE n == [NewRequest EXCEPT !.pc = IF op \in {"fork", "read"} THEN "chatMu" ELSE "open",
                                   !.op = op, !.id = t, !.rt = known[t]]
<1>1. req[q].pc = "new" /\ known[t] # NoRuntime /\ req' = [req EXCEPT ![q] = n]
      /\ UNCHANGED <<known, made, stored, runtime, sessions, reborn>>
  BY DEF Find, At
<1>2. known[t] \in Runtimes
  BY <1>1 DEF ThreadsInv, TypesInv
<1>3. /\ n \in Request /\ n.pc = IF op \in {"fork", "read"} THEN "chatMu" ELSE "open"
      /\ n.op = op /\ n.id = t /\ n.rt = known[t] /\ n.io = 0
  BY <1>2, FirstRuntimes DEF NewRequest, Request, Op
<1> HIDE DEF n
<1>4. req'[q] = n
  BY <1>1 DEF ThreadsInv, TypesInv
<1>5. known[t][1] = t /\ (t \notin reborn => known[t][2] = 1)
  <2>1. known[t][1] = t
    BY <1>1 DEF ThreadsInv, KnownInv
  <2>2. ASSUME t \notin reborn PROVE known[t][2] = 1
    <3>1. known[t] = <<t, 1>>
      BY <1>1, <2>2 DEF ThreadsInv, KnownInv
    <3> QED
      BY <3>1
  <2> QED
    BY <2>1, <2>2
<1>6. Found(q)'
  BY <1>1, <1>2, <1>3, <1>4, <1>5 DEF Found
<1>7. Len(sessions) \in Nat
  BY DEF ThreadsInv, TypesInv
<1>8. Locks(q)' /\ Owns(q)' /\ ~Turning(q)'
  BY <1>1, <1>3, <1>4, <1>7 DEF Locks, Owns, Given, Turning
<1> QED
  BY <1>1, <1>3, <1>6, <1>8, AloneKeeps

\* A request finds its runtime's session, or has it to itself until one has started.
LEMMA EnterKeeps ==
  ASSUME ThreadsInv, NEW q \in Requests, Enter(q)
  PROVE  ThreadsInv'
<1> DEFINE r == req[q].rt
<1>1. /\ req[q] \in Request /\ req[q].pc = "open" /\ runtime[r].mu = Nobody
      /\ UNCHANGED <<known, made, stored, sessions, reborn>>
      /\ Found(q) /\ Locks(q) /\ Owns(q)
  BY DEF Enter, At, ThreadsInv, TypesInv, RequestsInv
<1>2. /\ r \in Runtimes /\ r[1] = req[q].id /\ req[q].op \in {"turn", "interrupt", "other"}
      /\ runtime[r] \in Runtime /\ Len(sessions) \in Nat
  BY <1>1 DEF Found, ThreadsInv, TypesInv
<1>3. CASE runtime[r].io # 0
  <2> DEFINE n == [req[q] EXCEPT !.io = runtime[r].io,
                                 !.pc = IF req[q].op = "turn" THEN "chatMu" ELSE "submit"]
  <2>1. req' = [req EXCEPT ![q] = n] /\ UNCHANGED runtime
    BY <1>1, <1>3 DEF Enter, WithSession
  <2>2. /\ n \in Request /\ n.pc = IF req[q].op = "turn" THEN "chatMu" ELSE "submit"
        /\ n.op = req[q].op /\ n.id = req[q].id /\ n.rt = r /\ n.io = runtime[r].io
    BY <1>1, <1>2 DEF Request, Runtime
  <2> HIDE DEF n
  <2>3. req'[q] = n
    BY <2>1 DEF ThreadsInv, TypesInv
  <2>4. Found(q)'
    BY <1>1, <1>2, <2>2, <2>3 DEF Found
  <2>5. Locks(q)'
    BY <1>1, <1>2, <2>2, <2>3 DEF Locks
  <2>6. Owns(q)'
    <3>1. runtime[r].io <= Len(sessions)
      BY <1>2 DEF ThreadsInv, SharedInv
    <3>2. \A r2 \in Runtimes : runtime[r2].io = runtime[r].io => r2 = r
      BY <1>2, <1>3 DEF ThreadsInv, SharedInv
    <3> QED
      BY <3>1, <3>2, <1>1, <1>3, <2>1, <2>2, <2>3 DEF Owns, Given, Turning
  <2>7. \A p \in Requests : Turning(p) /\ req[p].io = n.io => req[p].rt = n.rt
    BY <1>2, <2>2 DEF ThreadsInv, RequestsInv, Owns
  <2> QED
    BY <1>1, <2>1, <2>2, <2>4, <2>5, <2>6, <2>7, AloneKeeps
<1>4. CASE runtime[r].io = 0
  <2> DEFINE n == [req[q] EXCEPT !.pc = "opening"]  m == [runtime[r] EXCEPT !.mu = q]
  <2>1. req' = [req EXCEPT ![q] = n] /\ runtime' = [runtime EXCEPT ![r] = m]
    BY <1>4 DEF Enter, Goto
  <2>2. /\ n \in Request /\ n.pc = "opening" /\ n.op = req[q].op /\ n.id = req[q].id
        /\ n.rt = r /\ n.io = req[q].io
    BY <1>1 DEF Request
  <2>3. /\ m \in Runtime /\ m.io = runtime[r].io /\ m.mu = q /\ m.chatMu = runtime[r].chatMu
    BY <1>2 DEF Runtime
  <2> HIDE DEF n, m
  <2>4. req'[q] = n /\ runtime'[r] = m /\ \A r2 \in Runtimes \ {r} : runtime'[r2] = runtime[r2]
    BY <1>2, <2>1 DEF ThreadsInv, TypesInv
  <2>5. /\ runtime' \in [Runtimes -> Runtime]
        /\ \A r2 \in Runtimes : /\ runtime'[r2].io = runtime[r2].io
                                /\ runtime[r2].mu \in Requests \ {q} => runtime'[r2].mu = runtime[r2].mu
                                /\ runtime'[r2].chatMu = runtime[r2].chatMu
    <3>1. runtime' \in [Runtimes -> Runtime]
      BY <2>1, <2>3 DEF ThreadsInv, TypesInv
    <3>2. runtime[r].mu \notin Requests
      BY <1>1, FirstRuntimes
    <3> QED
      BY <3>1, <3>2, <2>3, <2>4
  <2>6. Found(q)' /\ Locks(q)' /\ ~Turning(q)'
    BY <1>1, <1>2, <1>4, <2>2, <2>3, <2>4 DEF Found, Locks, Turning
  <2>7. Owns(q)'
    BY <1>1, <2>2, <2>4, <2>6 DEF Owns, Given, Turning
  <2>8. /\ known' \in [Ids -> Runtimes \cup {NoRuntime}] /\ made' \in [Ids -> 0 .. MaxRuntimes]
        /\ stored' \subseteq Ids /\ reborn \subseteq reborn' /\ reborn' \subseteq Ids /\ KnownInv'
    BY <1>1 DEF ThreadsInv, TypesInv, KnownInv
  <2> QED
    BY <1>1, <2>1, <2>2, <2>5, <2>6, <2>7, <2>8, RequestStep
<1> QED
  BY <1>3, <1>4

\* A thread whose session does not start is free for the next request.
LEMMA NotOpenedKeeps ==
  ASSUME ThreadsInv, NEW q \in Requests, NotOpened(q)
  PROVE  ThreadsInv'
<1> DEFINE r == req[q].rt  m == [runtime[r] EXCEPT !.mu = Nobody]
<1>1. /\ req[q].pc = "opening" /\ req' = Over(q) /\ runtime' = [runtime EXCEPT ![r] = m]
      /\ UNCHANGED <<known, made, stored, sessions, reborn>> /\ Found(q) /\ Locks(q)
  BY DEF NotOpened, At, ThreadsInv, RequestsInv
<1>2. r \in Runtimes /\ runtime[r] \in Runtime /\ runtime[r].mu = q
  BY <1>1 DEF Found, Locks, ThreadsInv, TypesInv
<1>3. m \in Runtime /\ m.io = runtime[r].io /\ m.mu = Nobody /\ m.chatMu = runtime[r].chatMu
  BY <1>2 DEF Runtime
<1> HIDE DEF m
<1>4. /\ runtime' \in [Runtimes -> Runtime]
      /\ \A r2 \in Runtimes : /\ runtime'[r2].io = runtime[r2].io
                              /\ runtime[r2].mu # q => runtime'[r2].mu = runtime[r2].mu
                              /\ runtime'[r2].chatMu = runtime[r2].chatMu
  <2>1. runtime'[r] = m /\ \A r2 \in Runtimes \ {r} : runtime'[r2] = runtime[r2]
    BY <1>1, <1>2 DEF ThreadsInv, TypesInv
  <2> QED
    BY <2>1, <1>1, <1>2, <1>3 DEF ThreadsInv, TypesInv
<1>5. /\ known' \in [Ids -> Runtimes \cup {NoRuntime}] /\ made' \in [Ids -> 0 .. MaxRuntimes]
      /\ stored' \subseteq Ids /\ reborn \subseteq reborn' /\ reborn' \subseteq Ids /\ KnownInv'
  BY <1>1 DEF ThreadsInv, TypesInv, KnownInv
<1> QED
  BY <1>1, <1>4, <1>5, OverKeeps

\* A request gets the chat mutex of its runtime when nobody has it.
LEMMA LockChatKeeps ==
  ASSUME ThreadsInv, NEW q \in Requests, LockChat(q)
  PROVE  ThreadsInv'
<1> DEFINE r == req[q].rt  m == [runtime[r] EXCEPT !.chatMu = q]
           n == [req[q] EXCEPT !.pc = Locked(req[q].op)]
<1>1. /\ req[q] \in Request /\ req[q].pc = "chatMu" /\ runtime[r].chatMu = Nobody
      /\ req' = [req EXCEPT ![q] = n] /\ runtime' = [runtime EXCEPT ![r] = m]
      /\ UNCHANGED <<known, made, stored, sessions, reborn>>
      /\ Found(q) /\ Locks(q) /\ Owns(q)
  BY DEF LockChat, Goto, At, ThreadsInv, TypesInv, RequestsInv
<1>2. r \in Runtimes /\ runtime[r] \in Runtime /\ req[q].op \in {"turn", "fork", "read"}
  BY <1>1 DEF Found, ThreadsInv, TypesInv
<1>3. /\ n \in Request /\ n.op = req[q].op /\ n.id = req[q].id /\ n.rt = r /\ n.io = req[q].io
      /\ n.pc \in {"create", "read", "submit"} /\ (n.pc = "submit" => req[q].op = "turn")
  BY <1>1, <1>2 DEF Request, Locked
<1>4. m \in Runtime /\ m.io = runtime[r].io /\ m.mu = runtime[r].mu /\ m.chatMu = q
  BY <1>2 DEF Runtime
<1> HIDE DEF n, m
<1>5. req'[q] = n /\ runtime'[r] = m /\ \A r2 \in Runtimes \ {r} : runtime'[r2] = runtime[r2]
  BY <1>1, <1>2 DEF ThreadsInv, TypesInv
<1>6. /\ runtime' \in [Runtimes -> Runtime]
      /\ \A r2 \in Runtimes : /\ runtime'[r2].io = runtime[r2].io
                              /\ runtime'[r2].mu = runtime[r2].mu
                              /\ runtime[r2].chatMu \in Requests \ {q} =>
                                   runtime'[r2].chatMu = runtime[r2].chatMu
  <2>1. runtime' \in [Runtimes -> Runtime]
    BY <1>1, <1>4 DEF ThreadsInv, TypesInv
  <2>2. runtime[r].chatMu \notin Requests
    BY <1>1, FirstRuntimes
  <2> QED
    BY <2>1, <2>2, <1>4, <1>5
<1>7. Found(q)' /\ Locks(q)'
  BY <1>1, <1>2, <1>3, <1>4, <1>5 DEF Found, Locks
<1>8. Owns(q)' /\ (Turning(q)' => Turning(q))
  BY <1>1, <1>2, <1>3, <1>5, <1>6 DEF Owns, Given, Turning
<1>9. Turning(q)' => \A p \in Requests \ {q} :
                       Turning(p) /\ req[p].io = n.io => req[p].rt = n.rt
  BY <1>3, <1>8 DEF ThreadsInv, SharedInv
<1>10. /\ known' \in [Ids -> Runtimes \cup {NoRuntime}] /\ made' \in [Ids -> 0 .. MaxRuntimes]
       /\ stored' \subseteq Ids /\ reborn \subseteq reborn' /\ reborn' \subseteq Ids /\ KnownInv'
  BY <1>1 DEF ThreadsInv, TypesInv, KnownInv
<1> QED
  BY <1>1, <1>3, <1>6, <1>7, <1>8, <1>9, <1>10, RequestStep

\* A session that starts is in one runtime, was given to one request, and is the first
\* of its id unless the id was reborn.
LEMMA OpenedKeeps ==
  ASSUME ThreadsInv, NEW q \in Requests, Opened(q)
  PROVE  ThreadsInv'
<1> DEFINE r == req[q].rt  s == Len(sessions) + 1
           new == [id |-> req[q].id, inbox |-> <<>>, stopped |-> FALSE, active |-> Nobody,
                   ending |-> FALSE, events |-> <<>>, begun |-> {}]
           m == [runtime[r] EXCEPT !.io = s, !.mu = Nobody]
           n == [req[q] EXCEPT !.io = s, !.pc = IF req[q].op = "turn" THEN "chatMu" ELSE "submit"]
<1>1. /\ req[q] \in Request /\ req[q].pc = "opening" /\ s <= MaxSessions
      /\ sessions' = Append(sessions, new)
      /\ runtime' = [runtime EXCEPT ![r] = m] /\ req' = [req EXCEPT ![q] = n]
      /\ UNCHANGED <<known, made, stored, reborn>>
      /\ Found(q) /\ Locks(q) /\ Owns(q)
  BY DEF Opened, WithSession, At, ThreadsInv, TypesInv, RequestsInv
<1>2. /\ r \in Runtimes /\ r[1] = req[q].id /\ (req[q].id \notin reborn => r[2] = 1)
      /\ req[q].op \in {"turn", "interrupt", "other"} /\ req[q].id \in Ids
      /\ runtime[r] \in Runtime /\ runtime[r].mu = q /\ runtime[r].io = 0
  BY <1>1 DEF Found, Locks, ThreadsInv, TypesInv, Request
<1>3. /\ sessions \in Seq(Session) /\ Len(sessions) \in Nat /\ s \in SessionNumbers /\ s # 0
      /\ DOMAIN sessions = 1 .. Len(sessions)
  <2>1. sessions \in Seq(Session)
    BY DEF ThreadsInv, TypesInv
  <2> QED
    BY <2>1, <1>1, FirstRuntimes DEF SessionNumbers
<1>4. /\ new \in Session /\ new.id = req[q].id /\ new.inbox = <<>> /\ ~new.stopped /\ ~new.ending
      /\ new.begun = {}
  <2>1. <<>> \in Seq(Requests)
    OBVIOUS
  <2> QED
    BY <2>1, <1>2 DEF Session
<1>5. m \in Runtime /\ m.io = s /\ m.mu = Nobody /\ m.chatMu = runtime[r].chatMu
  BY <1>2, <1>3 DEF Runtime
<1>6. /\ n \in Request /\ n.op = req[q].op /\ n.id = req[q].id /\ n.rt = r /\ n.io = s
      /\ n.pc = IF req[q].op = "turn" THEN "chatMu" ELSE "submit"
  BY <1>1, <1>3 DEF Request
<1> HIDE DEF new, m, n
<1>7. /\ sessions' \in Seq(Session) /\ Len(sessions') = s /\ sessions'[s] = new
      /\ DOMAIN sessions' = 1 .. s
      /\ \A i \in 1 .. Len(sessions) : sessions'[i] = sessions[i]
  <2>1. /\ sessions' \in Seq(Session) /\ Len(sessions') = s /\ sessions'[s] = new
        /\ \A i \in 1 .. Len(sessions) : sessions'[i] = sessions[i]
    BY <1>1, <1>3, <1>4, AppendProperties
  <2> QED
    BY <2>1
<1> HIDE DEF s
<1>8. /\ req'[q] = n /\ \A p \in Requests \ {q} : req'[p] = req[p]
      /\ runtime'[r] = m /\ \A r2 \in Runtimes \ {r} : runtime'[r2] = runtime[r2]
  BY <1>1, <1>2 DEF ThreadsInv, TypesInv
<1>9. TypesInv'
  BY <1>1, <1>5, <1>6, <1>7 DEF ThreadsInv, TypesInv
<1>10. KnownInv'
  BY <1>1 DEF ThreadsInv, KnownInv
<1>11. s = Len(sessions) + 1 /\ \A r2 \in Runtimes : runtime[r2].io < s /\ runtime[r2].io \in Nat
  <2>1. \A r2 \in Runtimes : runtime[r2] \in Runtime
    BY DEF ThreadsInv, TypesInv
  <2>2. \A r2 \in Runtimes : runtime[r2].io \in Nat
    BY <2>1, FirstRuntimes DEF Runtime, SessionNumbers
  <2> QED
    BY <2>2, <1>3 DEF s, ThreadsInv, SharedInv
<1>12. \A p \in Requests : req[p].io < s /\ req[p].io \in Nat
  <2>1. \A p \in Requests : req[p] \in Request
    BY DEF ThreadsInv, TypesInv
  <2>2. \A p \in Requests : req[p].io \in Nat
    BY <2>1, FirstRuntimes DEF Request, SessionNumbers
  <2> QED
    BY <2>2, <1>3, <1>11 DEF ThreadsInv, RequestsInv, Owns
<1>13. ASSUME NEW p \in Requests \ {q} PROVE Found(p)' /\ Locks(p)' /\ Owns(p)'
  <2>1. Found(p) /\ Locks(p) /\ Owns(p) /\ req'[p] = req[p]
    BY <1>8 DEF ThreadsInv, RequestsInv
  <2>2. Found(p)'
    BY <2>1, <1>1 DEF Found
  <2>3. Locks(p)'
    <3>1. req[p].pc \in {"opening", "submit", "stream"} => req[p].rt \in Runtimes
      BY <2>1 DEF Found
    <3>2. CASE req[p].rt = r
      BY <3>1, <3>2, <2>1, <1>2, <1>5, <1>8 DEF Locks
    <3>3. CASE req[p].rt # r
      BY <3>1, <3>3, <2>1, <1>8 DEF Locks
    <3> QED
      BY <3>2, <3>3
  <2>4. Owns(p)'
    <3>1. req'[p].io <= Len(sessions')
      BY <2>1, <1>7, <1>12, <1>11, <1>3
    <3>2. \A r2 \in Runtimes : runtime'[r2].io = req[p].io => runtime[r2].io = req[p].io
      BY <1>5, <1>8, <1>11, <1>12
    <3> QED
      BY <3>1, <3>2, <2>1 DEF Owns, Given, Turning
  <2> QED
    BY <2>2, <2>3, <2>4
<1>14. Found(q)' /\ Locks(q)'
  BY <1>1, <1>2, <1>6, <1>8 DEF Found, Locks
<1>15. \A r2 \in Runtimes : runtime'[r2].io = s => r2 = r
  BY <1>8, <1>11
<1>16. Owns(q)'
  BY <1>1, <1>2, <1>3, <1>6, <1>7, <1>8, <1>11, <1>15 DEF Owns, Given, Turning
<1>17. RequestsInv'
  BY <1>13, <1>14, <1>16 DEF RequestsInv
<1>18. SharedInv'
  <2>1. \A r1, r2 \in Runtimes : runtime'[r1].io = runtime'[r2].io => r1 = r2 \/ runtime'[r1].io = 0
    BY <1>5, <1>8, <1>15 DEF ThreadsInv, SharedInv
  <2>2. \A r2 \in Runtimes : runtime'[r2].io <= Len(sessions')
    BY <1>3, <1>5, <1>7, <1>8, <1>11
  <2>3. ASSUME NEW q1 \in Requests, NEW q2 \in Requests, Turning(q1)', Turning(q2)',
               req'[q1].io = req'[q2].io
        PROVE  req'[q1].rt = req'[q2].rt
    <3>1. q1 = q <=> q2 = q
      BY <2>3, <1>6, <1>8, <1>12
    <3> QED
      BY <3>1, <2>3, <1>8 DEF ThreadsInv, SharedInv, Turning
  <2> QED
    BY <2>1, <2>2, <2>3 DEF SharedInv
<1>19. WriterInv'
  <2> SUFFICES ASSUME NEW i \in 1 .. s, sessions'[i].id \notin reborn
               PROVE  runtime'[<<sessions'[i].id, 1>>].io = i
    BY <1>1, <1>7 DEF WriterInv
  <2>1. CASE i = s
    <3>1. sessions'[i].id = req[q].id /\ r[1] = req[q].id /\ r[2] = 1
      BY <2>1, <1>2, <1>4, <1>7
    <3>2. <<req[q].id, 1>> = r
      BY <3>1, <1>2 DEF Runtimes
    <3> QED
      BY <2>1, <3>1, <3>2, <1>5, <1>8
  <2>2. CASE i # s
    <3>1. i \in 1 .. Len(sessions) /\ sessions'[i] = sessions[i]
      BY <2>2, <1>3, <1>7, <1>11
    <3>2. sessions[i] \in Session
      BY <3>1, <1>3
    <3>3. <<sessions[i].id, 1>> \in Runtimes
      BY <3>2, FirstRuntimes DEF Session
    <3>4. runtime[<<sessions[i].id, 1>>].io = i
      BY <3>1, <1>3 DEF ThreadsInv, WriterInv
    <3>5. <<sessions[i].id, 1>> # r
      BY <3>1, <3>4, <1>2
    <3> QED
      BY <3>1, <3>3, <3>4, <3>5, <1>8
  <2> QED
    BY <2>1, <2>2
<1>20. \A i \in 1 .. s : i # s => i \in DOMAIN sessions /\ sessions'[i] = sessions[i]
  BY <1>3, <1>7, <1>11
<1>21. StreamInv'
  <2>1. ASSUME NEW i \in 1 .. s PROVE sessions'[i].ending => sessions'[i].active # Nobody
    <3>1. CASE i = s
      BY <3>1, <1>4, <1>7
    <3>2. CASE i # s
      BY <3>2, <1>20 DEF ThreadsInv, StreamInv
    <3> QED
      BY <3>1, <3>2
  <2>2. ASSUME NEW i \in 1 .. s, NEW p \in Requests, Sent(p, i)'
        PROVE  req'[p].pc = "over" \/ (req'[p].pc = "stream" /\ req'[p].io = i)
    <3>1. i # s
      <4>1. <<>> # <<"turn", p>>
        OBVIOUS
      <4> QED
        BY <2>2, <4>1, <1>4, <1>7 DEF Sent
    <3>2. Sent(p, i) /\ i \in DOMAIN sessions
      BY <2>2, <3>1, <1>20 DEF Sent
    <3>3. req[p].pc = "over" \/ (req[p].pc = "stream" /\ req[p].io = i)
      BY <3>2 DEF ThreadsInv, StreamInv
    <3>4. p # q
      BY <3>3, <1>1
    <3> QED
      BY <3>3, <3>4, <1>8
  <2> QED
    BY <2>1, <2>2, <1>7 DEF StreamInv
<1>22. NoDeadHandout'
  <2> SUFFICES ASSUME NEW r2 \in Runtimes, runtime'[r2].io # 0 PROVE ~Asked(runtime[r2].io)'
    BY DEF NoDeadHandout
  <2>1. CASE r2 = r
    BY <2>1, <1>4, <1>5, <1>7, <1>8 DEF Asked
  <2>2. CASE r2 # r
    <3>1. runtime'[r2].io = runtime[r2].io /\ runtime[r2].io \in 1 .. s /\ runtime[r2].io # s
      BY <2>2, <1>8, <1>11, <1>3
    <3>2. ~Asked(runtime[r2].io)
      BY <3>1 DEF ThreadsInv, NoDeadHandout
    <3> QED
      BY <3>1, <3>2, <1>20 DEF Asked
  <2> QED
    BY <2>1, <2>2
<1>23. StartedTurnsAreHeard'
  <2> SUFFICES ASSUME NEW i \in 1 .. s, NEW p \in sessions'[i].begun, req'[p].pc = "stream"
               PROVE  \/ sessions'[i].active = p /\ ~sessions'[i].ending
                      \/ \E j \in DOMAIN sessions'[i].events : sessions'[i].events[j] = p
    BY <1>7 DEF StartedTurnsAreHeard
  <2>1. i # s
    BY <1>4, <1>7
  <2>2. i \in DOMAIN sessions /\ sessions'[i] = sessions[i]
    BY <2>1, <1>20
  <2>3. p \in Requests
    <3>1. sessions[i] \in Session
      BY <2>2, <1>3
    <3> QED
      BY <3>1, <2>2 DEF Session
  <2>4. req[p].pc = "stream"
    BY <2>3, <1>6, <1>8
  <2> QED
    BY <2>2, <2>4 DEF ThreadsInv, StartedTurnsAreHeard
<1> QED
  BY <1>9, <1>10, <1>17, <1>18, <1>19, <1>21, <1>22, <1>23 DEF ThreadsInv

\* A removal takes the session out of its runtime, so that nobody else is given it.
LEMMA TakeSessionKeeps ==
  ASSUME ThreadsInv, NEW q \in Requests, NEW r \in Runtimes, TakeSession(q, r)
  PROVE  ThreadsInv'
<1> DEFINE n == [req[q] EXCEPT !.rt = r, !.rts = @ \ {r}, !.io = runtime[r].io,
                               !.pc = IF runtime[r].io = 0 THEN "take" ELSE "shutdown"]
           m == [runtime[r] EXCEPT !.io = 0]
<1>1. /\ req[q] \in Request /\ req[q].pc = "take" /\ r \in req[q].rts /\ runtime[r].mu = Nobody
      /\ req' = [req EXCEPT ![q] = n] /\ runtime' = [runtime EXCEPT ![r] = m]
      /\ UNCHANGED <<known, made, stored, sessions, reborn>> /\ Found(q) /\ Owns(q)
  BY DEF TakeSession, Takes, At, ThreadsInv, TypesInv, RequestsInv
<1>2. runtime[r] \in Runtime /\ r[1] \in reborn /\ \A r2 \in req[q].rts : r2[1] \in reborn
  BY <1>1 DEF Found, ThreadsInv, TypesInv
<1>3. /\ n \in Request /\ n.op = req[q].op /\ n.rt = r /\ n.io = runtime[r].io
      /\ n.rts = req[q].rts \ {r} /\ n.pc = IF runtime[r].io = 0 THEN "take" ELSE "shutdown"
  BY <1>1, <1>2 DEF Request, Runtime
<1>4. m \in Runtime /\ m.io = 0 /\ m.mu = runtime[r].mu /\ m.chatMu = runtime[r].chatMu
  BY <1>2, FirstRuntimes DEF Runtime
<1> HIDE DEF n, m
<1>5. /\ req'[q] = n /\ \A p \in Requests \ {q} : req'[p] = req[p]
      /\ runtime'[r] = m /\ \A r2 \in Runtimes \ {r} : runtime'[r2] = runtime[r2]
  BY <1>1, <1>2 DEF ThreadsInv, TypesInv
<1>6. \A r2 \in Runtimes : /\ runtime'[r2].mu = runtime[r2].mu
                           /\ runtime'[r2].chatMu = runtime[r2].chatMu
                           /\ runtime'[r2].io = 0 \/ runtime'[r2].io = runtime[r2].io
  BY <1>4, <1>5
<1>7. TypesInv' /\ KnownInv'
  BY <1>1, <1>3, <1>4 DEF ThreadsInv, TypesInv, KnownInv
<1>8. ASSUME NEW p \in Requests \ {q} PROVE Found(p)' /\ Locks(p)' /\ Owns(p)'
  <2>1. Found(p) /\ Locks(p) /\ Owns(p) /\ req'[p] = req[p]
    BY <1>5 DEF ThreadsInv, RequestsInv
  <2>2. req[p].pc \in {"opening", "submit", "stream"} => req[p].rt \in Runtimes
    BY <2>1 DEF Found
  <2>3. Found(p)' /\ Locks(p)'
    BY <2>1, <2>2, <1>1, <1>6 DEF Found, Locks
  <2>4. Owns(p)'
    BY <2>1, <1>1, <1>6 DEF Owns, Given, Turning
  <2> QED
    BY <2>3, <2>4
<1>9. Found(q)' /\ Locks(q)'
  BY <1>1, <1>2, <1>3, <1>5 DEF Found, Locks
<1>10. Owns(q)' /\ ~Turning(q)'
  <2>1. runtime[r].io <= Len(sessions)
    BY DEF ThreadsInv, SharedInv
  <2>2. runtime[r].io # 0 => \A r2 \in Runtimes : runtime'[r2].io # runtime[r].io
    BY <1>4, <1>5, <1>6 DEF ThreadsInv, SharedInv
  <2> QED
    BY <2>1, <2>2, <1>1, <1>3, <1>5 DEF Owns, Given, Turning
<1>11. RequestsInv'
  BY <1>8, <1>9, <1>10 DEF RequestsInv
<1>12. SharedInv'
  <2>1. \A r1, r2 \in Runtimes : runtime'[r1].io = runtime'[r2].io => r1 = r2 \/ runtime'[r1].io = 0
    BY <1>6 DEF ThreadsInv, SharedInv
  <2>2. \A r2 \in Runtimes : runtime'[r2].io <= Len(sessions')
    <3>1. Len(sessions) \in Nat
      BY DEF ThreadsInv, TypesInv
    <3> QED
      BY <3>1, <1>1, <1>6 DEF ThreadsInv, SharedInv
  <2>3. \A p \in Requests : Turning(p)' => p # q /\ Turning(p)
    BY <1>5, <1>10 DEF Turning
  <2> QED
    BY <2>1, <2>2, <2>3, <1>5 DEF ThreadsInv, SharedInv
<1>13. WriterInv'
  <2> SUFFICES ASSUME NEW s \in DOMAIN sessions, sessions[s].id \notin reborn
               PROVE  runtime'[<<sessions[s].id, 1>>].io = s
    BY <1>1 DEF WriterInv
  <2>1. sessions[s] \in Session
    BY DEF ThreadsInv, TypesInv
  <2>2. <<sessions[s].id, 1>> \in Runtimes
    BY <2>1, FirstRuntimes DEF Session
  <2>3. <<sessions[s].id, 1>> # r
    BY <1>2
  <2> QED
    BY <2>2, <2>3, <1>5 DEF ThreadsInv, WriterInv
<1>14. n.pc # "stream" /\ n.pc # "over"
  BY <1>3
<1>15. StreamInv'
  <2>1. \A p \in Requests, s \in DOMAIN sessions : Sent(p, s)' <=> Sent(p, s)
    BY <1>1 DEF Sent
  <2>2. \A s \in DOMAIN sessions : ~Sent(q, s)
    BY <1>1 DEF ThreadsInv, StreamInv
  <2> QED
    BY <2>1, <2>2, <1>1, <1>5 DEF ThreadsInv, StreamInv
<1>16. NoDeadHandout'
  BY <1>1, <1>6 DEF ThreadsInv, NoDeadHandout, Asked
<1>17. StartedTurnsAreHeard'
  <2> SUFFICES ASSUME NEW s \in DOMAIN sessions, NEW p \in sessions[s].begun, req'[p].pc = "stream"
               PROVE  \/ sessions[s].active = p /\ ~sessions[s].ending
                      \/ \E i \in DOMAIN sessions[s].events : sessions[s].events[i] = p
    BY <1>1 DEF StartedTurnsAreHeard
  <2>1. p \in Requests
    <3>1. sessions[s] \in Session
      BY DEF ThreadsInv, TypesInv
    <3> QED
      BY <3>1 DEF Session
  <2>2. req[p].pc = "stream"
    BY <2>1, <1>5, <1>14
  <2> QED
    BY <2>2 DEF ThreadsInv, StartedTurnsAreHeard
<1> QED
  BY <1>7, <1>11, <1>12, <1>13, <1>15, <1>16, <1>17 DEF ThreadsInv

\* A session whose inbox, turn or queue changes.
LEMMA SessionChanges ==
  ASSUME TypesInv, NEW s \in DOMAIN sessions, NEW m \in Session, m.id = sessions[s].id,
         sessions' = [sessions EXCEPT ![s] = m]
  PROVE  /\ sessions' \in Seq(Session) /\ Len(sessions') = Len(sessions)
         /\ DOMAIN sessions' = DOMAIN sessions /\ sessions'[s] = m
         /\ \A i \in DOMAIN sessions : i # s => sessions'[i] = sessions[i]
         /\ \A i \in DOMAIN sessions : sessions'[i].id = sessions[i].id
<1>1. sessions \in Seq(Session)
  BY DEF TypesInv
<1>2. /\ sessions' \in Seq(Session) /\ Len(sessions') = Len(sessions)
      /\ DOMAIN sessions' = DOMAIN sessions
  BY <1>1, ExceptSeq
<1>3. sessions'[s] = m /\ \A i \in DOMAIN sessions : i # s => sessions'[i] = sessions[i]
  OBVIOUS
<1> QED
  BY <1>2, <1>3

\* A request that was given a session was given one that is there.
LEMMA GivenSession ==
  ASSUME ThreadsInv, NEW q \in Requests, Given(q)
  PROVE  req[q].io \in DOMAIN sessions /\ sessions[req[q].io] \in Session
<1>1. req[q] \in Request /\ sessions \in Seq(Session)
  BY DEF ThreadsInv, TypesInv
<1>2. req[q].io \in Nat /\ req[q].io # 0 /\ req[q].io <= Len(sessions)
  BY <1>1, FirstRuntimes DEF Request, SessionNumbers, ThreadsInv, RequestsInv, Owns
<1> QED
  BY <1>1, <1>2

\* The session that a runtime has is there.
LEMMA RuntimeSession ==
  ASSUME ThreadsInv, NEW r \in Runtimes, runtime[r].io # 0
  PROVE  runtime[r].io \in DOMAIN sessions
<1>1. runtime[r] \in Runtime /\ sessions \in Seq(Session)
  BY DEF ThreadsInv, TypesInv
<1>2. runtime[r].io \in Nat /\ runtime[r].io <= Len(sessions)
  BY <1>1, FirstRuntimes DEF Runtime, SessionNumbers, ThreadsInv, SharedInv
<1> QED
  BY <1>1, <1>2

\* A step of a session's loop or task: it asks for no stop that was not asked for, sends
\* nothing that was not sent, and loses no turn that a request streams.
LEMMA LoopStep ==
  ASSUME ThreadsInv, NEW s \in DOMAIN sessions, NEW m \in Session, m.id = sessions[s].id,
         sessions' = [sessions EXCEPT ![s] = m],
         UNCHANGED <<known, made, stored, runtime, req, reborn>>,
         m.ending => m.active # Nobody,
         Asked(s)' => Asked(s),
         \A p \in Requests : Sent(p, s)' => Sent(p, s),
         \A p \in m.begun : req[p].pc = "stream" =>
           \/ m.active = p /\ ~m.ending
           \/ \E i \in DOMAIN m.events : m.events[i] = p
  PROVE  ThreadsInv'
<1>1. TypesInv
  BY DEF ThreadsInv
<1>2. /\ sessions' \in Seq(Session) /\ Len(sessions') = Len(sessions)
      /\ DOMAIN sessions' = DOMAIN sessions /\ sessions'[s] = m
      /\ \A i \in DOMAIN sessions : i # s => sessions'[i] = sessions[i]
      /\ \A i \in DOMAIN sessions : sessions'[i].id = sessions[i].id
  BY <1>1, SessionChanges
<1>3. TypesInv' /\ KnownInv'
  BY <1>2 DEF ThreadsInv, TypesInv, KnownInv
<1>4. RequestsInv' /\ SharedInv'
  BY <1>2 DEF ThreadsInv, RequestsInv, SharedInv, Found, Locks, Owns, Given, Turning
<1>5. WriterInv'
  BY <1>2 DEF ThreadsInv, WriterInv
<1>6. StreamInv'
  <2>1. \A p \in Requests, i \in DOMAIN sessions : Sent(p, i)' => Sent(p, i)
    BY <1>2 DEF Sent
  <2>2. \A i \in DOMAIN sessions : sessions'[i].ending => sessions'[i].active # Nobody
    BY <1>2 DEF ThreadsInv, StreamInv
  <2> QED
    BY <2>1, <2>2, <1>2 DEF ThreadsInv, StreamInv
<1>7. NoDeadHandout'
  <2> SUFFICES ASSUME NEW r \in Runtimes, runtime[r].io # 0 PROVE ~Asked(runtime[r].io)'
    BY DEF NoDeadHandout
  <2>1. ~Asked(runtime[r].io)
    BY DEF ThreadsInv, NoDeadHandout
  <2>2. runtime[r].io \in DOMAIN sessions
    BY RuntimeSession
  <2>3. UNCHANGED runtime
    OBVIOUS
  <2>4. CASE runtime[r].io = s
    BY <2>1, <2>3, <2>4
  <2>5. CASE runtime[r].io # s
    BY <2>1, <2>2, <2>3, <2>5, <1>2 DEF Asked
  <2> QED
    BY <2>4, <2>5
<1>8. StartedTurnsAreHeard'
  <2> SUFFICES ASSUME NEW i \in DOMAIN sessions, NEW p \in sessions'[i].begun, req[p].pc = "stream"
               PROVE  \/ sessions'[i].active = p /\ ~sessions'[i].ending
                      \/ \E j \in DOMAIN sessions'[i].events : sessions'[i].events[j] = p
    BY <1>2 DEF StartedTurnsAreHeard
  <2>1. CASE i = s
    BY <2>1, <1>2
  <2>2. CASE i # s
    BY <2>2, <1>2 DEF ThreadsInv, StartedTurnsAreHeard
  <2> QED
    BY <2>1, <2>2
<1> QED
  BY <1>3, <1>4, <1>5, <1>6, <1>7, <1>8 DEF ThreadsInv

\* The session of two streams is one and the same only for one request.
LEMMA OneStream ==
  ASSUME ThreadsInv, NEW p \in Requests, NEW q \in Requests, req[p].pc = "stream",
         req[q].pc = "stream", req[p].io = req[q].io
  PROVE  p = q
<1>1. Found(p) /\ Found(q) /\ Locks(p) /\ Locks(q)
  BY DEF ThreadsInv, RequestsInv
<1>2. Turning(p) /\ Turning(q)
  BY <1>1 DEF Found, Turning
<1>3. req[p].rt = req[q].rt
  BY <1>2 DEF ThreadsInv, SharedInv
<1> QED
  BY <1>1, <1>2, <1>3 DEF Locks, Turning

\* A prompt goes into the inbox and its request listens; any other request is answered.
LEMMA SubmitKeeps ==
  ASSUME ThreadsInv, NEW q \in Requests, Submit(q)
  PROVE  ThreadsInv'
<1> DEFINE s == req[q].io  m == [sessions[s] EXCEPT !.inbox = <<req[q].op, q>>]
<1>1. /\ req[q] \in Request /\ req[q].pc = "submit" /\ ~sessions[s].stopped
      /\ sessions' = [sessions EXCEPT ![s] = m]
      /\ UNCHANGED <<known, made, stored, reborn>>
      /\ Found(q) /\ Locks(q) /\ Owns(q) /\ TypesInv /\ KnownInv
  BY DEF Submit, At, ThreadsInv, TypesInv, RequestsInv
<1>2. s \in DOMAIN sessions /\ sessions[s] \in Session
  BY <1>1, GivenSession DEF Given
<1>3. req[q].op \in {"turn", "interrupt", "other"}
  BY <1>1 DEF Found
<1>4. /\ m \in Session /\ m.id = sessions[s].id /\ m.inbox = <<req[q].op, q>>
      /\ m.stopped = sessions[s].stopped /\ m.active = sessions[s].active
      /\ m.ending = sessions[s].ending /\ m.events = sessions[s].events
      /\ m.begun = sessions[s].begun
  <2>1. <<req[q].op, q>> \in (Op \cup {"shutdown"}) \X Requests
    BY <1>3 DEF Op
  <2> QED
    BY <2>1, <1>2 DEF Session
<1> HIDE DEF m
<1>5. /\ sessions' \in Seq(Session) /\ Len(sessions') = Len(sessions)
      /\ DOMAIN sessions' = DOMAIN sessions /\ sessions'[s] = m
      /\ \A i \in DOMAIN sessions : i # s => sessions'[i] = sessions[i]
      /\ \A i \in DOMAIN sessions : sessions'[i].id = sessions[i].id
  BY <1>1, <1>2, <1>4, SessionChanges
<1>6. KnownInv' /\ known' \in [Ids -> Runtimes \cup {NoRuntime}]
      /\ made' \in [Ids -> 0 .. MaxRuntimes] /\ stored' \subseteq Ids /\ reborn' \subseteq Ids
  BY <1>1 DEF KnownInv, TypesInv
<1> DEFINE n == IF req[q].op = "turn" THEN [req[q] EXCEPT !.pc = "stream"]
                ELSE [NewRequest EXCEPT !.pc = "over"]
<1>7. /\ n \in Request /\ req' = [req EXCEPT ![q] = n]
      /\ req[q].op = "turn" => /\ n.pc = "stream" /\ n.op = "turn" /\ n.io = s
                               /\ n.rt = req[q].rt /\ n.id = req[q].id
      /\ req[q].op # "turn" => n.pc = "over" /\ n.io = 0
  <2>1. CASE req[q].op = "turn"
    BY <2>1, <1>1 DEF Submit, Goto, Request
  <2>2. CASE req[q].op # "turn"
    <3>1. req' = Over(q)
      BY <2>2 DEF Submit, Finish
    <3> QED
      BY <2>2, <3>1, OverIsTyped DEF Over
  <2> QED
    BY <2>1, <2>2
<1>8. /\ runtime' \in [Runtimes -> Runtime]
      /\ \A r \in Runtimes : /\ runtime'[r].io = runtime[r].io
                             /\ runtime'[r].mu = runtime[r].mu
                             /\ runtime[r].chatMu # q => runtime'[r].chatMu = runtime[r].chatMu
      /\ req[q].op = "turn" => runtime' = runtime
  <2>1. CASE req[q].op = "turn"
    BY <2>1, <1>1 DEF Submit, TypesInv
  <2>2. CASE req[q].op # "turn"
    <3>1. runtime' = Unlocked(q)
      BY <2>2 DEF Submit, Finish
    <3> QED
      BY <2>2, <3>1, <1>1, UnlockedLocks
  <2> QED
    BY <2>1, <2>2
<1> HIDE DEF n
<1>9. req'[q] = n
  BY <1>1, <1>7 DEF TypesInv
<1>10. Len(sessions) \in Nat
  BY <1>1 DEF TypesInv
<1>11. Found(q)' /\ Locks(q)'
  BY <1>1, <1>7, <1>8, <1>9 DEF Found, Locks
<1>12. (Turning(q)' => Turning(q)) /\ Owns(q)'
  BY <1>1, <1>5, <1>7, <1>8, <1>9, <1>10 DEF Owns, Given, Turning
<1>13. Turning(q)' => \A p \in Requests \ {q} :
                        Turning(p) /\ req[p].io = n.io => req[p].rt = n.rt
  <2>1. Turning(q)' => n.io = s /\ n.rt = req[q].rt
    BY <1>7, <1>9 DEF Turning
  <2> QED
    BY <2>1, <1>12 DEF ThreadsInv, SharedInv
<1>14. /\ TypesInv' /\ RequestsInv' /\ SharedInv' /\ WriterInv'
       /\ req'[q] = n /\ \A p \in Requests \ {q} : req'[p] = req[p]
  <2>1. Found(q)' /\ Locks(q)' /\ Owns(q)'
    BY <1>11, <1>12
  <2>2. reborn \subseteq reborn' /\ n \in Request
    BY <1>1, <1>7
  <2>3. StepOf(q, n)
    BY <1>5, <1>6, <1>7, <1>8, <1>13, <2>1, <2>2 DEF StepOf
  <2> QED
    BY <2>2, <2>3, RequestFrame
<1>15. \A i \in DOMAIN sessions : ~Sent(q, i)
  BY <1>1 DEF ThreadsInv, StreamInv
<1>16. StreamInv'
  <2>1. \A i \in DOMAIN sessions : sessions'[i].ending => sessions'[i].active # Nobody
    BY <1>4, <1>5 DEF ThreadsInv, StreamInv
  <2>2. ASSUME NEW i \in DOMAIN sessions, NEW p \in Requests, Sent(p, i)'
        PROVE  req'[p].pc = "over" \/ (req'[p].pc = "stream" /\ req'[p].io = i)
    <3>1. CASE p # q
      <4>1. <<req[q].op, q>> # <<"turn", p>>
        BY <3>1
      <4>2. Sent(p, i)
        BY <2>2, <4>1, <1>4, <1>5 DEF Sent
      <4> QED
        BY <3>1, <4>2, <1>14 DEF ThreadsInv, StreamInv
    <3>2. CASE p = q
      <4>1. i = s
        BY <3>2, <2>2, <1>5, <1>15 DEF Sent
      <4> QED
        BY <3>2, <4>1, <1>7, <1>9
    <3> QED
      BY <3>1, <3>2
  <2> QED
    BY <2>1, <2>2, <1>5 DEF StreamInv
<1>17. NoDeadHandout'
  <2> SUFFICES ASSUME NEW r \in Runtimes, runtime'[r].io # 0 PROVE ~Asked(runtime[r].io)'
    BY DEF NoDeadHandout
  <2>1. runtime'[r].io = runtime[r].io /\ runtime[r].io # 0
    BY <1>8
  <2>2. ~Asked(runtime[r].io) /\ runtime[r].io \in DOMAIN sessions
    BY <2>1, RuntimeSession DEF ThreadsInv, NoDeadHandout
  <2>3. CASE runtime[r].io = s
    <3>1. m.inbox[1] # "shutdown"
      BY <1>3, <1>4
    <3> QED
      BY <2>1, <2>3, <3>1, <1>1, <1>4, <1>5 DEF Asked
  <2>4. CASE runtime[r].io # s
    BY <2>1, <2>2, <2>4, <1>5 DEF Asked
  <2> QED
    BY <2>3, <2>4
<1>18. StartedTurnsAreHeard'
  <2> SUFFICES ASSUME NEW i \in DOMAIN sessions, NEW p \in sessions[i].begun, req'[p].pc = "stream"
               PROVE  \/ sessions[i].active = p /\ ~sessions[i].ending
                      \/ \E j \in DOMAIN sessions[i].events : sessions[i].events[j] = p
    BY <1>4, <1>5 DEF StartedTurnsAreHeard
  <2>1. p \in Requests
    <3>1. sessions[i] \in Session
      BY <1>1 DEF TypesInv
    <3> QED
      BY <3>1 DEF Session
  <2>2. p # q
    BY <1>15, <2>1 DEF Sent
  <2> QED
    BY <2>1, <2>2, <1>14 DEF ThreadsInv, StartedTurnsAreHeard
<1> QED
  BY <1>6, <1>14, <1>16, <1>17, <1>18 DEF ThreadsInv

\* A stream reads the next event; when it is another turn's, nobody streams that turn.
LEMMA NextEventKeeps ==
  ASSUME ThreadsInv, NEW q \in Requests, NextEvent(q)
  PROVE  ThreadsInv'
<1> DEFINE s == req[q].io  m == [sessions[s] EXCEPT !.events = Tail(@)]
<1>1. /\ req[q].pc = "stream" /\ sessions[s].events # <<>>
      /\ sessions' = [sessions EXCEPT ![s] = m] /\ UNCHANGED <<known, made, stored, reborn>>
      /\ TypesInv /\ KnownInv /\ Found(q)
  BY DEF NextEvent, At, ThreadsInv, RequestsInv
<1>2. s \in DOMAIN sessions /\ sessions[s] \in Session
  BY <1>1, GivenSession DEF Given, Turning, Found
<1>3. /\ sessions[s].events \in Seq(Requests) /\ Head(sessions[s].events) = sessions[s].events[1]
      /\ Tail(sessions[s].events) \in Seq(Requests)
      /\ \A i \in DOMAIN sessions[s].events : i # 1 =>
           /\ i - 1 \in DOMAIN Tail(sessions[s].events)
           /\ Tail(sessions[s].events)[i - 1] = sessions[s].events[i]
  <2>1. sessions[s].events \in Seq(Requests)
    BY <1>2 DEF Session
  <2> DEFINE e == sessions[s].events  t == Tail(e)
  <2>2. e \in Seq(Requests) /\ e # <<>>
    BY <2>1, <1>1
  <2> HIDE DEF e
  <2>3. Head(e) = e[1]
    BY <2>2
  <2>4. /\ t \in Seq(Requests) /\ Len(t) = Len(e) - 1
        /\ \A i \in 1 .. Len(t) : t[i] = e[i + 1]
    BY <2>2, HeadTailProperties
  <2> HIDE DEF t
  <2>5. Len(e) \in Nat /\ DOMAIN e = 1 .. Len(e) /\ DOMAIN t = 1 .. Len(e) - 1
    BY <2>2, <2>4
  <2>6. ASSUME NEW i \in DOMAIN e, i # 1 PROVE i - 1 \in DOMAIN t /\ t[i - 1] = e[i]
    <3>1. i - 1 \in 1 .. Len(t) /\ i = (i - 1) + 1
      BY <2>4, <2>5, <2>6
    <3>2. t[i - 1] = e[(i - 1) + 1]
      BY <2>4, <3>1
    <3> QED
      BY <2>4, <2>5, <3>1, <3>2
  <2> QED
    BY <2>2, <2>3, <2>4, <2>6 DEF e, t
<1>4. /\ m \in Session /\ m.id = sessions[s].id /\ m.inbox = sessions[s].inbox
      /\ m.stopped = sessions[s].stopped /\ m.active = sessions[s].active
      /\ m.ending = sessions[s].ending /\ m.events = Tail(sessions[s].events)
      /\ m.begun = sessions[s].begun
  BY <1>2, <1>3 DEF Session
<1> HIDE DEF m
<1>5. /\ sessions' \in Seq(Session) /\ Len(sessions') = Len(sessions)
      /\ DOMAIN sessions' = DOMAIN sessions /\ sessions'[s] = m
      /\ \A i \in DOMAIN sessions : i # s => sessions'[i] = sessions[i]
      /\ \A i \in DOMAIN sessions : sessions'[i].id = sessions[i].id
  BY <1>1, <1>2, <1>4, SessionChanges
<1>6. \A p \in Requests, i \in DOMAIN sessions : Sent(p, i)' <=> Sent(p, i)
  BY <1>4, <1>5 DEF Sent
<1>7. \A i \in DOMAIN sessions : Asked(i)' <=> Asked(i)
  BY <1>4, <1>5 DEF Asked
<1>8. ASSUME NEW p \in sessions[s].begun, req[p].pc = "stream", p # Head(sessions[s].events)
      PROVE  \/ m.active = p /\ ~m.ending
             \/ \E i \in DOMAIN m.events : m.events[i] = p
  <2>1. CASE sessions[s].active = p /\ ~sessions[s].ending
    BY <2>1, <1>4
  <2>2. CASE \E i \in DOMAIN sessions[s].events : sessions[s].events[i] = p
    <3>1. PICK i \in DOMAIN sessions[s].events : sessions[s].events[i] = p
      BY <2>2
    <3>2. i # 1
      BY <3>1, <1>3, <1>8
    <3> QED
      BY <3>1, <3>2, <1>3, <1>4
  <2> QED
    BY <2>1, <2>2, <1>2, <1>8 DEF ThreadsInv, StartedTurnsAreHeard
<1>9. CASE Head(sessions[s].events) # q
  <2>1. UNCHANGED <<runtime, req>>
    BY <1>9 DEF NextEvent
  <2>2. ASSUME NEW p \in m.begun, req[p].pc = "stream" PROVE p # Head(sessions[s].events)
    <3>1. p \in Requests
      BY <1>2, <1>4 DEF Session
    <3>2. req[p].io = s
      BY <3>1, <2>2, <1>2, <1>4 DEF ThreadsInv, StreamInv, Sent
    <3>3. p = q
      BY <3>1, <3>2, <2>2, <1>1, OneStream
    <3> QED
      BY <3>3, <1>9
  <2>3. m.ending => m.active # Nobody
    BY <1>2, <1>4 DEF ThreadsInv, StreamInv
  <2> HIDE DEF s
  <2>4. \A p \in m.begun : req[p].pc = "stream" =>
           \/ m.active = p /\ ~m.ending
           \/ \E i \in DOMAIN m.events : m.events[i] = p
    BY <2>2, <1>4, <1>8
  <2> QED
    BY <2>1, <2>3, <2>4, <1>1, <1>2, <1>4, <1>6, <1>7, LoopStep
<1>10. CASE Head(sessions[s].events) = q
  <2> DEFINE n == [NewRequest EXCEPT !.pc = "over"]
  <2>1. n \in Request /\ n.pc = "over" /\ n.io = 0
    BY OverIsTyped
  <2>2. req' = [req EXCEPT ![q] = n] /\ runtime' = Unlocked(q)
    BY <1>10 DEF NextEvent, Finish, Over
  <2> HIDE DEF n
  <2>3. /\ runtime' \in [Runtimes -> Runtime]
        /\ \A r \in Runtimes : /\ runtime'[r].io = runtime[r].io
                               /\ runtime'[r].mu = runtime[r].mu
                               /\ runtime[r].chatMu # q => runtime'[r].chatMu = runtime[r].chatMu
    BY <2>2, <1>1, UnlockedLocks
  <2>4. req'[q] = n /\ Len(sessions) \in Nat
    BY <2>2, <1>1 DEF TypesInv
  <2>5. Found(q)' /\ Locks(q)' /\ Owns(q)' /\ ~Turning(q)'
    BY <2>1, <2>4, <1>5 DEF Found, Locks, Owns, Given, Turning
  <2>6. KnownInv' /\ known' \in [Ids -> Runtimes \cup {NoRuntime}]
        /\ made' \in [Ids -> 0 .. MaxRuntimes] /\ stored' \subseteq Ids /\ reborn' \subseteq Ids
    BY <1>1 DEF KnownInv, TypesInv
  <2>7. /\ TypesInv' /\ RequestsInv' /\ SharedInv' /\ WriterInv'
        /\ req'[q] = n /\ \A p \in Requests \ {q} : req'[p] = req[p]
    <3>1. reborn \subseteq reborn' /\ n \in Request
      BY <1>1, <2>1
    <3>2. StepOf(q, n)
      BY <1>5, <2>2, <2>3, <2>5, <2>6, <3>1 DEF StepOf
    <3> QED
      BY <3>1, <3>2, RequestFrame
  <2>8. StreamInv'
    <3>1. \A i \in DOMAIN sessions : sessions'[i].ending => sessions'[i].active # Nobody
      BY <1>4, <1>5 DEF ThreadsInv, StreamInv
    <3> QED
      BY <3>1, <2>1, <2>7, <1>5, <1>6 DEF ThreadsInv, StreamInv
  <2>9. NoDeadHandout'
    <3> SUFFICES ASSUME NEW r \in Runtimes, runtime'[r].io # 0 PROVE ~Asked(runtime[r].io)'
      BY DEF NoDeadHandout
    <3>1. runtime'[r].io = runtime[r].io /\ runtime[r].io \in DOMAIN sessions
      BY <2>3, RuntimeSession
    <3>2. ~Asked(runtime[r].io)
      BY <3>1, <2>3 DEF ThreadsInv, NoDeadHandout
    <3>3. runtime[r].io = s => sessions'[runtime'[r].io] = m
      BY <3>1, <1>5
    <3>4. runtime[r].io # s => sessions'[runtime'[r].io] = sessions[runtime[r].io]
      BY <3>1, <1>5
    <3> QED
      BY <3>1, <3>2, <3>3, <3>4, <1>4 DEF Asked
  <2>10. StartedTurnsAreHeard'
    <3> SUFFICES ASSUME NEW i \in DOMAIN sessions, NEW p \in sessions[i].begun, req'[p].pc = "stream"
                 PROVE  \/ sessions'[i].active = p /\ ~sessions'[i].ending
                        \/ \E j \in DOMAIN sessions'[i].events : sessions'[i].events[j] = p
      BY <1>4, <1>5 DEF StartedTurnsAreHeard
    <3>1. p \in Requests
      <4>1. sessions[i] \in Session
        BY <1>1 DEF TypesInv
      <4> QED
        BY <4>1 DEF Session
    <3>2. p # q /\ req[p].pc = "stream"
      BY <3>1, <2>1, <2>7
    <3>3. CASE i = s
      BY <3>2, <3>3, <1>5, <1>8, <1>10
    <3>4. CASE i # s
      BY <3>2, <3>4, <1>5 DEF ThreadsInv, StartedTurnsAreHeard
    <3> QED
      BY <3>3, <3>4
  <2> QED
    BY <2>6, <2>7, <2>8, <2>9, <2>10 DEF ThreadsInv
<1> QED
  BY <1>9, <1>10

\* The loop's abort queues the end of the turn that it stops, unless the task has.
LEMMA AbortedIsHeard ==
  ASSUME NEW s \in DOMAIN sessions, sessions[s] \in Session,
         NEW m, m = Aborted(s)
  PROVE  /\ m \in Session /\ m.id = sessions[s].id /\ m.inbox = <<>> /\ ~m.ending
         /\ m.stopped = sessions[s].stopped /\ m.begun = sessions[s].begun
         /\ \A p \in Requests :
              \/ sessions[s].active = p /\ ~sessions[s].ending
              \/ \E i \in DOMAIN sessions[s].events : sessions[s].events[i] = p
              => \E i \in DOMAIN m.events : m.events[i] = p
<1> DEFINE old == sessions[s].events
           new == IF sessions[s].active # Nobody /\ ~sessions[s].ending
                  THEN Append(old, sessions[s].active) ELSE old
<1>1. old \in Seq(Requests) /\ sessions[s].active \in Requests \cup {Nobody}
  BY DEF Session
<1>2. /\ new \in Seq(Requests) /\ \A i \in DOMAIN old : i \in DOMAIN new /\ new[i] = old[i]
      /\ sessions[s].active # Nobody /\ ~sessions[s].ending =>
           \E i \in DOMAIN new : new[i] = sessions[s].active
  <2>1. CASE sessions[s].active # Nobody /\ ~sessions[s].ending
    <3>1. /\ new \in Seq(Requests) /\ Len(new) = Len(old) + 1
          /\ \A i \in 1 .. Len(old) : new[i] = old[i]
          /\ new[Len(old) + 1] = sessions[s].active
      BY <2>1, <1>1, AppendProperties
    <3>2. Len(old) \in Nat /\ DOMAIN old = 1 .. Len(old) /\ DOMAIN new = 1 .. Len(old) + 1
      BY <1>1, <3>1
    <3> HIDE DEF old, new
    <3>3. Len(old) + 1 \in DOMAIN new /\ \A i \in DOMAIN old : i \in DOMAIN new
      BY <3>2
    <3> QED
      BY <3>1, <3>2, <3>3
  <2>2. CASE ~(sessions[s].active # Nobody /\ ~sessions[s].ending)
    BY <2>2, <1>1
  <2> QED
    BY <2>1, <2>2
<1>3. m = [sessions[s] EXCEPT !.inbox = <<>>, !.active = Nobody, !.ending = FALSE, !.events = new]
  BY DEF Aborted
<1> HIDE DEF new
<1>4. /\ m \in Session /\ m.id = sessions[s].id /\ m.inbox = <<>> /\ ~m.ending
      /\ m.stopped = sessions[s].stopped /\ m.begun = sessions[s].begun /\ m.events = new
  BY <1>2, <1>3 DEF Session
<1>5. \A p \in Requests : p # Nobody
  BY FirstRuntimes
<1> QED
  BY <1>2, <1>4, <1>5

\* The loop begins a turn, steers it, stops it or stops for good.
LEMMA HandleKeeps ==
  ASSUME ThreadsInv, NEW s \in DOMAIN sessions, Handle(s)
  PROVE  ThreadsInv'
<1> DEFINE op == sessions[s].inbox[1]  q == sessions[s].inbox[2]
           begins == Prompted(s, q)
           m == CASE op = "turn" -> begins
                  [] op = "interrupt" -> Aborted(s)
                  [] op = "shutdown" -> [Aborted(s) EXCEPT !.stopped = TRUE]
                  [] OTHER -> [sessions[s] EXCEPT !.inbox = <<>>]
<1>1. /\ sessions[s].inbox # <<>> /\ sessions' = [sessions EXCEPT ![s] = m]
      /\ UNCHANGED <<known, made, stored, runtime, req, reborn>> /\ TypesInv
  <2>1. sessions' = [sessions EXCEPT ![s] = m]
    BY DEF Handle
  <2> QED
    BY <2>1 DEF Handle, ThreadsInv
<1>2. sessions[s] \in Session
  BY <1>1 DEF TypesInv
<1>3. sessions[s].inbox = <<op, q>> /\ q \in Requests
  <2>1. sessions[s].inbox \in (Op \cup {"shutdown"}) \X Requests
    BY <1>1, <1>2 DEF Session
  <2> QED
    BY <2>1
<1> HIDE DEF op, q
<1>4. sessions[s].ending => sessions[s].active # Nobody
  BY DEF ThreadsInv, StreamInv
<1>5. \A p \in sessions[s].begun : req[p].pc = "stream" =>
        \/ sessions[s].active = p /\ ~sessions[s].ending
        \/ \E i \in DOMAIN sessions[s].events : sessions[s].events[i] = p
  BY DEF ThreadsInv, StartedTurnsAreHeard
<1>6. Asked(s) <=> sessions[s].stopped \/ op = "shutdown"
  BY <1>1, <1>3 DEF Asked
<1>7. sessions[s].begun \subseteq Requests
  BY <1>2 DEF Session
<1>8. /\ m \in Session /\ m.id = sessions[s].id /\ m.inbox = <<>>
      /\ m.ending => m.active # Nobody
      /\ m.stopped => sessions[s].stopped \/ op = "shutdown"
      /\ m.begun \subseteq sessions[s].begun \cup IF op = "turn" THEN {q} ELSE {}
      /\ \A p \in m.begun : req[p].pc = "stream" =>
           \/ m.active = p /\ ~m.ending
           \/ \E i \in DOMAIN m.events : m.events[i] = p
  <2>1. CASE op = "turn"
    <3>1. m = begins
      BY <2>1
    <3>2. /\ begins \in Session /\ begins.id = sessions[s].id /\ begins.inbox = <<>>
          /\ begins.stopped = sessions[s].stopped /\ begins.ending = sessions[s].ending
          /\ begins.events = sessions[s].events
          /\ sessions[s].active = Nobody => begins.active = q /\ begins.begun = sessions[s].begun \cup {q}
          /\ sessions[s].active # Nobody => /\ begins.active = sessions[s].active
                                            /\ begins.begun = sessions[s].begun
      BY <1>2, <1>3 DEF Prompted, Session
    <3> HIDE DEF begins
    <3>3. \A p \in Requests : p # Nobody
      BY FirstRuntimes
    <3>4. ASSUME NEW p \in begins.begun, req[p].pc = "stream"
          PROVE  \/ begins.active = p /\ ~begins.ending
                 \/ \E i \in DOMAIN begins.events : begins.events[i] = p
      <4>1. CASE sessions[s].active = Nobody /\ p = q
        BY <4>1, <3>2, <1>4
      <4>2. CASE ~(sessions[s].active = Nobody /\ p = q)
        <5>1. p \in sessions[s].begun /\ p \in Requests
          BY <4>2, <3>2, <3>4, <1>7
        <5> QED
          BY <5>1, <3>2, <3>3, <3>4, <1>5
      <4> QED
        BY <4>1, <4>2
    <3>5. begins.ending => begins.active # Nobody
      BY <3>2, <1>4
    <3>6. begins.begun \subseteq sessions[s].begun \cup {q}
      BY <3>2
    <3> QED
      BY <2>1, <3>1, <3>2, <3>4, <3>5, <3>6
  <2>2. CASE op \in {"interrupt", "shutdown"}
    <3> DEFINE a == Aborted(s)
    <3>1. /\ a \in Session /\ a.id = sessions[s].id /\ a.inbox = <<>> /\ ~a.ending
          /\ a.stopped = sessions[s].stopped /\ a.begun = sessions[s].begun
          /\ \A p \in Requests :
               \/ sessions[s].active = p /\ ~sessions[s].ending
               \/ \E i \in DOMAIN sessions[s].events : sessions[s].events[i] = p
               => \E i \in DOMAIN a.events : a.events[i] = p
      BY <1>2, AbortedIsHeard
    <3>2. m = IF op = "shutdown" THEN [a EXCEPT !.stopped = TRUE] ELSE a
      BY <2>2
    <3> HIDE DEF a, m
    <3>3. /\ m \in Session /\ m.id = sessions[s].id /\ m.inbox = <<>> /\ ~m.ending
          /\ m.begun = sessions[s].begun /\ m.events = a.events
          /\ m.stopped => sessions[s].stopped \/ op = "shutdown"
      BY <3>1, <3>2 DEF Session
    <3> QED
      BY <2>2, <3>1, <3>3, <1>5, <1>7
  <2>3. CASE op \notin {"turn", "interrupt", "shutdown"}
    <3>1. m = [sessions[s] EXCEPT !.inbox = <<>>]
      BY <2>3
    <3> HIDE DEF m
    <3>2. /\ m \in Session /\ m.id = sessions[s].id /\ m.inbox = <<>>
          /\ m.stopped = sessions[s].stopped /\ m.active = sessions[s].active
          /\ m.ending = sessions[s].ending /\ m.events = sessions[s].events
          /\ m.begun = sessions[s].begun
      BY <3>1, <1>2 DEF Session
    <3> QED
      BY <2>3, <3>2, <1>4, <1>5
  <2> QED
    BY <2>1, <2>2, <2>3
<1> HIDE DEF m
<1>9. sessions'[s] = m
  BY <1>1
<1>10. Asked(s)' => Asked(s)
  BY <1>6, <1>8, <1>9 DEF Asked
<1>11. ASSUME NEW p \in Requests, Sent(p, s)' PROVE Sent(p, s)
  <2>1. <<>> # <<"turn", p>>
    OBVIOUS
  <2>2. p \in m.begun
    BY <2>1, <1>8, <1>9, <1>11 DEF Sent
  <2>3. CASE p \in sessions[s].begun
    BY <2>3 DEF Sent
  <2>4. CASE op = "turn" /\ p = q
    BY <2>4, <1>3 DEF Sent
  <2> QED
    BY <2>2, <2>3, <2>4, <1>8
<1> QED
  BY <1>1, <1>8, <1>10, <1>11, LoopStep

\* The task queues its terminal event, then clears what was active.
LEMMA TurnEndsKeeps ==
  ASSUME ThreadsInv, NEW s \in DOMAIN sessions, TurnEnds(s)
  PROVE  ThreadsInv'
<1> DEFINE old == sessions[s].events  a == sessions[s].active
           m == [sessions[s] EXCEPT !.ending = TRUE, !.events = Append(@, sessions[s].active)]
<1>1. /\ a # Nobody /\ sessions' = [sessions EXCEPT ![s] = m]
      /\ UNCHANGED <<known, made, stored, runtime, req, reborn>>
  BY DEF TurnEnds
<1>2. sessions[s] \in Session
  BY DEF ThreadsInv, TypesInv
<1>3. a \in Requests /\ old \in Seq(Requests)
  BY <1>1, <1>2 DEF Session
<1>4. /\ Append(old, a) \in Seq(Requests) /\ Len(Append(old, a)) = Len(old) + 1
      /\ \A i \in 1 .. Len(old) : Append(old, a)[i] = old[i]
      /\ Append(old, a)[Len(old) + 1] = a
  BY <1>3, AppendProperties
<1>5. /\ m \in Session /\ m.id = sessions[s].id /\ m.inbox = sessions[s].inbox
      /\ m.stopped = sessions[s].stopped /\ m.active = a /\ m.begun = sessions[s].begun
      /\ m.events = Append(old, a)
  BY <1>2, <1>4 DEF Session
<1> HIDE DEF m
<1>6. \A p \in Requests :
        \/ p = a
        \/ \E i \in DOMAIN old : old[i] = p
        => \E i \in DOMAIN m.events : m.events[i] = p
  <2>1. Len(old) \in Nat /\ DOMAIN old = 1 .. Len(old) /\ DOMAIN m.events = 1 .. Len(old) + 1
    BY <1>3, <1>4, <1>5
  <2> HIDE DEF old, a
  <2>2. Len(old) + 1 \in DOMAIN m.events /\ \A i \in DOMAIN old : i \in DOMAIN m.events
    BY <2>1
  <2> QED
    BY <1>4, <1>5, <2>1, <2>2
<1>7. \A p \in m.begun : req[p].pc = "stream" => \E i \in DOMAIN m.events : m.events[i] = p
  <2>1. m.begun \subseteq Requests
    BY <1>5 DEF Session
  <2> QED
    BY <2>1, <1>5, <1>6 DEF ThreadsInv, StartedTurnsAreHeard
<1>8. sessions'[s] = m
  BY <1>1
<1>9. (Asked(s)' => Asked(s)) /\ \A p \in Requests : Sent(p, s)' => Sent(p, s)
  BY <1>5, <1>8 DEF Asked, Sent
<1> QED
  BY <1>1, <1>5, <1>7, <1>9, LoopStep

\* ... which it had queued the end of before.
LEMMA TurnClearsKeeps ==
  ASSUME ThreadsInv, NEW s \in DOMAIN sessions, TurnClears(s)
  PROVE  ThreadsInv'
<1> DEFINE m == [sessions[s] EXCEPT !.ending = FALSE, !.active = Nobody]
<1>1. /\ sessions[s].ending /\ sessions' = [sessions EXCEPT ![s] = m]
      /\ UNCHANGED <<known, made, stored, runtime, req, reborn>>
  BY DEF TurnClears
<1>2. sessions[s] \in Session
  BY DEF ThreadsInv, TypesInv
<1>3. /\ m \in Session /\ m.id = sessions[s].id /\ m.inbox = sessions[s].inbox /\ ~m.ending
      /\ m.stopped = sessions[s].stopped /\ m.begun = sessions[s].begun
      /\ m.events = sessions[s].events
  BY <1>2 DEF Session
<1> HIDE DEF m
<1>4. \A p \in m.begun : req[p].pc = "stream" => \E i \in DOMAIN m.events : m.events[i] = p
  BY <1>1, <1>3 DEF ThreadsInv, StartedTurnsAreHeard
<1>5. sessions'[s] = m
  BY <1>1
<1>6. (Asked(s)' => Asked(s)) /\ \A p \in Requests : Sent(p, s)' => Sent(p, s)
  BY <1>3, <1>5 DEF Asked, Sent
<1> QED
  BY <1>1, <1>3, <1>4, <1>6, LoopStep

\* A request that only reads, or whose client leaves.
LEMMA LeaveKeeps ==
  ASSUME ThreadsInv, NEW q \in Requests, ReadStored(q) \/ GiveUp(q)
  PROVE  ThreadsInv'
<1>1. Finish(q) /\ UNCHANGED <<known, made, stored, sessions, reborn>>
  BY DEF ReadStored, GiveUp
<1>2. /\ known' \in [Ids -> Runtimes \cup {NoRuntime}] /\ made' \in [Ids -> 0 .. MaxRuntimes]
      /\ stored' \subseteq Ids /\ reborn' \subseteq Ids /\ KnownInv'
  BY <1>1 DEF ThreadsInv, TypesInv, KnownInv
<1> QED
  BY <1>1, <1>2, FinishKeeps

\* A new file, for which a runtime object is still to come.
LEMMA CreateKeeps ==
  ASSUME ThreadsInv, NEW q \in Requests, NEW t \in Ids, At(q, "new") \/ At(q, "create"),
         Create(q, t)
  PROVE  ThreadsInv'
<1> DEFINE n == [req[q] EXCEPT !.pc = "insert", !.op = "start", !.ids = {t}]
<1>1. /\ req[q] \in Request /\ req[q].pc \in {"new", "create"} /\ req' = [req EXCEPT ![q] = n]
      /\ stored' = stored \cup {t} /\ UNCHANGED <<known, made, runtime, sessions, reborn>>
      /\ Owns(q)
  BY DEF Create, At, ThreadsInv, TypesInv, RequestsInv
<1>2. n \in Request /\ n.pc = "insert" /\ n.op = "start" /\ n.io = req[q].io
  BY <1>1 DEF Request, Op
<1> HIDE DEF n
<1>3. req'[q] = n
  BY <1>1 DEF ThreadsInv, TypesInv
<1>4. Found(q)' /\ Locks(q)' /\ Owns(q)' /\ ~Turning(q)'
  BY <1>1, <1>2, <1>3 DEF Found, Locks, Owns, Given, Turning
<1>5. /\ known' \in [Ids -> Runtimes \cup {NoRuntime}] /\ made' \in [Ids -> 0 .. MaxRuntimes]
      /\ stored' \subseteq Ids /\ reborn' \subseteq Ids /\ KnownInv'
      /\ runtime' \in [Runtimes -> Runtime]
  BY <1>1 DEF ThreadsInv, TypesInv, KnownInv
<1> QED
  BY <1>1, <1>2, <1>4, <1>5, RequestStep

\* A fork that fails takes its file away.
LEMMA ForkFailsKeeps ==
  ASSUME ThreadsInv, NEW q \in Requests, ForkFails(q)
  PROVE  ThreadsInv'
<1>1. Finish(q) /\ stored' \subseteq stored /\ UNCHANGED <<known, made, sessions, reborn>>
  BY DEF ForkFails
<1>2. /\ known' \in [Ids -> Runtimes \cup {NoRuntime}] /\ made' \in [Ids -> 0 .. MaxRuntimes]
      /\ stored' \subseteq Ids /\ reborn' \subseteq Ids /\ KnownInv'
  BY <1>1 DEF ThreadsInv, TypesInv, KnownInv
<1> QED
  BY <1>1, <1>2, FinishKeeps

\* A list reads the files before it looks for their runtimes.
LEMMA ListThreadsKeeps ==
  ASSUME ThreadsInv, NEW q \in Requests, ListThreads(q)
  PROVE  ThreadsInv'
<1> DEFINE n == [req[q] EXCEPT !.pc = "insert", !.op = "list", !.ids = stored]
<1>1. /\ req[q] \in Request /\ req[q].pc = "new" /\ req' = [req EXCEPT ![q] = n]
      /\ stored \subseteq Ids /\ Owns(q)
      /\ UNCHANGED <<known, made, stored, runtime, sessions, reborn>>
  BY DEF ListThreads, At, ThreadsInv, TypesInv, RequestsInv
<1>2. n \in Request /\ n.pc = "insert" /\ n.op = "list" /\ n.io = req[q].io
  BY <1>1 DEF Request, Op
<1> HIDE DEF n
<1>3. req'[q] = n
  BY <1>1 DEF ThreadsInv, TypesInv
<1>4. Found(q)' /\ Locks(q)' /\ Owns(q)' /\ ~Turning(q)'
  BY <1>1, <1>2, <1>3 DEF Found, Locks, Owns, Given, Turning
<1> QED
  BY <1>1, <1>2, <1>4, AloneKeeps

\* An id that gets a runtime object while it has one is reborn; the first object of any
\* other id is its first.
LEMMA InsertRuntimesKeeps ==
  ASSUME ThreadsInv, NEW q \in Requests, InsertRuntimes(q)
  PROVE  ThreadsInv'
<1> DEFINE ids == IF req[q].op = "list"
                  THEN {t \in req[q].ids : known[t] = NoRuntime} ELSE req[q].ids
<1>1. /\ req[q] \in Request /\ Insert(ids) /\ Finish(q) /\ UNCHANGED <<stored, sessions>>
      /\ reborn' = reborn \cup {t \in ids : known[t] # NoRuntime}
  BY DEF InsertRuntimes, ThreadsInv, TypesInv
<1>2. ids \subseteq Ids
  BY <1>1 DEF Request
<1> HIDE DEF ids
<1>3. /\ known \in [Ids -> Runtimes \cup {NoRuntime}] /\ made \in [Ids -> 0 .. MaxRuntimes]
      /\ stored \subseteq Ids /\ reborn \subseteq Ids /\ KnownInv /\ MaxRuntimes \in Nat
  BY FirstRuntimes DEF ThreadsInv, TypesInv
<1>4. \A t \in Ids : /\ t \in ids => made'[t] = made[t] + 1 /\ made[t] < MaxRuntimes
                     /\ t \notin ids => made'[t] = made[t]
  BY <1>1, <1>2 DEF Insert, Room
<1>5. \A t \in Ids : known'[t] = IF t \in ids THEN <<t, made'[t]>> ELSE known[t]
  BY <1>1 DEF Insert
<1>6. made' \in [Ids -> 0 .. MaxRuntimes]
  <2>1. \A t \in Ids : made'[t] \in 0 .. MaxRuntimes
    BY <1>3, <1>4
  <2>2. made' = [t \in Ids |-> made'[t]]
    BY <1>1 DEF Insert
  <2> QED
    BY <2>1, <2>2
<1>7. known' \in [Ids -> Runtimes \cup {NoRuntime}]
  <2>1. ASSUME NEW t \in ids PROVE <<t, made'[t]>> \in Runtimes
    <3>1. made'[t] \in 1 .. MaxRuntimes
      BY <1>2, <1>3, <1>4
    <3> QED
      BY <3>1, <1>2 DEF Runtimes
  <2>2. \A t \in Ids : known'[t] \in Runtimes \cup {NoRuntime}
    BY <2>1, <1>3, <1>5
  <2>3. known' = [t \in Ids |-> known'[t]]
    BY <1>1 DEF Insert
  <2> QED
    BY <2>2, <2>3
<1>8. KnownInv'
  <2> SUFFICES ASSUME NEW t \in Ids
               PROVE  /\ known'[t] # NoRuntime => known'[t][1] = t
                      /\ t \notin reborn' => known'[t] = IF made'[t] = 0 THEN NoRuntime ELSE <<t, 1>>
                      /\ t \notin reborn' => made'[t] <= 1
    BY DEF KnownInv
  <2>1. CASE t \notin ids
    <3>1. known'[t] = known[t] /\ made'[t] = made[t] /\ (t \notin reborn' => t \notin reborn)
      BY <2>1, <1>1, <1>4, <1>5
    <3> QED
      BY <3>1, <1>3 DEF KnownInv
  <2>2. CASE t \in ids
    <3>1. known'[t] = <<t, made'[t]>> /\ made'[t] = made[t] + 1 /\ made[t] \in Nat
      <4>1. made[t] \in 0 .. MaxRuntimes
        BY <1>3
      <4>2. known'[t] = <<t, made'[t]>> /\ made'[t] = made[t] + 1
        BY <2>2, <1>4, <1>5
      <4> QED
        BY <4>1, <4>2, <1>3
    <3>2. ASSUME t \notin reborn' PROVE made[t] = 0
      <4>1. known[t] = NoRuntime /\ t \notin reborn
        BY <2>2, <3>2, <1>1
      <4>2. <<t, 1>> # NoRuntime
        BY FirstRuntimes
      <4> QED
        BY <4>1, <4>2, <1>3 DEF KnownInv
    <3> QED
      BY <3>1, <3>2
  <2> QED
    BY <2>1, <2>2
<1>9. reborn \subseteq reborn' /\ reborn' \subseteq Ids /\ stored' \subseteq Ids
  BY <1>1, <1>2, <1>3
<1> QED
  BY <1>1, <1>6, <1>7, <1>8, <1>9, FinishKeeps

\* A removal marks the ids before it takes their sessions.
LEMMA ForgetKeeps ==
  ASSUME ThreadsInv, NEW q \in Requests, NEW op \in {"remove", "workspace"},
         NEW ids \in SUBSET Ids, Forget(q, op, ids)
  PROVE  ThreadsInv'
<1> DEFINE n == [req[q] EXCEPT !.pc = "take", !.op = op,
                               !.ids = {t \in ids : known[t] # NoRuntime},
                               !.rts = {known[t] : t \in ids} \ {NoRuntime}]
<1>1. /\ req[q] \in Request /\ req[q].pc = "new" /\ req' = [req EXCEPT ![q] = n]
      /\ known' = [t \in Ids |-> IF t \in ids \ {Default} THEN NoRuntime ELSE known[t]]
      /\ reborn' = reborn \cup ids /\ UNCHANGED <<made, stored, runtime, sessions>> /\ Owns(q)
  BY DEF Forget, At, ThreadsInv, TypesInv, RequestsInv
<1>2. known \in [Ids -> Runtimes \cup {NoRuntime}] /\ KnownInv
  BY DEF ThreadsInv, TypesInv
<1>3. {known[t] : t \in ids} \ {NoRuntime} \in SUBSET Runtimes
  BY <1>2
<1>4. \A r \in {known[t] : t \in ids} \ {NoRuntime} : r[1] \in ids
  BY <1>2 DEF KnownInv
<1>5. /\ n \in Request /\ n.pc = "take" /\ n.op = op /\ n.io = req[q].io
      /\ n.rts = {known[t] : t \in ids} \ {NoRuntime}
  BY <1>1, <1>3 DEF Request, Op
<1> HIDE DEF n
<1>6. req'[q] = n
  BY <1>1 DEF ThreadsInv, TypesInv
<1>7. Found(q)' /\ Locks(q)' /\ Owns(q)' /\ ~Turning(q)'
  BY <1>1, <1>4, <1>5, <1>6 DEF Found, Locks, Owns, Given, Turning
<1>8. known' \in [Ids -> Runtimes \cup {NoRuntime}]
  BY <1>1, <1>2
<1>9. KnownInv'
  BY <1>1, <1>2 DEF KnownInv
<1>10. /\ made' \in [Ids -> 0 .. MaxRuntimes] /\ stored' \subseteq Ids /\ reborn' \subseteq Ids
       /\ runtime' \in [Runtimes -> Runtime]
  BY <1>1 DEF ThreadsInv, TypesInv
<1> QED
  BY <1>1, <1>5, <1>7, <1>8, <1>9, <1>10, RequestStep

\* The session that is asked to stop is in no runtime any more.
LEMMA ShutdownKeeps ==
  ASSUME ThreadsInv, NEW q \in Requests, Shutdown(q)
  PROVE  ThreadsInv'
<1> DEFINE s == req[q].io  m == [sessions[s] EXCEPT !.inbox = <<"shutdown", q>>]
           n == [req[q] EXCEPT !.pc = "stopping"]
<1>1. /\ req[q] \in Request /\ req[q].pc = "shutdown"
      /\ sessions' = [sessions EXCEPT ![s] = m] /\ req' = [req EXCEPT ![q] = n]
      /\ UNCHANGED <<known, made, stored, runtime, reborn>>
      /\ Found(q) /\ Owns(q) /\ TypesInv /\ KnownInv
  BY DEF Shutdown, Goto, At, ThreadsInv, TypesInv, RequestsInv
<1>2. s \in DOMAIN sessions /\ sessions[s] \in Session
  BY <1>1, GivenSession DEF Given
<1>3. /\ m \in Session /\ m.id = sessions[s].id /\ m.inbox = <<"shutdown", q>>
      /\ m.active = sessions[s].active /\ m.ending = sessions[s].ending
      /\ m.events = sessions[s].events /\ m.begun = sessions[s].begun
  BY <1>2 DEF Session
<1>4. /\ n \in Request /\ n.pc = "stopping" /\ n.op = req[q].op /\ n.io = s /\ n.rt = req[q].rt
      /\ n.rts = req[q].rts
  BY <1>1 DEF Request
<1> HIDE DEF m, n
<1>5. /\ sessions' \in Seq(Session) /\ Len(sessions') = Len(sessions)
      /\ DOMAIN sessions' = DOMAIN sessions /\ sessions'[s] = m
      /\ \A i \in DOMAIN sessions : i # s => sessions'[i] = sessions[i]
      /\ \A i \in DOMAIN sessions : sessions'[i].id = sessions[i].id
  BY <1>1, <1>2, <1>3, SessionChanges
<1>6. req'[q] = n
  BY <1>1 DEF TypesInv
<1>7. Found(q)' /\ Locks(q)' /\ Owns(q)' /\ ~Turning(q)'
  BY <1>1, <1>4, <1>5, <1>6 DEF Found, Locks, Owns, Given, Turning
<1>8. /\ known' \in [Ids -> Runtimes \cup {NoRuntime}] /\ made' \in [Ids -> 0 .. MaxRuntimes]
      /\ stored' \subseteq Ids /\ reborn' \subseteq Ids /\ KnownInv'
      /\ runtime' \in [Runtimes -> Runtime]
  BY <1>1 DEF TypesInv, KnownInv
<1>9. /\ TypesInv' /\ RequestsInv' /\ SharedInv' /\ WriterInv'
      /\ req'[q] = n /\ \A p \in Requests \ {q} : req'[p] = req[p]
  <2>1. StepOf(q, n)
    BY <1>1, <1>4, <1>5, <1>7, <1>8 DEF StepOf
  <2> QED
    BY <1>4, <2>1, RequestFrame
<1>10. \A p \in Requests, i \in DOMAIN sessions : Sent(p, i)' => Sent(p, i)
  <2>1. \A p \in Requests : <<"shutdown", q>> # <<"turn", p>>
    OBVIOUS
  <2> QED
    BY <2>1, <1>3, <1>5 DEF Sent
<1>11. StreamInv'
  <2>1. \A i \in DOMAIN sessions : sessions'[i].ending => sessions'[i].active # Nobody
    BY <1>3, <1>5 DEF ThreadsInv, StreamInv
  <2>2. \A i \in DOMAIN sessions : ~Sent(q, i)
    BY <1>1 DEF ThreadsInv, StreamInv
  <2> QED
    BY <2>1, <2>2, <1>5, <1>9, <1>10 DEF ThreadsInv, StreamInv
<1>12. NoDeadHandout'
  <2> SUFFICES ASSUME NEW r \in Runtimes, runtime[r].io # 0 PROVE ~Asked(runtime[r].io)'
    BY <1>1 DEF NoDeadHandout
  <2>1. runtime[r].io \in DOMAIN sessions /\ runtime[r].io # s
    BY <1>1, RuntimeSession DEF Owns
  <2>2. ~Asked(runtime[r].io)
    BY DEF ThreadsInv, NoDeadHandout
  <2> QED
    BY <2>1, <2>2, <1>1, <1>5 DEF Asked
<1>13. StartedTurnsAreHeard'
  <2> SUFFICES ASSUME NEW i \in DOMAIN sessions, NEW p \in sessions[i].begun, req'[p].pc = "stream"
               PROVE  \/ sessions[i].active = p /\ ~sessions[i].ending
                      \/ \E j \in DOMAIN sessions[i].events : sessions[i].events[j] = p
    BY <1>3, <1>5 DEF StartedTurnsAreHeard
  <2>1. p \in Requests
    <3>1. sessions[i] \in Session
      BY <1>1 DEF TypesInv
    <3> QED
      BY <3>1 DEF Session
  <2>2. req[p].pc = "stream"
    BY <2>1, <1>4, <1>9
  <2> QED
    BY <2>2 DEF ThreadsInv, StartedTurnsAreHeard
<1> QED
  BY <1>8, <1>9, <1>11, <1>12, <1>13 DEF ThreadsInv

\* A session has stopped: the next one is taken.
LEMMA StoppedKeeps ==
  ASSUME ThreadsInv, NEW q \in Requests, Stopped(q)
  PROVE  ThreadsInv'
<1> DEFINE n == [req[q] EXCEPT !.pc = "take"]
<1>1. /\ req[q] \in Request /\ req[q].pc = "stopping" /\ req' = [req EXCEPT ![q] = n]
      /\ UNCHANGED <<known, made, stored, runtime, sessions, reborn>> /\ Found(q) /\ Owns(q)
  BY DEF Stopped, Goto, At, ThreadsInv, TypesInv, RequestsInv
<1>2. n \in Request /\ n.pc = "take" /\ n.op = req[q].op /\ n.io = req[q].io /\ n.rts = req[q].rts
  BY <1>1 DEF Request
<1> HIDE DEF n
<1>3. req'[q] = n
  BY <1>1 DEF ThreadsInv, TypesInv
<1>4. Found(q)' /\ Locks(q)' /\ Owns(q)' /\ ~Turning(q)'
  BY <1>1, <1>2, <1>3 DEF Found, Locks, Owns, Given, Turning
<1> QED
  BY <1>1, <1>2, <1>4, AloneKeeps

\* A thread that comes back has its own runtime object, without its session.
LEMMA RemovalEndsKeeps ==
  ASSUME ThreadsInv, NEW q \in Requests, ShutdownFails(q) \/ Removed(q)
  PROVE  ThreadsInv'
<1>1. /\ req' = Over(q) /\ UNCHANGED <<made, runtime, sessions, reborn>> /\ stored' \subseteq stored
      /\ Found(q) /\ KnownInv /\ known \in [Ids -> Runtimes \cup {NoRuntime}]
  BY DEF ShutdownFails, Removed, ThreadsInv, TypesInv, RequestsInv
<1>2. known' \in [Ids -> Runtimes \cup {NoRuntime}] /\ KnownInv'
  <2>1. CASE known' = known
    BY <2>1, <1>1 DEF KnownInv
  <2>2. CASE known' # known
    <3> DEFINE t == req[q].rt[1]
    <3>1. req[q].pc \in {"shutdown", "stopping"} /\ known' = [known EXCEPT ![t] = req[q].rt]
      BY <2>2 DEF ShutdownFails, Removed, At
    <3>2. req[q].rt \in Runtimes /\ t \in reborn
      BY <3>1, <1>1 DEF Found
    <3>3. \A u \in Ids : known'[u] = IF u = t THEN req[q].rt ELSE known[u]
      BY <3>1, <1>1
    <3> QED
      BY <3>1, <3>2, <3>3, <1>1 DEF KnownInv
  <2> QED
    BY <2>1, <2>2
<1>3. /\ made' \in [Ids -> 0 .. MaxRuntimes] /\ stored' \subseteq Ids /\ reborn' \subseteq Ids
      /\ runtime' \in [Runtimes -> Runtime]
  BY <1>1 DEF ThreadsInv, TypesInv
<1> QED
  BY <1>1, <1>2, <1>3, OverKeeps

\* Every step keeps the invariant.
LEMMA ThreadsStep == ThreadsInv /\ [ThreadsNext]_threadVars => ThreadsInv'
<1> SUFFICES ASSUME ThreadsInv, [ThreadsNext]_threadVars PROVE ThreadsInv'
  OBVIOUS
<1>1. CASE UNCHANGED threadVars
  <2>1. UNCHANGED <<known, made, stored, runtime, sessions, req, reborn>>
    BY <1>1 DEF threadVars
  <2>2. TypesInv' /\ KnownInv' /\ WriterInv'
    BY <2>1 DEF ThreadsInv, TypesInv, KnownInv, WriterInv
  <2>3. RequestsInv' /\ SharedInv'
    BY <2>1 DEF ThreadsInv, RequestsInv, SharedInv, Found, Locks, Owns, Given, Turning
  <2>4. StreamInv' /\ NoDeadHandout' /\ StartedTurnsAreHeard'
    BY <2>1 DEF ThreadsInv, StreamInv, Sent, NoDeadHandout, Asked, StartedTurnsAreHeard
  <2> QED
    BY <2>2, <2>3, <2>4 DEF ThreadsInv
<1>2. CASE \E q \in Requests : Proceed(q)
  BY <1>2, EnterKeeps, OpenedKeeps, NotOpenedKeeps, LockChatKeeps, SubmitKeeps, NextEventKeeps,
     LeaveKeeps, ForkFailsKeeps, InsertRuntimesKeeps, ShutdownKeeps, StoppedKeeps,
     RemovalEndsKeeps DEF Proceed
<1>3. CASE \E q \in Requests : ListThreads(q) \/ RemoveWorkspace(q)
  BY <1>3, ListThreadsKeeps, ForgetKeeps DEF RemoveWorkspace
<1>4. CASE \E q \in Requests, t \in Ids : Arrive(q, t)
  <2> SUFFICES ASSUME NEW q \in Requests, NEW t \in Ids, Arrive(q, t) PROVE ThreadsInv'
    BY <1>4
  <2>1. \/ \E op \in {"turn", "interrupt", "other", "fork", "read"} : Find(q, op, t)
        \/ At(q, "new") /\ Create(q, t)
        \/ Forget(q, "remove", {t})
    BY DEF Arrive, Chat, V2StartTurn, InterruptTurn, V2InterruptTurn, SteerTurn, V2SteerTurn,
           RespondApproval, RefreshExtensions, CleanBackgroundTerminals, ThreadHistory,
           ThreadFlow, StartThread, V2StartThread, ForkThread, RemoveThread
  <2> QED
    BY <2>1, FindKeeps, CreateKeeps, ForgetKeeps
<1>5. CASE \E q \in Requests, t \in Ids : Fork(q, t)
  BY <1>5, CreateKeeps DEF Fork
<1>6. CASE \E q \in Requests, r \in Runtimes : TakeSession(q, r)
  BY <1>6, TakeSessionKeeps
<1>7. CASE \E s \in DOMAIN sessions : Handle(s) \/ TurnEnds(s) \/ TurnClears(s)
  BY <1>7, HandleKeeps, TurnEndsKeeps, TurnClearsKeeps
<1> QED
  BY <1>1, <1>2, <1>3, <1>4, <1>5, <1>6, <1>7 DEF ThreadsNext

\* The invariant holds, whatever the bounds on requests, ids, runtimes and sessions.
LEMMA ThreadsHolds == ThreadsSpec => []ThreadsInv
BY ThreadsInitial, ThreadsStep, PTL DEF ThreadsSpec

\* Every variable of the application server keeps its type.
THEOREM ThreadsTypeCorrect == ThreadsSpec => []ThreadsType
<1>1. ThreadsInv => ThreadsType
  <2> SUFFICES ASSUME ThreadsInv PROVE ThreadsType
    OBVIOUS
  <2>1. TypesInv /\ sessions \in Seq(Session)
    BY DEF ThreadsInv, TypesInv
  <2>2. \A s \in DOMAIN sessions : s \in SessionNumbers
    BY <2>1, FirstRuntimes DEF TypesInv, SessionNumbers
  <2>3. \A q \in Requests : req[q] \in Request
    BY <2>1 DEF TypesInv
  <2> QED
    BY <2>1, <2>2, <2>3 DEF TypesInv, ThreadsType, Runtime, Request
<1> QED
  BY <1>1, ThreadsHolds, PTL

\* A session that was asked to stop is in no runtime: a request that comes later starts
\* another one (appserver/server.go:465-499, 663-707).
THEOREM HandoutsLive == ThreadsSpec => []NoDeadHandout
<1>1. ThreadsInv => NoDeadHandout
  BY DEF ThreadsInv
<1> QED
  BY <1>1, ThreadsHolds, PTL

\* An id that was neither removed nor replaced has at most one session, however many
\* requests found it without one (appserver/server.go:692-707).
THEOREM WritersAlone == ThreadsSpec => []OneWriter
<1>1. ThreadsInv => OneWriter
  <2> SUFFICES ASSUME ThreadsInv, NEW s1 \in DOMAIN sessions, NEW s2 \in DOMAIN sessions,
                      sessions[s1].id = sessions[s2].id, sessions[s1].id \notin reborn
               PROVE  s1 = s2
    BY DEF OneWriter
  <2> QED
    BY DEF ThreadsInv, WriterInv
<1> QED
  BY <1>1, ThreadsHolds, PTL

\* A stream whose prompt started a turn hears the turn's end: chatMu keeps every other
\* stream of the session away from its event (appserver/server.go:362-394, 709-813).
THEOREM StreamsHear == ThreadsSpec => []StartedTurnsAreHeard
<1>1. ThreadsInv => StartedTurnsAreHeard
  BY DEF ThreadsInv
<1> QED
  BY <1>1, ThreadsHolds, PTL
=============================================================================
