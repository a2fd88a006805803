---------------------------- MODULE RemoteProcess ----------------------------
(***************************************************************************)
(* A process on an exec-server: the JSON-RPC handler that starts, polls    *)
(* and kills it there, and the goroutine of a session that polls it over   *)
(* HTTP into a local output buffer.  Every request and every answer may be *)
(* lost, which the client sees as an error.  Processes share nothing but   *)
(* the server's map, so one of them stands for all.                        *)
(***************************************************************************)
EXTENDS Naturals

CONSTANT MaxPrinted  \* bound: how many chunks the child prints

ASSUME MaxPrintedAssumption == MaxPrinted \in Nat

VARIABLES
  starting,  \* the process/start request: none, started, returned or refused
  remote,    \* the child: its state, its terminal, who has sent it a SIGKILL
  printed,   \* how many chunks it has printed
  copied,    \* how many of them the server has read
  held,      \* process.output: how many of those wait for a poll
  settled,   \* process.done is closed
  serving,   \* the process is in handler.processes
  poll,      \* the process/poll request that is being served or answered
  local,     \* the managed process: none, polling, exited, failed, or lost at its start
  received,  \* how many chunks are in its output
  kills      \* whether a process/kill request is on its way

serverVars == <<starting, remote, printed, copied, held, settled, serving>>
clientVars == <<local, received, kills>>
remoteVars == <<serverVars, poll, clientVars>>

NoPoll == [pc |-> "none", output |-> 0, running |-> TRUE]

RemoteInit ==
  /\ starting = "none"
  /\ remote = [state |-> "none", tty |-> FALSE, by |-> {}]
  /\ printed = 0 /\ copied = 0 /\ held = 0 /\ settled = FALSE /\ serving = FALSE
  /\ poll = NoPoll
  /\ local = "none" /\ received = 0 /\ kills = FALSE

SignalledBy(who) == [remote EXCEPT !.by = @ \cup IF remote.state = "running" THEN {who} ELSE {}]

-----------------------------------------------------------------------------
(* process/start.                                                          *)

RemoteStart ==
  /\ starting = "none"
  /\ starting' = "started"
  /\ \E tty \in BOOLEAN : remote' = [state |-> "running", tty |-> tty, by |-> {}]
  /\ UNCHANGED <<printed, copied, held, settled, serving, poll, clientVars>>

RefuseLeaving ==              \* mutant: the child of a refused start is left alone
  /\ starting = "started"
  /\ starting' = "refused"
  /\ UNCHANGED <<remote, printed, copied, held, settled, serving, poll, clientVars>>

\* AfterStart fails, or another process has this id: the child is killed.
RefuseStart ==
  /\ starting = "started"
  /\ starting' = "refused"
  /\ remote' = SignalledBy("start")
  /\ UNCHANGED <<printed, copied, held, settled, serving, poll, clientVars>>

Register ==
  /\ starting = "started"
  /\ starting' = "returned"
  /\ serving' = TRUE
  /\ UNCHANGED <<remote, printed, copied, held, settled, poll, clientVars>>

\* The request's context, under which the command was made, is cancelled when
\* the handler has returned or the client has gone.
CancelRequest ==
  /\ remote.state = "running"
  /\ remote' = SignalledBy("context")
  /\ UNCHANGED <<starting, printed, copied, held, settled, serving, poll, clientVars>>

\* startRemote has the answer: it polls from now on.  Without it, it never will.
Adopt ==
  /\ starting = "returned" /\ local = "none"
  /\ local' \in {"polling", "lost"}
  /\ UNCHANGED <<serverVars, poll, received, kills>>

-----------------------------------------------------------------------------
(* The child.                                                              *)

RemotePrints ==
  /\ remote.state = "running" /\ printed < MaxPrinted
  /\ printed' = printed + 1
  /\ UNCHANGED <<starting, remote, copied, held, settled, serving, poll, clientVars>>

\* serverOutput.Write; what a terminal's copier has read it may write late.
RemoteCopies ==
  /\ IF remote.tty THEN starting = "returned" ELSE ~settled
  /\ \E upTo \in copied + 1 .. printed :
       copied' = upTo /\ held' = held + (upTo - copied)
  /\ UNCHANGED <<starting, remote, printed, settled, serving, poll, clientVars>>

RemoteExits ==
  /\ remote.state = "running"
  /\ remote' = [remote EXCEPT !.state = "exited"]
  /\ UNCHANGED <<starting, printed, copied, held, settled, serving, poll, clientVars>>

\* On pipes Wait returns after the copiers; a terminal's copier is not waited for.
RemoteSettles ==
  /\ starting = "returned" /\ remote.state = "exited" /\ ~settled
  /\ remote.tty \/ copied = printed
  /\ settled' = TRUE
  /\ UNCHANGED <<starting, remote, printed, copied, held, serving, poll, clientVars>>

-----------------------------------------------------------------------------
(* process/poll, and pollRemote.                                           *)

\* The handler has found the process and waits for done or the time it was given.
PollArrives ==
  /\ local = "polling" /\ poll.pc = "none" /\ serving
  /\ poll' = [NoPoll EXCEPT !.pc = "wait"]
  /\ UNCHANGED <<serverVars, clientVars>>

PollTakes ==
  /\ poll.pc = "wait"
  /\ poll' = [pc |-> "look", output |-> held, running |-> TRUE]
  /\ held' = 0
  /\ UNCHANGED <<starting, remote, printed, copied, settled, serving, clientVars>>

PollKeeps ==                  \* mutant: a process that has exited stays in the map
  /\ poll.pc = "look"
  /\ poll' = [poll EXCEPT !.pc = "answer", !.running = ~settled]
  /\ UNCHANGED <<serverVars, clientVars>>

\* done is looked at after the output was taken; what is written in between
\* goes with the process.
PollLooks ==
  /\ poll.pc = "look"
  /\ poll' = [poll EXCEPT !.pc = "answer", !.running = ~settled]
  /\ serving' = (serving /\ ~settled)
  /\ UNCHANGED <<starting, remote, printed, copied, held, settled, clientVars>>

ReturnsBeforeWriting ==       \* mutant: the exit is looked at before the output
  /\ poll.pc = "answer" /\ local = "polling"
  /\ received' = received + IF poll.running THEN poll.output ELSE 0
  /\ local' = IF poll.running THEN "polling" ELSE "exited"
  /\ poll' = NoPoll
  /\ UNCHANGED <<serverVars, kills>>

\* pollRemote writes what the answer carries and goes on, or closes done.
PollAnswered ==
  /\ poll.pc = "answer" /\ local = "polling"
  /\ received' = received + poll.output
  /\ local' = IF poll.running THEN "polling" ELSE "exited"
  /\ poll' = NoPoll
  /\ UNCHANGED <<serverVars, kills>>

\* No answer, or an error: exit code -1, and done is closed.
PollFails ==
  /\ local = "polling"
  /\ local' = "failed"
  /\ UNCHANGED <<serverVars, poll, received, kills>>

-----------------------------------------------------------------------------
(* process/kill: an interrupt without a terminal, or the session's end.    *)

SendKill ==
  /\ local \in {"polling", "failed"} /\ ~kills
  /\ kills' = TRUE
  /\ UNCHANGED <<serverVars, poll, local, received>>

LoseKill ==
  /\ kills /\ kills' = FALSE
  /\ UNCHANGED <<serverVars, poll, local, received>>

RemoteKill ==
  /\ kills /\ serving
  /\ kills' = FALSE
  /\ remote' = SignalledBy("kill")
  /\ UNCHANGED <<starting, printed, copied, held, settled, serving, poll, local, received>>

RemoteNext ==
  \/ RemoteStart \/ RefuseStart \/ Register \/ CancelRequest \/ Adopt
  \/ RemotePrints \/ RemoteCopies \/ RemoteExits \/ RemoteSettles
  \/ PollArrives \/ PollTakes \/ PollLooks \/ PollAnswered \/ PollFails
  \/ SendKill \/ LoseKill \/ RemoteKill

RemoteSpec == RemoteInit /\ [][RemoteNext]_remoteVars

-----------------------------------------------------------------------------
(* Properties.                                                             *)

\* The type of every variable.
RemoteType ==
  /\ starting \in {"none", "started", "returned", "refused"}
  /\ remote \in [state : {"none", "running", "exited"}, tty : BOOLEAN,
                 by : SUBSET {"start", "context", "kill"}]
  /\ printed \in 0 .. MaxPrinted /\ held \in 0 .. MaxPrinted
  /\ copied \in 0 .. MaxPrinted /\ received \in 0 .. MaxPrinted
  /\ settled \in BOOLEAN /\ serving \in BOOLEAN /\ kills \in BOOLEAN
  /\ poll \in [pc : {"none", "wait", "look", "answer"}, output : 0 .. MaxPrinted,
               running : BOOLEAN]
  /\ local \in {"none", "polling", "exited", "failed", "lost"}

\* While no request fails, every chunk the server has read waits there, is on
\* its way in an answer or has reached the session, and is in one of these
\* places only; the exit code comes last of them, and on pipes after all that
\* was printed but what came between the last poll's two looks.
RemoteAccounts ==
  /\ local \in {"polling", "exited"} => copied = received + poll.output + held
  /\ local = "exited" => settled /\ ~serving /\ (~remote.tty => copied = printed)

\* A child that runs and that nobody has killed is in the server's map, where
\* process/kill finds it, or its start has not returned: a refused start leaves
\* none behind, and no poll forgets it.
RemoteNoOrphan ==
  remote.state = "running" /\ remote.by = {} => serving \/ starting = "started"

\* Claimed, and violated: a process whose start was answered is killed by
\* process/kill only.
RemoteRunsToItsEnd == starting = "returned" => remote.by \subseteq {"kill"}
=============================================================================
