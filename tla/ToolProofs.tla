------------------------------ MODULE ToolProofs ------------------------------
(***************************************************************************)
(* Proofs about the tools.  Of RemoteProcess, for any amount of output:    *)
(* nothing the server has read is lost or counted twice while the polls    *)
(* are answered, and no child is left running that nobody can kill.  Of a  *)
(* client's JSON-RPC calls, for any number of goroutines and calls: an     *)
(* answer goes to the call that asked for it.  Of a session's MCP server,  *)
(* for any tools, lists and number of clients: what it takes for a turn to *)
(* keep its tools, and for a ready server to be usable.  Of ExecPolicy,    *)
(* for any sessions and commands: nothing runs with rights that were not   *)
(* granted to it, and the rules of a session that amends alone are all in  *)
(* the file.  And of MCServices, which checks these parts together with    *)
(* patches and threads: what is proved of each part holds of a behaviour   *)
(* of all.                                                                 *)
(***************************************************************************)
EXTENDS MCServices, ThreadsProofs, PatchProofs

-----------------------------------------------------------------------------
(* The exec server.                                                        *)

\* The child settles when its start was answered and it has exited, and on pipes
\* with all of its output read.
SettledInv ==
  /\ starting = "none" <=> remote.state = "none"
  /\ settled => starting = "returned" /\ remote.state = "exited"
  /\ settled /\ ~remote.tty => copied = printed
  /\ serving => starting = "returned"

\* What was read is in one place, whatever became of the polls.
PlacesInv ==
  /\ copied = received + poll.output + held /\ copied <= printed
  /\ poll.pc \in {"none", "wait"} => poll.output = 0
  /\ poll.pc = "none" => poll.running

\* A poll says that the process has exited only when it is forgotten.
EndInv ==
  /\ poll.pc = "answer" /\ ~poll.running => settled /\ ~serving
  /\ local = "exited" => settled /\ ~serving

RemoteInv == RemoteType /\ SettledInv /\ PlacesInv /\ EndInv /\ RemoteNoOrphan

\* The first states satisfy the invariant.
LEMMA RemoteInitial == RemoteInit => RemoteInv
<1> SUFFICES ASSUME RemoteInit PROVE RemoteInv
  OBVIOUS
<1>1. RemoteType
  <2>1. remote \in [state : {"none", "running", "exited"}, tty : BOOLEAN,
                   by : SUBSET {"start", "context", "kill"}]
    BY DEF RemoteInit
  <2>2. poll \in [pc : {"none", "wait", "look", "answer"}, output : 0..MaxPrinted,
                 running : BOOLEAN]
    BY MaxPrintedAssumption DEF RemoteInit, NoPoll
  <2>3. /\ printed \in 0 .. MaxPrinted /\ held \in 0 .. MaxPrinted
        /\ copied \in 0 .. MaxPrinted /\ received \in 0 .. MaxPrinted
    BY MaxPrintedAssumption DEF RemoteInit
  <2>4. /\ starting \in {"none", "started", "returned", "refused"}
        /\ settled \in BOOLEAN /\ serving \in BOOLEAN /\ kills \in BOOLEAN
        /\ local \in {"none", "polling", "exited", "failed", "lost"}
    BY DEF RemoteInit
  <2> QED
    BY <2>1, <2>2, <2>3, <2>4, Zenon DEF RemoteType
<1>2. SettledInv /\ RemoteNoOrphan
  BY DEF RemoteInit, SettledInv, RemoteNoOrphan
<1>3. PlacesInv /\ EndInv
  BY DEF RemoteInit, PlacesInv, EndInv, NoPoll
<1> QED
  BY <1>1, <1>2, <1>3 DEF RemoteInv

\* A signal reaches a child that runs.
LEMMA SignalReaches ==
  ASSUME RemoteType, NEW who \in {"start", "context", "kill"}, remote' = SignalledBy(who)
  PROVE  /\ remote' \in [state : {"none", "running", "exited"}, tty : BOOLEAN,
                         by : SUBSET {"start", "context", "kill"}]
         /\ remote'.state = remote.state /\ remote'.tty = remote.tty
         /\ remote.by \subseteq remote'.by
         /\ remote.state = "running" => who \in remote'.by
BY DEF RemoteType, SignalledBy

\* Every step keeps the invariant.
LEMMA RemoteStep == RemoteInv /\ [RemoteNext]_remoteVars => RemoteInv'
<1> SUFFICES ASSUME RemoteInv, [RemoteNext]_remoteVars PROVE RemoteInv'
  OBVIOUS
<1> USE MaxPrintedAssumption
<1>u. CASE UNCHANGED remoteVars
  BY <1>u DEF remoteVars, serverVars, clientVars, RemoteInv, RemoteType, SettledInv,
     PlacesInv, EndInv, RemoteNoOrphan
<1>1. CASE RemoteStart
  BY <1>1 DEF RemoteStart, clientVars, RemoteInv, RemoteType, SettledInv, PlacesInv,
     EndInv, RemoteNoOrphan
<1>2. CASE RefuseStart
  BY <1>2, SignalReaches DEF RefuseStart, clientVars, RemoteInv, RemoteType, SettledInv,
     PlacesInv, EndInv, RemoteNoOrphan
<1>3. CASE Register
  BY <1>3 DEF Register, clientVars, RemoteInv, RemoteType, SettledInv, PlacesInv,
     EndInv, RemoteNoOrphan
<1>4. CASE CancelRequest
  BY <1>4, SignalReaches DEF CancelRequest, clientVars, RemoteInv, RemoteType, SettledInv,
     PlacesInv, EndInv, RemoteNoOrphan
<1>5. CASE Adopt
  BY <1>5 DEF Adopt, serverVars, RemoteInv, RemoteType, SettledInv, PlacesInv,
     EndInv, RemoteNoOrphan
<1>6. CASE RemotePrints
  BY <1>6 DEF RemotePrints, clientVars, RemoteInv, RemoteType, SettledInv, PlacesInv,
     EndInv, RemoteNoOrphan
<1>7. CASE RemoteCopies
  BY <1>7 DEF RemoteCopies, clientVars, RemoteInv, RemoteType, SettledInv, PlacesInv,
     EndInv, RemoteNoOrphan
<1>8. CASE RemoteExits
  BY <1>8 DEF RemoteExits, clientVars, RemoteInv, RemoteType, SettledInv, PlacesInv,
     EndInv, RemoteNoOrphan
<1>9. CASE RemoteSettles
  BY <1>9 DEF RemoteSettles, clientVars, RemoteInv, RemoteType, SettledInv, PlacesInv,
     EndInv, RemoteNoOrphan
<1>10. CASE PollArrives
  BY <1>10 DEF PollArrives, NoPoll, serverVars, clientVars, RemoteInv, RemoteType,
     SettledInv, PlacesInv, EndInv, RemoteNoOrphan
<1>11. CASE PollTakes
  BY <1>11 DEF PollTakes, clientVars, RemoteInv, RemoteType, SettledInv, PlacesInv,
     EndInv, RemoteNoOrphan
<1>12. CASE PollLooks
  BY <1>12 DEF PollLooks, clientVars, RemoteInv, RemoteType, SettledInv, PlacesInv,
     EndInv, RemoteNoOrphan
<1>13. CASE PollAnswered
  BY <1>13 DEF PollAnswered, NoPoll, serverVars, RemoteInv, RemoteType, SettledInv,
     PlacesInv, EndInv, RemoteNoOrphan
<1>14. CASE PollFails
  BY <1>14 DEF PollFails, serverVars, RemoteInv, RemoteType, SettledInv, PlacesInv,
     EndInv, RemoteNoOrphan
<1>15. CASE SendKill \/ LoseKill
  <2>1. kills' \in BOOLEAN /\ UNCHANGED <<serverVars, poll, local, received>>
    BY <1>15 DEF SendKill, LoseKill
  <2> QED
    BY <2>1 DEF serverVars, RemoteInv, RemoteType, SettledInv, PlacesInv, EndInv,
       RemoteNoOrphan
<1>16. CASE RemoteKill
  BY <1>16, SignalReaches DEF RemoteKill, RemoteInv, RemoteType, SettledInv, PlacesInv,
     EndInv, RemoteNoOrphan
<1> QED
  BY <1>u, <1>1, <1>2, <1>3, <1>4, <1>5, <1>6, <1>7, <1>8, <1>9, <1>10, <1>11, <1>12,
     <1>13, <1>14, <1>15, <1>16 DEF RemoteNext

\* The invariant holds, whatever the bound on the output.
LEMMA RemoteHolds == RemoteSpec => []RemoteInv
BY RemoteInitial, RemoteStep, PTL DEF RemoteSpec

\* process/kill finds every child that runs unharmed (execserver/server.go:93-176,
\* 205-218): a refused start kills its child, and no poll forgets a running one.
THEOREM NoRemoteOrphans == RemoteSpec => []RemoteNoOrphan
<1>1. RemoteInv => RemoteNoOrphan
  BY DEF RemoteInv
<1> QED
  BY <1>1, RemoteHolds, PTL

\* While polls are answered every chunk read is counted in one place, and the
\* exit code comes last (execserver/server.go:190-218, process_manager.go:265-284).
THEOREM RemoteOutputAccounted == RemoteSpec => []RemoteAccounts
<1>1. RemoteInv => RemoteAccounts
  BY DEF RemoteInv, RemoteAccounts, SettledInv, PlacesInv, EndInv
<1> QED
  BY <1>1, RemoteHolds, PTL

\* What is held, counted and signalled stays within its bounds (execserver/server.go:93-218,
\* process_manager.go:241-284).
THEOREM RemoteTypeCorrect == RemoteSpec => []RemoteType
<1>1. RemoteInv => RemoteType
  BY DEF RemoteInv
<1> QED
  BY <1>1, RemoteHolds, PTL

-----------------------------------------------------------------------------
(* The calls of a client.                                                  *)

RpcRecords ==
  [pc : {"idle", "write", "post", "wait", "return"}, nr : Nat, id : Nat, reply : Nat,
   tries : Nat, result : {"none", "answer", "empty", "error"}, from : Nat]

ReaderRecords == [to : Rpcs \cup {"nobody"}, id : Nat, nr : Nat, done : BOOLEAN]

CallsTyped ==
  /\ nextID \in Nat
  /\ rpc \in [Rpcs -> RpcRecords]
  /\ pending \subseteq Nat \X Rpcs
  /\ reader \in ReaderRecords

\* The entries of pending are the calls under way, each under its own id.
PendingInv ==
  \A c \in Rpcs, id \in Nat :
    <<id, c>> \in pending <=> rpc[c].pc # "idle" /\ id = rpc[c].id

\* An id names one request: ids are not used again.  So a request that the server
\* has had, and a reply that is being handed over, is the one its id says.
NamesInv ==
  /\ \A p \in asked : p[1] = p[2]
  /\ reader.to # "nobody" => reader.id = reader.nr
  /\ \A c \in Rpcs : rpc[c].id = rpc[c].nr

\* What a call holds is the reply to its request.
OwnInv ==
  \A c \in Rpcs :
    /\ rpc[c].reply \in {0, rpc[c].nr}
    /\ rpc[c].result = "answer" => rpc[c].from = rpc[c].nr

CallsInv == CallsTyped /\ PendingInv /\ NamesInv /\ OwnInv

\* The first states satisfy the invariant.
LEMMA CallsInitial == CallsInit => CallsInv
<1> SUFFICES ASSUME CallsInit PROVE CallsInv
  OBVIOUS
<1>1. NoRpc \in RpcRecords
  BY DEF NoRpc, RpcRecords
<1>2. CallsTyped
  BY <1>1 DEF CallsInit, CallsStart, CallsTyped, NoReply, ReaderRecords
<1>3. PendingInv /\ NamesInv /\ OwnInv
  BY DEF CallsInit, CallsStart, PendingInv, NamesInv, OwnInv, NoRpc, NoReply
<1> QED
  BY <1>2, <1>3 DEF CallsInv

\* The reader takes up nothing.
LEMMA ReaderFree ==
  ASSUME CallsInv, reader' = [reader EXCEPT !.to = "nobody", !.id = 0, !.nr = 0]
  PROVE  reader' \in ReaderRecords /\ reader'.to = "nobody"
<1>1. reader \in ReaderRecords
  BY DEF CallsInv, CallsTyped
<1> QED
  BY <1>1 DEF ReaderRecords

\* A step that leaves the calls under way under way, with their ids, and gives a
\* call nothing but its own reply or what its own request was answered.
CallGoesOn(c) ==
  \E r \in RpcRecords :
    /\ rpc' = [rpc EXCEPT ![c] = r]
    /\ rpc[c].pc # "idle" /\ r.pc # "idle"
    /\ r.id = rpc[c].id /\ r.nr = rpc[c].nr
    /\ r.reply \in {0, r.nr} /\ (r.result = "answer" => r.from = r.nr)

\* Such a step keeps the invariant.
LEMMA GoingOnKeeps ==
  ASSUME CallsInv, NEW c \in Rpcs, CallGoesOn(c), UNCHANGED <<nextID, pending>>,
         \A p \in asked' \ asked : p[1] = p[2],
         reader' = reader \/ reader' = [reader EXCEPT !.to = "nobody", !.id = 0, !.nr = 0]
  PROVE  CallsInv'
<1> USE DEF CallsInv
<1>1. PICK r \in RpcRecords :
        /\ rpc' = [rpc EXCEPT ![c] = r]
        /\ rpc[c].pc # "idle" /\ r.pc # "idle"
        /\ r.id = rpc[c].id /\ r.nr = rpc[c].nr
        /\ r.reply \in {0, r.nr} /\ (r.result = "answer" => r.from = r.nr)
  BY DEF CallGoesOn
<1>2. reader' \in ReaderRecords /\ (reader'.to # "nobody" => reader'.id = reader'.nr)
  BY ReaderFree DEF CallsTyped, NamesInv
<1>3. CallsTyped'
  BY <1>1, <1>2 DEF CallsTyped
<1>4. rpc'[c] = r /\ \A d \in Rpcs \ {c} : rpc'[d] = rpc[d]
  BY <1>1 DEF CallsTyped
<1>5. PendingInv' /\ OwnInv'
  BY <1>1, <1>4 DEF PendingInv, OwnInv
<1>6. NamesInv'
  <2>1. \A p \in asked' : p[1] = p[2]
    BY DEF NamesInv
  <2>2. \A d \in Rpcs : rpc'[d].id = rpc'[d].nr
    BY <1>1, <1>4 DEF NamesInv
  <2> QED
    BY <1>2, <2>1, <2>2 DEF NamesInv
<1> QED
  BY <1>3, <1>5, <1>6

\* A call returns, with an error or with its own answer.
LEMMA ReturnGoesOn ==
  ASSUME CallsInv, NEW c \in Rpcs, rpc[c].pc # "idle",
         NEW result \in {"answer", "empty", "error"}, NEW from \in Nat,
         result = "answer" => from = rpc[c].nr, Returns(c, result, from)
  PROVE  CallGoesOn(c)
<1> DEFINE r == [rpc[c] EXCEPT !.pc = "return", !.result = result, !.from = from]
<1>1. r \in RpcRecords
  BY DEF CallsInv, CallsTyped, RpcRecords
<1>2. rpc' = [rpc EXCEPT ![c] = r]
  BY DEF Returns
<1>3. /\ r.pc = "return" /\ r.id = rpc[c].id /\ r.nr = rpc[c].nr
      /\ r.reply = rpc[c].reply /\ r.result = result /\ r.from = from
  BY DEF CallsInv, CallsTyped, RpcRecords
<1> QED
  BY <1>1, <1>2, <1>3 DEF CallGoesOn, CallsInv, OwnInv

\* Every step keeps the invariant.
LEMMA CallsStep == CallsInv /\ [CallsNext]_callVars => CallsInv'
<1> SUFFICES ASSUME CallsInv, [CallsNext]_callVars PROVE CallsInv'
  OBVIOUS
<1>0. rpc \in [Rpcs -> RpcRecords]
  BY DEF CallsInv, CallsTyped
<1>u. CASE UNCHANGED callVars
  BY <1>u DEF callVars, CallsInv, CallsTyped, PendingInv, NamesInv, OwnInv
<1>1. ASSUME NEW c \in Rpcs, CallServer(c) PROVE CallsInv'
  <2> DEFINE r == [NoRpc EXCEPT !.pc = IF http THEN "post" ELSE "write",
                                !.id = NewID, !.nr = nextID']
  <2>0. nextID \in Nat /\ NewID = nextID + 1 /\ nextID' = NewID
    BY <1>1 DEF CallServer, NewID, CallsInv, CallsTyped
  <2>1. /\ NewID \in Nat /\ nextID' = NewID /\ r \in RpcRecords
        /\ r.pc # "idle" /\ r.id = NewID /\ r.nr = NewID /\ r.reply = 0 /\ r.result = "none"
    <3> DEFINE pc == IF http THEN "post" ELSE "write"
    <3>1. pc \in {"post", "write"}
      OBVIOUS
    <3>2. r = [NoRpc EXCEPT !.pc = pc, !.id = NewID, !.nr = NewID] /\ NewID \in Nat
      BY <2>0
    <3>3. /\ NoRpc \in RpcRecords /\ NoRpc.reply = 0 /\ NoRpc.result = "none"
      BY DEF NoRpc, RpcRecords
    <3> HIDE DEF r, pc, NewID
    <3> QED
      BY <2>0, <3>1, <3>2, <3>3 DEF RpcRecords
  <2>2. rpc' = [rpc EXCEPT ![c] = r] /\ pending' = pending \cup {<<NewID, c>>}
    BY <1>1 DEF CallServer
  <2> HIDE DEF r
  <2>3. rpc'[c] = r /\ \A d \in Rpcs \ {c} : rpc'[d] = rpc[d]
    BY <2>2, <1>0
  <2>5. rpc[c].pc = "idle" /\ UNCHANGED <<asked, reader>>
    BY <1>1 DEF CallServer
  <2>4. CallsTyped'
    BY <2>1, <2>2, <2>5 DEF CallsInv, CallsTyped
  <2>6. PendingInv'
    BY <2>1, <2>2, <2>3, <2>5 DEF CallsInv, PendingInv
  <2>7. NamesInv' /\ OwnInv'
    BY <2>1, <2>3, <2>5 DEF CallsInv, NamesInv, OwnInv
  <2> QED
    BY <2>4, <2>6, <2>7 DEF CallsInv
<1>2. ASSUME NEW c \in Rpcs, WriteRequest(c) PROVE CallsInv'
  <2>1. CASE Returns(c, "error", 0) /\ UNCHANGED asked
    BY <1>2, <2>1, ReturnGoesOn, GoingOnKeeps DEF WriteRequest
  <2>2. CASE rpc' = [rpc EXCEPT ![c].pc = "wait"] /\ asked' = asked \cup {<<rpc[c].id, rpc[c].nr>>}
    <3> DEFINE r == [rpc[c] EXCEPT !.pc = "wait"]
    <3>1. /\ r \in RpcRecords /\ r.pc = "wait" /\ r.id = rpc[c].id /\ r.nr = rpc[c].nr
          /\ r.reply = rpc[c].reply /\ r.result = rpc[c].result /\ r.from = rpc[c].from
      BY <1>0 DEF RpcRecords
    <3>2. rpc' = [rpc EXCEPT ![c] = r]
      BY <2>2
    <3> HIDE DEF r
    <3>3. CallGoesOn(c)
      BY <1>2, <3>1, <3>2 DEF WriteRequest, CallGoesOn, CallsInv, OwnInv
    <3>4. \A p \in asked' \ asked : p[1] = p[2]
      BY <2>2 DEF CallsInv, NamesInv
    <3> QED
      BY <1>2, <3>3, <3>4, GoingOnKeeps DEF WriteRequest
  <2> QED
    BY <1>2, <2>1, <2>2 DEF WriteRequest
<1>3. ASSUME NEW c \in Rpcs, Replied(c) PROVE CallsInv'
  <2>1. rpc[c].reply \in Nat /\ rpc[c].reply = rpc[c].nr
    BY <1>3, <1>0 DEF Replied, CallsInv, OwnInv, RpcRecords
  <2>2. CallGoesOn(c)
    BY <1>3, <2>1, ReturnGoesOn DEF Replied
  <2> QED
    BY <1>3, <2>2, GoingOnKeeps DEF Replied
<1>4. ASSUME NEW c \in Rpcs, CallGivenUp(c) \/ PostRefused(c) PROVE CallsInv'
  <2>1. CallGoesOn(c)
    BY <1>4, ReturnGoesOn DEF CallGivenUp, PostRefused, Posting
  <2> QED
    BY <1>4, <2>1, GoingOnKeeps DEF CallGivenUp, PostRefused
<1>5. ASSUME NEW c \in Rpcs, ForgetCall(c) PROVE CallsInv'
  <2>1. rpc' = [rpc EXCEPT ![c] = NoRpc] /\ pending' = pending \ {<<rpc[c].id, c>>}
    BY <1>5 DEF ForgetCall
  <2>2. NoRpc \in RpcRecords /\ NoRpc.pc = "idle" /\ NoRpc.id = NoRpc.nr
        /\ NoRpc.reply = 0 /\ NoRpc.result = "none"
    BY DEF NoRpc, RpcRecords
  <2>3. rpc'[c] = NoRpc /\ \A d \in Rpcs \ {c} : rpc'[d] = rpc[d]
    BY <2>1, <1>0
  <2>4. UNCHANGED <<nextID, asked, reader>> /\ rpc[c].pc # "idle"
    BY <1>5 DEF ForgetCall
  <2>5. CallsTyped'
    BY <2>1, <2>2, <2>4 DEF CallsInv, CallsTyped
  <2>6. PendingInv'
    BY <2>1, <2>2, <2>3, <2>4 DEF CallsInv, PendingInv
  <2>7. NamesInv' /\ OwnInv'
    BY <2>2, <2>3, <2>4 DEF CallsInv, NamesInv, OwnInv
  <2> QED
    BY <2>5, <2>6, <2>7 DEF CallsInv
<1>6. ASSUME NEW c \in Rpcs, PostAnswered(c) PROVE CallsInv'
  <2>1. rpc[c].nr \in Nat /\ rpc[c].pc # "idle"
    BY <1>6, <1>0 DEF PostAnswered, Posting, RpcRecords
  <2>2. CallGoesOn(c)
    BY <1>6, <2>1, ReturnGoesOn DEF PostAnswered
  <2> QED
    BY <1>6, <2>2, GoingOnKeeps DEF PostAnswered
<1>7. ASSUME NEW c \in Rpcs, PostFails(c) PROVE CallsInv'
  <2> DEFINE r == [rpc[c] EXCEPT !.tries = @ + 1]
  <2>1. CASE rpc' = [rpc EXCEPT ![c].tries = @ + 1]
    <3>1. /\ r \in RpcRecords /\ r.pc = rpc[c].pc /\ r.id = rpc[c].id /\ r.nr = rpc[c].nr
          /\ r.reply = rpc[c].reply /\ r.result = rpc[c].result /\ r.from = rpc[c].from
      BY <1>0 DEF RpcRecords
    <3>2. rpc' = [rpc EXCEPT ![c] = r]
      BY <2>1
    <3> HIDE DEF r
    <3>3. CallGoesOn(c)
      BY <1>7, <3>1, <3>2 DEF PostFails, Posting, CallGoesOn, CallsInv, OwnInv
    <3> QED
      BY <1>7, <3>3, GoingOnKeeps DEF PostFails
  <2>2. CASE Returns(c, "error", 0)
    <3>1. CallGoesOn(c)
      BY <1>7, <2>2, ReturnGoesOn DEF PostFails, Posting
    <3> QED
      BY <1>7, <3>1, GoingOnKeeps DEF PostFails
  <2> QED
    BY <1>7, <2>1, <2>2 DEF PostFails
<1>8. ASSUME NEW c \in Rpcs, NEW id \in 1 .. MaxCalls, NEW nr \in 1 .. MaxCalls,
             ReadReply(c, id, nr)
      PROVE CallsInv'
  <2>1. id = nr
    BY <1>8 DEF ReadReply, CallsInv, NamesInv
  <2>2. reader' = [reader EXCEPT !.to = c, !.id = id, !.nr = nr]
    BY <1>8 DEF ReadReply
  <2>3. id \in Nat /\ nr \in Nat
    BY McpCallsAssumption
  <2>4. reader' \in ReaderRecords /\ reader'.id = reader'.nr
    <3>1. reader \in ReaderRecords
      BY DEF CallsInv, CallsTyped
    <3> QED
      BY <2>1, <2>2, <2>3, <3>1 DEF ReaderRecords
  <2> QED
    BY <1>8, <2>4 DEF ReadReply, CallsInv, CallsTyped, PendingInv, NamesInv, OwnInv
<1>9. CASE HandOver
  <2> DEFINE c == reader.to
             r == [rpc[c] EXCEPT !.reply = reader.nr]
  <2>1. reader' = [reader EXCEPT !.to = "nobody", !.id = 0, !.nr = 0]
        /\ UNCHANGED <<nextID, pending, asked>>
    BY <1>9 DEF HandOver
  <2>2. CASE rpc' = rpc
    BY <2>1, <2>2, ReaderFree DEF CallsInv, CallsTyped, PendingInv, NamesInv, OwnInv
  <2>3. CASE <<reader.id, c>> \in pending /\ rpc' = [rpc EXCEPT ![c].reply = reader.nr]
    <3>1. c \in Rpcs /\ reader.id \in Nat /\ reader.nr \in Nat
      BY <2>3 DEF CallsInv, CallsTyped, ReaderRecords
    <3>2. rpc[c].pc # "idle" /\ reader.nr = rpc[c].nr
      BY <1>9, <2>3, <3>1 DEF HandOver, CallsInv, PendingInv, NamesInv
    <3>3. /\ r \in RpcRecords /\ r.pc = rpc[c].pc /\ r.id = rpc[c].id /\ r.nr = rpc[c].nr
          /\ r.reply = reader.nr /\ r.result = rpc[c].result /\ r.from = rpc[c].from
      BY <1>0, <3>1 DEF RpcRecords
    <3>4. rpc' = [rpc EXCEPT ![c] = r]
      BY <2>3
    <3> HIDE DEF r
    <3>5. CallGoesOn(c)
      BY <3>1, <3>2, <3>3, <3>4 DEF CallGoesOn, CallsInv, OwnInv
    <3> QED
      BY <2>1, <3>1, <3>5, GoingOnKeeps
  <2> QED
    BY <1>9, <2>2, <2>3 DEF HandOver
<1>10. CASE ServerStops
  <2>1. reader' \in ReaderRecords /\ reader'.to = reader.to
    BY <1>10 DEF ServerStops, CallsInv, CallsTyped, ReaderRecords
  <2> QED
    BY <1>10, <2>1 DEF ServerStops, CallsInv, CallsTyped, PendingInv, NamesInv, OwnInv
<1> QED
  BY <1>u, <1>1, <1>2, <1>3, <1>4, <1>5, <1>6, <1>7, <1>8, <1>9, <1>10 DEF CallsNext

\* The invariant holds, whoever calls and however often.
LEMMA CallsHold == CallsSpec => []CallsInv
BY CallsInitial, CallsStep, PTL DEF CallsSpec

\* A call returns the answer to its own request, whatever the server repeats or
\* sends late, and pending holds the calls under way only (mcp/client.go:184-214,
\* mcp/http.go:17-96, 175-207).
THEOREM AnswersReachTheirCalls == CallsSpec => []AnswersAreOwn
<1>1. CallsInv => AnswersAreOwn
  <2> SUFFICES ASSUME CallsInv PROVE AnswersAreOwn
    OBVIOUS
  <2>1. \A c \in Rpcs : rpc[c].id \in Nat
    BY DEF CallsInv, CallsTyped, RpcRecords
  <2>2. \A p : p \in pending <=> p \in {<<rpc[c].id, c>> : c \in {d \in Rpcs : rpc[d].pc # "idle"}}
    BY <2>1 DEF CallsInv, CallsTyped, PendingInv
  <2>3. pending = {<<rpc[c].id, c>> : c \in {d \in Rpcs : rpc[d].pc # "idle"}}
    BY <2>2
  <2> QED
    BY <2>3 DEF CallsInv, OwnInv, AnswersAreOwn
<1> QED
  BY <1>1, CallsHold, PTL

\* Requests are numbered as they are made, each by one call; a call that posts has
\* had its request carried out once for each attempt before this one, at most.
AttemptsInv ==
  /\ http \in BOOLEAN /\ nextID \in 0 .. MaxCalls
  /\ pending \subseteq (1 .. nextID) \X Rpcs /\ asked \subseteq (1 .. nextID) \X (1 .. nextID)
  /\ runs \in [1 .. MaxCalls -> 0 .. Attempts]
  /\ \A nr \in nextID + 1 .. MaxCalls : runs[nr] = 0
  /\ \A c \in Rpcs : rpc[c].tries < Attempts /\ rpc[c].nr \in 0 .. nextID
  /\ \A c \in Rpcs : rpc[c].pc # "idle" => rpc[c].nr # 0
  /\ \A c, d \in Rpcs : c # d /\ rpc[c].pc # "idle" => rpc[c].nr # rpc[d].nr
  /\ \A c \in Rpcs : rpc[c].pc = "post" => runs[rpc[c].nr] <= rpc[c].tries

\* A call under way goes on: its request may be carried out, if it posts it.
LEMMA AttemptGoesOn ==
  ASSUME CallsInv, AttemptsInv, NEW c \in Rpcs, rpc[c].pc # "idle",
         NEW r \in RpcRecords, rpc' = [rpc EXCEPT ![c] = r],
         r.nr = rpc[c].nr, r.tries < Attempts, r.tries >= rpc[c].tries,
         r.pc = "post" => rpc[c].pc = "post",
         \/ UNCHANGED runs
         \/ rpc[c].pc = "post" /\ CarriedOut(c) /\ (r.pc = "post" => r.tries = rpc[c].tries + 1),
         UNCHANGED <<http, nextID, pending>>,
         asked' \subseteq (1 .. nextID) \X (1 .. nextID)
  PROVE  AttemptsInv'
<1>1. /\ rpc \in [Rpcs -> RpcRecords] /\ rpc'[c] = r
      /\ \A d \in Rpcs \ {c} : rpc'[d] = rpc[d]
  BY DEF CallsInv, CallsTyped
<1>2. \A d \in Rpcs : rpc[d].tries \in Nat /\ rpc[d].nr \in Nat /\ rpc[d].nr \in 0 .. nextID
  BY <1>1 DEF RpcRecords, AttemptsInv
<1>3. nextID \in Nat /\ MaxCalls \in Nat /\ nextID <= MaxCalls
  BY McpCallsAssumption DEF AttemptsInv
<1>4. r.tries \in Nat /\ Attempts = 3
  BY DEF RpcRecords, Attempts
<1> DEFINE nr == rpc[c].nr
<1>5. nr \in 1 .. nextID /\ nr \in 1 .. MaxCalls
  BY <1>2, <1>3 DEF AttemptsInv
<1>6. runs \in [1 .. MaxCalls -> 0 .. 3] /\ \A d \in Rpcs : rpc[d].tries < 3
  BY <1>4 DEF AttemptsInv
<1>7. /\ runs' \in [1 .. MaxCalls -> 0 .. 3]
      /\ \A k \in 1 .. MaxCalls : k # nr => runs'[k] = runs[k]
      /\ r.pc = "post" => runs'[nr] <= r.tries
  <2>1. CASE UNCHANGED runs
    <3>1. r.pc = "post" => runs[nr] <= rpc[c].tries
      BY DEF AttemptsInv
    <3> QED
      BY <2>1, <3>1, <1>2, <1>4, <1>5, <1>6
  <2>2. CASE rpc[c].pc = "post" /\ CarriedOut(c) /\ (r.pc = "post" => r.tries = rpc[c].tries + 1)
    <3>1. runs' = [runs EXCEPT ![nr] = @ + 1]
      BY <2>2 DEF CarriedOut
    <3>2. runs[nr] <= rpc[c].tries
      BY <2>2 DEF AttemptsInv
    <3>3. rpc[c].tries \in Nat /\ (r.pc = "post" => r.tries = rpc[c].tries + 1)
      BY <2>2, <1>2
    <3> HIDE DEF nr
    <3>4. runs[nr] \in 0 .. 3 /\ runs[nr] + 1 \in 0 .. 3
      BY <3>2, <1>2, <1>5, <1>6
    <3>5. /\ runs' \in [1 .. MaxCalls -> 0 .. 3] /\ runs'[nr] = runs[nr] + 1
          /\ \A k \in 1 .. MaxCalls : k # nr => runs'[k] = runs[k]
      BY <3>1, <3>4, <1>5, <1>6
    <3> QED
      BY <3>2, <3>3, <3>4, <3>5
  <2> QED
    BY <2>1, <2>2
<1> QED
  BY <1>1, <1>2, <1>3, <1>4, <1>5, <1>6, <1>7 DEF AttemptsInv

\* A call returns.
LEMMA AttemptsReturn ==
  ASSUME CallsInv, AttemptsInv, NEW c \in Rpcs, rpc[c].pc # "idle",
         NEW result \in {"answer", "empty", "error"}, NEW from \in Nat, Returns(c, result, from),
         UNCHANGED runs \/ (rpc[c].pc = "post" /\ CarriedOut(c)),
         UNCHANGED <<http, nextID, pending, asked>>
  PROVE  AttemptsInv'
<1> DEFINE r == [rpc[c] EXCEPT !.pc = "return", !.result = result, !.from = from]
<1>1. rpc[c] \in RpcRecords
  BY DEF CallsInv, CallsTyped
<1>2. /\ r \in RpcRecords /\ r.nr = rpc[c].nr /\ r.tries = rpc[c].tries /\ r.pc = "return"
  BY <1>1 DEF RpcRecords
<1>3. rpc' = [rpc EXCEPT ![c] = r]
  BY DEF Returns
<1>4. r.tries < Attempts /\ r.tries >= rpc[c].tries
  BY <1>1, <1>2 DEF AttemptsInv, RpcRecords
<1>5. asked' \subseteq (1 .. nextID) \X (1 .. nextID)
  BY DEF AttemptsInv
<1> HIDE DEF r
<1> QED
  BY <1>2, <1>3, <1>4, <1>5, AttemptGoesOn

\* Every step keeps it.
LEMMA AttemptsStep == CallsInv /\ AttemptsInv /\ [CallsNext]_callVars => AttemptsInv'
<1> SUFFICES ASSUME CallsInv, AttemptsInv, [CallsNext]_callVars PROVE AttemptsInv'
  OBVIOUS
<1>0. rpc \in [Rpcs -> RpcRecords] /\ nextID \in Nat /\ MaxCalls \in Nat /\ nextID <= MaxCalls
  BY McpCallsAssumption DEF CallsInv, CallsTyped, AttemptsInv
<1>a. \A c \in Rpcs : rpc[c].tries \in Nat /\ rpc[c].tries < Attempts
  BY <1>0 DEF RpcRecords, AttemptsInv
<1>b. asked \subseteq (1 .. nextID) \X (1 .. nextID)
  BY DEF AttemptsInv
<1>u. CASE UNCHANGED callVars
  BY <1>u DEF callVars, AttemptsInv
<1>1. ASSUME NEW c \in Rpcs, CallServer(c) PROVE AttemptsInv'
  <2> DEFINE r == [NoRpc EXCEPT !.pc = IF http THEN "post" ELSE "write",
                                !.id = NewID, !.nr = nextID']
  <2>1. /\ rpc[c].pc = "idle" /\ nextID < MaxCalls /\ nextID' = nextID + 1
        /\ pending' = pending \cup {<<nextID + 1, c>>} /\ rpc' = [rpc EXCEPT ![c] = r]
        /\ UNCHANGED <<http, asked, reader, runs>>
    BY <1>1 DEF CallServer, NewID
  <2>2. /\ r.nr = nextID + 1 /\ r.tries = 0 /\ r.pc # "idle"
    BY <2>1 DEF NoRpc
  <2> HIDE DEF r
  <2>3. rpc'[c] = r /\ \A d \in Rpcs \ {c} : rpc'[d] = rpc[d]
    BY <2>1, <1>0
  <2>4. \A d \in Rpcs : rpc[d].nr \in 0 .. nextID
    BY DEF AttemptsInv
  <2>5. nextID + 1 \in nextID + 1 .. MaxCalls /\ nextID + 1 \in 1 .. MaxCalls /\ runs[nextID + 1] = 0
    BY <1>0, <2>1 DEF AttemptsInv
  <2>6. /\ nextID' \in 0 .. MaxCalls /\ pending' \subseteq (1 .. nextID') \X Rpcs
        /\ asked' \subseteq (1 .. nextID') \X (1 .. nextID')
        /\ \A nr \in nextID' + 1 .. MaxCalls : runs'[nr] = 0
    <3>1. 1 .. nextID \subseteq 1 .. nextID' /\ nextID + 1 \in 1 .. nextID'
          /\ nextID' + 1 .. MaxCalls \subseteq nextID + 1 .. MaxCalls
      BY <1>0, <2>1
    <3> QED
      BY <1>0, <2>1, <3>1 DEF AttemptsInv
  <2>7. /\ \A d \in Rpcs : rpc'[d].tries < Attempts /\ rpc'[d].nr \in 0 .. nextID'
        /\ \A d \in Rpcs : rpc'[d].pc # "idle" => rpc'[d].nr # 0
        /\ \A d \in Rpcs : rpc'[d].pc = "post" => runs'[rpc'[d].nr] <= rpc'[d].tries
    BY <1>0, <2>1, <2>2, <2>3, <2>4, <2>5 DEF AttemptsInv, Attempts
  <2>8. ASSUME NEW d \in Rpcs, NEW e \in Rpcs, d # e, rpc'[d].pc # "idle"
        PROVE  rpc'[d].nr # rpc'[e].nr
    BY <1>0, <2>2, <2>3, <2>4, <2>8 DEF AttemptsInv
  <2> QED
    BY <2>1, <2>6, <2>7, <2>8 DEF AttemptsInv
<1>2. ASSUME NEW c \in Rpcs, WriteRequest(c) PROVE AttemptsInv'
  <2>1. CASE Returns(c, "error", 0) /\ UNCHANGED asked
    BY <1>2, <2>1, AttemptsReturn DEF WriteRequest
  <2>2. CASE rpc' = [rpc EXCEPT ![c].pc = "wait"] /\ asked' = asked \cup {<<rpc[c].id, rpc[c].nr>>}
    <3> DEFINE r == [rpc[c] EXCEPT !.pc = "wait"]
    <3>1. r \in RpcRecords /\ r.nr = rpc[c].nr /\ r.tries = rpc[c].tries /\ r.pc = "wait"
      BY <1>0 DEF RpcRecords
    <3>2. rpc' = [rpc EXCEPT ![c] = r]
      BY <2>2
    <3>3. rpc[c].pc # "idle" /\ UNCHANGED <<http, nextID, pending, runs>>
      BY <1>2 DEF WriteRequest
    <3>4. rpc[c].nr \in 1 .. nextID /\ rpc[c].id = rpc[c].nr
      <4>1. rpc[c].nr \in 0 .. nextID /\ rpc[c].nr # 0
        BY <3>3 DEF AttemptsInv
      <4>2. rpc[c].id = rpc[c].nr
        BY DEF CallsInv, NamesInv
      <4> QED
        BY <1>0, <4>1, <4>2
    <3>5. asked' \subseteq (1 .. nextID) \X (1 .. nextID)
      BY <2>2, <3>4, <1>b
    <3>6. r.tries < Attempts /\ r.tries >= rpc[c].tries
      BY <1>a, <3>1
    <3> HIDE DEF r
    <3> QED
      BY <3>1, <3>2, <3>3, <3>5, <3>6, AttemptGoesOn
  <2> QED
    BY <1>2, <2>1, <2>2 DEF WriteRequest
<1>3. ASSUME NEW c \in Rpcs, Replied(c) PROVE AttemptsInv'
  <2>1. rpc[c].reply \in Nat
    BY <1>0 DEF RpcRecords
  <2> QED
    BY <1>3, <2>1, AttemptsReturn DEF Replied
<1>4. ASSUME NEW c \in Rpcs, CallGivenUp(c) \/ PostRefused(c) PROVE AttemptsInv'
  BY <1>4, AttemptsReturn DEF CallGivenUp, PostRefused, Posting
<1>5. ASSUME NEW c \in Rpcs, ForgetCall(c) PROVE AttemptsInv'
  <2>1. rpc' = [rpc EXCEPT ![c] = NoRpc] /\ pending' \subseteq pending
        /\ UNCHANGED <<http, nextID, asked, runs>>
    BY <1>5 DEF ForgetCall
  <2>2. NoRpc.pc = "idle" /\ NoRpc.nr = 0 /\ NoRpc.tries = 0
    BY DEF NoRpc
  <2>3. rpc'[c] = NoRpc /\ \A d \in Rpcs \ {c} : rpc'[d] = rpc[d]
    BY <2>1, <1>0
  <2> QED
    BY <1>0, <2>1, <2>2, <2>3 DEF AttemptsInv, Attempts
<1>6. ASSUME NEW c \in Rpcs, PostAnswered(c) PROVE AttemptsInv'
  <2>1. rpc[c].nr \in Nat /\ rpc[c].pc = "post"
    BY <1>6, <1>0 DEF PostAnswered, Posting, RpcRecords
  <2>2. CarriedOut(c) /\ UNCHANGED <<http, nextID, pending, asked>>
    BY <1>6 DEF PostAnswered
  <2> QED
    BY <1>6, <2>1, <2>2, AttemptsReturn DEF PostAnswered
<1>7. ASSUME NEW c \in Rpcs, PostFails(c) PROVE AttemptsInv'
  <2>1. /\ rpc[c].pc = "post" /\ (CarriedOut(c) \/ UNCHANGED runs)
        /\ UNCHANGED <<http, nextID, pending, asked>>
    BY <1>7 DEF PostFails, Posting
  <2>2. CASE rpc[c].tries + 1 < Attempts /\ rpc' = [rpc EXCEPT ![c].tries = @ + 1]
    <3> DEFINE r == [rpc[c] EXCEPT !.tries = @ + 1]
    <3>1. r \in RpcRecords /\ r.nr = rpc[c].nr /\ r.tries = rpc[c].tries + 1
      BY <1>0 DEF RpcRecords
    <3>2. rpc' = [rpc EXCEPT ![c] = r]
      BY <2>2
    <3>3. r.tries < Attempts /\ r.tries >= rpc[c].tries
      BY <1>a, <2>2, <3>1
    <3> HIDE DEF r
    <3> QED
      BY <2>1, <3>1, <3>2, <3>3, <1>b, AttemptGoesOn
  <2>3. CASE Returns(c, "error", 0)
    BY <2>1, <2>3, AttemptsReturn
  <2> QED
    BY <1>7, <2>2, <2>3 DEF PostFails
<1>8. ASSUME UNCHANGED <<http, nextID, pending, asked, rpc, runs>> PROVE AttemptsInv'
  BY <1>8 DEF AttemptsInv
<1>9. CASE HandOver
  <2> DEFINE c == reader.to
             r == [rpc[c] EXCEPT !.reply = reader.nr]
  <2>1. UNCHANGED <<http, nextID, pending, asked, runs>>
    BY <1>9 DEF HandOver
  <2>2. CASE <<reader.id, c>> \in pending /\ rpc' = [rpc EXCEPT ![c].reply = reader.nr]
    <3>1. c \in Rpcs /\ reader.id \in Nat /\ reader.nr \in Nat
      BY <2>2 DEF CallsInv, CallsTyped, ReaderRecords
    <3>2. rpc[c].pc # "idle"
      BY <2>2, <3>1 DEF CallsInv, PendingInv
    <3>3. /\ r \in RpcRecords /\ r.pc = rpc[c].pc /\ r.nr = rpc[c].nr /\ r.tries = rpc[c].tries
      BY <1>0, <3>1 DEF RpcRecords
    <3>4. rpc' = [rpc EXCEPT ![c] = r] /\ r.tries < Attempts /\ r.tries >= rpc[c].tries
      BY <2>2, <3>1, <3>3, <1>a
    <3> HIDE DEF r, c
    <3> QED
      BY <2>1, <3>1, <3>2, <3>3, <3>4, <1>b, AttemptGoesOn
  <2>3. CASE rpc' = rpc
    BY <2>1, <2>3, <1>8
  <2> QED
    BY <1>9, <2>2, <2>3 DEF HandOver
<1>10. ASSUME NEW c \in Rpcs, NEW id \in 1 .. MaxCalls, NEW nr \in 1 .. MaxCalls,
              ReadReply(c, id, nr)
       PROVE  AttemptsInv'
  BY <1>8, <1>10 DEF ReadReply
<1>11. CASE ServerStops
  BY <1>8, <1>11 DEF ServerStops
<1> QED
  BY <1>u, <1>1, <1>2, <1>3, <1>4, <1>5, <1>6, <1>7, <1>9, <1>10, <1>11 DEF CallsNext

\* Ids stay within the calls made, and no request is carried out more often than a
\* call makes attempts, however they fail (mcp/http.go:17-96, mcp/client.go:184-214).
THEOREM CallsTypeCorrect == CallsSpec => []CallsType
<1>1. CallsInit => AttemptsInv
  <2> SUFFICES ASSUME CallsInit PROVE AttemptsInv
    OBVIOUS
  <2>1. /\ http \in BOOLEAN /\ nextID = 0 /\ pending = {} /\ asked = {}
        /\ rpc = [c \in Rpcs |-> NoRpc] /\ runs = [nr \in 1 .. MaxCalls |-> 0]
    BY DEF CallsInit, CallsStart
  <2>2. NoRpc.pc = "idle" /\ NoRpc.nr = 0 /\ NoRpc.tries = 0
    BY DEF NoRpc
  <2> QED
    BY <2>1, <2>2, McpCallsAssumption DEF AttemptsInv, Attempts
<1>2. CallsInv /\ AttemptsInv => CallsType
  <2> SUFFICES ASSUME CallsInv, AttemptsInv PROVE CallsType
    OBVIOUS
  <2>1. nextID \in 0 .. MaxCalls /\ 1 .. nextID \subseteq 1 .. MaxCalls
        /\ 0 .. nextID \subseteq 0 .. MaxCalls
    BY McpCallsAssumption DEF AttemptsInv
  <2>2. \A c \in Rpcs : rpc[c].id = rpc[c].nr
    BY DEF CallsInv, NamesInv
  <2> QED
    BY <2>1, <2>2 DEF AttemptsInv, CallsType
<1> QED
  BY <1>1, <1>2, CallsHold, AttemptsStep, PTL DEF CallsSpec

-----------------------------------------------------------------------------
(* The server of a session: who writes the registry, and when.             *)

\* The type of every variable, the fields of the records included.
ClientRecords ==
  [open : BOOLEAN, changed : BOOLEAN, list : Lists \cup {<<>>}, n : Nat,
   watcher : {"none", "idle", "eliciting", "marking", "listing", "listed",
              "registering", "refused", "gone"}]
ServersTyped ==
  /\ loop \in [pc : {"start", "list", "register", "idle", "unregister"},
               list : Lists \cup {<<>>}, n : Nat]
  /\ loop.pc \in {"list", "register"} => Newest > 0
  /\ clients \in Seq(ClientRecords) /\ Newest <= MaxClients
  /\ registry \in [Tools -> 0 .. Newest]
  /\ status \in [state : {"none", "starting", "failed", "ready", "stale"}, tools : SUBSET Tools]
  /\ turn \in [active : BOOLEAN, tools : [Tools -> 0 .. Newest], raced : BOOLEAN]
  /\ late \subseteq DOMAIN clients

\* While a turn runs the loop connects nothing, and a turn that began with no watcher
\* on its way to a list sees none set out.
TurnInv ==
  turn.active =>
    /\ loop.pc = "idle"
    /\ ~turn.raced => registry = turn.tools /\ \A c \in DOMAIN clients : ~Relisting(c)

\* The registry holds the first n tools of a list, for client c.
Holds(list, n, c) ==
  /\ n <= Len(list)
  /\ \A t \in Tools : registry[t] = IF \E i \in 1 .. n : list[i] = t THEN c ELSE 0

\* No client but the newest is open, or may still write a list unless it is late.
Quiet(c) == ~clients[c].open /\ (Relisting(c) => c \in late)
OldQuiet == \A c \in DOMAIN clients : c # Newest => Quiet(c)
AllQuiet == \A c \in DOMAIN clients : Quiet(c)

\* The newest client while the loop connects it, the clients behind the tools then, ...
Connecting ==
  /\ loop.pc \in {"unregister", "start"} => AllQuiet
  /\ loop.pc \in {"list", "register"} => clients[Newest].open /\ clients[Newest].watcher = "none"
  /\ loop.pc = "register" => loop.list \in Lists
Owners == late \cup (IF loop.pc \in {"start", "list"} THEN {} ELSE {Newest})
Owned == \A t \in Tools : registry[t] # 0 => registry[t] \in Owners
Registered == loop.pc = "register" => Holds(loop.list, loop.n, Newest)

\* ... and when it has: the client's watcher writes what it was told, or the client
\* is closed and the status says that the server is not ready.
Serving ==
  /\ Newest > 0 /\ clients[Newest].open /\ clients[Newest].watcher # "none"
  /\ clients[Newest].watcher \in {"listed", "registering"} => clients[Newest].list \in Lists
  /\ clients[Newest].watcher = "listed" => clients[Newest].n = 0
  /\ clients[Newest].watcher = "registering" => Holds(clients[Newest].list, clients[Newest].n, Newest)
  /\ status.state = "ready" /\ clients[Newest].watcher # "registering" =>
       \A t \in Tools : registry[t] = IF t \in status.tools THEN Newest ELSE 0
Watched == loop.pc = "idle" => Serving \/ (AllQuiet /\ status.state # "ready")

NewestInv == OldQuiet /\ Connecting /\ Owned
ReadyInv == NewestInv /\ (late = {} => Registered /\ Watched)

ServersInv == ServersTyped /\ TurnInv /\ ReadyInv

\* One client's record is replaced.
Sets(c, r) == clients' = [clients EXCEPT ![c] = r]

LEMMA OneClient ==
  ASSUME clients \in Seq(ClientRecords), NEW c \in DOMAIN clients, NEW r \in ClientRecords, Sets(c, r)
  PROVE  /\ clients' \in Seq(ClientRecords) /\ Newest' = Newest /\ Newest \in Nat
         /\ DOMAIN clients' = DOMAIN clients /\ DOMAIN clients = 1 .. Newest
         /\ clients'[c] = r /\ \A d \in DOMAIN clients : d # c => clients'[d] = clients[d]
PROOF
<1>1. DOMAIN clients = 1 .. Len(clients) /\ Len(clients) \in Nat
  OBVIOUS
<1>2. clients' \in Seq(ClientRecords) /\ Len(clients') = Len(clients)
  BY <1>1, ExceptSeq DEF Sets
<1>3. clients'[c] = r /\ \A d \in DOMAIN clients : d # c => clients'[d] = clients[d]
  BY <1>1, ExceptSeq DEF Sets
<1> QED
  BY <1>1, <1>2, <1>3 DEF Newest

\* What a watcher does besides writing a list of tools: the record it leaves.
Aside(c, r) ==
  /\ r.open = clients[c].open
  /\ \/ /\ r.watcher = clients[c].watcher /\ r.list = clients[c].list /\ r.n = clients[c].n
        /\ UNCHANGED status
     \/ /\ clients[c].watcher \notin {"none", "registering", "listed"}
        /\ r.watcher \in {"idle", "eliciting", "marking", "listing", "refused", "gone"}
        /\ r.watcher = "listing" => ~turn.active /\ r.open
        /\ status' = status \/ status'.state # "ready"

StepsAside(c) == \E r \in ClientRecords : Sets(c, r) /\ Aside(c, r)

LEMMA WatcherStepsAside ==
  ASSUME ServersTyped, NEW c \in DOMAIN clients,
         \/ ToolsChange(c) \/ RequestElicitation(c) \/ HandleElicitation(c)
         \/ Watch(c) \/ MarkStale(c) \/ RelistFails(c) \/ WatcherReturns(c)
  PROVE  /\ StepsAside(c) /\ UNCHANGED <<loop, registry, turn, late>>
         /\ status' \in [state : {"none", "starting", "failed", "ready", "stale"}, tools : SUBSET Tools]
PROOF
<1>0. /\ clients[c] \in ClientRecords
      /\ status \in [state : {"none", "starting", "failed", "ready", "stale"}, tools : SUBSET Tools]
  BY DEF ServersTyped
<1>1. CASE ToolsChange(c)
  <2> DEFINE r == [clients[c] EXCEPT !.changed = TRUE]
  <2>1. Sets(c, r) /\ UNCHANGED <<loop, registry, turn, late, status>>
    BY <1>1 DEF ToolsChange, Sets
  <2>2. r \in ClientRecords /\ Aside(c, r)
    BY <1>0, <2>1 DEF ClientRecords, Aside
  <2> QED
    BY <1>0, <2>1, <2>2 DEF StepsAside
<1>2. ASSUME NEW to \in {"idle", "eliciting", "gone"}, clients[c].watcher \in {"idle", "eliciting", "marking", "listing", "refused"},
             clients' = [clients EXCEPT ![c].watcher = to],
             status' = status \/ status'.state # "ready"
      PROVE  StepsAside(c)
  <2> DEFINE r == [clients[c] EXCEPT !.watcher = to]
  <2>1. Sets(c, r)
    BY <1>2 DEF Sets
  <2>2. r \in ClientRecords /\ r.open = clients[c].open /\ r.watcher = to
    BY <1>0 DEF ClientRecords
  <2>3. Aside(c, r)
    BY <1>2, <2>2 DEF Aside
  <2> QED
    BY <2>1, <2>2, <2>3 DEF StepsAside
<1>3. CASE RequestElicitation(c)
  BY <1>0, <1>2, <1>3 DEF RequestElicitation, Watches
<1>4. CASE HandleElicitation(c)
  BY <1>0, <1>2, <1>4 DEF HandleElicitation, Watches
<1>5. CASE WatcherReturns(c)
  BY <1>0, <1>2, <1>5 DEF WatcherReturns, Watches
<1>6. CASE MarkStale(c)
  <2>1. status' \in [state : {"none", "starting", "failed", "ready", "stale"}, tools : SUBSET Tools]
        /\ status'.state = "stale"
    BY <1>0, <1>6 DEF MarkStale
  <2> QED
    BY <1>2, <1>6, <2>1 DEF MarkStale, Watches
<1>7. CASE RelistFails(c)
  <2>1. /\ status' \in [state : {"none", "starting", "failed", "ready", "stale"}, tools : SUBSET Tools]
        /\ status' = status \/ status'.state # "ready"
    BY <1>0, <1>7 DEF RelistFails, Restated
  <2> QED
    BY <1>2, <1>7, <2>1 DEF RelistFails, Watches
<1>8. CASE Watch(c)
  <2> DEFINE to == IF turn.active THEN "marking"
                   ELSE IF clients[c].open THEN "listing" ELSE "refused"
             r == [clients[c] EXCEPT !.changed = FALSE, !.watcher = to]
  <2>1. Sets(c, r) /\ UNCHANGED <<loop, registry, turn, late, status>> /\ clients[c].watcher = "idle"
    BY <1>8 DEF Watch, Watches, Sets
  <2>2. /\ to \in {"marking", "listing", "refused"}
        /\ to = "listing" => ~turn.active /\ clients[c].open
    OBVIOUS
  <2> HIDE DEF to
  <2>3. r \in ClientRecords /\ r.open = clients[c].open /\ r.watcher = to
    BY <1>0, <2>2 DEF ClientRecords
  <2>4. Aside(c, r)
    BY <2>1, <2>2, <2>3 DEF Aside
  <2> QED
    BY <1>0, <2>1, <2>3, <2>4 DEF StepsAside
<1> QED
  BY <1>1, <1>3, <1>4, <1>5, <1>6, <1>7, <1>8

\* The watcher that writes a list: what it leaves, of its client and in the registry.
Writes(c) ==
  \E r \in ClientRecords :
    /\ Sets(c, r) /\ r.open = clients[c].open
    /\ \/ /\ clients[c].watcher = "listing" /\ UNCHANGED <<registry, status>>
          /\ r.watcher = "listed" /\ r.list \in Lists /\ r.n = 0
       \/ /\ clients[c].watcher = "listed" /\ registry' = Unlisted /\ UNCHANGED status
          /\ r.watcher = "registering" /\ r.list = clients[c].list /\ r.n = clients[c].n
       \/ /\ clients[c].watcher = "registering" /\ clients[c].n < Len(clients[c].list)
          /\ registry' = WithTool(clients[c].list[clients[c].n + 1], c) /\ UNCHANGED status
          /\ r.watcher = "registering" /\ r.list = clients[c].list /\ r.n = clients[c].n + 1
       \/ /\ clients[c].watcher = "registering" /\ clients[c].n = Len(clients[c].list)
          /\ r.watcher = "idle" /\ Restated("ready", NamesIn(clients[c].list)) /\ UNCHANGED registry

LEMMA WatcherWrites ==
  ASSUME ServersTyped, NEW c \in DOMAIN clients,
         Relist(c) \/ UnregisterPrefix(c) \/ Reregister(c) \/ Relisted(c)
  PROVE  Writes(c) /\ UNCHANGED <<loop, turn, late>>
PROOF
<1>0. clients[c] \in ClientRecords
  BY DEF ServersTyped
<1>1. CASE Relist(c)
  <2>1. PICK list \in Lists :
          clients' = [clients EXCEPT ![c].watcher = "listed", ![c].list = list, ![c].n = 0]
    BY <1>1 DEF Relist
  <2> DEFINE r == [clients[c] EXCEPT !.watcher = "listed", !.list = list, !.n = 0]
  <2>2. Sets(c, r)
    BY <2>1 DEF Sets
  <2>3. /\ r \in ClientRecords /\ r.open = clients[c].open /\ r.watcher = "listed"
        /\ r.list \in Lists /\ r.n = 0
    BY <1>0 DEF ClientRecords
  <2> QED
    BY <1>1, <2>2, <2>3 DEF Relist, Watches, Writes
<1>2. CASE UnregisterPrefix(c)
  <2> DEFINE r == [clients[c] EXCEPT !.watcher = "registering"]
  <2>1. Sets(c, r)
    BY <1>2 DEF UnregisterPrefix, Sets
  <2>2. /\ r \in ClientRecords /\ r.open = clients[c].open /\ r.watcher = "registering"
        /\ r.list = clients[c].list /\ r.n = clients[c].n
    BY <1>0 DEF ClientRecords
  <2> QED
    BY <1>2, <2>1, <2>2 DEF UnregisterPrefix, Watches, Writes
<1>3. CASE Reregister(c)
  <2> DEFINE r == [clients[c] EXCEPT !.n = @ + 1]
  <2>1. Sets(c, r)
    BY <1>3 DEF Reregister, Sets
  <2>2. /\ r \in ClientRecords /\ r.open = clients[c].open /\ r.watcher = clients[c].watcher
        /\ r.list = clients[c].list /\ r.n = clients[c].n + 1
    BY <1>0 DEF ClientRecords
  <2> QED
    BY <1>3, <2>1, <2>2 DEF Reregister, Watches, Writes
<1>4. CASE Relisted(c)
  <2> DEFINE r == [clients[c] EXCEPT !.watcher = "idle", !.list = <<>>, !.n = 0]
  <2>1. Sets(c, r)
    BY <1>4 DEF Relisted, Sets
  <2>2. r \in ClientRecords /\ r.open = clients[c].open /\ r.watcher = "idle"
    BY <1>0 DEF ClientRecords
  <2> QED
    BY <1>4, <2>1, <2>2 DEF Relisted, Watches, Writes
<1> QED
  BY <1>1, <1>2, <1>3, <1>4

\* A tool's registration, one that was there stays.
LEMMA ToolRegistered ==
  ASSUME ServersTyped, NEW t \in Tools, NEW c \in DOMAIN clients, registry' = WithTool(t, c)
  PROVE  /\ registry' \in [Tools -> 0 .. Newest]
         /\ registry'[t] = IF registry[t] = 0 THEN c ELSE registry[t]
         /\ \A u \in Tools : u # t => registry'[u] = registry[u]
PROOF
<1>1. registry \in [Tools -> 0 .. Newest] /\ c \in 0 .. Newest
  BY DEF ServersTyped, Newest
<1>2. CASE registry[t] = 0
  <2>1. registry' = [registry EXCEPT ![t] = c]
    BY <1>2 DEF WithTool
  <2> QED
    BY <1>1, <1>2, <2>1
<1>3. CASE registry[t] # 0
  <2>1. registry' = registry
    BY <1>3 DEF WithTool
  <2> QED
    BY <1>1, <1>3, <2>1
<1> QED
  BY <1>2, <1>3

\* The tools of a list.
LEMMA NamesAreTools == ASSUME NEW list \in Lists \cup {<<>>} PROVE list \in Seq(Tools) /\ NamesIn(list) \subseteq Tools
PROOF
<1>1. list \in Seq(Tools)
  <2>1. CASE list = <<>>
    BY <2>1
  <2>2. CASE list \in Lists
    BY <2>2, McpServersAssumption
  <2> QED
    BY <2>1, <2>2
<1> QED
  BY <1>1 DEF NamesIn

\* The first states satisfy the invariant.
LEMMA ServersInitial == McpInit => ServersInv
PROOF
<1> SUFFICES ASSUME McpInit PROVE ServersInv
  OBVIOUS
<1>1. clients = <<>> /\ Newest = 0 /\ DOMAIN clients = {}
  BY DEF McpInit, Newest
<1>2. ServersTyped
  BY <1>1, McpServersAssumption DEF McpInit, ServersTyped, Unlisted
<1>3. TurnInv /\ ReadyInv
  BY <1>1 DEF McpInit, TurnInv, ReadyInv, NewestInv, OldQuiet, Connecting, Owned, Unlisted, AllQuiet,
     Registered, Watched
<1> QED
  BY <1>2, <1>3 DEF ServersInv

\* A client more, and the clients all closed.
LEMMA ClientStarted ==
  ASSUME ServersTyped, clients' = Append(clients, NewClient)
  PROVE  /\ clients' \in Seq(ClientRecords) /\ Newest \in Nat /\ Newest' = Newest + 1
         /\ DOMAIN clients = 1 .. Newest /\ DOMAIN clients' = 1 .. Newest + 1
         /\ clients'[Newest + 1] = NewClient /\ \A d \in DOMAIN clients : clients'[d] = clients[d]
PROOF
<1>1. clients \in Seq(ClientRecords) /\ NewClient \in ClientRecords
  BY DEF ServersTyped, ClientRecords, NewClient
<1> QED
  BY <1>1, AppendProperties DEF Newest

LEMMA ClientsClosed ==
  ASSUME ServersTyped, clients' = [c \in DOMAIN clients |-> [clients[c] EXCEPT !.open = FALSE]]
  PROVE  /\ clients' \in Seq(ClientRecords) /\ Newest' = Newest /\ Newest \in Nat /\ DOMAIN clients' = DOMAIN clients
         /\ \A c \in DOMAIN clients : ~clients'[c].open /\ clients'[c].watcher = clients[c].watcher
PROOF
<1>1. clients \in Seq(ClientRecords) /\ DOMAIN clients = 1 .. Len(clients) /\ Len(clients) \in Nat
  BY DEF ServersTyped
<1>a. \A c \in DOMAIN clients : clients[c] \in ClientRecords
  BY <1>1
<1>2. \A c \in DOMAIN clients :
        /\ [clients[c] EXCEPT !.open = FALSE] \in ClientRecords
        /\ ~[clients[c] EXCEPT !.open = FALSE].open
        /\ [clients[c] EXCEPT !.open = FALSE].watcher = clients[c].watcher
  BY <1>a DEF ClientRecords
<1>3. clients' \in Seq(ClientRecords) /\ Len(clients') = Len(clients)
  BY <1>1, <1>2
<1> QED
  BY <1>1, <1>2, <1>3 DEF Newest

\* The newest client is closed, or watched from now on.
LEMMA NewestSet ==
  ASSUME ServersTyped, Newest > 0,
         \/ clients' = ClosedBy(Newest)
         \/ clients' = [clients EXCEPT ![Newest].watcher = "idle"]
  PROVE  \E r \in ClientRecords :
           /\ Sets(Newest, r) /\ Newest \in DOMAIN clients
           /\ r.list = clients[Newest].list /\ r.n = clients[Newest].n
           /\ \/ clients' = ClosedBy(Newest) /\ ~r.open /\ r.watcher = clients[Newest].watcher
              \/ /\ clients' = [clients EXCEPT ![Newest].watcher = "idle"]
                 /\ r.open = clients[Newest].open /\ r.watcher = "idle"
PROOF
<1>1. clients \in Seq(ClientRecords) /\ Newest \in DOMAIN clients
  BY DEF ServersTyped, Newest
<1>2. clients[Newest] \in ClientRecords
  BY <1>1
<1>3. CASE clients' = ClosedBy(Newest)
  <2> DEFINE r == [clients[Newest] EXCEPT !.open = FALSE]
  <2>1. Sets(Newest, r)
    BY <1>3 DEF ClosedBy, Sets
  <2>2. /\ r \in ClientRecords /\ ~r.open /\ r.watcher = clients[Newest].watcher
        /\ r.list = clients[Newest].list /\ r.n = clients[Newest].n
    BY <1>2 DEF ClientRecords
  <2> QED
    BY <1>1, <1>3, <2>1, <2>2
<1>4. CASE clients' = [clients EXCEPT ![Newest].watcher = "idle"]
  <2> DEFINE r == [clients[Newest] EXCEPT !.watcher = "idle"]
  <2>1. Sets(Newest, r)
    BY <1>4 DEF Sets
  <2>2. /\ r \in ClientRecords /\ r.open = clients[Newest].open /\ r.watcher = "idle"
        /\ r.list = clients[Newest].list /\ r.n = clients[Newest].n
    BY <1>2 DEF ClientRecords
  <2> QED
    BY <1>1, <1>4, <2>1, <2>2
<1> QED
  BY <1>3, <1>4

\* What the loop does: the types, and that it waits while a turn runs.
LoopSteps ==
  \/ StartFails \/ StartClient \/ ListFails \/ ListTools \/ RegisterTool \/ Connected
  \/ RefreshCloses \/ RefreshUnregisters

LEMMA LoopKeepsTypes ==
  ASSUME ServersTyped, LoopSteps
  PROVE  ServersTyped'
PROOF
<1>0. /\ loop \in [pc : {"start", "list", "register", "idle", "unregister"},
                   list : Lists \cup {<<>>}, n : Nat]
      /\ clients \in Seq(ClientRecords) /\ Newest <= MaxClients /\ Newest \in Nat
      /\ DOMAIN clients = 1 .. Newest
      /\ registry \in [Tools -> 0 .. Newest]
      /\ status \in [state : {"none", "starting", "failed", "ready", "stale"}, tools : SUBSET Tools]
      /\ turn \in [active : BOOLEAN, tools : [Tools -> 0 .. Newest], raced : BOOLEAN]
      /\ late \subseteq DOMAIN clients /\ MaxClients \in Nat
      /\ loop.pc \in {"list", "register"} => Newest > 0
  BY McpServersAssumption DEF ServersTyped, Newest
<1>c. ASSUME UNCHANGED clients PROVE Newest' = Newest
  BY <1>c DEF Newest
<1>1. CASE StartFails
  BY <1>0, <1>1, <1>c DEF StartFails, ServersTyped, Idle
<1>2. CASE StartClient
  <2>1. /\ clients' \in Seq(ClientRecords) /\ Newest' = Newest + 1 /\ DOMAIN clients' = 1 .. Newest + 1
        /\ Newest < MaxClients
    BY <1>2, ClientStarted DEF StartClient
  <2>2. 0 .. Newest \subseteq 0 .. Newest' /\ Newest' <= MaxClients
    BY <1>0, <2>1
  <2>3. registry' \in [Tools -> 0 .. Newest']
    BY <1>0, <1>2, <2>2 DEF StartClient
  <2>4. turn' \in [active : BOOLEAN, tools : [Tools -> 0 .. Newest'], raced : BOOLEAN]
    BY <1>0, <1>2, <2>2 DEF StartClient
  <2>5. /\ loop' \in [pc : {"start", "list", "register", "idle", "unregister"},
                       list : Lists \cup {<<>>}, n : Nat]
        /\ status' \in [state : {"none", "starting", "failed", "ready", "stale"}, tools : SUBSET Tools]
    BY <1>0, <1>2 DEF StartClient
  <2>6. late' \subseteq DOMAIN clients' /\ Newest' > 0
    BY <1>0, <1>2, <2>1 DEF StartClient
  <2> QED
    BY <2>1, <2>2, <2>3, <2>4, <2>5, <2>6 DEF ServersTyped
<1>3. CASE ListFails
  <2>1. Newest > 0 /\ clients' = ClosedBy(Newest)
    BY <1>0, <1>3 DEF ListFails
  <2>2. clients' \in Seq(ClientRecords) /\ Newest' = Newest /\ DOMAIN clients' = DOMAIN clients
    BY <1>0, <2>1, NewestSet, OneClient
  <2> QED
    BY <1>0, <1>3, <2>2 DEF ListFails, ServersTyped, Idle
<1>4. CASE ListTools
  BY <1>0, <1>4, <1>c DEF ListTools, ServersTyped
<1>5. CASE RegisterTool
  <2> DEFINE t == loop.list[loop.n + 1]
  <2>1. t \in Tools /\ Newest > 0 /\ Newest \in DOMAIN clients
    BY <1>0, <1>5, NamesAreTools DEF RegisterTool
  <2>2. registry' \in [Tools -> 0 .. Newest]
    BY <1>5, <2>1, ToolRegistered DEF RegisterTool
  <2>3. CASE loop' = [loop EXCEPT !.n = @ + 1] /\ UNCHANGED <<clients, status>>
    <3>1. UNCHANGED <<turn, late>>
      BY <1>5 DEF RegisterTool
    <3> DEFINE Steps == {"start", "list", "register", "idle", "unregister"}
    <3>2. loop' \in [pc : Steps, list : Lists \cup {<<>>}, n : Nat] /\ loop'.pc = loop.pc
      <4>1. loop \in [pc : Steps, list : Lists \cup {<<>>}, n : Nat]
        BY DEF ServersTyped
      <4>2. loop.n + 1 \in Nat
        BY <4>1
      <4> HIDE DEF Steps
      <4> QED
        BY <2>3, <4>1, <4>2
    <3>3. Newest' = Newest
      BY <2>3 DEF Newest
    <3> QED
      BY <2>2, <2>3, <3>1, <3>2, <3>3 DEF ServersTyped
  <2>4. CASE /\ loop' = Idle /\ clients' = ClosedBy(Newest)
             /\ status' = [status EXCEPT !.state = "failed"]
    <3>1. clients' \in Seq(ClientRecords) /\ Newest' = Newest /\ DOMAIN clients' = DOMAIN clients
      BY <1>0, <2>1, <2>4, NewestSet, OneClient
    <3> QED
      BY <1>0, <1>5, <2>2, <2>4, <3>1 DEF RegisterTool, ServersTyped, Idle
  <2> QED
    BY <1>5, <2>3, <2>4 DEF RegisterTool
<1>6. CASE Connected
  <2>1. Newest > 0 /\ clients' = [clients EXCEPT ![Newest].watcher = "idle"]
    BY <1>0, <1>6 DEF Connected
  <2>2. clients' \in Seq(ClientRecords) /\ Newest' = Newest /\ DOMAIN clients' = DOMAIN clients
    BY <1>0, <2>1, NewestSet, OneClient
  <2>3. NamesIn(loop.list) \subseteq Tools
    BY <1>0, NamesAreTools
  <2> QED
    BY <1>0, <1>6, <2>2, <2>3 DEF Connected, ServersTyped, Idle
<1>7. CASE RefreshCloses
  <2>1. clients' \in Seq(ClientRecords) /\ Newest' = Newest /\ DOMAIN clients' = DOMAIN clients
    BY <1>7, ClientsClosed DEF RefreshCloses
  <2> QED
    BY <1>0, <1>7, <2>1 DEF RefreshCloses, ServersTyped
<1>8. CASE RefreshUnregisters
  <2>1. /\ loop' \in [pc : {"start", "list", "register", "idle", "unregister"},
                       list : Lists \cup {<<>>}, n : Nat]
        /\ loop'.pc = "start"
        /\ status' \in [state : {"none", "starting", "failed", "ready", "stale"}, tools : SUBSET Tools]
    BY <1>0, <1>8 DEF RefreshUnregisters
  <2>2. registry' \in [Tools -> 0 .. Newest] /\ Newest' = Newest /\ late' \subseteq late
    BY <1>0, <1>8, <1>c DEF RefreshUnregisters, Unlisted
  <2> QED
    BY <1>0, <1>8, <2>1, <2>2 DEF RefreshUnregisters, ServersTyped
<1> QED
  BY <1>1, <1>2, <1>3, <1>4, <1>5, <1>6, <1>7, <1>8 DEF LoopSteps

WatcherSteps(c) == StepsAside(c) \/ Writes(c)

LEMMA ServersKeepTypes == ServersTyped /\ [McpNext]_mcpVars => ServersTyped'
PROOF
<1> SUFFICES ASSUME ServersTyped, [McpNext]_mcpVars PROVE ServersTyped'
  OBVIOUS
<1>0. /\ clients \in Seq(ClientRecords) /\ Newest <= MaxClients /\ Newest \in Nat
      /\ DOMAIN clients = 1 .. Newest
      /\ registry \in [Tools -> 0 .. Newest]
      /\ status \in [state : {"none", "starting", "failed", "ready", "stale"}, tools : SUBSET Tools]
      /\ turn \in [active : BOOLEAN, tools : [Tools -> 0 .. Newest], raced : BOOLEAN]
  BY DEF ServersTyped, Newest
<1>1. CASE LoopSteps
  BY <1>1, LoopKeepsTypes
<1>2. CASE TurnBegins
  BY <1>0, <1>2 DEF TurnBegins, ServersTyped, Newest
<1>3. CASE TurnOver
  BY <1>0, <1>3 DEF TurnOver, ServersTyped, Newest, Unlisted
<1>4. CASE UNCHANGED mcpVars
  BY <1>4 DEF mcpVars, ServersTyped, Newest
<1>5. ASSUME NEW c \in DOMAIN clients,
             \/ ToolsChange(c) \/ RequestElicitation(c) \/ HandleElicitation(c)
             \/ Watch(c) \/ MarkStale(c) \/ RelistFails(c) \/ WatcherReturns(c)
      PROVE  ServersTyped'
  <2>1. StepsAside(c) /\ UNCHANGED <<loop, registry, turn, late>>
        /\ status' \in [state : {"none", "starting", "failed", "ready", "stale"}, tools : SUBSET Tools]
    BY <1>5, WatcherStepsAside
  <2>2. clients' \in Seq(ClientRecords) /\ Newest' = Newest /\ DOMAIN clients' = DOMAIN clients
    BY <1>0, <2>1, OneClient DEF StepsAside
  <2> QED
    BY <2>1, <2>2 DEF ServersTyped
<1>6. ASSUME NEW c \in DOMAIN clients,
             Relist(c) \/ UnregisterPrefix(c) \/ Reregister(c) \/ Relisted(c)
      PROVE  ServersTyped'
  <2>1. Writes(c) /\ UNCHANGED <<loop, turn, late>>
    BY <1>6, WatcherWrites
  <2>2. clients' \in Seq(ClientRecords) /\ Newest' = Newest /\ DOMAIN clients' = DOMAIN clients
    BY <1>0, <2>1, OneClient DEF Writes
  <2>3. clients[c].list \in Lists \cup {<<>>} /\ clients[c].n \in Nat
    <3>1. clients[c] \in ClientRecords
      BY <1>0
    <3> QED
      BY <3>1 DEF ClientRecords
  <2>4. registry' \in [Tools -> 0 .. Newest]
    <3>1. CASE clients[c].n < Len(clients[c].list) /\ registry' = WithTool(clients[c].list[clients[c].n + 1], c)
      <4>1. clients[c].list[clients[c].n + 1] \in Tools
        BY <2>3, <3>1, NamesAreTools
      <4> QED
        BY <3>1, <4>1, ToolRegistered
    <3>2. CASE registry' = registry
      BY <1>0, <3>2
    <3>3. CASE registry' = Unlisted
      BY <1>0, <3>3 DEF Unlisted
    <3> QED
      BY <2>1, <3>1, <3>2, <3>3 DEF Writes
  <2>5. status' \in [state : {"none", "starting", "failed", "ready", "stale"}, tools : SUBSET Tools]
    <3>1. NamesIn(clients[c].list) \subseteq Tools
      BY <2>3, NamesAreTools
    <3> QED
      BY <1>0, <2>1, <3>1 DEF Writes, Restated
  <2> QED
    BY <2>1, <2>2, <2>4, <2>5 DEF ServersTyped
<1> QED
  BY <1>1, <1>2, <1>3, <1>4, <1>5, <1>6 DEF McpNext, LoopSteps

\* No watcher sets out for a list while a turn runs.
LEMMA TurnKept == ServersTyped /\ TurnInv /\ [McpNext]_mcpVars => TurnInv'
PROOF
<1> SUFFICES ASSUME ServersTyped, TurnInv, [McpNext]_mcpVars PROVE TurnInv'
  OBVIOUS
<1>0. clients \in Seq(ClientRecords)
  BY DEF ServersTyped
<1>1. CASE LoopSteps
  BY <1>1 DEF LoopSteps, StartFails, StartClient, ListFails, ListTools, RegisterTool, Connected,
     RefreshCloses, RefreshUnregisters, TurnInv
<1>2. CASE TurnBegins
  BY <1>2 DEF TurnBegins, TurnInv, Relisting
<1>3. CASE TurnOver
  BY <1>3 DEF TurnOver, TurnInv
<1>4. CASE UNCHANGED mcpVars
  BY <1>4 DEF mcpVars, TurnInv, Relisting
<1>5. ASSUME NEW c \in DOMAIN clients,
             \/ ToolsChange(c) \/ RequestElicitation(c) \/ HandleElicitation(c)
             \/ Watch(c) \/ MarkStale(c) \/ RelistFails(c) \/ WatcherReturns(c)
      PROVE  TurnInv'
  <2>1. StepsAside(c) /\ UNCHANGED <<loop, registry, turn>>
    BY <1>5, WatcherStepsAside
  <2> PICK r \in ClientRecords : Sets(c, r) /\ Aside(c, r)
    BY <2>1 DEF StepsAside
  <2>2. turn.active /\ Relisting(c)' => Relisting(c)
    BY <1>0, OneClient DEF Aside, Relisting
  <2>3. \A d \in DOMAIN clients' : d \in DOMAIN clients /\ (turn.active /\ Relisting(d)' => Relisting(d))
    BY <1>0, <2>2, OneClient DEF Relisting
  <2> QED
    BY <2>1, <2>3 DEF TurnInv
<1>6. ASSUME NEW c \in DOMAIN clients,
             Relist(c) \/ UnregisterPrefix(c) \/ Reregister(c) \/ Relisted(c)
      PROVE  TurnInv'
  <2>1. Writes(c) /\ UNCHANGED <<loop, turn>>
    BY <1>6, WatcherWrites
  <2>2. Relisting(c)
    BY <2>1 DEF Writes, Relisting
  <2> QED
    BY <2>1, <2>2 DEF TurnInv
<1> QED
  BY <1>1, <1>2, <1>3, <1>4, <1>5, <1>6 DEF McpNext, LoopSteps

\* The next tool of a list is registered, or the whole list was.
LEMMA OneToolMore ==
  ASSUME ServersTyped, NEW list \in Lists, NEW n \in Nat, n < Len(list), NEW c \in DOMAIN clients,
         Holds(list, n, c), registry' = WithTool(list[n + 1], c)
  PROVE  /\ n + 1 <= Len(list)
         /\ \A t \in Tools : registry'[t] = IF \E i \in 1 .. n + 1 : list[i] = t THEN c ELSE 0
PROOF
<1>1. list \in Seq(Tools) /\ list[n + 1] \in Tools /\ Len(list) \in Nat
  BY NamesAreTools
<1>2. c \in Nat /\ c > 0
  BY DEF ServersTyped
<1>3. \A t \in Tools : (\E i \in 1 .. n + 1 : list[i] = t) <=> t = list[n + 1] \/ \E i \in 1 .. n : list[i] = t
  <2>1. \A i : i \in 1 .. n + 1 <=> i \in 1 .. n \/ i = n + 1
    OBVIOUS
  <2> QED
    BY <2>1
<1>4. /\ registry'[list[n + 1]] = IF registry[list[n + 1]] = 0 THEN c ELSE registry[list[n + 1]]
      /\ \A u \in Tools : u # list[n + 1] => registry'[u] = registry[u]
  BY <1>1, ToolRegistered
<1>5. registry'[list[n + 1]] = c
  BY <1>1, <1>4 DEF Holds
<1>6. ASSUME NEW t \in Tools, t # list[n + 1]
      PROVE  registry'[t] = IF \E i \in 1 .. n + 1 : list[i] = t THEN c ELSE 0
  BY <1>3, <1>4, <1>6 DEF Holds
<1> QED
  BY <1>1, <1>3, <1>5, <1>6

LEMMA WholeList ==
  ASSUME ServersTyped, NEW list \in Lists, NEW c, Holds(list, Len(list), c)
  PROVE  \A t \in Tools : registry[t] = IF t \in NamesIn(list) THEN c ELSE 0
PROOF
<1>1. DOMAIN list = 1 .. Len(list)
  BY NamesAreTools
<1> QED
  BY <1>1 DEF Holds, NamesIn

\* Every step leaves one client that is open at most, and behind the tools that one or
\* a late one.
LEMMA NewestKept == ServersTyped /\ NewestInv /\ [McpNext]_mcpVars => NewestInv'
PROOF
<1> SUFFICES ASSUME ServersTyped, NewestInv, [McpNext]_mcpVars PROVE OldQuiet' /\ Connecting' /\ Owned'
  BY DEF NewestInv
<1>0. /\ clients \in Seq(ClientRecords) /\ Newest \in Nat /\ DOMAIN clients = 1 .. Newest
      /\ loop.pc \in {"list", "register"} => Newest \in DOMAIN clients
      /\ loop \in [pc : {"start", "list", "register", "idle", "unregister"},
                   list : Lists \cup {<<>>}, n : Nat]
      /\ registry \in [Tools -> 0 .. Newest] /\ OldQuiet /\ Connecting /\ Owned
  BY DEF ServersTyped, Newest, NewestInv
<1>s. ASSUME UNCHANGED <<clients, late>>
      PROVE  Newest' = Newest /\ OldQuiet' = OldQuiet /\ AllQuiet' = AllQuiet
  BY <1>s DEF Newest, OldQuiet, AllQuiet, Quiet, Relisting
<1>f. ASSUME Newest \in DOMAIN clients, clients' = ClosedBy(Newest), loop' = Idle, late' = late,
             \A t \in Tools : registry'[t] = registry[t] \/ registry'[t] = Newest
      PROVE  OldQuiet' /\ Connecting' /\ Owned'
  <2>1. PICK r \in ClientRecords : Sets(Newest, r)
    BY <1>0, <1>f, NewestSet
  <2>2. /\ Newest' = Newest /\ DOMAIN clients' = DOMAIN clients
        /\ \A d \in DOMAIN clients : d # Newest => clients'[d] = clients[d]
    BY <1>0, <1>f, <2>1, OneClient
  <2>3. OldQuiet'
    BY <1>0, <1>f, <2>2 DEF OldQuiet, Quiet, Relisting
  <2>4. Connecting' /\ Owned'
    BY <1>0, <1>f, <2>2 DEF Connecting, Owned, Owners, Idle
  <2> QED
    BY <2>3, <2>4
<1>1. CASE StartFails
  <2>1. UNCHANGED <<clients, registry, late>> /\ loop' = Idle
    BY <1>1 DEF StartFails
  <2> QED
    BY <1>0, <1>s, <2>1 DEF Connecting, Owned, Owners, Idle
<1>2. CASE StartClient
  <2>1. AllQuiet /\ UNCHANGED <<registry, late>> /\ loop'.pc = "list"
    BY <1>0, <1>2 DEF StartClient, Connecting
  <2>2. /\ Newest' = Newest + 1 /\ DOMAIN clients' = 1 .. Newest + 1
        /\ clients'[Newest'] = NewClient /\ \A d \in DOMAIN clients : clients'[d] = clients[d]
    BY <1>2, ClientStarted DEF StartClient
  <2>3. OldQuiet'
    <3> SUFFICES ASSUME NEW d \in 1 .. Newest + 1, d # Newest + 1 PROVE Quiet(d)'
      BY <2>2 DEF OldQuiet
    <3>1. d \in DOMAIN clients
      BY <1>0
    <3> QED
      BY <2>1, <2>2, <3>1 DEF AllQuiet, Quiet, Relisting
  <2>4. Connecting'
    BY <2>1, <2>2 DEF Connecting, NewClient
  <2>5. Owned'
    <3>1. loop.pc = "start"
      BY <1>2 DEF StartClient
    <3> QED
      BY <1>0, <2>1, <3>1 DEF Owned, Owners
  <2> QED
    BY <2>3, <2>4, <2>5
<1>3. CASE ListFails
  BY <1>0, <1>3, <1>f DEF ListFails
<1>4. CASE ListTools
  <2>1. PICK list \in Lists : loop' = [pc |-> "register", list |-> list, n |-> 0]
    BY <1>4 DEF ListTools
  <2>2. UNCHANGED <<clients, registry, late>> /\ loop.pc = "list" /\ loop'.pc = "register" /\ loop'.list \in Lists
    BY <1>4, <2>1 DEF ListTools
  <2>3. clients'[Newest'].open /\ clients'[Newest'].watcher = "none"
    BY <1>0, <1>s, <2>2 DEF Connecting
  <2> QED
    BY <1>0, <1>s, <2>2, <2>3 DEF Connecting, Owned, Owners
<1>5. CASE RegisterTool
  <2> DEFINE t == loop.list[loop.n + 1]
  <2>1. /\ t \in Tools /\ Newest \in DOMAIN clients /\ registry' = WithTool(t, Newest) /\ late' = late
        /\ loop.pc = "register"
    BY <1>0, <1>5, NamesAreTools DEF RegisterTool
  <2> HIDE DEF t
  <2>2. \A u \in Tools : registry'[u] = registry[u] \/ registry'[u] = Newest
    BY <2>1, ToolRegistered
  <2>3. CASE loop' = [loop EXCEPT !.n = @ + 1] /\ UNCHANGED clients
    <3>1. loop'.pc = "register" /\ loop'.list = loop.list
      BY <1>0, <2>1, <2>3
    <3>2. Connecting'
      BY <1>0, <1>s, <2>1, <2>3, <3>1 DEF Connecting
    <3>3. Owned'
      BY <1>0, <1>s, <2>1, <2>2, <2>3, <3>1 DEF Owned, Owners
    <3> QED
      BY <1>0, <1>s, <2>1, <2>3, <3>2, <3>3
  <2>4. CASE loop' = Idle /\ clients' = ClosedBy(Newest)
    BY <1>f, <2>1, <2>2, <2>4
  <2> QED
    BY <1>5, <2>3, <2>4 DEF RegisterTool
<1>6. CASE Connected
  <2>1. /\ Newest \in DOMAIN clients /\ loop' = Idle /\ loop.pc = "register" /\ UNCHANGED <<registry, late>>
        /\ clients' = [clients EXCEPT ![Newest].watcher = "idle"]
    BY <1>0, <1>6 DEF Connected
  <2>2. PICK r \in ClientRecords : Sets(Newest, r)
    BY <1>0, <2>1, NewestSet
  <2>3. /\ Newest' = Newest /\ DOMAIN clients' = DOMAIN clients
        /\ \A d \in DOMAIN clients : d # Newest => clients'[d] = clients[d]
    BY <1>0, <2>1, <2>2, OneClient
  <2>4. OldQuiet'
    BY <1>0, <2>1, <2>3 DEF OldQuiet, Quiet, Relisting
  <2> QED
    BY <1>0, <2>1, <2>3, <2>4 DEF Connecting, Owned, Owners, Idle
<1>7. CASE RefreshCloses
  <2>1. /\ DOMAIN clients' = DOMAIN clients /\ Newest' = Newest
        /\ \A c \in DOMAIN clients : ~clients'[c].open /\ clients'[c].watcher = clients[c].watcher
    BY <1>7, ClientsClosed DEF RefreshCloses
  <2>2. late' = late \cup {c \in DOMAIN clients : Relisting(c)} /\ registry' = registry /\ loop.pc = "idle"
    BY <1>7 DEF RefreshCloses
  <2>3. AllQuiet' /\ OldQuiet'
    BY <2>1, <2>2 DEF AllQuiet, OldQuiet, Quiet, Relisting
  <2>4. loop'.pc = "unregister"
    BY <1>0, <1>7 DEF RefreshCloses
  <2>5. Owned'
    BY <1>0, <2>1, <2>2, <2>4 DEF Owned, Owners
  <2> QED
    BY <2>3, <2>4, <2>5 DEF Connecting
<1>8. CASE RefreshUnregisters
  <2>1. AllQuiet
    BY <1>0, <1>8 DEF RefreshUnregisters, Connecting
  <2>2. loop'.pc = "start" /\ registry' = Unlisted /\ clients' = clients /\ late' = {c \in late : Relisting(c)}
    BY <1>0, <1>8 DEF RefreshUnregisters
  <2>3. AllQuiet' /\ OldQuiet'
    BY <2>1, <2>2 DEF AllQuiet, OldQuiet, Quiet, Relisting
  <2> QED
    BY <2>2, <2>3 DEF Connecting, Owned, Unlisted
<1>9. ASSUME UNCHANGED <<loop, clients, registry, late>> PROVE OldQuiet' /\ Connecting' /\ Owned'
  BY <1>0, <1>9, <1>s DEF Connecting, Owned, Owners
<1>10. ASSUME NEW c \in DOMAIN clients,
              \/ ToolsChange(c) \/ RequestElicitation(c) \/ HandleElicitation(c)
              \/ Watch(c) \/ MarkStale(c) \/ RelistFails(c) \/ WatcherReturns(c)
       PROVE  OldQuiet' /\ Connecting' /\ Owned'
  <2>1. StepsAside(c) /\ UNCHANGED <<loop, registry, late>>
    BY <1>10, WatcherStepsAside
  <2> PICK r \in ClientRecords : Sets(c, r) /\ Aside(c, r)
    BY <2>1 DEF StepsAside
  <2>2. /\ Newest' = Newest /\ DOMAIN clients' = DOMAIN clients /\ clients'[c] = r
        /\ \A d \in DOMAIN clients : d # c => clients'[d] = clients[d]
    BY <1>0, OneClient
  <2>3. \A d \in DOMAIN clients : Quiet(d) => Quiet(d)'
    <3>1. Quiet(c) => Quiet(c)'
      BY <2>1, <2>2 DEF Aside, Quiet, Relisting
    <3> QED
      BY <2>1, <2>2, <3>1 DEF Quiet, Relisting
  <2>4. OldQuiet' /\ (AllQuiet => AllQuiet')
    BY <1>0, <2>2, <2>3 DEF OldQuiet, AllQuiet
  <2>5. loop.pc \in {"list", "register"} => clients'[Newest].open /\ clients'[Newest].watcher = "none"
    BY <1>0, <2>2 DEF Connecting, Aside
  <2>6. Connecting' /\ Owned'
    BY <1>0, <2>1, <2>2, <2>4, <2>5 DEF Connecting, Owned, Owners
  <2> QED
    BY <2>4, <2>6
<1>11. ASSUME NEW c \in DOMAIN clients,
              Relist(c) \/ UnregisterPrefix(c) \/ Reregister(c) \/ Relisted(c)
       PROVE  OldQuiet' /\ Connecting' /\ Owned'
  <2>1. Writes(c) /\ UNCHANGED <<loop, late>>
    BY <1>11, WatcherWrites
  <2>2. Relisting(c) /\ clients[c].watcher # "none"
    BY <2>1 DEF Writes, Relisting
  <2>3. /\ Newest' = Newest /\ DOMAIN clients' = DOMAIN clients /\ clients'[c].open = clients[c].open
        /\ \A d \in DOMAIN clients : d # c => clients'[d] = clients[d]
    BY <1>0, <2>1, OneClient DEF Writes
  <2>4. \A d \in DOMAIN clients : Quiet(d) => Quiet(d)'
    BY <2>1, <2>2, <2>3 DEF Quiet, Relisting
  <2>5. OldQuiet' /\ (AllQuiet => AllQuiet')
    BY <1>0, <2>3, <2>4 DEF OldQuiet, AllQuiet
  <2>6. loop.pc \in {"list", "register"} => c # Newest
    BY <1>0, <2>2 DEF Connecting
  <2>7. c \in Owners
    BY <1>0, <2>2, <2>6 DEF OldQuiet, AllQuiet, Quiet, Connecting, Owners
  <2>8. \A t \in Tools : registry'[t] \in {0, c, registry[t]}
    <3>1. CASE clients[c].n < Len(clients[c].list) /\ registry' = WithTool(clients[c].list[clients[c].n + 1], c)
      <4>1. clients[c].list \in Lists \cup {<<>>} /\ clients[c].n \in Nat
        <5>1. clients[c] \in ClientRecords
          BY <1>0
        <5> QED
          BY <5>1 DEF ClientRecords
      <4>2. clients[c].list[clients[c].n + 1] \in Tools
        BY <3>1, <4>1, NamesAreTools
      <4> QED
        BY <3>1, <4>2, ToolRegistered
    <3>2. CASE registry' = registry
      BY <3>2
    <3>3. CASE registry' = Unlisted
      BY <3>3 DEF Unlisted
    <3> QED
      BY <2>1, <3>1, <3>2, <3>3 DEF Writes
  <2>9. Owned'
    BY <1>0, <2>1, <2>3, <2>7, <2>8 DEF Owned, Owners
  <2>10. Connecting'
    BY <1>0, <2>1, <2>3, <2>5, <2>6 DEF Connecting
  <2> QED
    BY <2>5, <2>9, <2>10
<1> QED
  BY <1>1, <1>2, <1>3, <1>4, <1>5, <1>6, <1>7, <1>8, <1>9, <1>10, <1>11
     DEF McpNext, TurnBegins, TurnOver, mcpVars

\* The status says ready of a list that the router has.
LEMMA ReadyKept == ServersTyped /\ ReadyInv /\ [McpNext]_mcpVars => ReadyInv'
PROOF
<1> SUFFICES ASSUME ServersTyped, ReadyInv, [McpNext]_mcpVars, late' = {}
             PROVE  Registered' /\ Watched'
  BY NewestKept DEF ReadyInv
<1>0. /\ clients \in Seq(ClientRecords) /\ Newest \in Nat /\ DOMAIN clients = 1 .. Newest
      /\ loop.pc \in {"list", "register"} => Newest \in DOMAIN clients
      /\ loop \in [pc : {"start", "list", "register", "idle", "unregister"},
                   list : Lists \cup {<<>>}, n : Nat]
      /\ status \in [state : {"none", "starting", "failed", "ready", "stale"}, tools : SUBSET Tools]
      /\ registry \in [Tools -> 0 .. Newest]
  BY DEF ServersTyped, Newest
<1>e. /\ OldQuiet /\ Connecting /\ Owned
      /\ late = {} => Registered /\ Watched /\ (AllQuiet <=> \A c \in DOMAIN clients : ~clients[c].open /\ ~Relisting(c))
  BY DEF ReadyInv, NewestInv, AllQuiet, Quiet
<1>s. ASSUME UNCHANGED <<clients, late>>
      PROVE  Newest' = Newest /\ AllQuiet' = AllQuiet
  BY <1>s DEF Newest, AllQuiet, Quiet, Relisting
<1>f. ASSUME Newest \in DOMAIN clients, clients' = ClosedBy(Newest), late' = late,
             clients[Newest].watcher = "none", loop' = Idle, status'.state = "failed"
      PROVE  Registered' /\ Watched'
  <2>1. PICK r \in ClientRecords : Sets(Newest, r) /\ ~r.open /\ r.watcher = clients[Newest].watcher
    <3>3. clients[Newest] \in ClientRecords
      BY <1>0, <1>f
    <3> DEFINE r == [clients[Newest] EXCEPT !.open = FALSE]
    <3>4. r \in ClientRecords /\ ~r.open /\ r.watcher = clients[Newest].watcher
      BY <3>3 DEF ClientRecords
    <3>5. Sets(Newest, r)
      BY <1>f DEF ClosedBy, Sets
    <3> QED
      BY <3>4, <3>5
  <2>2. /\ Newest' = Newest /\ DOMAIN clients' = DOMAIN clients /\ clients'[Newest] = r
        /\ \A d \in DOMAIN clients : d # Newest => clients'[d] = clients[d]
    BY <1>0, <1>f, <2>1, OneClient
  <2>3. AllQuiet'
    BY <1>e, <1>f, <2>1, <2>2 DEF OldQuiet, AllQuiet, Quiet, Relisting
  <2> QED
    BY <1>f, <2>3 DEF Registered, Watched, Idle
<1>1. CASE StartFails
  <2>1. AllQuiet
    BY <1>1, <1>e DEF StartFails, Connecting
  <2> QED
    BY <1>1, <1>s, <2>1 DEF StartFails, Registered, Watched, Idle
<1>2. CASE StartClient
  <2>1. loop'.pc = "list"
    BY <1>0, <1>2 DEF StartClient
  <2> QED
    BY <2>1 DEF Registered, Watched
<1>3. CASE ListFails
  <2>1. clients[Newest].watcher = "none"
    BY <1>3, <1>e DEF ListFails, Connecting
  <2>2. status'.state = "failed"
    BY <1>0, <1>3 DEF ListFails
  <2> QED
    BY <1>0, <1>3, <1>f, <2>1, <2>2 DEF ListFails
<1>4. CASE ListTools
  <2>1. PICK list \in Lists : loop' = [pc |-> "register", list |-> list, n |-> 0]
    BY <1>4 DEF ListTools
  <2>2. UNCHANGED <<clients, registry, late>> /\ loop.pc = "list"
    BY <1>4 DEF ListTools
  <2>3. registry = Unlisted
    <3>1. \A t \in Tools : registry[t] = 0
      BY <1>e, <2>2 DEF Owned, Owners
    <3> QED
      BY <1>0, <3>1 DEF Unlisted
  <2>4. Holds(list, 0, Newest)'
    <3>1. Len(list) \in Nat
      BY NamesAreTools
    <3> QED
      BY <2>2, <2>3, <3>1 DEF Holds, Unlisted
  <2>5. loop'.pc = "register" /\ loop'.list = list /\ loop'.n = 0
    BY <2>1
  <2> QED
    BY <1>s, <2>2, <2>4, <2>5 DEF Registered, Watched, Holds
<1>5. CASE RegisterTool
  <2>1. /\ clients[Newest].watcher = "none" /\ late' = late
        /\ loop.list \in Lists /\ Holds(loop.list, loop.n, Newest) /\ Newest \in DOMAIN clients
        /\ loop.n \in Nat /\ loop.n < Len(loop.list) /\ registry' = WithTool(loop.list[loop.n + 1], Newest)
    BY <1>0, <1>5, <1>e DEF RegisterTool, Connecting, Registered
  <2>2. CASE loop' = [loop EXCEPT !.n = @ + 1] /\ UNCHANGED <<clients, status>>
    <3>1. loop'.pc = "register" /\ loop'.list = loop.list /\ loop'.n = loop.n + 1
      BY <1>0, <1>5, <2>2 DEF RegisterTool
    <3>2. /\ loop.n + 1 <= Len(loop.list)
          /\ \A t \in Tools : registry'[t] = IF \E i \in 1 .. loop.n + 1 : loop.list[i] = t THEN Newest ELSE 0
      BY <2>1, OneToolMore
    <3>3. Holds(loop.list, loop.n, Newest)'
      BY <1>s, <2>1, <2>2, <3>1, <3>2 DEF Holds
    <3> QED
      BY <3>1, <3>3 DEF Registered, Watched
  <2>3. CASE loop' = Idle /\ clients' = ClosedBy(Newest) /\ status' = [status EXCEPT !.state = "failed"]
    <3>1. status'.state = "failed"
      BY <1>0, <2>3
    <3> QED
      BY <1>f, <2>1, <2>3, <3>1
  <2> QED
    BY <1>5, <2>2, <2>3 DEF RegisterTool
<1>6. CASE Connected
  <2>1. /\ clients[Newest].open /\ loop.list \in Lists /\ Newest \in DOMAIN clients
        /\ Holds(loop.list, Len(loop.list), Newest) /\ registry' = registry
    BY <1>0, <1>6, <1>e DEF Connected, Connecting, Registered
  <2> DEFINE r == [clients[Newest] EXCEPT !.watcher = "idle"]
  <2>2. Sets(Newest, r) /\ r \in ClientRecords /\ r.open /\ r.watcher = "idle"
    <3>1. clients[Newest] \in ClientRecords
      BY <1>0, <2>1
    <3> QED
      BY <1>6, <2>1, <3>1 DEF Connected, Sets, ClientRecords
  <2> HIDE DEF r
  <2>3. /\ Newest' = Newest /\ DOMAIN clients' = DOMAIN clients /\ clients'[Newest] = r
        /\ \A d \in DOMAIN clients : d # Newest => clients'[d] = clients[d]
    BY <1>0, <2>1, <2>2, OneClient
  <2>5. \A t \in Tools : registry'[t] = IF t \in NamesIn(loop.list) THEN Newest ELSE 0
    BY <2>1, WholeList
  <2>6. loop'.pc = "idle" /\ status'.state = "ready" /\ status'.tools = NamesIn(loop.list)
    BY <1>6 DEF Connected, Idle
  <2>7. Serving'
    BY <1>0, <2>1, <2>2, <2>3, <2>5, <2>6 DEF Serving
  <2> QED
    BY <2>6, <2>7 DEF Registered, Watched
<1>7. CASE RefreshCloses \/ RefreshUnregisters
  <2>1. loop'.pc \in {"unregister", "start"}
    BY <1>0, <1>7 DEF RefreshCloses, RefreshUnregisters
  <2> QED
    BY <2>1 DEF Registered, Watched
<1>9. ASSUME UNCHANGED <<loop, clients, registry, status, late>> PROVE Registered' /\ Watched'
  BY <1>9, <1>e, <1>s DEF Registered, Watched, Serving, Holds
<1>10. ASSUME NEW c \in DOMAIN clients,
              \/ ToolsChange(c) \/ RequestElicitation(c) \/ HandleElicitation(c)
              \/ Watch(c) \/ MarkStale(c) \/ RelistFails(c) \/ WatcherReturns(c)
       PROVE  Registered' /\ Watched'
  <2>1. StepsAside(c) /\ UNCHANGED <<loop, registry, turn, late>>
    BY <1>10, WatcherStepsAside
  <2> PICK r \in ClientRecords : Sets(c, r) /\ Aside(c, r)
    BY <2>1 DEF StepsAside
  <2>2. /\ Newest' = Newest /\ DOMAIN clients' = DOMAIN clients /\ clients'[c] = r
        /\ \A d \in DOMAIN clients : d # c => clients'[d] = clients[d]
    BY <1>0, OneClient
  <2>3. Registered /\ Watched /\ late = {}
    BY <1>e, <2>1
  <2>5. AllQuiet => AllQuiet'
    <3>1. Quiet(c) => Quiet(c)'
      BY <2>1, <2>2 DEF Aside, Quiet, Relisting
    <3> QED
      BY <2>1, <2>2, <3>1 DEF AllQuiet, Quiet, Relisting
  <2>6. Registered'
    BY <2>1, <2>2, <2>3 DEF Registered, Holds
  <2>7. status' = status \/ status'.state # "ready"
    BY DEF Aside
  <2>8. ASSUME Serving PROVE Serving'
    <3>1. Newest \in DOMAIN clients
      BY <1>0, <2>8 DEF Serving
    <3>2. CASE c # Newest
      BY <2>1, <2>2, <2>7, <2>8, <3>1, <3>2 DEF Serving, Holds
    <3>3. CASE c = Newest
      <4>1. CASE /\ r.watcher = clients[c].watcher /\ r.list = clients[c].list /\ r.n = clients[c].n
                 /\ UNCHANGED status
        BY <2>1, <2>2, <2>8, <3>1, <3>3, <4>1 DEF Serving, Holds, Aside
      <4>2. CASE /\ clients[c].watcher \notin {"none", "registering", "listed"}
                 /\ r.watcher \in {"idle", "eliciting", "marking", "listing", "refused", "gone"}
        <5>1. r.open /\ r.watcher \notin {"none", "registering", "listed"}
          BY <2>8, <3>3, <4>2 DEF Serving, Aside
        <5>2. status'.state = "ready" => \A t \in Tools : registry[t] = IF t \in status'.tools THEN Newest ELSE 0
          BY <2>7, <2>8, <3>3, <4>2 DEF Serving
        <5> QED
          BY <2>1, <2>2, <2>8, <3>1, <3>3, <5>1, <5>2 DEF Serving
      <4> QED
        BY <4>1, <4>2 DEF Aside
    <3> QED
      BY <3>2, <3>3
  <2>9. Watched'
    BY <2>1, <2>3, <2>5, <2>7, <2>8 DEF Watched
  <2> QED
    BY <2>6, <2>9
<1>11. ASSUME NEW c \in DOMAIN clients,
              Relist(c) \/ UnregisterPrefix(c) \/ Reregister(c) \/ Relisted(c)
       PROVE  Registered' /\ Watched'
  <2>1. Writes(c) /\ UNCHANGED <<loop, turn, late>>
    BY <1>11, WatcherWrites
  <2>2. OldQuiet /\ Connecting /\ Watched /\ late = {}
    BY <1>e, <2>1
  <2>3. Relisting(c) /\ clients[c].watcher # "none"
    BY <2>1 DEF Writes, Relisting
  <2>4. c = Newest /\ Newest > 0
    BY <1>0, <2>2, <2>3 DEF OldQuiet, Quiet
  <2>5. loop.pc = "idle" /\ Serving
    BY <1>0, <2>2, <2>3, <2>4 DEF Connecting, Watched, AllQuiet, Quiet
  <2>6. /\ clients[c].open /\ clients[c] \in ClientRecords
        /\ clients[c].watcher \in {"listed", "registering"} => clients[c].list \in Lists
        /\ clients[c].watcher = "listed" => clients[c].n = 0
        /\ clients[c].watcher = "registering" => Holds(clients[c].list, clients[c].n, c)
        /\ status.state = "ready" /\ clients[c].watcher # "registering" =>
             \A t \in Tools : registry[t] = IF t \in status.tools THEN c ELSE 0
    BY <1>0, <2>4, <2>5 DEF Serving
  <2> PICK r \in ClientRecords :
        /\ Sets(c, r) /\ r.open = clients[c].open
        /\ \/ /\ clients[c].watcher = "listing" /\ UNCHANGED <<registry, status>>
              /\ r.watcher = "listed" /\ r.list \in Lists /\ r.n = 0
           \/ /\ clients[c].watcher = "listed" /\ registry' = Unlisted /\ UNCHANGED status
              /\ r.watcher = "registering" /\ r.list = clients[c].list /\ r.n = clients[c].n
           \/ /\ clients[c].watcher = "registering" /\ clients[c].n < Len(clients[c].list)
              /\ registry' = WithTool(clients[c].list[clients[c].n + 1], c) /\ UNCHANGED status
              /\ r.watcher = "registering" /\ r.list = clients[c].list /\ r.n = clients[c].n + 1
           \/ /\ clients[c].watcher = "registering" /\ clients[c].n = Len(clients[c].list)
              /\ r.watcher = "idle" /\ Restated("ready", NamesIn(clients[c].list)) /\ UNCHANGED registry
    BY <2>1 DEF Writes
  <2>7. /\ Newest' = Newest /\ DOMAIN clients' = DOMAIN clients /\ clients'[Newest] = r
        /\ \A d \in DOMAIN clients : d # Newest => clients'[d] = clients[d]
    BY <1>0, <2>4, OneClient
  <2>9. Registered' /\ loop'.pc = "idle"
    BY <2>1, <2>5 DEF Registered
  <2>10. ASSUME /\ r.watcher \in {"listed", "registering"} => r.list \in Lists
                /\ r.watcher = "listed" => r.n = 0
                /\ r.watcher = "registering" => Holds(r.list, r.n, c)'
                /\ status'.state = "ready" /\ r.watcher # "registering" =>
                     \A t \in Tools : registry'[t] = IF t \in status'.tools THEN c ELSE 0
                /\ r.watcher # "none"
         PROVE  Serving'
    <3>1. clients'[Newest'] = r /\ Newest' = c
      BY <2>4, <2>7
    <3>2. r.watcher = "registering" => Holds(clients[Newest].list, clients[Newest].n, Newest)'
      BY <2>10, <3>1 DEF Holds
    <3> QED
      BY <2>4, <2>6, <2>10, <3>1, <3>2 DEF Serving
  <2>11. ASSUME /\ clients[c].watcher = "listing" /\ UNCHANGED <<registry, status>>
                /\ r.watcher = "listed" /\ r.list \in Lists /\ r.n = 0
         PROVE  Serving'
    BY <2>6, <2>10, <2>11
  <2>12. ASSUME /\ clients[c].watcher = "listed" /\ registry' = Unlisted
                /\ r.watcher = "registering" /\ r.list = clients[c].list /\ r.n = clients[c].n
         PROVE  Serving'
    <3>1. r.list \in Lists /\ r.n = 0 /\ Len(r.list) \in Nat
      BY <2>6, <2>12, NamesAreTools
    <3>2. Holds(r.list, r.n, c)'
      BY <2>12, <3>1 DEF Holds, Unlisted
    <3> QED
      BY <2>10, <2>12, <3>1, <3>2
  <2>13. ASSUME /\ clients[c].watcher = "registering" /\ clients[c].n < Len(clients[c].list)
                /\ registry' = WithTool(clients[c].list[clients[c].n + 1], c)
                /\ r.watcher = "registering" /\ r.list = clients[c].list /\ r.n = clients[c].n + 1
         PROVE  Serving'
    <3>1. clients[c].list \in Lists /\ clients[c].n \in Nat /\ Holds(clients[c].list, clients[c].n, c)
      BY <2>6, <2>13 DEF ClientRecords
    <3> DEFINE list == clients[c].list
               n == clients[c].n
    <3>2. list \in Lists /\ n \in Nat /\ n < Len(list) /\ Holds(list, n, c) /\ registry' = WithTool(list[n + 1], c)
      BY <2>13, <3>1
    <3> HIDE DEF list, n
    <3>3. /\ n + 1 <= Len(list)
          /\ \A t \in Tools : registry'[t] = IF \E i \in 1 .. n + 1 : list[i] = t THEN c ELSE 0
      BY <3>2, OneToolMore
    <3>4. r.list = list /\ r.n = n + 1
      BY <2>13 DEF list, n
    <3>5. Holds(r.list, r.n, c)'
      BY <3>3, <3>4 DEF Holds
    <3> QED
      BY <2>10, <2>13, <3>1, <3>5
  <2>14. ASSUME /\ clients[c].watcher = "registering" /\ clients[c].n = Len(clients[c].list)
                /\ r.watcher = "idle" /\ Restated("ready", NamesIn(clients[c].list)) /\ UNCHANGED registry
         PROVE  Serving'
    <3>1. \A t \in Tools : registry[t] = IF t \in NamesIn(clients[c].list) THEN c ELSE 0
      BY <2>6, <2>14, WholeList
    <3>2. status'.state = "ready" => status'.tools = NamesIn(clients[c].list)
      BY <1>0, <2>14 DEF Restated
    <3> QED
      BY <2>10, <2>14, <3>1, <3>2
  <2> QED
    BY <2>5, <2>9, <2>11, <2>12, <2>13, <2>14 DEF Watched
<1> QED
  BY <1>1, <1>2, <1>3, <1>4, <1>5, <1>6, <1>7, <1>9, <1>10, <1>11
     DEF McpNext, TurnBegins, TurnOver, mcpVars

\* The invariant holds, whatever the server lists and whenever the tools change.
LEMMA ServersHold == McpSpec => []ServersInv
PROOF
<1>1. ServersInv /\ [McpNext]_mcpVars => ServersInv'
  BY ServersKeepTypes, TurnKept, ReadyKept DEF ServersInv
<1> QED
  BY <1>1, ServersInitial, PTL DEF McpSpec

\* The types of the server's state.
THEOREM ServersTypeCorrect == McpSpec => []McpType
PROOF
<1>1. ServersInv => McpType
  <2> SUFFICES ASSUME ServersTyped PROVE McpType
    BY DEF ServersInv
  <2>1. \A c \in DOMAIN clients : clients[c] \in ClientRecords
    BY DEF ServersTyped
  <2> QED
    BY <2>1 DEF ServersTyped, McpType, ClientRecords
<1> QED
  BY <1>1, ServersHold, PTL

\* A turn keeps the tools it began with, unless a watcher was on its way to a list
\* before: the watcher looks for a turn before it asks, and the loop does not
\* refresh (session/session.go:454-530).
THEOREM ToolsOfATurn == McpSpec => []TurnKeepsItsTools
PROOF
<1>1. ServersInv => TurnKeepsItsTools
  BY DEF ServersInv, TurnInv, TurnKeepsItsTools
<1> QED
  BY <1>1, ServersHold, PTL

\* Behind every tool in the router is the newest client, or one that a refresh closed
\* while its watcher was on its way with a list; without such a late watcher a server
\* that is said to be ready has the listed tools in the router, and behind them the one
\* open client, for any number of refreshes, changes and failures
\* (session/session.go:381-507).
THEOREM ReadyServers == McpSpec => []ReadyMeansUsable
PROOF
<1>1. ServersInv => ReadyMeansUsable
  <2> SUFFICES ASSUME ServersInv PROVE ReadyMeansUsable
    OBVIOUS
  <2>1. \A t \in Tools : registry[t] # 0 => registry[t] \in late \cup {Newest}
    BY DEF ServersInv, ReadyInv, NewestInv, Owned, Owners
  <2>2. ASSUME late = {}, loop.pc = "idle", status.state = "ready",
               \A c \in DOMAIN clients : ~Watches(c, "registering")
        PROVE  /\ clients[Newest].open
               /\ \A t \in Tools : registry[t] = IF t \in status.tools THEN Newest ELSE 0
    <3>1. Serving
      BY <2>2 DEF ServersInv, ReadyInv, Watched
    <3>2. Newest \in DOMAIN clients
      BY <3>1 DEF Serving, ServersInv, ServersTyped, Newest
    <3> QED
      BY <2>2, <3>1, <3>2 DEF Serving, Watches
  <2> QED
    BY <2>1, <2>2 DEF ReadyMeansUsable
<1> QED
  BY <1>1, ServersHold, PTL

-----------------------------------------------------------------------------
(* The exec policy.                                                        *)

Rules == [loaded : BOOLEAN, persistent : SUBSET granted, session : SUBSET granted]
RulesFile == [there : BOOLEAN, rules : SUBSET granted]
ToolCall ==
  [pc : {"idle", "review", "rename", "ran"}, s : Sessions \cup {"none"}, cmd : Commands \cup {<<>>},
   net : BOOLEAN, rule : Seq(STRING), approved : BOOLEAN, asked : BOOLEAN]

\* Every rule that is anywhere was granted.
PolicyTyped ==
  /\ policy \in [Sessions -> Rules] /\ amending \in [Sessions -> RulesFile]
  /\ file \subseteq granted /\ temporary \in RulesFile /\ amenders \subseteq Sessions

ToolCallsTyped == call \in [Calls -> ToolCall]

\* A call that waits for the user, or to rename the file, is one of a session that
\* has started; a session with a file to rename has one call that renames it.
AskingInv ==
  /\ \A c \in Calls : call[c].pc \in {"review", "rename"} =>
       call[c].s \in Sessions /\ policy[call[c].s].loaded
  /\ \A c \in Calls : call[c].pc = "rename" =>
       amending[call[c].s].there /\ call[c].s \in amenders
  /\ \A c, d \in Calls : call[c].pc = "rename" /\ call[d].pc = "rename" /\ call[c].s = call[d].s
       => c = d
  /\ \A s \in amenders : policy[s].loaded

\* Until a second session amends, the temporary file is the one that the amending
\* session has written, with all that its policy has and the file has.
FileInv ==
  /\ amenders = {} => ~temporary.there /\ \A s \in Sessions : policy[s].persistent \subseteq file
  /\ \A s \in Sessions : amenders = {s} =>
       /\ policy[s].persistent \subseteq file
       /\ temporary = amending[s]
       /\ amending[s].there => policy[s].persistent \subseteq amending[s].rules

\* All of it.
PolicyInv == PolicyTyped /\ ToolCallsTyped /\ AskingInv /\ FileInv /\ Consented

\* What the policy grants by a rule is one plain command that begins with the rule.
LEMMA PrefixIsPlain ==
  ASSUME NEW rules, NEW cmd, NEW requested, Requirement(rules, cmd, requested).matched = "prefix"
  PROVE  /\ \E rule \in rules.persistent \cup rules.session : IsPrefix(rule, cmd)
         /\ \A i \in DOMAIN cmd : cmd[i] \notin {";", "$"}
<1>1. /\ ParsePlainShellCommands(cmd).plain /\ Operators(cmd) = {}
      /\ \E rule \in rules.persistent \cup rules.session : IsPrefix(rule, cmd)
  BY DEF Requirement
<1>2. \A i \in DOMAIN cmd : cmd[i] # ";"
  BY <1>1 DEF Operators
<1>3. \A i \in DOMAIN cmd : cmd[i] # "$"
  BY <1>1 DEF ParsePlainShellCommands
<1> QED
  BY <1>1, <1>2, <1>3

\* What the policy asks for offers a sequence of words as the rule.
LEMMA NeedIsTyped ==
  ASSUME NEW rules, NEW cmd \in Commands, NEW requested \in {<<>>, cmd}
  PROVE  /\ Requirement(rules, cmd, requested).rule \in Seq(STRING)
         /\ Requirement(rules, cmd, requested).matched \in {"built-in", "prefix", "none"}
<1>1. cmd \in Seq(STRING) /\ requested \in Seq(STRING) /\ <<>> \in Seq(STRING)
  <2>1. cmd \in Seq(STRING)
    BY ExecPolicyAssumption
  <2>2. <<>> \in Seq(STRING)
    OBVIOUS
  <2> QED
    BY <2>1, <2>2
<1>2. DerivePrefixRule(cmd) \in Seq(STRING)
  <2> DEFINE k == IF Len(cmd) >= 3 /\ cmd[1] = "npm" /\ cmd[2] = "run" THEN 3 ELSE 2
  <2>1. Len(cmd) \in Nat
    BY <1>1
  <2>2. DerivePrefixRule(cmd) = IF Len(cmd) < 2 THEN <<>> ELSE SubSeq(cmd, 1, k)
    BY DEF DerivePrefixRule
  <2>3. k \in {2, 3} /\ (k = 3 => Len(cmd) >= 3)
    OBVIOUS
  <2> HIDE DEF k
  <2>4. CASE Len(cmd) < 2
    BY <2>2, <2>4, <1>1
  <2>5. CASE Len(cmd) >= 2
    <3>1. \A i \in 1 .. k : cmd[i] \in STRING
      BY <2>1, <2>3, <2>5, <1>1
    <3>2. SubSeq(cmd, 1, k) \in Seq(STRING)
      BY <2>3, <3>1, SubSeqProperties
    <3>3. ~(Len(cmd) < 2)
      BY <2>1, <2>5
    <3> QED
      BY <2>2, <3>2, <3>3, Zenon
  <2> QED
    BY <2>1, <2>4, <2>5
<1>3. ProposedRule(cmd, requested) \in Seq(STRING)
  BY <1>1, <1>2 DEF ProposedRule
<1> QED
  BY <1>1, <1>3 DEF Requirement

\* The word of the user or of the policy that a call which runs needs.
Word(c) ==
  /\ call[c].approved =>
       \/ call[c].asked
       \/ /\ \E rule \in granted : IsPrefix(rule, call[c].cmd)
          /\ \A i \in DOMAIN call[c].cmd : call[c].cmd[i] \notin {";", "$"}
  /\ Network(c) => call[c].asked

\* The other calls keep the word that they run on.
LEMMA WordsKept ==
  ASSUME Consented, NEW c \in Calls, \A d \in Calls \ {c} : call'[d] = call[d],
         granted \subseteq granted', call'[c].pc = "ran" => Word(c)'
  PROVE  Consented'
<1> SUFFICES ASSUME NEW d \in Ran' PROVE Word(d)'
  BY DEF Consented, Word
<1>1. CASE d = c
  BY <1>1 DEF Ran
<1>2. CASE d # c
  <2>1. d \in Ran /\ call'[d] = call[d]
    BY <1>2 DEF Ran
  <2>2. Word(d)
    BY <2>1 DEF Consented, Word
  <2> QED
    BY <2>1, <2>2 DEF Word, Network
<1> QED
  BY <1>1, <1>2

\* A call that is to be reviewed has what the reviewer needs.
LEMMA CallReviews ==
  ASSUME ToolCallsTyped, NEW c \in Calls, NEW s \in Sessions, NEW cmd \in Commands,
         NEW net \in BOOLEAN, NEW matched, NEW rule \in Seq(STRING),
         Reviews(c, s, cmd, net, matched, rule)
  PROVE  /\ ToolCallsTyped' /\ \A d \in Calls \ {c} : call'[d] = call[d]
         /\ call'[c].pc = "review" /\ call'[c].s = s
<1> DEFINE r == [NoCall EXCEPT !.pc = "review", !.s = s, !.cmd = cmd, !.net = net,
                               !.rule = rule, !.approved = matched = "prefix"]
<1>1. r \in ToolCall /\ r.pc = "review" /\ r.s = s
  BY DEF NoCall, ToolCall
<1>2. call' = [call EXCEPT ![c] = r]
  BY DEF Reviews
<1> HIDE DEF r
<1> QED
  BY <1>1, <1>2 DEF ToolCallsTyped

\* A call that runs has what it was run with.
LEMMA CallRuns ==
  ASSUME ToolCallsTyped, NEW c \in Calls, NEW cmd \in Commands \cup {<<>>}, NEW net \in BOOLEAN,
         NEW approved \in BOOLEAN, NEW prompted \in BOOLEAN, Runs(c, cmd, net, approved, prompted)
  PROVE  /\ ToolCallsTyped' /\ \A d \in Calls \ {c} : call'[d] = call[d]
         /\ call'[c].pc = "ran" /\ call'[c].asked = prompted /\ call'[c].approved = approved
         /\ call'[c].cmd = cmd /\ call'[c].net = net
<1> DEFINE r == [NoCall EXCEPT !.pc = "ran", !.cmd = cmd, !.net = net,
                               !.approved = approved, !.asked = prompted]
<1>1. <<>> \in Seq(STRING)
  OBVIOUS
<1>2. /\ r \in ToolCall /\ r.pc = "ran" /\ r.asked = prompted /\ r.approved = approved
      /\ r.cmd = cmd /\ r.net = net
  BY <1>1 DEF NoCall, ToolCall
<1>3. call' = [call EXCEPT ![c] = r]
  BY DEF Runs
<1> HIDE DEF r
<1> QED
  BY <1>2, <1>3 DEF ToolCallsTyped

\* A call that the user has decided has the user's word.
LEMMA CallReviewed ==
  ASSUME ToolCallsTyped, NEW c \in Calls, NEW approved \in BOOLEAN, Reviewed(c, approved)
  PROVE  /\ ToolCallsTyped' /\ \A d \in Calls \ {c} : call'[d] = call[d]
         /\ call'[c].pc = "ran" /\ Word(c)'
<1>1. call[c].cmd \in Commands \cup {<<>>} /\ call[c].net \in BOOLEAN
  BY DEF ToolCallsTyped, ToolCall
<1>2. /\ ToolCallsTyped' /\ \A d \in Calls \ {c} : call'[d] = call[d]
      /\ call'[c].pc = "ran" /\ call'[c].asked = TRUE
  <2>1. PICK cmd \in Commands \cup {<<>>}, net \in BOOLEAN : cmd = call[c].cmd /\ net = call[c].net
    BY <1>1
  <2>2. PICK prompted \in BOOLEAN : prompted = TRUE
    OBVIOUS
  <2>3. Runs(c, cmd, net, approved, prompted)
    BY <2>1, <2>2 DEF Reviewed
  <2>4. /\ ToolCallsTyped' /\ \A d \in Calls \ {c} : call'[d] = call[d]
        /\ call'[c].pc = "ran" /\ call'[c].asked = prompted
    BY <2>3, CallRuns
  <2> QED
    BY <2>2, <2>4
<1> QED
  BY <1>2 DEF Word

\* A call that is over can be made again.
LEMMA CallForgotten ==
  ASSUME ToolCallsTyped, NEW c \in Calls, call' = [call EXCEPT ![c] = NoCall]
  PROVE  /\ ToolCallsTyped' /\ \A d \in Calls \ {c} : call'[d] = call[d]
         /\ call'[c].pc = "idle"
<1>1. <<>> \in Seq(STRING)
  OBVIOUS
<1>2. NoCall \in ToolCall /\ NoCall.pc = "idle"
  BY <1>1 DEF NoCall, ToolCall
<1> QED
  BY <1>2 DEF ToolCallsTyped

\* A step of a call that leaves the policies and the file alone.
LEMMA CallAlone ==
  ASSUME PolicyInv, NEW c \in Calls, ToolCallsTyped', \A d \in Calls \ {c} : call'[d] = call[d],
         call'[c].pc = "ran" => Word(c)', call'[c].pc # "rename",
         call'[c].pc = "review" => call'[c].s \in Sessions /\ policy[call'[c].s].loaded,
         UNCHANGED <<policy, file, temporary, amending, granted, amenders>>
  PROVE  PolicyInv'
<1> USE DEF PolicyInv
<1>1. Consented'
  BY WordsKept
<1>2. PolicyTyped'
  BY DEF PolicyTyped, Rules, RulesFile
<1>3. AskingInv'
  <2>1. \A d \in Calls : call'[d].pc \in {"review", "rename"} =>
          call'[d].s \in Sessions /\ policy'[call'[d].s].loaded
    BY DEF AskingInv
  <2>2. \A d \in Calls : call'[d].pc = "rename" => d # c
    OBVIOUS
  <2> QED
    BY <2>1, <2>2 DEF AskingInv
<1>4. FileInv'
  BY DEF FileInv
<1> QED
  BY <1>1, <1>2, <1>3, <1>4

\* The first states satisfy the invariant.
LEMMA PolicyInitial == PolicyInit => PolicyInv
<1> SUFFICES ASSUME PolicyInit PROVE PolicyInv
  OBVIOUS
<1> USE DEF PolicyInit
<1>1. NoRules \in Rules /\ NoRules.persistent = {}
  BY DEF NoRules, Rules
<1>2. NoFile \in RulesFile /\ ~NoFile.there
  BY DEF NoFile, RulesFile
<1>3. NoCall \in ToolCall /\ NoCall.pc = "idle"
  <2>1. <<>> \in Seq(STRING)
    OBVIOUS
  <2> QED
    BY <2>1 DEF NoCall, ToolCall
<1>4. PolicyTyped /\ ToolCallsTyped
  BY <1>1, <1>2, <1>3 DEF PolicyTyped, ToolCallsTyped
<1>5. \A c \in Calls : call[c].pc = "idle"
  BY <1>3
<1>6. AskingInv /\ Consented
  BY <1>5 DEF AskingInv, Consented, Ran
<1>7. FileInv
  BY <1>1, <1>2 DEF FileInv
<1> QED
  BY <1>4, <1>6, <1>7 DEF PolicyInv

\* A session that starts has the rules of the file, and has amended nothing.
LEMMA NewExecPolicyKeeps ==
  ASSUME PolicyInv, NEW s \in Sessions, NewExecPolicy(s)
  PROVE  PolicyInv'
<1> USE DEF PolicyInv
<1> DEFINE r == [loaded |-> TRUE, session |-> {}, persistent |-> {rule \in file : Len(rule) >= 2}]
<1>1. policy' = [policy EXCEPT ![s] = r]
  BY DEF NewExecPolicy
<1>2. r \in Rules /\ r.loaded /\ r.persistent \subseteq file
  BY DEF PolicyTyped, Rules
<1> HIDE DEF r
<1>3. \A t \in Sessions : policy'[t] = IF t = s THEN r ELSE policy[t]
  BY <1>1 DEF PolicyTyped
<1>4. ~policy[s].loaded /\ UNCHANGED <<file, temporary, amending, call, granted, amenders>>
  BY DEF NewExecPolicy
<1>5. PolicyTyped'
  BY <1>1, <1>2, <1>4 DEF PolicyTyped, Rules, RulesFile
<1>6. ToolCallsTyped'
  BY <1>4 DEF ToolCallsTyped
<1>7. AskingInv'
  BY <1>2, <1>3, <1>4 DEF AskingInv, PolicyTyped
<1>8. FileInv'
  <2>1. s \notin amenders
    BY <1>4 DEF AskingInv
  <2> QED
    BY <2>1, <1>2, <1>3, <1>4 DEF FileInv
<1>9. Consented'
  BY <1>4 DEF Consented, Ran, Network
<1> QED
  BY <1>5, <1>6, <1>7, <1>8, <1>9

\* A call runs on the policy's word, or waits for the user's.
LEMMA ExecuteKeeps ==
  ASSUME PolicyInv, NEW c \in Calls, NEW s \in Sessions, NEW cmd \in Commands,
         NEW net \in BOOLEAN, NEW requested \in {<<>>, cmd}, Execute(c, s, cmd, requested, net)
  PROVE  PolicyInv'
<1> DEFINE need == Requirement(policy[s], cmd, requested)
           rule == IF cmd = <<"apply_patch">> THEN cmd ELSE IF net THEN <<>> ELSE need.rule
<1>1. /\ policy[s].loaded
      /\ UNCHANGED <<policy, file, temporary, amending, granted, amenders>>
  BY DEF Execute
<1>2. ToolCallsTyped
  BY DEF PolicyInv
<1>3. CASE net \/ need.matched = "none"
  <2>1. Reviews(c, s, cmd, net, need.matched, rule)
    BY <1>3 DEF Execute
  <2>2. rule \in Seq(STRING)
    <3>1. cmd \in Seq(STRING) /\ <<>> \in Seq(STRING) /\ need.rule \in Seq(STRING)
      BY ExecPolicyAssumption, NeedIsTyped
    <3> QED
      BY <3>1
  <2> HIDE DEF need, rule
  <2>3. /\ ToolCallsTyped' /\ \A d \in Calls \ {c} : call'[d] = call[d]
        /\ call'[c].pc = "review" /\ call'[c].s = s
    BY <2>1, <2>2, <1>2, CallReviews
  <2> QED
    BY <2>3, <1>1, CallAlone
<1>4. CASE ~net /\ need.matched # "none"
  <2>1. Runs(c, cmd, net, need.matched = "prefix", FALSE)
    BY <1>4 DEF Execute
  <2>2. need.matched = "prefix" =>
          /\ \E granting \in policy[s].persistent \cup policy[s].session : IsPrefix(granting, cmd)
          /\ \A i \in DOMAIN cmd : cmd[i] \notin {";", "$"}
    BY PrefixIsPlain
  <2>3. policy[s].persistent \cup policy[s].session \subseteq granted
    BY DEF PolicyInv, PolicyTyped, Rules
  <2> DEFINE approved == need.matched = "prefix"
  <2>4. approved \in BOOLEAN
    OBVIOUS
  <2>5. approved => /\ \E granting \in granted : IsPrefix(granting, cmd)
                    /\ \A i \in DOMAIN cmd : cmd[i] \notin {";", "$"}
    BY <2>2, <2>3
  <2>6. Runs(c, cmd, net, approved, FALSE)
    BY <2>1
  <2> HIDE DEF need, approved
  <2> DEFINE r == [NoCall EXCEPT !.pc = "ran", !.cmd = cmd, !.net = net,
                                 !.approved = approved, !.asked = FALSE]
  <2>7. call' = [call EXCEPT ![c] = r]
    BY <2>6 DEF Runs
  <2>a. <<>> \in Seq(STRING)
    OBVIOUS
  <2>b. r \in ToolCall /\ r.pc = "ran" /\ r.approved = approved /\ r.cmd = cmd /\ r.net = net
    BY <2>4, <2>a DEF NoCall, ToolCall
  <2> HIDE DEF r
  <2>c. ToolCallsTyped' /\ call'[c] = r /\ \A d \in Calls \ {c} : call'[d] = call[d]
    BY <2>7, <2>b, <1>2 DEF ToolCallsTyped
  <2>8. granted' = granted
    BY <1>1
  <2>9. Word(c)'
    BY <2>5, <2>b, <2>c, <2>8, <1>4 DEF Word, Network
  <2> QED
    BY <2>b, <2>c, <2>9, <1>1, CallAlone
<1> QED
  BY <1>3, <1>4

\* The user's word for this call, or a rule that another call has added meanwhile.
LEMMA DecideKeeps ==
  ASSUME PolicyInv, NEW c \in Calls, Decide(c) \/ AlreadyAmended(c)
  PROVE  PolicyInv'
<1>1. Reviewed(c, TRUE) /\ UNCHANGED <<policy, file, temporary, amending, granted, amenders>>
  BY DEF Decide, AlreadyAmended
<1>2. ToolCallsTyped
  BY DEF PolicyInv
<1> QED
  BY <1>1, <1>2, CallReviewed, CallAlone

\* A call that is over, or was denied.
LEMMA DoneKeeps ==
  ASSUME PolicyInv, NEW c \in Calls, Done(c)
  PROVE  PolicyInv'
<1>1. /\ call' = [call EXCEPT ![c] = NoCall]
      /\ UNCHANGED <<policy, file, temporary, amending, granted, amenders>>
  BY DEF Done
<1>2. ToolCallsTyped
  BY DEF PolicyInv
<1> QED
  BY <1>1, <1>2, CallForgotten, CallAlone

\* A rule for the session, which the file does not get.
LEMMA DecideForSessionKeeps ==
  ASSUME PolicyInv, NEW c \in Calls, DecideForSession(c)
  PROVE  PolicyInv'
<1> USE DEF PolicyInv
<1> DEFINE s == call[c].s  rule == call[c].rule
           r == [policy[s] EXCEPT !.session = @ \cup {rule}]
<1>1. /\ call[c].pc = "review" /\ UNCHANGED <<file, temporary, amending, amenders>>
      /\ Reviewed(c, call[c].approved \/ rule # <<>>)
      /\ policy' = IF rule = <<>> THEN policy ELSE [policy EXCEPT ![s] = r]
      /\ granted' = IF rule = <<>> THEN granted ELSE granted \cup {rule}
  BY DEF DecideForSession
<1>2. s \in Sessions /\ policy[s] \in Rules /\ granted \subseteq granted'
  BY <1>1 DEF AskingInv, PolicyTyped
<1>3. /\ rule # <<>> => r \in [loaded : BOOLEAN, persistent : SUBSET granted', session : SUBSET granted']
      /\ r.persistent = policy[s].persistent /\ r.loaded = policy[s].loaded
  BY <1>1, <1>2 DEF Rules
<1>4. (call[c].approved \/ rule # <<>>) \in BOOLEAN
  OBVIOUS
<1>5. /\ ToolCallsTyped' /\ \A d \in Calls \ {c} : call'[d] = call[d]
      /\ call'[c].pc = "ran" /\ Word(c)'
  BY <1>1, <1>4, CallReviewed
<1> HIDE DEF r
<1>6. \A t \in Sessions : /\ policy'[t].persistent = policy[t].persistent
                          /\ policy'[t].loaded = policy[t].loaded
  BY <1>1, <1>3 DEF PolicyTyped
<1>7. PolicyTyped'
  <2>1. policy' \in [Sessions -> Rules']
    <3>1. CASE rule = <<>>
      BY <3>1, <1>1 DEF PolicyTyped, Rules
    <3>2. CASE rule # <<>>
      <4>1. \A t \in Sessions : policy[t] \in Rules'
        BY <1>2 DEF PolicyTyped, Rules
      <4> QED
        BY <3>2, <4>1, <1>1, <1>2, <1>3 DEF PolicyTyped, Rules
    <3> QED
      BY <3>1, <3>2
  <2>2. amending' \in [Sessions -> RulesFile'] /\ temporary' \in RulesFile'
    BY <1>1, <1>2 DEF PolicyTyped, RulesFile
  <2> QED
    BY <2>1, <2>2, <1>1, <1>2 DEF PolicyTyped
<1>8. AskingInv'
  BY <1>1, <1>5, <1>6 DEF AskingInv, PolicyTyped
<1>9. FileInv'
  BY <1>1, <1>6 DEF FileInv
<1>10. Consented'
  BY <1>2, <1>5, WordsKept
<1> QED
  BY <1>5, <1>7, <1>8, <1>9, <1>10


\* The rules that a session writes are its policy's and the new one; until another
\* session amends them too, they are all that the file has.
LEMMA DecideAmendmentKeeps ==
  ASSUME PolicyInv, NEW c \in Calls, DecideAmendment(c)
  PROVE  PolicyInv'
<1> USE DEF PolicyInv
<1> DEFINE s == call[c].s  rules == policy[s].persistent \cup {call[c].rule}
           f == [there |-> TRUE, rules |-> rules]
           r == [call[c] EXCEPT !.pc = "rename"]
<1>1. /\ call[c].pc = "review" /\ ~amending[s].there
      /\ temporary' = f /\ amending' = [amending EXCEPT ![s] = f]
      /\ call' = [call EXCEPT ![c] = r]
      /\ granted' = granted \cup {call[c].rule} /\ amenders' = amenders \cup {s}
      /\ UNCHANGED <<policy, file>>
  BY DEF DecideAmendment
<1>2. s \in Sessions /\ policy[s] \in Rules /\ policy[s].loaded
  BY <1>1 DEF AskingInv, PolicyTyped
<1>3. granted \subseteq granted' /\ rules \subseteq granted' /\ policy[s].persistent \subseteq rules
  BY <1>1, <1>2 DEF Rules
<1>4. f \in RulesFile' /\ f.there /\ f.rules = rules
  BY <1>3 DEF RulesFile
<1>5. call[c] \in ToolCall
  BY DEF ToolCallsTyped
<1>6. r \in ToolCall /\ r.pc = "rename" /\ r.s = s
  BY <1>5 DEF ToolCall
<1> HIDE DEF r, f, rules
<1>7. ToolCallsTyped' /\ call'[c] = r /\ \A d \in Calls \ {c} : call'[d] = call[d]
  BY <1>1, <1>6 DEF ToolCallsTyped
<1>8. amending'[s] = f /\ \A t \in Sessions \ {s} : amending'[t] = amending[t]
  BY <1>1, <1>2 DEF PolicyTyped
<1>9. PolicyTyped'
  <2>1. \A t \in Sessions : policy[t] \in Rules' /\ amending[t] \in RulesFile'
    BY <1>3 DEF PolicyTyped, Rules, RulesFile
  <2>2. policy' \in [Sessions -> Rules'] /\ amending' \in [Sessions -> RulesFile']
    BY <2>1, <1>1, <1>4 DEF PolicyTyped
  <2> QED
    BY <2>2, <1>1, <1>2, <1>3, <1>4 DEF PolicyTyped
<1>10. AskingInv'
  <2>1. \A d \in Calls : call'[d].pc \in {"review", "rename"} =>
          call'[d].s \in Sessions /\ policy'[call'[d].s].loaded
    BY <1>1, <1>2, <1>6, <1>7 DEF AskingInv
  <2>2. \A d \in Calls \ {c} : call'[d].pc = "rename" =>
          call'[d].s # s /\ amending'[call'[d].s].there /\ call'[d].s \in amenders
    BY <1>1, <1>7, <1>8 DEF AskingInv
  <2>3. \A t \in amenders' : policy'[t].loaded
    BY <1>1, <1>2 DEF AskingInv
  <2> QED
    BY <2>1, <2>2, <2>3, <1>1, <1>4, <1>6, <1>7, <1>8 DEF AskingInv
<1>11. FileInv'
  <2> SUFFICES ASSUME NEW t \in Sessions, amenders' = {t}
               PROVE  /\ policy[t].persistent \subseteq file
                      /\ f = amending'[t]
                      /\ policy[t].persistent \subseteq amending'[t].rules
    BY <1>1 DEF FileInv
  <2>1. t = s /\ (amenders = {} \/ amenders = {s})
    BY <1>1
  <2> QED
    BY <2>1, <1>2, <1>3, <1>4, <1>8 DEF FileInv
<1>12. Consented'
  BY <1>3, <1>6, <1>7, WordsKept
<1> QED
  BY <1>7, <1>9, <1>10, <1>11, <1>12

\* What is renamed is the session's own version, unless another one has amended.
LEMMA RenameKeeps ==
  ASSUME PolicyInv, NEW c \in Calls, Rename(c)
  PROVE  PolicyInv'
<1> USE DEF PolicyInv
<1> DEFINE s == call[c].s  r == [policy[s] EXCEPT !.persistent = amending[s].rules]
<1>1. /\ call[c].pc = "rename" /\ temporary.there
      /\ file' = temporary.rules /\ temporary' = NoFile
      /\ policy' = [policy EXCEPT ![s] = r] /\ amending' = [amending EXCEPT ![s] = NoFile]
      /\ UNCHANGED <<granted, amenders>>
  BY DEF Rename
<1>2. s \in Sessions /\ s \in amenders /\ amending[s].there /\ policy[s].loaded
  BY <1>1 DEF AskingInv
<1>3. policy[s] \in Rules /\ amending[s] \in RulesFile /\ temporary \in RulesFile
  BY <1>2 DEF PolicyTyped
<1>4. r \in Rules /\ r.loaded /\ r.persistent = amending[s].rules
  BY <1>2, <1>3 DEF Rules, RulesFile
<1>5. NoFile \in RulesFile /\ ~NoFile.there
  BY DEF NoFile, RulesFile
<1> HIDE DEF r
<1>6. /\ policy'[s] = r /\ \A t \in Sessions \ {s} : policy'[t] = policy[t]
      /\ amending'[s] = NoFile /\ \A t \in Sessions \ {s} : amending'[t] = amending[t]
  BY <1>1, <1>2 DEF PolicyTyped
<1>7. /\ ToolCallsTyped' /\ \A d \in Calls \ {c} : call'[d] = call[d]
      /\ call'[c].pc = "ran" /\ Word(c)'
  <2>1. Reviewed(c, TRUE)
    BY DEF Rename
  <2> QED
    BY <2>1, CallReviewed
<1>8. PolicyTyped'
  <2>1. policy' \in [Sessions -> Rules] /\ amending' \in [Sessions -> RulesFile]
    BY <1>1, <1>4, <1>5 DEF PolicyTyped
  <2>2. file' \subseteq granted
    BY <1>1, <1>3 DEF RulesFile
  <2> QED
    BY <2>1, <2>2, <1>1, <1>5 DEF PolicyTyped, Rules, RulesFile
<1>9. AskingInv'
  <2>1. \A d \in Calls : call'[d].pc \in {"review", "rename"} =>
          call'[d].s \in Sessions /\ policy'[call'[d].s].loaded
    BY <1>4, <1>6, <1>7 DEF AskingInv
  <2>2. \A d \in Calls \ {c} : call[d].pc = "rename" => call[d].s # s
    BY <1>1 DEF AskingInv
  <2>3. \A t \in amenders' : policy'[t].loaded
    BY <1>1, <1>4, <1>6 DEF AskingInv, PolicyTyped
  <2> QED
    BY <2>1, <2>2, <2>3, <1>1, <1>6, <1>7 DEF AskingInv
<1>10. FileInv'
  <2> SUFFICES ASSUME NEW t \in Sessions, amenders = {t}
               PROVE  /\ policy'[t].persistent \subseteq file' /\ temporary' = amending'[t]
                      /\ ~amending'[t].there
    BY <1>1, <1>2 DEF FileInv
  <2>1. t = s /\ temporary = amending[s]
    BY <1>2 DEF FileInv
  <2> QED
    BY <2>1, <1>1, <1>4, <1>5, <1>6
<1>11. Consented'
  BY <1>1, <1>7, WordsKept
<1> QED
  BY <1>7, <1>8, <1>9, <1>10, <1>11

\* A temporary file that is gone was renamed by a call of another session.
LEMMA AmendmentFailsKeeps ==
  ASSUME PolicyInv, NEW c \in Calls, AmendmentFails(c)
  PROVE  PolicyInv'
<1> USE DEF PolicyInv
<1>1. /\ call' = [call EXCEPT ![c] = NoCall]
      /\ UNCHANGED <<policy, file, temporary, granted, amenders>>
  BY DEF AmendmentFails
<1>2. /\ ToolCallsTyped' /\ \A d \in Calls \ {c} : call'[d] = call[d]
      /\ call'[c].pc = "idle"
  BY <1>1, CallForgotten
<1>3. CASE call[c].pc = "review"
  <2>1. amending' = amending
    BY <1>3 DEF AmendmentFails
  <2> QED
    BY <2>1, <1>1, <1>2, CallAlone
<1>4. CASE call[c].pc = "rename"
  <2> DEFINE s == call[c].s
  <2>1. ~temporary.there /\ amending' = [amending EXCEPT ![s] = NoFile]
    BY <1>4 DEF AmendmentFails
  <2>2. s \in Sessions /\ s \in amenders /\ amending[s].there
    BY <1>4 DEF AskingInv
  <2>3. NoFile \in RulesFile /\ ~NoFile.there
    BY DEF NoFile, RulesFile
  <2>4. amending'[s] = NoFile /\ \A t \in Sessions \ {s} : amending'[t] = amending[t]
    BY <2>1, <2>2 DEF PolicyTyped
  <2>5. PolicyTyped'
    <3>1. amending' \in [Sessions -> RulesFile]
      BY <2>1, <2>3 DEF PolicyTyped
    <3> QED
      BY <3>1, <1>1 DEF PolicyTyped, Rules, RulesFile
  <2>6. AskingInv'
    <3>1. \A d \in Calls \ {c} : call[d].pc = "rename" => call[d].s # s
      BY <1>4 DEF AskingInv
    <3> QED
      BY <3>1, <1>1, <1>2, <2>4 DEF AskingInv
  <2>7. FileInv'
    <3>1. \A t \in Sessions : amenders # {t}
      BY <2>1, <2>2 DEF FileInv
    <3> QED
      BY <3>1, <2>2, <1>1 DEF FileInv
  <2>8. Consented'
    BY <1>1, <1>2, WordsKept
  <2> QED
    BY <1>2, <2>5, <2>6, <2>7, <2>8
<1> QED
  BY <1>3, <1>4 DEF AmendmentFails

\* Every step keeps the invariant.
LEMMA PolicySteps == PolicyInv /\ [PolicyNext]_policyVars => PolicyInv'
<1> SUFFICES ASSUME PolicyInv, [PolicyNext]_policyVars PROVE PolicyInv'
  OBVIOUS
<1>1. CASE UNCHANGED policyVars
  <2>1. UNCHANGED <<policy, file, temporary, amending, call, granted, amenders>>
    BY <1>1 DEF policyVars
  <2>2. PolicyTyped' /\ ToolCallsTyped'
    BY <2>1 DEF PolicyInv, PolicyTyped, ToolCallsTyped, Rules, RulesFile
  <2>3. AskingInv' /\ FileInv'
    BY <2>1 DEF PolicyInv, AskingInv, FileInv
  <2>4. Consented'
    BY <2>1 DEF PolicyInv, Consented, Ran, Network
  <2> QED
    BY <2>2, <2>3, <2>4 DEF PolicyInv
<1>2. CASE \E s \in Sessions : NewExecPolicy(s)
  BY <1>2, NewExecPolicyKeeps
<1>3. CASE \E c \in Calls : PolicyStep(c)
  BY <1>3, DecideKeeps, DecideForSessionKeeps, DecideAmendmentKeeps, RenameKeeps,
     AmendmentFailsKeeps, DoneKeeps DEF PolicyStep
<1>4. CASE \E c \in Calls, s \in Sessions, cmd \in Commands, net \in BOOLEAN :
             \E requested \in {<<>>, cmd} : Execute(c, s, cmd, requested, net)
  BY <1>4, ExecuteKeeps
<1> QED
  BY <1>1, <1>2, <1>3, <1>4 DEF PolicyNext

\* The invariant holds, whatever the sessions, the commands and the rules.
LEMMA PolicyHolds == PolicySpec => []PolicyInv
BY PolicyInitial, PolicySteps, PTL DEF PolicySpec

\* Every rule that is in a policy, in the file or on its way there was granted
\* by the user in one session or another (tools/exec_policy.go:42-63, 208-253).
THEOREM PolicyTypeCorrect == PolicySpec => []PolicyType
<1>1. PolicyInv => PolicyType
  <2> SUFFICES ASSUME PolicyInv PROVE PolicyType
    OBVIOUS
  <2>1. \A s \in Sessions : policy[s] \in Rules /\ amending[s] \in RulesFile
    BY DEF PolicyInv, PolicyTyped
  <2>2. temporary \in RulesFile /\ \A c \in Calls : call[c] \in ToolCall
    BY DEF PolicyInv, PolicyTyped, ToolCallsTyped
  <2> QED
    BY <2>1, <2>2 DEF PolicyInv, PolicyTyped, PolicyType, Rules, RulesFile, ToolCall
<1> QED
  BY <1>1, PolicyHolds, PTL

\* A command writes, or uses the network, on the word that is its own: the user's
\* for this call, or a granted prefix of the one plain command that it is
\* (tools/exec_policy.go:66-116, tools/exec.go:51-124).
THEOREM CommandsConsented == PolicySpec => []Consented
<1>1. PolicyInv => Consented
  BY DEF PolicyInv
<1> QED
  BY <1>1, PolicyHolds, PTL

\* As long as one session alone amends the rules, the file has all that it works by
\* (tools/exec_policy.go:208-237), whatever the other sessions read and run.
THEOREM AmendmentsReachFile == PolicySpec => []AmendmentsKept
<1>1. PolicyInv => AmendmentsKept
  BY DEF PolicyInv, FileInv, AmendmentsKept
<1> QED
  BY <1>1, PolicyHolds, PTL

-----------------------------------------------------------------------------
(* The services together.                                                  *)

\* A behaviour of the services is one of each part: a part that is not under way
\* stutters in its first state.
LEMMA PartsAreThemselves ==
  ServicesSpec => /\ ThreadsSpec /\ RemoteSpec /\ TextSpec /\ ParseSpec
                  /\ PatchSpec /\ PolicySpec /\ McpSpec /\ CallsSpec
<1>1. ServicesInit => /\ ThreadsInit /\ RemoteInit /\ TextInit /\ ParseInit
                      /\ PatchInit /\ PolicyInit /\ McpInit /\ CallsInit
  <2>1. ThreadsStart({}) => ThreadsInit
    BY DEF ThreadsInit
  <2>2. CallsStart(FALSE) => CallsInit
    BY DEF CallsInit
  <2> QED
    BY <2>1, <2>2 DEF ServicesInit
<1>2. [ServicesNext]_servicesVars =>
        /\ [ThreadsNext]_threadVars /\ [RemoteNext]_remoteVars /\ [TextNext]_textVars
        /\ [ParseNextLine]_patchText /\ [PatchNext]_patchVars /\ [PolicyNext]_policyVars
        /\ [McpNext]_mcpVars /\ [CallsNext]_callVars
  BY DEF ServicesNext, servicesVars
<1> QED
  BY <1>1, <1>2, PTL DEF ServicesSpec, ThreadsSpec, RemoteSpec, TextSpec, ParseSpec, PatchSpec,
     PolicySpec, McpSpec, CallsSpec

\* Every variable of every part keeps its type, for all values of the constants.
THEOREM ServicesTyped == ServicesSpec => []TypesOK
<1>1. ServicesSpec => /\ []ThreadsType /\ []RemoteType /\ []PatchType
                      /\ []PolicyType /\ []McpType /\ []CallsType
  BY PartsAreThemselves, ThreadsTypeCorrect, RemoteTypeCorrect, PatchTypeCorrect,
     PolicyTypeCorrect, ServersTypeCorrect, CallsTypeCorrect
<1> QED
  BY <1>1, PTL DEF TypesOK
=============================================================================
