------------------------------- MODULE McpCalls -------------------------------
(***************************************************************************)
(* The JSON-RPC calls of one MCP client: over the pipes of a child process *)
(* one reader hands the replies to the calls that wait, over HTTP each     *)
(* call posts its request up to three times and reads its own answer.  The *)
(* server answers any request it has had, late, never or more than once.   *)
(***************************************************************************)
EXTENDS Integers

CONSTANTS
  Rpcs,      \* the goroutines that may call at once
  MaxCalls   \* bound: how many calls are made

ASSUME McpCallsAssumption == MaxCalls \in Nat

VARIABLES
  http,     \* whether the client has a URL
  nextID,   \* how many ids were given, which numbers the requests
  pending,  \* the ids that are waited for, each with its call
  asked,    \* the requests the server has had, as ids and numbers
  rpc,      \* the call of each goroutine
  reader,   \* readLoop: the reply it is about to hand over, and whether it has ended
  runs      \* history: how often the server has carried out each request

callVars == <<http, nextID, pending, asked, rpc, reader, runs>>

Attempts == 3
NoRpc == [pc |-> "idle", nr |-> 0, id |-> 0, reply |-> 0, tries |-> 0,
          result |-> "none", from |-> 0]
NoReply == [to |-> "nobody", id |-> 0, nr |-> 0, done |-> FALSE]

CallsStart(byURL) ==
  /\ http = byURL
  /\ nextID = 0 /\ pending = {} /\ asked = {}
  /\ rpc = [c \in Rpcs |-> NoRpc]
  /\ reader = NoReply
  /\ runs = [nr \in 1 .. MaxCalls |-> 0]

CallsInit == \E byURL \in BOOLEAN : CallsStart(byURL)

ReusedID == CHOOSE id \in 1 .. MaxCalls + 1 :  \* mutant: the lowest id that nobody waits for
  /\ \A p \in pending : p[1] # id
  /\ \A i \in 1 .. id - 1 : \E p \in pending : p[1] = i

NewID == nextID + 1

\* call: an id, and an entry in pending for the reply.
CallServer(c) ==
  /\ rpc[c].pc = "idle" /\ nextID < MaxCalls
  /\ nextID' = nextID + 1
  /\ pending' = pending \cup {<<NewID, c>>}
  /\ rpc' = [rpc EXCEPT ![c] = [NoRpc EXCEPT !.pc = IF http THEN "post" ELSE "write",
                                        !.id = NewID, !.nr = nextID']]
  /\ UNCHANGED <<http, asked, reader, runs>>

Returns(c, result, from) ==
  rpc' = [rpc EXCEPT ![c].pc = "return", ![c].result = result, ![c].from = from]

\* The request is written, or the pipe is closed.
WriteRequest(c) ==
  /\ rpc[c].pc = "write"
  /\ \/ /\ rpc' = [rpc EXCEPT ![c].pc = "wait"]
        /\ asked' = asked \cup {<<rpc[c].id, rpc[c].nr>>}
     \/ Returns(c, "error", 0) /\ UNCHANGED asked
  /\ UNCHANGED <<http, nextID, pending, reader, runs>>

Replied(c) ==
  /\ rpc[c].pc = "wait" /\ rpc[c].reply # 0
  /\ Returns(c, "answer", rpc[c].reply)
  /\ UNCHANGED <<http, nextID, pending, asked, reader, runs>>

\* The context is over, or the server has stopped; a reply may be there too.
CallGivenUp(c) ==
  /\ rpc[c].pc = "wait"
  /\ Returns(c, "error", 0)
  /\ UNCHANGED <<http, nextID, pending, asked, reader, runs>>

\* Deferred: the entry goes, however the call has ended.
ForgetCall(c) ==
  /\ rpc[c].pc = "return"
  /\ pending' = pending \ {<<rpc[c].id, c>>}
  /\ rpc' = [rpc EXCEPT ![c] = NoRpc]
  /\ UNCHANGED <<http, nextID, asked, reader, runs>>

\* dispatchJSON: the reply's call, if one waits for it, ...
ReadReply(c, id, nr) ==
  /\ ~http /\ ~reader.done /\ reader.to = "nobody"
  /\ <<id, nr>> \in asked /\ <<id, c>> \in pending
  /\ reader' = [reader EXCEPT !.to = c, !.id = id, !.nr = nr]
  /\ UNCHANGED <<http, nextID, pending, asked, rpc, runs>>

\* ... gets it unless it has one, or has gone: then nobody reads the channel,
\* which was made for that call alone.
HandOver ==
  LET c == reader.to IN
  /\ c # "nobody"
  /\ rpc' = IF <<reader.id, c>> \in pending /\ rpc[c].reply = 0
            THEN [rpc EXCEPT ![c].reply = reader.nr] ELSE rpc
  /\ reader' = [reader EXCEPT !.to = "nobody", !.id = 0, !.nr = 0]
  /\ UNCHANGED <<http, nextID, pending, asked, runs>>

\* The server closes its output, or is killed.
ServerStops ==
  /\ ~http /\ ~reader.done /\ reader.to = "nobody"
  /\ reader' = [reader EXCEPT !.done = TRUE]
  /\ UNCHANGED <<http, nextID, pending, asked, rpc, runs>>

-----------------------------------------------------------------------------
(* callHTTP and doHTTP.                                                    *)

Posting(c) == http /\ rpc[c].pc = "post"
CarriedOut(c) == runs' = [runs EXCEPT ![rpc[c].nr] = @ + 1]

\* 2xx.  Of a stream of events the first is taken for the answer, whatever it
\* is: a message of another kind leaves the call without a result.
PostAnswered(c) ==
  /\ Posting(c) /\ CarriedOut(c)
  /\ Returns(c, "answer", rpc[c].nr) \/ Returns(c, "empty", 0)
  /\ UNCHANGED <<http, nextID, pending, asked, reader>>

PostsOnceMore(c) ==           \* mutant: the attempts are counted from the wrong end
  /\ Posting(c)
  /\ CarriedOut(c) \/ UNCHANGED runs
  /\ IF rpc[c].tries < Attempts
     THEN rpc' = [rpc EXCEPT ![c].tries = @ + 1] ELSE Returns(c, "error", 0)
  /\ UNCHANGED <<http, nextID, pending, asked, reader>>

\* A failure that is worth another attempt, or a token that could be refreshed;
\* the server may have carried the request out.
PostFails(c) ==
  /\ Posting(c)
  /\ CarriedOut(c) \/ UNCHANGED runs
  /\ IF rpc[c].tries + 1 < Attempts
     THEN rpc' = [rpc EXCEPT ![c].tries = @ + 1] ELSE Returns(c, "error", 0)
  /\ UNCHANGED <<http, nextID, pending, asked, reader>>

\* Any other failure, a cancelled context, no token to refresh.
PostRefused(c) ==
  /\ Posting(c)
  /\ CarriedOut(c) \/ UNCHANGED runs
  /\ Returns(c, "error", 0)
  /\ UNCHANGED <<http, nextID, pending, asked, reader>>

CallsNext ==
  \/ \E c \in Rpcs :
       \/ CallServer(c) \/ WriteRequest(c) \/ Replied(c) \/ CallGivenUp(c) \/ ForgetCall(c)
       \/ PostAnswered(c) \/ PostFails(c) \/ PostRefused(c)
       \/ \E id, nr \in 1 .. MaxCalls : ReadReply(c, id, nr)
  \/ HandOver \/ ServerStops

CallsSpec == CallsInit /\ [][CallsNext]_callVars

-----------------------------------------------------------------------------
(* Properties.                                                             *)

\* The type of every variable.
CallsType ==
  /\ http \in BOOLEAN /\ nextID \in 0 .. MaxCalls
  /\ pending \subseteq (1 .. MaxCalls) \X Rpcs
  /\ asked \subseteq (1 .. MaxCalls) \X (1 .. MaxCalls)
  /\ runs \in [1 .. MaxCalls -> 0 .. Attempts]
  /\ \A c \in Rpcs : rpc[c].tries < Attempts /\ rpc[c].id \in 0 .. MaxCalls

\* An answer is the one to the request of the call that returns it: no late or
\* repeated reply, to a call that has timed out or returned, reaches the next
\* call; and only calls that are under way are waited for.
AnswersAreOwn ==
  /\ \A c \in Rpcs : rpc[c].result = "answer" => rpc[c].from = rpc[c].nr
  /\ pending = {<<rpc[c].id, c>> : c \in {c \in Rpcs : rpc[c].pc # "idle"}}
=============================================================================
