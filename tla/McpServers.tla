------------------------------ MODULE McpServers ------------------------------
(***************************************************************************)
(* The MCP server of a session: the submission loop connects it when the   *)
(* session starts and on every refresh, the watcher of each client lists   *)
(* its tools again when the server says they have changed, and both write  *)
(* the router's registry and the server's status.  The clients talk to     *)
(* child processes; one server stands for all, as their names keep their   *)
(* tools apart.                                                            *)
(***************************************************************************)
EXTENDS Naturals, Sequences

CONSTANTS
  Tools,       \* the tools of the server
  Lists,       \* the answers to tools/list
  MaxClients   \* bound: how many clients are started for it

ASSUME McpServersAssumption == MaxClients \in Nat \ {0} /\ Lists \subseteq Seq(Tools)

VARIABLES
  loop,      \* the submission loop: where it is, the tools it registers
  clients,   \* the clients, in the order they were started
  registry,  \* router.registry: the client behind each tool, 0 for none
  status,    \* s.mcpStatuses of the server; none when there is no entry
  turn,      \* whether a turn runs, the registry it began with, who was listing
  late       \* history: clients that a refresh closed while their watcher was on its way
             \* with a list; the next refresh forgets those that are done

mcpVars == <<loop, clients, registry, status, turn, late>>

Unlisted == [t \in Tools |-> 0]
NewClient == [open |-> TRUE, watcher |-> "none", changed |-> FALSE, list |-> <<>>, n |-> 0]
Newest == Len(clients)
Idle == [pc |-> "idle", list |-> <<>>, n |-> 0]
NamesIn(list) == {list[i] : i \in DOMAIN list}

McpInit ==
  /\ loop = [pc |-> "start", list |-> <<>>, n |-> 0]
  /\ clients = <<>>
  /\ registry = Unlisted
  /\ status = [state |-> "none", tools |-> {}]
  /\ turn = [active |-> FALSE, tools |-> Unlisted, raced |-> FALSE]
  /\ late = {}

\* Register: a name that is there is refused.
WithTool(t, c) == IF registry[t] = 0 THEN [registry EXCEPT ![t] = c] ELSE registry

-----------------------------------------------------------------------------
(* The submission loop: connectMCPServers and refreshExtensions.           *)

ClosedBy(c) == [clients EXCEPT ![c].open = FALSE]

\* The client does not start, at the first attempt or the third.
StartFails ==
  /\ loop.pc = "start"
  /\ loop' = Idle
  /\ status' = [state |-> "failed", tools |-> {}]
  /\ UNCHANGED <<clients, registry, turn, late>>

StartClient ==
  /\ loop.pc = "start" /\ Newest < MaxClients
  /\ loop' = [loop EXCEPT !.pc = "list"]
  /\ clients' = Append(clients, NewClient)
  /\ status' = [state |-> "starting", tools |-> {}]
  /\ UNCHANGED <<registry, turn, late>>

ListFails ==
  /\ loop.pc = "list"
  /\ loop' = Idle
  /\ clients' = ClosedBy(Newest)
  /\ status' = [status EXCEPT !.state = "failed"]
  /\ UNCHANGED <<registry, turn, late>>

ListTools ==
  /\ loop.pc = "list"
  /\ \E list \in Lists : loop' = [pc |-> "register", list |-> list, n |-> 0]
  /\ UNCHANGED <<clients, registry, status, turn, late>>

\* One tool after the other; those before a refused one stay.
RegisterTool ==
  /\ loop.pc = "register" /\ loop.n < Len(loop.list)
  /\ LET t == loop.list[loop.n + 1] IN
     /\ registry' = WithTool(t, Newest)
     /\ IF registry[t] = 0
        THEN loop' = [loop EXCEPT !.n = @ + 1] /\ UNCHANGED <<clients, status>>
        ELSE /\ loop' = Idle
             /\ clients' = ClosedBy(Newest)
             /\ status' = [status EXCEPT !.state = "failed"]
  /\ UNCHANGED <<turn, late>>

\* The server is ready, and its watcher starts.
Connected ==
  /\ loop.pc = "register" /\ loop.n = Len(loop.list)
  /\ loop' = Idle
  /\ status' = [state |-> "ready", tools |-> NamesIn(loop.list)]
  /\ clients' = [clients EXCEPT ![Newest].watcher = "idle"]
  /\ UNCHANGED <<registry, turn, late>>

\* The watcher waits for a list of tools, or has one.
Relisting(c) == clients[c].watcher \in {"listing", "listed", "registering"}

\* Refused while a turn runs; the clients are closed first, ...
RefreshCloses ==
  /\ loop.pc = "idle" /\ ~turn.active
  /\ loop' = [loop EXCEPT !.pc = "unregister"]
  /\ clients' = [c \in DOMAIN clients |-> [clients[c] EXCEPT !.open = FALSE]]
  /\ late' = late \cup {c \in DOMAIN clients : Relisting(c)}
  /\ UNCHANGED <<registry, status, turn>>

\* ... then their tools and the statuses go, and all is connected again.
RefreshUnregisters ==
  /\ loop.pc = "unregister"
  /\ loop' = [loop EXCEPT !.pc = "start"]
  /\ registry' = Unlisted
  /\ status' = [state |-> "none", tools |-> {}]
  /\ late' = {c \in late : Relisting(c)}
  /\ UNCHANGED <<clients, turn>>

\* The loop starts a turn; its task ends by itself.
TurnBegins ==
  /\ loop.pc = "idle" /\ ~turn.active
  /\ turn' = [active |-> TRUE, tools |-> registry,
              raced |-> \E c \in DOMAIN clients : Relisting(c)]
  /\ UNCHANGED <<loop, clients, registry, status, late>>

TurnOver ==
  /\ turn.active
  /\ turn' = [active |-> FALSE, tools |-> Unlisted, raced |-> FALSE]
  /\ UNCHANGED <<loop, clients, registry, status, late>>

-----------------------------------------------------------------------------
(* watchMCPNotifications, one goroutine per client.                        *)

Watches(c, pc) == clients[c].watcher = pc

\* The server sends list_changed, or asks for an elicitation.
ToolsChange(c) ==
  /\ clients[c].open /\ ~clients[c].changed
  /\ clients' = [clients EXCEPT ![c].changed = TRUE]
  /\ UNCHANGED <<loop, registry, status, turn, late>>

\* Until the user has answered, and the loop has passed it on, the watcher does
\* nothing else, also when its client is closed.
RequestElicitation(c) ==
  /\ Watches(c, "idle") /\ clients[c].open
  /\ clients' = [clients EXCEPT ![c].watcher = "eliciting"]
  /\ UNCHANGED <<loop, registry, status, turn, late>>

HandleElicitation(c) ==
  /\ Watches(c, "eliciting") /\ loop.pc = "idle"
  /\ clients' = [clients EXCEPT ![c].watcher = "idle"]
  /\ UNCHANGED <<loop, registry, status, turn, late>>

WatchInTurns(c) ==            \* mutant: the tools are listed again within a turn
  /\ Watches(c, "idle") /\ clients[c].changed
  /\ clients' = [clients EXCEPT ![c].changed = FALSE,
       ![c].watcher = IF clients[c].open THEN "listing" ELSE "refused"]
  /\ UNCHANGED <<loop, registry, status, turn, late>>

\* Outside of a turn the tools are listed again.
Watch(c) ==
  /\ Watches(c, "idle") /\ clients[c].changed
  /\ clients' = [clients EXCEPT ![c].changed = FALSE,
       ![c].watcher = IF turn.active THEN "marking"
                      ELSE IF clients[c].open THEN "listing" ELSE "refused"]
  /\ UNCHANGED <<loop, registry, status, turn, late>>

\* A change within a turn is noted, and forgotten.
MarkStale(c) ==
  /\ Watches(c, "marking")
  /\ status' = [status EXCEPT !.state = "stale"]
  /\ clients' = [clients EXCEPT ![c].watcher = "idle"]
  /\ UNCHANGED <<loop, registry, turn, late>>

\* What becomes of a server that has no entry is written under an empty name.
Restated(state, tools) ==
  status' = IF status.state = "none" THEN status ELSE [state |-> state, tools |-> tools]

\* An error, as always when the client was closed before: the status, whatever
\* it is by then, becomes that error.
RelistFails(c) ==
  /\ Watches(c, "listing") \/ Watches(c, "refused")
  /\ clients' = [clients EXCEPT ![c].watcher = "idle"]
  /\ Restated("failed", status.tools)
  /\ UNCHANGED <<loop, registry, turn, late>>

\* An answer, perhaps of a client that was closed after it came.
Relist(c) ==
  /\ Watches(c, "listing")
  /\ \E list \in Lists :
       clients' = [clients EXCEPT ![c].watcher = "listed", ![c].list = list, ![c].n = 0]
  /\ UNCHANGED <<loop, registry, status, turn, late>>

KeepOldTools(c) ==            \* mutant: tools that are no longer listed stay
  /\ Watches(c, "listed")
  /\ clients' = [clients EXCEPT ![c].watcher = "registering"]
  /\ UNCHANGED <<loop, registry, status, turn, late>>

UnregisterPrefix(c) ==
  /\ Watches(c, "listed")
  /\ registry' = Unlisted
  /\ clients' = [clients EXCEPT ![c].watcher = "registering"]
  /\ UNCHANGED <<loop, status, turn, late>>

Reregister(c) ==
  /\ Watches(c, "registering") /\ clients[c].n < Len(clients[c].list)
  /\ registry' = WithTool(clients[c].list[clients[c].n + 1], c)
  /\ clients' = [clients EXCEPT ![c].n = @ + 1]
  /\ UNCHANGED <<loop, status, turn, late>>

Relisted(c) ==
  /\ Watches(c, "registering") /\ clients[c].n = Len(clients[c].list)
  /\ clients' = [clients EXCEPT ![c].watcher = "idle", ![c].list = <<>>, ![c].n = 0]
  /\ Restated("ready", NamesIn(clients[c].list))
  /\ UNCHANGED <<loop, registry, turn, late>>

\* The channels of a closed client are closed when what they hold was received.
WatcherReturns(c) ==
  /\ Watches(c, "idle") /\ ~clients[c].open /\ ~clients[c].changed
  /\ clients' = [clients EXCEPT ![c].watcher = "gone"]
  /\ UNCHANGED <<loop, registry, status, turn, late>>

McpNext ==
  \/ StartFails \/ StartClient \/ ListFails \/ ListTools \/ RegisterTool \/ Connected
  \/ RefreshCloses \/ RefreshUnregisters \/ TurnBegins \/ TurnOver
  \/ \E c \in DOMAIN clients :
       \/ ToolsChange(c) \/ RequestElicitation(c) \/ HandleElicitation(c)
       \/ Watch(c) \/ MarkStale(c) \/ RelistFails(c) \/ Relist(c) \/ UnregisterPrefix(c)
       \/ Reregister(c) \/ Relisted(c) \/ WatcherReturns(c)

McpSpec == McpInit /\ [][McpNext]_mcpVars

-----------------------------------------------------------------------------
(* Properties.                                                             *)

\* The type of every variable.
McpType ==
  /\ loop.pc \in {"start", "list", "register", "idle", "unregister"} /\ loop.list \in Lists \cup {<<>>}
  /\ registry \in [Tools -> 0 .. Newest] /\ turn.tools \in [Tools -> 0 .. Newest]
  /\ status.tools \subseteq Tools /\ late \subseteq DOMAIN clients
  /\ Newest <= MaxClients
  /\ \A c \in DOMAIN clients : clients[c].list \in Lists \cup {<<>>} /\ clients[c].n \in Nat

\* Behind every tool in the router is the newest client, or one that a refresh closed
\* while its watcher was on its way with a list, whatever fails, closes or is relisted.
\* Without such a late watcher, what a ready server lists is what the router has,
\* between refreshes, and the client behind it is open.
ReadyMeansUsable ==
  /\ \A t \in Tools : registry[t] # 0 => registry[t] \in late \cup {Newest}
  /\ /\ late = {} /\ loop.pc = "idle" /\ status.state = "ready"
     /\ \A c \in DOMAIN clients : ~Watches(c, "registering")
     => /\ clients[Newest].open
        /\ \A t \in Tools : registry[t] = IF t \in status.tools THEN Newest ELSE 0

\* A turn keeps the tools it began with, unless a watcher was on its way to a
\* new list: it looks for a turn before it asks the server, never after.
TurnKeepsItsTools == turn.active /\ ~turn.raced => registry = turn.tools
=============================================================================
