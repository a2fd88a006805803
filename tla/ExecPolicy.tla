------------------------------ MODULE ExecPolicy ------------------------------
(***************************************************************************)
(* Which commands run, with which rights, and on whose word: the policy of *)
(* each session, the rules file that the sessions of a workspace share,    *)
(* and the tool calls that ask the policy, then the user.                  *)
(*                                                                         *)
(* A command is a sequence of words and of the signs that matter to the    *)
(* parser: ";" for any of the operators that join commands, "$" for        *)
(* whatever makes a command opaque to it.                                  *)
(***************************************************************************)
EXTENDS Naturals, SequencesExt

CONSTANTS
  Sessions,    \* the sessions of the workspace
  Calls,       \* the tool calls that may be under way at once
  Commands,    \* the commands the model asks for
  MaxRules     \* bound: how many rules the user grants

ASSUME ExecPolicyAssumption ==
  /\ MaxRules \in Nat /\ Commands \subseteq Seq(STRING)

VARIABLES
  policy,     \* of each session: its persistent and session rules; none before it starts
  file,       \* the rules file
  temporary,  \* the temporary file a new version is written to, if it is there
  amending,   \* the rules each session has written there and not yet renamed
  call,       \* the state of each tool call
  granted,    \* history: the rules that the user has granted in any session
  amenders    \* history: the sessions that have written the rules

policyVars == <<policy, file, temporary, amending, call, granted, amenders>>

NoRules == [loaded |-> FALSE, persistent |-> {}, session |-> {}]
NoFile  == [there |-> FALSE, rules |-> {}]
NoCall  == [pc |-> "idle", s |-> "none", cmd |-> <<>>, net |-> FALSE, rule |-> <<>>,
            approved |-> FALSE, asked |-> FALSE]

PolicyInit ==
  /\ policy = [s \in Sessions |-> NoRules]
  /\ file = {} /\ temporary = NoFile
  /\ amending = [s \in Sessions |-> NoFile]
  /\ call = [c \in Calls |-> NoCall]
  /\ granted = {} /\ amenders = {}

-----------------------------------------------------------------------------
(* The policy's rules.                                                     *)

Operators(cmd) == {i \in DOMAIN cmd : cmd[i] = ";"}
NothingBefore(cmd, i) == i = 1 \/ cmd[i - 1] = ";"
Neighbours(cmd) ==
  {at \in ({0} \cup Operators(cmd)) \X (Operators(cmd) \cup {Len(cmd) + 1}) :
     at[1] < at[2] /\ ~\E k \in Operators(cmd) : at[1] < k /\ k < at[2]}

\* The commands between the operators, whether they are plain, and the error of an
\* empty one.  What is opaque ends the parse with all the words as one command.
ParsePlainShellCommands(cmd) ==
  LET opaque == \E i \in DOMAIN cmd :
        cmd[i] = "$" /\ \A j \in Operators(cmd) : j < i => ~NothingBefore(cmd, j) IN
  [plain |-> ~opaque,
   ok |-> opaque \/ \A j \in Operators(cmd) \cup {Len(cmd) + 1} : ~NothingBefore(cmd, j),
   commands |-> IF opaque THEN {cmd}
                ELSE {SubSeq(cmd, at[1] + 1, at[2] - 1) : at \in Neighbours(cmd)}]

ReadOnlyCommands == {"ls", "pwd", "rg"}
ReadOnlyGitSubcommands == {"diff", "log", "status"}
SafeArguments(words) == \A i \in DOMAIN words : words[i] # ".."

\* git: harmless options, a subcommand that reads, nothing that writes a file.
IsBuiltInReadOnlyGit(words) ==
  LET skipped == {i \in 2 .. Len(words) : \A j \in 2 .. i : words[j] = "--no-pager"}
      at == 2 + Cardinality(skipped) IN
  /\ at <= Len(words) /\ words[at] \in ReadOnlyGitSubcommands
  /\ \A i \in at + 1 .. Len(words) : words[i] # "--output"
  /\ SafeArguments(SubSeq(words, at + 1, Len(words)))

IsBuiltInReadOnly(words) ==
  IF words[1] = "git" THEN IsBuiltInReadOnlyGit(words)
  ELSE words[1] \in ReadOnlyCommands /\ SafeArguments(Tail(words))

\* The prefix that is offered for approval: two words, or three of "npm run".
DerivePrefixRule(words) ==
  IF Len(words) < 2 THEN <<>>
  ELSE SubSeq(words, 1, IF Len(words) >= 3 /\ words[1] = "npm" /\ words[2] = "run" THEN 3 ELSE 2)

ProposedRule(words, requested) ==
  IF Len(requested) >= 2 /\ IsPrefix(requested, words) THEN requested ELSE DerivePrefixRule(words)

RequirementOfAny(rules, cmd, requested) ==  \* mutant: a rule speaks for compound commands
  IF \E rule \in rules.persistent \cup rules.session : IsPrefix(rule, cmd)
  THEN [matched |-> "prefix", rule |-> <<>>]
  ELSE [matched |-> "none", rule |-> ProposedRule(cmd, requested)]

\* Built-in rules speak for compound commands too, the others for one plain one.
Requirement(rules, cmd, requested) ==
  LET parsed == ParsePlainShellCommands(cmd)
      reusable == parsed.plain /\ Operators(cmd) = {} IN
  IF parsed.plain /\ \A words \in parsed.commands : IsBuiltInReadOnly(words)
  THEN [matched |-> "built-in", rule |-> <<>>]
  ELSE IF reusable /\ \E rule \in rules.persistent \cup rules.session : IsPrefix(rule, cmd)
  THEN [matched |-> "prefix", rule |-> <<>>]
  ELSE [matched |-> "none", rule |-> IF reusable THEN ProposedRule(cmd, requested) ELSE <<>>]

-----------------------------------------------------------------------------
(* Sessions and tool calls.                                                *)

\* NewExecPolicy: the file is read once; rules of one word are passed over.
NewExecPolicy(s) ==
  /\ ~policy[s].loaded
  /\ policy' = [policy EXCEPT ![s] = [loaded |-> TRUE, session |-> {},
                 persistent |-> {rule \in file : Len(rule) >= 2}]]
  /\ UNCHANGED <<file, temporary, amending, call, granted, amenders>>

\* The call runs its command, with or without rights beyond reading.
Runs(c, cmd, net, approved, asked) ==
  call' = [call EXCEPT ![c] = [NoCall EXCEPT !.pc = "ran", !.cmd = cmd, !.net = net,
                                             !.approved = approved, !.asked = asked]]
Reviewed(c, approved) == Runs(c, call[c].cmd, call[c].net, approved, TRUE)

\* The reviewer asks the user, offering the rule.
Reviews(c, s, cmd, net, matched, rule) ==
  call' = [call EXCEPT ![c] = [NoCall EXCEPT !.pc = "review", !.s = s, !.cmd = cmd, !.net = net,
                                             !.rule = rule, !.approved = matched = "prefix"]]

ExecuteUnasked(c, s, cmd, requested, net) ==  \* mutant: network access is not asked for
  LET need == Requirement(policy[s], cmd, requested) IN
  /\ call[c].pc = "idle" /\ policy[s].loaded
  /\ ParsePlainShellCommands(cmd).ok
  /\ IF need.matched = "none" THEN Reviews(c, s, cmd, net, need.matched, need.rule)
     ELSE Runs(c, cmd, net, need.matched = "prefix", FALSE)
  /\ UNCHANGED <<policy, file, temporary, amending, granted, amenders>>

\* exec_command up to the reviewer; apply_patch offers its own name as the rule.
Execute(c, s, cmd, requested, net) ==
  LET need == Requirement(policy[s], cmd, requested)
      rule == IF cmd = <<"apply_patch">> THEN cmd ELSE IF net THEN <<>> ELSE need.rule IN
  /\ call[c].pc = "idle" /\ policy[s].loaded
  /\ ParsePlainShellCommands(cmd).ok
  /\ net => cmd # <<"apply_patch">>
  /\ IF net \/ need.matched = "none" THEN Reviews(c, s, cmd, net, need.matched, rule)
     ELSE Runs(c, cmd, net, need.matched = "prefix", FALSE)
  /\ UNCHANGED <<policy, file, temporary, amending, granted, amenders>>

\* The user approves once.
Decide(c) ==
  /\ call[c].pc = "review"
  /\ Reviewed(c, TRUE)
  /\ UNCHANGED <<policy, file, temporary, amending, granted, amenders>>

\* Approved for the session: without a rule to keep, the rights stay as they were.
DecideForSession(c) ==
  LET s == call[c].s  rule == call[c].rule IN
  /\ call[c].pc = "review" /\ Cardinality(granted) < MaxRules
  /\ Reviewed(c, call[c].approved \/ rule # <<>>)
  /\ policy' = IF rule = <<>> THEN policy ELSE [policy EXCEPT ![s].session = @ \cup {rule}]
  /\ granted' = IF rule = <<>> THEN granted ELSE granted \cup {rule}
  /\ UNCHANGED <<file, temporary, amending, amenders>>

\* The rule is there, since another call was approved with it.
AlreadyAmended(c) ==
  LET s == call[c].s IN
  /\ call[c].pc = "review" /\ ~amending[s].there
  /\ call[c].rule \in policy[s].persistent
  /\ Reviewed(c, TRUE)
  /\ UNCHANGED <<policy, file, temporary, amending, granted, amenders>>

ForgetOthers(c) ==            \* mutant: the new version has the new rule only
  LET s == call[c].s  rules == {call[c].rule} IN
  /\ call[c].pc = "review" /\ Len(call[c].rule) >= 2 /\ ~amending[s].there
  /\ call[c].rule \notin policy[s].persistent
  /\ Cardinality(granted) < MaxRules
  /\ temporary' = [there |-> TRUE, rules |-> rules]
  /\ amending' = [amending EXCEPT ![s] = [there |-> TRUE, rules |-> policy[s].persistent \cup rules]]
  /\ call' = [call EXCEPT ![c].pc = "rename"]
  /\ granted' = granted \cup {call[c].rule} /\ amenders' = amenders \cup {s}
  /\ UNCHANGED <<policy, file>>

\* Approved with an amendment: AddPersistentRule writes all rules of this
\* session's policy to the temporary file, holding the policy's mutex ...
DecideAmendment(c) ==
  LET s == call[c].s  rules == policy[s].persistent \cup {call[c].rule} IN
  /\ call[c].pc = "review" /\ Len(call[c].rule) >= 2 /\ ~amending[s].there
  /\ call[c].rule \notin policy[s].persistent
  /\ Cardinality(granted) < MaxRules
  /\ temporary' = [there |-> TRUE, rules |-> rules]
  /\ amending' = [amending EXCEPT ![s] = [there |-> TRUE, rules |-> rules]]
  /\ call' = [call EXCEPT ![c].pc = "rename"]
  /\ granted' = granted \cup {call[c].rule} /\ amenders' = amenders \cup {s}
  /\ UNCHANGED <<policy, file>>

\* ... and renames whatever is there by then.
Rename(c) ==
  LET s == call[c].s IN
  /\ call[c].pc = "rename" /\ temporary.there
  /\ file' = temporary.rules /\ temporary' = NoFile
  /\ policy' = [policy EXCEPT ![s].persistent = amending[s].rules]
  /\ amending' = [amending EXCEPT ![s] = NoFile]
  /\ Reviewed(c, TRUE)
  /\ UNCHANGED <<granted, amenders>>

\* A rule of one word or none, or a temporary file that is gone: the call fails.
AmendmentFails(c) ==
  /\ \/ call[c].pc = "review" /\ Len(call[c].rule) < 2
     \/ call[c].pc = "rename" /\ ~temporary.there
  /\ call' = [call EXCEPT ![c] = NoCall]
  /\ amending' = IF call[c].pc = "rename"
                 THEN [amending EXCEPT ![call[c].s] = NoFile] ELSE amending
  /\ UNCHANGED <<policy, file, temporary, granted, amenders>>

\* The command was run with these rights; or the user denies, or the turn ends.
Done(c) ==
  /\ call[c].pc \in {"ran", "review"}
  /\ call' = [call EXCEPT ![c] = NoCall]
  /\ UNCHANGED <<policy, file, temporary, amending, granted, amenders>>

PolicyStep(c) ==
  \/ Decide(c) \/ DecideForSession(c) \/ DecideAmendment(c) \/ AlreadyAmended(c)
  \/ Rename(c) \/ AmendmentFails(c) \/ Done(c)

PolicyNext ==
  \/ \E s \in Sessions : NewExecPolicy(s)
  \/ \E c \in Calls : PolicyStep(c)
  \/ \E c \in Calls, s \in Sessions, cmd \in Commands, net \in BOOLEAN :
       \E requested \in {<<>>, cmd} : Execute(c, s, cmd, requested, net)

PolicySpec == PolicyInit /\ [][PolicyNext]_policyVars

-----------------------------------------------------------------------------
(* Properties.                                                             *)

\* The type of every variable.
PolicyType ==
  /\ \A s \in Sessions :
       /\ policy[s].loaded \in BOOLEAN /\ policy[s].persistent \cup policy[s].session \subseteq granted
       /\ amending[s].rules \subseteq granted
  /\ file \subseteq granted /\ temporary.rules \subseteq granted /\ amenders \subseteq Sessions
  /\ \A c \in Calls : call[c].pc \in {"idle", "review", "rename", "ran"}

Ran == {c \in Calls : call[c].pc = "ran"}
Network(c) == call[c].net /\ call[c].approved

\* A command writes in the workspace only when the user approved this call, or
\* granted, in this session or to all, a prefix of the one plain command that it
\* is; the network it has only on the user's word for this very call.
Consented ==
  \A c \in Ran :
    /\ call[c].approved =>
         \/ call[c].asked
         \/ /\ \E rule \in granted : IsPrefix(rule, call[c].cmd)
            /\ \A i \in DOMAIN call[c].cmd : call[c].cmd[i] \notin {";", "$"}
    /\ Network(c) => call[c].asked

\* While one session alone amends the rules, the file has every rule it works by
\* from its own amendments and from the file it started with.
AmendmentsKept ==
  \A s \in Sessions : amenders = {s} => policy[s].persistent \subseteq file
=============================================================================
