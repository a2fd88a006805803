------------------------------ MODULE MCServices ------------------------------
(***************************************************************************)
(* The parts of the program that share no state with each other, checked   *)
(* together: a behaviour is one of one part, which its first state names,  *)
(* while the others stay as they began.                                    *)
(***************************************************************************)
EXTENDS Threads, RemoteProcess, PatchText, PatchParse, ApplyPatch, ExecPolicy,
        McpServers, McpCalls, TLC

VARIABLE part

RequestSymmetry == Permutations(Requests)

FileLinesChecked  == {<<"a", 1>>, <<"a", 2>>, Blank}
PatchLinesChecked == {<<"a", 1>>, Blank}

CommandsChecked == {
  <<"npm", "run", "x", "y">>, <<"npm", "run", "x", ";", "ls">>, <<"npm", "run", "x", "$">>,
  <<"git", "--no-pager", "log", ";", "ls">>, <<"apply_patch">>}

ListsChecked == {<<"t1">>, <<"t2", "t1">>, <<"t2", "t2">>}

servicesVars == <<part, threadVars, remoteVars, textVars, patchText, patchVars, policyVars,
                  mcpVars, callVars>>

Parts == {"threads", "remote", "text", "parse", "patch", "policy", "mcp", "calls"}

ServicesInit ==
  /\ part \in Parts
  /\ IF part = "threads" THEN ThreadsInit ELSE ThreadsStart({})
  /\ RemoteInit /\ TextInit /\ ParseInit /\ PatchInit /\ PolicyInit /\ McpInit
  /\ IF part = "calls" THEN CallsInit ELSE CallsStart(FALSE)

ServicesNext ==
  /\ UNCHANGED part
  /\ \/ /\ part = "threads" /\ ThreadsNext
        /\ UNCHANGED <<remoteVars, textVars, patchText, patchVars, policyVars, mcpVars, callVars>>
     \/ /\ part = "remote" /\ RemoteNext
        /\ UNCHANGED <<threadVars, textVars, patchText, patchVars, policyVars, mcpVars, callVars>>
     \/ /\ part = "text" /\ TextNext
        /\ UNCHANGED <<threadVars, remoteVars, patchText, patchVars, policyVars, mcpVars, callVars>>
     \/ /\ part = "parse" /\ ParseNextLine
        /\ UNCHANGED <<threadVars, remoteVars, textVars, patchVars, policyVars, mcpVars, callVars>>
     \/ /\ part = "patch" /\ PatchNext
        /\ UNCHANGED <<threadVars, remoteVars, textVars, patchText, policyVars, mcpVars, callVars>>
     \/ /\ part = "policy" /\ PolicyNext
        /\ UNCHANGED <<threadVars, remoteVars, textVars, patchText, patchVars, mcpVars, callVars>>
     \/ /\ part = "mcp" /\ McpNext
        /\ UNCHANGED <<threadVars, remoteVars, textVars, patchText, patchVars, policyVars, callVars>>
     \/ /\ part = "calls" /\ CallsNext
        /\ UNCHANGED <<threadVars, remoteVars, textVars, patchText, patchVars, policyVars, mcpVars>>

ServicesSpec == ServicesInit /\ [][ServicesNext]_servicesVars

\* Every variable of every part has its type.
TypesOK ==
  /\ ThreadsType /\ RemoteType /\ PatchType /\ PolicyType /\ McpType /\ CallsType
=============================================================================
