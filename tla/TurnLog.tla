------------------------------- MODULE TurnLog -------------------------------
(***************************************************************************)
(* What a session promises of its history: an input that was accepted is   *)
(* owed to one turn, the turns run one at a time, a turn reads the inputs  *)
(* it is owed into the history, in the order in which they were accepted,  *)
(* and it leaves none of them out unless an error ended it.  Nothing is    *)
(* accepted for a turn that has closed in good order.                      *)
(***************************************************************************)
EXTENDS Integers

CONSTANT Inputs     \* numbers, in the order of submission

Nowhere == 0        \* the owner of an input that was not accepted

VARIABLES
  owner,    \* for each input, the turn that is to read it, or Nowhere
  stage,    \* for each turn, named by the input that started it, how far it is:
            \* none, due, open or failing, then whole or broken
  history   \* the inputs that were read

vars == <<owner, stage, history>>

Init ==
  /\ owner = [i \in Inputs |-> Nowhere]
  /\ stage = [t \in Inputs |-> "none"]
  /\ history = {}

Due(t)    == {i \in Inputs : owner[i] = t} \ history
Latest(i) == owner[i] = Nowhere /\ \A j \in Inputs : owner[j] # Nowhere => j < i

\* An accepted input starts a turn when none is under way ...
Start(i) ==
  /\ Latest(i)
  /\ \A t \in Inputs : stage[t] \in {"none", "whole", "broken"}
  /\ stage[i] = "none"
  /\ owner' = [owner EXCEPT ![i] = i]
  /\ stage' = [stage EXCEPT ![i] = "due"]
  /\ UNCHANGED history

\* ... or is owed to the newest one.
Steer(i, t) ==
  /\ Latest(i)
  /\ stage[t] \in {"due", "open", "failing", "broken"}
  /\ \A u \in Inputs : stage[u] # "none" => u <= t
  /\ owner' = [owner EXCEPT ![i] = t]
  /\ UNCHANGED <<stage, history>>

Begin(t) ==
  /\ stage[t] = "due"
  /\ stage' = [stage EXCEPT ![t] = "open"]
  /\ UNCHANGED <<owner, history>>

Read(t, some) ==
  /\ stage[t] = "open"
  /\ some \subseteq Due(t)
  /\ \A i \in some : /\ \A j \in history : j < i
                     /\ \A j \in Due(t) \ some : i < j
  /\ history' = history \cup some
  /\ UNCHANGED <<owner, stage>>

Fail(t) ==
  /\ stage[t] = "open"
  /\ stage' = [stage EXCEPT ![t] = "failing"]
  /\ UNCHANGED <<owner, history>>

Close(t) ==
  /\ \/ stage[t] = "open" /\ Due(t) = {}
        /\ stage' = [stage EXCEPT ![t] = "whole"]
     \/ stage[t] = "failing"
        /\ stage' = [stage EXCEPT ![t] = "broken"]
  /\ UNCHANGED <<owner, history>>

Step ==
  \E t \in Inputs :
    \/ Start(t) \/ Begin(t) \/ Fail(t) \/ Close(t)
    \/ \E i \in Inputs : Steer(i, t)
    \/ \E some \in SUBSET Inputs : Read(t, some)

Spec == Init /\ [][Step]_vars
=============================================================================
