------------------------- MODULE ConversationHistory -------------------------
(***************************************************************************)
(* The model-visible history of a thread, and what is made of it: the      *)
(* prompt of one request, and the replacement that compaction puts in its  *)
(* place.                                                                  *)
(*                                                                         *)
(* An item stands for a ResponseItem.  Its text is the number `n`; `turn`  *)
(* says which turn recorded it and `long` whether its JSON is longer than  *)
(* a reader of the rollout accepts.                                        *)
(***************************************************************************)
EXTENDS Naturals, SequencesExt

NoId      == "none"      \* a function call that came without a call_id
InvalidId == "invalid"   \* "invalid_function_call", what is answered to one

\* The items that RecordItems and Restore keep; "reasoning" is treated as
\* "assistant" is.
Conversational == {"user", "assistant", "call", "output"}

RestoredWhole(items) == items   \* mutant: what no history keeps is kept

Restored(items) ==
  FlattenSeq([k \in DOMAIN items |->
    IF items[k].kind \in Conversational THEN <<items[k]>> ELSE << >>])

Extended(history, items) == history \o Restored(items)

IdsOf(items, kind) == {item.id : item \in {i \in ToSet(items) : i.kind = kind}} \ {NoId}

Aborted(call) == [call EXCEPT !.kind = "output", !.n = 0]

ForPromptUnpaired(history) ==   \* mutant: calls without an output stay so
  LET calls == IdsOf(history, "call")
  IN FlattenSeq([k \in DOMAIN history |->
       IF history[k].kind = "output" /\ history[k].id \notin calls THEN << >>
       ELSE <<history[k]>>])

\* What stands in a prompt for one item of the history.
Normalized(item, calls, outputs) ==
  IF item.kind = "output" /\ item.id \notin calls THEN << >>
  ELSE IF item.kind = "call" /\ item.id \notin outputs THEN <<item, Aborted(item)>>
  ELSE <<item>>

\* normalizeForPrompt: an output without its call is left out, a call without
\* an output is answered.
ForPrompt(history) ==
  LET calls   == IdsOf(history, "call")
      outputs == IdsOf(history, "output")
  IN FlattenSeq([k \in DOMAIN history |-> Normalized(history[k], calls, outputs)])

\* compactHistory: the summary, and the last thing the user said.
Compacted(history, summary) ==
  LET prompt == ForPrompt(history)
      last   == SelectLastInSeq(prompt, LAMBDA item : item.kind = "user")
  IN <<summary>> \o (IF last = 0 THEN << >> ELSE <<prompt[last]>>)

-----------------------------------------------------------------------------
\* What the Responses API asks of a prompt: every call has an output, and every
\* output comes after a call.
Paired(prompt) ==
  /\ \A i \in DOMAIN prompt : prompt[i].kind = "call" =>
       \E j \in DOMAIN prompt : prompt[j].kind = "output" /\ prompt[j].id = prompt[i].id
  /\ \A j \in DOMAIN prompt : prompt[j].kind = "output" =>
       \E i \in 1 .. j - 1 : prompt[i].kind = "call" /\ prompt[i].id = prompt[j].id
=============================================================================
