---------------------------- MODULE GeminiRequest ----------------------------
(***************************************************************************)
(* toContents of plugins/gemini/llm.go: what the model is asked, made from *)
(* the messages of a chat context.  A message is a record with a role;     *)
(* blank is the set of those that have neither text nor tool calls.        *)
(***************************************************************************)
EXTENDS SequencesExt

GeminiRole(role) == IF role = "assistant" THEN "model" ELSE "user"

(* What one message adds: those of the system are no contents, blank ones  *)
(* are dropped; what a tool returns is passed on also if it is empty.      *)
Content(m, blank) ==
  IF m.role = "system" \/ (m.role # "tool" /\ m \in blank)
  THEN <<>> ELSE <<GeminiRole(m.role)>>

ToContents(messages, blank) ==
  FlattenSeq([i \in 1..Len(messages) |-> Content(messages[i], blank)])

(* The last message of the system, if there is one.                        *)
SystemInstruction(messages) ==
  LET system == {i \in 1..Len(messages) : messages[i].role = "system"}
  IN IF system = {} THEN <<>> ELSE <<messages[Max(system)]>>
=============================================================================
