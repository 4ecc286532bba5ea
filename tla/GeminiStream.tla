---------------------------- MODULE GeminiStream ----------------------------
(***************************************************************************)
(* The chat stream of plugins/gemini/llm.go: run iterates over the         *)
(* responses under a context of its own, which Close cancels.  The client  *)
(* library is external: its iteration ends with the last response, with an *)
(* error, or when the context has ended.                                   *)
(***************************************************************************)
EXTENDS PluginStream

(* Chat                                                                    *)
GeminiOpens == Opens("gemini", TRUE)

(* The context of run is derived from that of Chat.                        *)
RunCancelled == done \/ ctxDone

(* respToChunk: text and function calls of a response are one chunk; with  *)
(* neither there is none.                                                  *)
RespToChunk ==
  [text |-> <<"chunk">>, call |-> <<"chunk">>, both |-> <<"chunk">>, neither |-> <<>>]

ReadResponse ==
  /\ plugin = "gemini"
  /\ \E r \in DOMAIN RespToChunk : Read(RespToChunk[r])
  /\ UNCHANGED <<failed, err>>

RunEmits == plugin = "gemini" /\ Emit

RunAbandons ==
  /\ plugin = "gemini"
  /\ reader = "reading" /\ pending # <<>>
  /\ RunCancelled
  /\ pending' = <<>>
  /\ reader' = "returning"
  /\ UNCHANGED <<plugin, callVars, sendVars, conn, got, failed, err, chanVars, closeVars,
                 ctxDone>>

(* The iteration ends; an error is kept unless the context has ended.      *)
RunEnds ==
  /\ plugin = "gemini"
  /\ reader = "reading" /\ pending = <<>>
  /\ RunCancelled \/ conn \in {"lost", "ended"}
  /\ reader' = IF conn = "ended" \/ RunCancelled THEN "returning" ELSE "failing"
  /\ UNCHANGED <<plugin, callVars, sendVars, conn, got, pending, failed, err, chanVars,
                 closeVars, ctxDone>>

RunSetsErr == plugin = "gemini" /\ SetErr
RunReturns == plugin = "gemini" /\ CloseChan

GeminiCloses ==
  /\ plugin = "gemini"
  /\ CloseBegins("owner") \/ CloseSignals("owner")

LastResponse ==
  /\ plugin = "gemini" /\ reader = "reading"
  /\ ConnBecomes("ended")

GeminiNext ==
  \/ ReadResponse \/ RunEmits \/ RunAbandons \/ RunEnds \/ RunSetsErr \/ RunReturns
  \/ GeminiCloses \/ LastResponse
=============================================================================
