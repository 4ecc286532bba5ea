--------------------------- MODULE CartesiaStream ---------------------------
(***************************************************************************)
(* The synthesis stream of plugins/cartesia/tts.go.  A segment is what the *)
(* service knows by one context id; its text is complete with the message  *)
(* of Flush.  Nothing asks the service to end the connection.              *)
(***************************************************************************)
EXTENDS PluginStream

CartesiaOpens == \E dialed \in BOOLEAN : Opens("cartesia", dialed)

(* currentCtx                                                              *)
CurrentCtx ==
  /\ segment' = TRUE
  /\ ctxN' = IF segment THEN ctxN ELSE ctxN + 1

(* PushText of a token that is not empty, and Flush.                       *)
PushOrFlush(kind) ==
  /\ plugin = "cartesia" /\ call = "none" /\ ~inputEnded
  /\ calls + got < MaxWork
  /\ calls' = calls + 1
  /\ call' = kind
  /\ CurrentCtx
  /\ UNCHANGED <<plugin, inputEnded, sent, sendVars, conn, readVars, chanVars, closeVars,
                 ctxDone>>

PushText == PushOrFlush("push")
Flush == PushOrFlush("flush")

(* EndInput only flushes.                                                  *)
EndText ==
  /\ plugin = "cartesia" /\ call = "none" /\ ~inputEnded
  /\ inputEnded' = TRUE
  /\ call' = "end"
  /\ CurrentCtx
  /\ UNCHANGED <<plugin, calls, sent, sendVars, conn, readVars, chanVars, closeVars,
                 ctxDone>>

(* Mutant: the next text goes to the same segment.                         *)
NextSegmentKept == UNCHANGED segment
NextSegment == segment' = FALSE

(* Flush, after its send.                                                  *)
FlushResets ==
  /\ call = "reset"
  /\ NextSegment
  /\ call' = "none"
  /\ UNCHANGED <<plugin, calls, inputEnded, ctxN, sent, sendVars, conn, readVars,
                 chanVars, closeVars, ctxDone>>

(* handle: audio that is empty or cannot be decoded is skipped.  A chunk   *)
(* is assumed to hold whole samples: FromBytes panics otherwise.           *)
ReadAudio ==
  /\ plugin = "cartesia"
  /\ \E new \in {<<"audio">>, <<"final">>, <<>>} : Read(new)
  /\ UNCHANGED <<failed, err>>

(* An error message sets the error, and the stream goes on.                *)
ReadError ==
  /\ plugin = "cartesia"
  /\ Read(<<>>)
  /\ failed' = TRUE
  /\ err' = TRUE

CartesiaSends ==
  /\ plugin = "cartesia"
  /\ SendRefused \/ SendBegins("caller") \/ WriteBegins("caller") \/ WriteEnds("caller")

CartesiaReads ==
  /\ plugin = "cartesia"
  /\ ReadFails \/ CloseChan

CartesiaSetsErr == plugin = "cartesia" /\ SetErr

CartesiaEmits ==
  /\ plugin = "cartesia"
  /\ Emit \/ EmitAbandoned

CartesiaCloses(c) ==
  /\ plugin = "cartesia"
  /\ CloseBegins(c) \/ CloseSignals(c) \/ CloseConn(c)

CartesiaWatches == plugin = "cartesia" /\ WatcherReturns

CartesiaNext ==
  \/ PushText \/ Flush \/ EndText \/ FlushResets \/ ReadAudio \/ ReadError
  \/ CartesiaSends \/ CartesiaReads \/ CartesiaSetsErr \/ CartesiaEmits
  \/ \E c \in Closers : CartesiaCloses(c)
  \/ CartesiaWatches
=============================================================================
