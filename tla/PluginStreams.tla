---------------------------- MODULE PluginStreams ----------------------------
(***************************************************************************)
(* The streams of the three network plugins, one of them in each           *)
(* behaviour, and what they promise in common (StreamContract).            *)
(***************************************************************************)
EXTENDS DeepgramStream, CartesiaStream, GeminiStream

Init == DeepgramOpens \/ CartesiaOpens \/ GeminiOpens

Next ==
  \/ DeepgramNext \/ CartesiaNext \/ GeminiNext
  \/ Receive \/ ConnEnds \/ ServerStalls \/ ContextEnds

Spec == Init /\ [][Next]_vars

(* Goroutines run, sendMu is not withheld from anybody forever, the reader *)
(* reads, and Deepgram ends the connection when it has been asked to.      *)
(* Nobody has to close the stream, no service has to answer.               *)
Fairness ==
  /\ WF_vars(SendRefused \/ SendBegins("caller") \/ FlushResets)
  /\ \A w \in Writers : SF_vars(WriteBegins(w)) /\ WF_vars(WriteEnds(w))
  /\ SF_vars(KeepAliveReturns)
  /\ WF_vars(Emit \/ EmitAbandoned \/ RunAbandons \/ ReadFails \/ RunEnds
             \/ SetErr \/ CloseChan)
  /\ WF_vars(CloseBegins("watcher") \/ WatcherReturns)
  /\ \A c \in Closers : WF_vars(CloseSignals(c) \/ CloseConn(c))
  /\ WF_vars(Receive)
  /\ WF_vars(DeepgramEnds)

FairSpec == Spec /\ Fairness

-----------------------------------------------------------------------------
(* The owner's Close and the watcher's never both close st.done, which     *)
(* would panic.                                                            *)
DoneClosedOnce == closes <= 1

(* Every stream keeps the contract of Chan, Err and Close.                 *)
Contract == INSTANCE StreamContract WITH
  open <- reader # "returned",
  err <- err,
  asked <- closed \/ ctxDone,
  complete <- conn = "ended"
KeepsContract == Contract!Spec

(* An error is one: closing a stream or ending its context, which makes    *)
(* the read fail, does not look like a failure to the reader.              *)
ErrIsReal == err => conn \in {"lost", "none"} \/ failed

(* Until the stream is closed the reader gets every item of every message  *)
(* that was read, in order: a final transcript before its end of speech.   *)
ItemsInOrder ==
  ~done /\ (plugin = "gemini" => ~ctxDone) => items \o pending = due

(* What Cartesia hears is a sequence of whole segments: a new one begins   *)
(* after the last message of the one before, which nothing follows.        *)
SegmentsWhole ==
  plugin = "cartesia" =>
    \A i \in 1..(Len(sent) - 1) :
      sent[i + 1].segment = sent[i].segment + (IF sent[i].last THEN 1 ELSE 0)

(* A call returns, unless the service takes nothing and nobody has closed  *)
(* the stream.                                                             *)
CallsReturn == call # "none" ~> call = "none" \/ conn = "stalled"

(* Closing a stream or ending its context ends its keepAlive and watcher   *)
(* as well, also when one of them is in the middle of a write.             *)
HelpersReturn == done \/ (ctxDone /\ conn # "none") ~> ~keeper /\ closing["watcher"] = "finished"

(* The end of Deepgram's input brings about the end of its events.         *)
EndInputEnds ==
  plugin = "deepgram" /\ inputEnded ~> reader = "returned" \/ conn = "stalled"
=============================================================================
