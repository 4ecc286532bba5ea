--------------------------- MODULE DeepgramStream ---------------------------
(* The speech stream of plugins/deepgram/stt.go.                           *)
EXTENDS PluginStream

DeepgramOpens == \E dialed \in BOOLEAN : Opens("deepgram", dialed)

(* PushFrame and Flush differ in what is written only.                     *)
PushFrame ==
  /\ plugin = "deepgram" /\ call = "none" /\ ~inputEnded
  /\ calls + got < MaxWork
  /\ calls' = calls + 1
  /\ call' = "push"
  /\ UNCHANGED <<plugin, inputEnded, ctxN, segment, sent, sendVars, conn, readVars,
                 chanVars, closeVars, ctxDone>>

(* Mutant: the server is asked to finalize, not to close.                  *)
LastMessageFinalize == "push"
LastMessage == "end"

EndInput ==
  /\ plugin = "deepgram" /\ call = "none" /\ ~inputEnded
  /\ inputEnded' = TRUE
  /\ call' = LastMessage
  /\ UNCHANGED <<plugin, calls, ctxN, segment, sent, sendVars, conn, readVars, chanVars,
                 closeVars, ctxDone>>

KeepAliveReturns ==
  /\ keeper /\ at["keeper"] = "idle"
  /\ done \/ ctxDone
  /\ keeper' = FALSE
  /\ UNCHANGED <<plugin, callVars, at, conn, readVars, chanVars, closeVars, ctxDone>>

(* handle: an empty transcript is skipped, and with it the end of speech   *)
(* that the message may announce; the others may announce one, which       *)
(* follows them.                                                           *)
Handle ==
  [SpeechStarted |-> <<"StartOfSpeech">>,
   UtteranceEnd |-> <<"EndOfSpeech">>,
   interim |-> <<"InterimTranscript">>,
   interimEnd |-> <<"InterimTranscript", "EndOfSpeech">>,
   final |-> <<"FinalTranscript">>,
   finalEnd |-> <<"FinalTranscript", "EndOfSpeech">>,
   empty |-> <<>>]

ReadEvents ==
  /\ plugin = "deepgram"
  /\ \E m \in DOMAIN Handle : Read(Handle[m])
  /\ UNCHANGED <<failed, err>>

DeepgramEnds == plugin = "deepgram" /\ conn = "asked" /\ ConnEnds

DeepgramNext ==
  \/ PushFrame \/ EndInput \/ KeepAliveReturns \/ ReadEvents \/ DeepgramEnds
  \/ /\ plugin = "deepgram"
     /\ \/ SendRefused
        \/ \E w \in Writers : SendBegins(w) \/ WriteBegins(w) \/ WriteEnds(w)
        \/ Emit \/ EmitAbandoned \/ ReadFails \/ SetErr \/ CloseChan
        \/ \E c \in Closers : CloseBegins(c) \/ CloseSignals(c) \/ CloseConn(c)
        \/ WatcherReturns
=============================================================================
