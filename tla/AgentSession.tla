---------------------------- MODULE AgentSession ----------------------------
(***************************************************************************)
(* The voice pipeline of voice/session.go: the loop of Start over the      *)
(* events of speech recognition, generate with its audio goroutine, and    *)
(* the VAD goroutine that interrupts.  The four plugins and the audio      *)
(* output are external: they appear as what their channels may deliver.    *)
(* A plugin's channel is a flag, open until it is closed and drained;      *)
(* receiving from it and the plugin's sending are one step, because what   *)
(* is buffered in between is not told apart from what is still to come.    *)
(* An utterance is a number, counted as final transcripts arrive.          *)
(* Events of the session are dropped when nobody reads and steer nothing;  *)
(* they are left out.                                                      *)
(***************************************************************************)
EXTENDS GeminiRequest

CONSTANTS
  MaxUtterances,   \* bound: final transcripts in a session
  MaxTurns,        \* bound: calls of generate
  MaxChunks        \* bound: text chunks in one reply

ASSUME BoundsAssumption ==
  MaxUtterances \in Nat /\ MaxTurns \in Nat /\ MaxChunks \in Nat

VARIABLES
  main,         \* where Start, or the generate it has called, is
  heard,        \* number of final transcripts received
  userText,     \* the builder of the user's text
  history,      \* chatCtx.Messages
  state,        \* s.state
  turn,         \* the call of generate, counted from 1
  active,       \* the turn whose cancel is in s.activeCancel, or 0
  reply,        \* chunks in resp
  late,         \* chunks pushed although the turn was interrupted before the push
  audio,        \* where the turn's audio goroutine is
  started,      \* its variable of that name
  vad,          \* where the VAD goroutine is
  held,         \* the turn whose cancel it has read
  interrupted,  \* turns it has cancelled
  stt,          \* the STT channel: open or closed
  tts,          \* the turn's TTS stream: taking text, told its end, or closed
  out,          \* turns with audio queued in the output
  cleared,      \* interrupted turns whose audio has been cleared since
  feed,         \* input frames: open, closed, and EndInput called on the plugins
  endCloses,    \* does the TTS plugin in use close its channel after EndInput?
  ctxDone       \* the context of Start has ended

sttVars == <<heard, userText>>
turnVars == <<turn, active, reply, late, history, state>>
audioVars == <<audio, started, tts>>
vadVars == <<vad, held, interrupted, cleared>>
inputVars == <<stt, feed, ctxDone, endCloses>>
vars == <<main, sttVars, turnVars, audioVars, vadVars, out, inputVars>>

Generating == {"thinking", "streaming", "pushing", "ending", "joining", "playout",
               "closing", "cleanup"}
MainSteps == {"new", "listen", "returned"} \cup Generating
AudioSteps == {"off", "reading", "holding", "done"}
VadSteps == {"idle", "holding", "clearing"}
AgentStates == {"listening", "thinking", "speaking"}
Roles == {"system", "user", "assistant"}
Turns == 1..MaxTurns

TypeOK ==
  /\ main \in MainSteps
  /\ heard \in 0..MaxUtterances
  /\ userText \in Seq(1..MaxUtterances)
  /\ history \in Seq([role : Roles, said : Seq(1..MaxUtterances)])
  /\ state \in AgentStates
  /\ turn \in 0..MaxTurns
  /\ active \in 0..MaxTurns
  /\ reply \in 0..MaxChunks
  /\ late \in 0..MaxChunks
  /\ audio \in AudioSteps
  /\ vad \in VadSteps
  /\ held \in 0..MaxTurns
  /\ (vad # "idle") => (held \in Turns)
  /\ interrupted \subseteq Turns
  /\ cleared \subseteq Turns
  /\ out \subseteq Turns
  /\ feed \in {"open", "closed", "ended"}
  /\ tts \in {"open", "ended", "closed"}
  /\ stt \in {"open", "closed"}
  /\ {started, ctxDone, endCloses} \subseteq BOOLEAN

Init ==
  /\ main = "new"
  /\ heard = 0
  /\ userText = <<>>
  /\ history = <<>>
  /\ state = "listening"
  /\ turn = 0
  /\ active = 0
  /\ reply = 0
  /\ late = 0
  /\ audio = "off"
  /\ started = FALSE
  /\ vad = "idle"
  /\ held = 0
  /\ interrupted = {}
  /\ stt = "open"
  /\ tts = "closed"
  /\ out = {}
  /\ cleared = {}
  /\ feed = "open"
  /\ ctxDone = FALSE
  /\ endCloses \in BOOLEAN

Says(role, words) == [role |-> role, said |-> words]

(* Mutant: genCtx is derived from the background context.                  *)
CancelledDetached == turn \in interrupted

(* genCtx.Err() # nil                                                      *)
Cancelled == ctxDone \/ turn \in interrupted

-----------------------------------------------------------------------------
(* Start: the instructions come first, then the loop over STT events.  An  *)
(* event that finds the context ended makes Start return.  Interim results *)
(* and speech starts change nothing here.                                  *)

Begin ==
  /\ main = "new"
  /\ \/ history' = <<Says("system", <<>>)>>
     \/ UNCHANGED history     \* an agent without instructions
  /\ main' = "listen"
  /\ UNCHANGED <<sttVars, turn, active, reply, late, state, audioVars, vadVars, out,
                 inputVars>>

(* A final transcript is appended to userText.  One with an empty text     *)
(* leaves a blank, which TrimSpace removes: it changes nothing.            *)
ReceiveFinal ==
  /\ main = "listen" /\ stt = "open" /\ ~ctxDone
  /\ heard < MaxUtterances
  /\ heard' = heard + 1
  /\ userText' = Append(userText, heard + 1)
  /\ UNCHANGED <<main, turnVars, audioVars, vadVars, out, inputVars>>

(* The user's turn ends: generate publishes its cancel and adds the text   *)
(* to the history, which no other goroutine touches.  With no text this is *)
(* a no-op, as when the plugin reports the end twice.                      *)
(* Mutant: the collected text is not reset.                                *)
ReceiveEndOfSpeechKeeping ==
  /\ main = "listen" /\ stt = "open" /\ ~ctxDone
  /\ userText # <<>>
  /\ turn < MaxTurns
  /\ history' = Append(history, Says("user", userText))
  /\ turn' = turn + 1
  /\ active' = turn + 1
  /\ reply' = 0
  /\ late' = 0
  /\ main' = "thinking"
  /\ UNCHANGED <<sttVars, state, audioVars, vadVars, out, inputVars>>

(* Mutant: a turn is started also when nothing was said.                   *)
ReceiveEndOfSpeechEmpty ==
  /\ main = "listen" /\ stt = "open" /\ ~ctxDone
  /\ turn < MaxTurns
  /\ userText' = <<>>
  /\ history' = Append(history, Says("user", userText))
  /\ turn' = turn + 1
  /\ active' = turn + 1
  /\ reply' = 0
  /\ late' = 0
  /\ main' = "thinking"
  /\ UNCHANGED <<heard, state, audioVars, vadVars, out, inputVars>>

ReceiveEndOfSpeech ==
  /\ main = "listen" /\ stt = "open" /\ ~ctxDone
  /\ userText # <<>>
  /\ turn < MaxTurns
  /\ userText' = <<>>
  /\ history' = Append(history, Says("user", userText))
  /\ turn' = turn + 1
  /\ active' = turn + 1
  /\ reply' = 0
  /\ late' = 0
  /\ main' = "thinking"
  /\ UNCHANGED <<heard, state, audioVars, vadVars, out, inputVars>>

(* The next event, of whatever kind, finds the context ended.              *)
ReturnAtEvent ==
  /\ main = "listen" /\ stt = "open" /\ ctxDone
  /\ main' = "returned"
  /\ UNCHANGED <<sttVars, turnVars, audioVars, vadVars, out, inputVars>>

(* The channel is closed.  Why it is nobody asks: Err is not looked at, so *)
(* that a failed stream ends Start with nil as the end of the input does.  *)
Return ==
  /\ main = "listen" /\ stt = "closed"
  /\ main' = "returned"
  /\ UNCHANGED <<sttVars, turnVars, audioVars, vadVars, out, inputVars>>

-----------------------------------------------------------------------------
(* generate.                                                               *)

(* The LLM and TTS streams are opened and the audio goroutine starts.      *)
Think ==
  /\ main = "thinking"
  /\ state' = "thinking"
  /\ tts' = "open"
  /\ audio' = "reading"
  /\ started' = FALSE
  /\ main' = "streaming"
  /\ UNCHANGED <<sttVars, turn, active, reply, late, history, vadVars, out, inputVars>>

(* A chunk with text arrives and the context is still alive.  One without  *)
(* text is skipped and changes nothing.                                    *)
(* Mutant: the context is not looked at between chunks.                    *)
ReceiveChunkUnchecked ==
  /\ main = "streaming"
  /\ reply < MaxChunks
  /\ main' = "pushing"
  /\ UNCHANGED <<sttVars, turnVars, audioVars, vadVars, out, inputVars>>

ReceiveChunk ==
  /\ main = "streaming"
  /\ reply < MaxChunks
  /\ ~Cancelled
  /\ main' = "pushing"
  /\ UNCHANGED <<sttVars, turnVars, audioVars, vadVars, out, inputVars>>

PushText ==
  /\ main = "pushing"
  /\ reply' = reply + 1
  /\ late' = late + (IF turn \in interrupted THEN 1 ELSE 0)
  /\ main' = "streaming"
  /\ UNCHANGED <<sttVars, turn, active, history, state, audioVars, vadVars, out,
                 inputVars>>

(* The LLM channel is closed, by a finished reply, an error or the ended   *)
(* context; or a chunk arrives and the context has ended.                  *)
ReplyEnds ==
  /\ main = "streaming"
  /\ main' = "ending"
  /\ UNCHANGED <<sttVars, turnVars, audioVars, vadVars, out, inputVars>>

(* Mutant: TTS is not told that the text has ended.                        *)
EndInputForgotten ==
  /\ main = "ending"
  /\ main' = "joining"
  /\ UNCHANGED <<sttVars, turnVars, audioVars, vadVars, out, inputVars>>

EndInput ==
  /\ main = "ending"
  /\ tts' = IF tts = "open" THEN "ended" ELSE tts
  /\ main' = "joining"
  /\ UNCHANGED <<sttVars, turnVars, audio, started, vadVars, out, inputVars>>

(* Mutant: the audio goroutine is not waited for.                          *)
AudioNotJoined ==
  /\ main = "joining"
  /\ main' = IF Cancelled THEN "closing" ELSE "playout"
  /\ UNCHANGED <<sttVars, turnVars, audioVars, vadVars, out, inputVars>>

(* <-audioDone, then the wait for playout unless the turn is cancelled.    *)
AudioJoined ==
  /\ main = "joining"
  /\ audio = "done"
  /\ main' = IF Cancelled THEN "closing" ELSE "playout"
  /\ UNCHANGED <<sttVars, turnVars, audioVars, vadVars, out, inputVars>>

(* Mutant: WaitForPlayout is left out.                                     *)
PlayedOutAtOnce ==
  /\ main = "playout"
  /\ main' = "closing"
  /\ UNCHANGED <<sttVars, turnVars, audioVars, vadVars, out, inputVars>>

PlayedOut ==
  /\ main = "playout"
  /\ out = {}
  /\ main' = "closing"
  /\ UNCHANGED <<sttVars, turnVars, audioVars, vadVars, out, inputVars>>

(* The reply enters the history; an answer in it is never blank.           *)
CloseTurn ==
  /\ main = "closing"
  /\ history' = IF reply > 0 THEN Append(history, Says("assistant", <<>>)) ELSE history
  /\ state' = "listening"
  /\ main' = "cleanup"
  /\ UNCHANGED <<sttVars, turn, active, reply, late, audioVars, vadVars, out, inputVars>>

(* The deferred calls: both streams are closed, the cancel is withdrawn.   *)
Cleanup ==
  /\ main = "cleanup"
  /\ tts' = "closed"
  /\ active' = 0
  /\ main' = "listen"
  /\ UNCHANGED <<sttVars, turn, reply, late, history, state, audio, started, vadVars,
                 out, inputVars>>

-----------------------------------------------------------------------------
(* The audio goroutine of the turn.  Empty frames are skipped.             *)

AudioReceive ==
  /\ audio = "reading"
  /\ tts # "closed"
  /\ reply > 0
  /\ audio' = "holding"
  /\ UNCHANGED <<main, sttVars, turnVars, started, tts, vadVars, out, inputVars>>

AudioStarts ==
  /\ audio = "holding" /\ ~started
  /\ started' = TRUE
  /\ state' = "speaking"
  /\ UNCHANGED <<main, sttVars, turn, active, reply, late, history, audio, tts, vadVars,
                 out, inputVars>>

(* CaptureFrame queues the frame and the loop goes on.                     *)
AudioCapture ==
  /\ audio = "holding" /\ started
  /\ out' = out \cup {turn}
  /\ audio' = "reading"
  /\ UNCHANGED <<main, sttVars, turnVars, started, tts, vadVars, inputVars>>

(* The channel is closed; or CaptureFrame fails and the goroutine returns. *)
AudioEnds ==
  /\ \/ audio = "reading" /\ tts = "closed"
     \/ audio = "holding" /\ started
  /\ audio' = "done"
  /\ UNCHANGED <<main, sttVars, turnVars, started, tts, vadVars, out, inputVars>>

-----------------------------------------------------------------------------
(* The VAD goroutine: StartOfSpeech calls interrupt, which reads the       *)
(* cancel under the lock and then, without it, cancels and clears.         *)

(* Mutant: the cancel is called without a look at whether there is one.    *)
StartOfSpeechUnchecked ==
  /\ vad = "idle"
  /\ main # "new"
  /\ held' = active
  /\ vad' = "holding"
  /\ UNCHANGED <<main, sttVars, turnVars, audioVars, interrupted, cleared, out, inputVars>>

StartOfSpeech ==
  /\ vad = "idle"
  /\ main # "new"
  /\ active # 0
  /\ held' = active
  /\ vad' = "holding"
  /\ UNCHANGED <<main, sttVars, turnVars, audioVars, interrupted, cleared, out, inputVars>>

Cancel ==
  /\ vad = "holding"
  /\ interrupted' = interrupted \cup {held}
  /\ vad' = "clearing"
  /\ UNCHANGED <<main, sttVars, turnVars, audioVars, held, cleared, out, inputVars>>

ClearBuffer ==
  /\ vad = "clearing"
  /\ out' = {}
  /\ cleared' = cleared \cup {held}
  /\ vad' = "idle"
  /\ UNCHANGED <<main, sttVars, turnVars, audioVars, held, interrupted, inputVars>>

-----------------------------------------------------------------------------
(* External: the room, the plugins, the audio output.                      *)

InputCloses ==
  /\ feed = "open" /\ main # "new"
  /\ feed' = "closed"
  /\ UNCHANGED <<main, sttVars, turnVars, audioVars, vadVars, out, stt, ctxDone,
                 endCloses>>

(* The fan-out goroutine sees its channel closed and calls EndInput.       *)
FanOutEnds ==
  /\ feed = "closed"
  /\ feed' = "ended"
  /\ UNCHANGED <<main, sttVars, turnVars, audioVars, vadVars, out, stt, ctxDone,
                 endCloses>>

(* At the end of input or of the context; or because the dial or the       *)
(* connection has failed.                                                  *)
SttCloses ==
  /\ stt = "open" /\ main # "new"
  /\ stt' = "closed"
  /\ UNCHANGED <<main, sttVars, turnVars, audioVars, vadVars, out, feed, ctxDone,
                 endCloses>>

TtsCloses ==
  /\ tts # "closed"
  /\ tts' = "closed"
  /\ UNCHANGED <<main, sttVars, turnVars, audio, started, vadVars, out, inputVars>>

(* The earliest audio in the queue has been played to its end.             *)
Playout ==
  /\ out # {}
  /\ out' = out \ {CHOOSE t \in out : \A u \in out : t <= u}
  /\ UNCHANGED <<main, sttVars, turnVars, audioVars, vadVars, inputVars>>

ContextEnds ==
  /\ ~ctxDone
  /\ ctxDone' = TRUE
  /\ UNCHANGED <<main, sttVars, turnVars, audioVars, vadVars, out, stt, feed,
                 endCloses>>

-----------------------------------------------------------------------------
Generate ==
  \/ Think \/ ReceiveChunk \/ PushText \/ ReplyEnds \/ EndInput
  \/ AudioJoined \/ PlayedOut \/ CloseTurn \/ Cleanup
Listen == ReceiveFinal \/ ReceiveEndOfSpeech \/ ReturnAtEvent \/ Return
Audio == AudioReceive \/ AudioStarts \/ AudioCapture \/ AudioEnds
Vad == StartOfSpeech \/ Cancel \/ ClearBuffer
Outside == InputCloses \/ FanOutEnds \/ SttCloses \/ TtsCloses \/ Playout \/ ContextEnds

Next == Begin \/ Listen \/ Generate \/ Audio \/ Vad \/ Outside

Spec == Init /\ [][Next]_vars

(* Every goroutine runs; a reply and its playout are finite; a plugin      *)
(* closes its channel when its context ends, the STT plugin also at the    *)
(* end of its input, and the TTS plugin too if endCloses.  Nothing         *)
(* makes anybody speak, and no connection has to fail.                     *)
Fairness ==
  /\ WF_vars(Begin)
  /\ WF_vars(Return)
  /\ WF_vars(Generate)
  /\ WF_vars(AudioStarts)
  /\ WF_vars(AudioCapture \/ AudioEnds)
  /\ WF_vars(Cancel)
  /\ WF_vars(ClearBuffer)
  /\ WF_vars(FanOutEnds)
  /\ WF_vars(Playout)
  /\ WF_vars((ctxDone \/ feed = "ended") /\ SttCloses)
  /\ WF_vars((Cancelled \/ (endCloses /\ tts = "ended")) /\ TtsCloses)

FairSpec == Spec /\ Fairness

-----------------------------------------------------------------------------
(* No final transcript is lost or used twice: the user's messages and the  *)
(* text still being collected are all that was heard, in order.            *)
TranscriptConserved ==
  FlattenSeq([i \in 1..Len(history) |-> history[i].said] \o <<userText>>)
    = [i \in 1..heard |-> i]

(* What Gemini is asked for a turn is the whole conversation and ends with *)
(* what the user said last: no message is dropped as blank, instructions   *)
(* are given once, and each answer follows what it answers.                *)
RequestOrder ==
  main = "thinking" =>
    LET asked == ToContents(history, {Says("user", <<>>)})
    IN /\ Len(asked) + Len(SystemInstruction(history)) = Len(history)
       /\ asked # <<>> /\ asked[Len(asked)] = "user"
       /\ \A i \in DOMAIN asked : asked[i] = "model" => i > 1 /\ asked[i - 1] = "user"

(* Between turns the session says it is listening, and it says it speaks   *)
(* only within a turn that has produced audio.                             *)
StateMatches ==
  /\ main \in {"new", "listen", "cleanup", "returned"} => state = "listening"
  /\ state = "speaking" => started /\ main \in Generating

(* The audio of a turn that nobody cut short has been heard by the time    *)
(* the next one begins.                                                    *)
PlayedBeforeNext == \A t \in out : t = turn \/ t \in interrupted \/ ctxDone

(* Once a turn is interrupted, no more text is spoken than the chunk that  *)
(* generate had in its hands.                                              *)
BargeInStopsText == late <= 1

(* A turn comes to its end: by itself if the TTS plugin closes its channel *)
(* after EndInput, and with any plugin when the user interrupts it.        *)
TurnEnds ==
  main \in Generating /\ (endCloses \/ (vad = "holding" /\ held = turn))
    ~> main = "listen"

(* The end of the context makes Start return, whatever TTS does; the end   *)
(* of the input does if the TTS plugin closes its channel.                 *)
StartReturns == ctxDone \/ (endCloses /\ feed = "ended") ~> main = "returned"

(* Start returns when its input or context has ended.                      *)
SessionStops == ctxDone \/ feed = "ended" ~> main = "returned"

(* Barge-in cancels the generation and clears the buffer: when the turn is *)
(* over, none of its audio is queued.                                      *)
InterruptedSilent == main = "listen" => out \cap cleared = {}

(* What interrupt clears away belongs to generations it has cancelled.     *)
ClearsOnlyInterrupted ==
  [][vad = "clearing" /\ vad' = "idle" => out \subseteq interrupted]_vars
=============================================================================
