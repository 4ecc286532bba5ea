---------------------------- MODULE SileroStream ----------------------------
(***************************************************************************)
(* The stream of plugins/silero/vad.go: callers queue frames and controls  *)
(* for one goroutine, run, which cuts the frames into windows, asks the    *)
(* model about each and reports what the detector makes of it.  There is   *)
(* one caller, as in a session, and one reader of the events.              *)
(* Inference is external: a window is loud or not.  Samples are counted.   *)
(***************************************************************************)
EXTENDS Detector, FiniteSets

CONSTANTS
  FrameSizes,  \* samples in a frame
  MaxFrames,   \* bound: calls of PushFrame
  MaxFlushes,  \* bound: calls of Flush
  ControlCap,  \* capacity of s.control
  EventCap     \* capacity of s.events

ASSUME SizesAssumption == FrameSizes \subseteq Nat /\ {MaxFrames, MaxFlushes} \subseteq Nat
ASSUME CapsAssumption == ControlCap \in Nat \ {0} /\ EventCap \in Nat \ {0}

VARIABLES
  call,        \* the item of the call of sendCtl that is going on, if any
  pushed,      \* calls of PushFrame so far
  flushed,     \* calls of Flush so far
  inputEnded,  \* EndInput has been called
  control,     \* s.control
  run,         \* the goroutine: "unstarted" if alloc failed
  buf,         \* samples in s.buf
  det,         \* s.det
  pending,     \* events that emitAll has still to send
  events,      \* s.events
  done,        \* s.done is closed
  ctxDone,     \* the context has ended
  told,        \* the last change the reader has received, at first "end"
  windows,     \* history: the windows since the last reset
  fed          \* history: the samples that run has taken since then

callVars == <<call, pushed, flushed, inputEnded>>
runVars == <<run, buf, det, pending, windows, fed>>
vars == <<callVars, runVars, control, events, done, ctxDone, told>>

Items == [kind : {"frame"}, n : FrameSizes] \cup [kind : {"flush", "end"}, n : {0}]
Events == {"inference", "start", "end"}

TypeOK ==
  /\ call \in {<<>>} \cup {<<i>> : i \in Items}
  /\ pushed \in 0..MaxFrames
  /\ flushed \in 0..MaxFlushes
  /\ control \in Seq(Items)
  /\ Len(control) <= ControlCap
  /\ run \in {"unstarted", "running", "returned"}
  /\ buf \in Nat
  /\ det \in Detectors
  /\ pending \in Seq(Events)
  /\ events \in Seq(Events)
  /\ Len(events) <= EventCap
  /\ told \in {"start", "end"}
  /\ windows \in Seq(BOOLEAN)
  /\ fed \in Nat
  /\ {inputEnded, done, ctxDone} \subseteq BOOLEAN

Init ==
  /\ call = <<>>
  /\ pushed = 0
  /\ flushed = 0
  /\ inputEnded = FALSE
  /\ control = <<>>
  /\ run \in {"unstarted", "running"}
  /\ buf = 0
  /\ det = NotSpeaking
  /\ pending = <<>>
  /\ events = <<>>
  /\ done = FALSE
  /\ ctxDone = FALSE
  /\ told = "end"
  /\ windows = <<>>
  /\ fed = 0

-----------------------------------------------------------------------------
(* The caller: PushFrame, Flush and EndInput queue an item, or give up     *)
(* once the stream is closed.                                              *)

PushFrame ==
  /\ call = <<>> /\ ~inputEnded
  /\ pushed < MaxFrames
  /\ pushed' = pushed + 1
  /\ \E n \in FrameSizes : call' = <<[kind |-> "frame", n |-> n]>>
  /\ UNCHANGED <<flushed, inputEnded, runVars, control, events, done, ctxDone, told>>

Flush ==
  /\ call = <<>> /\ ~inputEnded
  /\ flushed < MaxFlushes
  /\ flushed' = flushed + 1
  /\ call' = <<[kind |-> "flush", n |-> 0]>>
  /\ UNCHANGED <<pushed, inputEnded, runVars, control, events, done, ctxDone, told>>

EndInput ==
  /\ call = <<>> /\ ~inputEnded
  /\ inputEnded' = TRUE
  /\ call' = <<[kind |-> "end", n |-> 0]>>
  /\ UNCHANGED <<pushed, flushed, runVars, control, events, done, ctxDone, told>>

SendCtl ==
  /\ call # <<>>
  /\ Len(control) < ControlCap
  /\ control' = control \o call
  /\ call' = <<>>
  /\ UNCHANGED <<pushed, flushed, inputEnded, runVars, events, done, ctxDone, told>>

(* Mutant: the call waits for the context, not for Close.                  *)
SendCtlAbandonedLate ==
  /\ call # <<>>
  /\ ctxDone
  /\ call' = <<>>
  /\ UNCHANGED <<pushed, flushed, inputEnded, runVars, control, events, done, ctxDone,
                 told>>

SendCtlAbandoned ==
  /\ call # <<>>
  /\ done
  /\ call' = <<>>
  /\ UNCHANGED <<pushed, flushed, inputEnded, runVars, control, events, done, ctxDone,
                 told>>

-----------------------------------------------------------------------------
(* run.  Between two items it has nothing to emit and less than a window.  *)

AtSelect == run = "running" /\ pending = <<>> /\ buf < WindowSize

TakeFrame ==
  /\ AtSelect
  /\ control # <<>> /\ Head(control).kind = "frame"
  /\ control' = Tail(control)
  /\ buf' = buf + Head(control).n
  /\ fed' = fed + Head(control).n
  /\ UNCHANGED <<callVars, run, det, pending, windows, events, done, ctxDone, told>>

(* Flush and EndInput: reset, and what was left in the buffer is dropped.  *)
TakeReset ==
  /\ AtSelect
  /\ control # <<>> /\ Head(control).kind # "frame"
  /\ control' = Tail(control)
  /\ pending' = ResetEvents(det)
  /\ det' = NotSpeaking
  /\ buf' = 0
  /\ windows' = <<>>
  /\ fed' = 0
  /\ UNCHANGED <<callVars, run, events, done, ctxDone, told>>

(* Mutant: feed keeps nothing for the next frame.                          *)
InferDropping ==
  /\ run = "running" /\ pending = <<>> /\ buf >= WindowSize
  /\ buf' = IF buf - WindowSize < WindowSize THEN 0 ELSE buf - WindowSize
  /\ \E loud \in BOOLEAN :
       /\ det' = Step(det, loud)
       /\ pending' = StepEvents(det, loud)
       /\ windows' = Append(windows, loud)
  /\ UNCHANGED <<callVars, run, fed, control, events, done, ctxDone, told>>

(* One round of feed.  A failed inference counts as not loud.              *)
Infer ==
  /\ run = "running" /\ pending = <<>> /\ buf >= WindowSize
  /\ buf' = buf - WindowSize
  /\ \E loud \in BOOLEAN :
       /\ det' = Step(det, loud)
       /\ pending' = StepEvents(det, loud)
       /\ windows' = Append(windows, loud)
  /\ UNCHANGED <<callVars, run, fed, control, events, done, ctxDone, told>>

(* Mutant: emitAll does not wait for room.                                 *)
EmitUnbounded ==
  /\ run = "running" /\ pending # <<>>
  /\ events' = Append(events, Head(pending))
  /\ pending' = Tail(pending)
  /\ UNCHANGED <<callVars, run, buf, det, windows, fed, control, done, ctxDone, told>>

(* emitAll waits for room.  Once the stream is closed it may give up, and  *)
(* feed goes on with the next window.                                      *)
Emit ==
  /\ run = "running" /\ pending # <<>>
  /\ Len(events) < EventCap
  /\ events' = Append(events, Head(pending))
  /\ pending' = Tail(pending)
  /\ UNCHANGED <<callVars, run, buf, det, windows, fed, control, done, ctxDone, told>>

EmitAbandoned ==
  /\ run = "running" /\ pending # <<>>
  /\ done
  /\ pending' = <<>>
  /\ UNCHANGED <<callVars, run, buf, det, windows, fed, control, events, done, ctxDone,
                 told>>

Return ==
  /\ AtSelect
  /\ done \/ ctxDone
  /\ run' = "returned"
  /\ UNCHANGED <<callVars, buf, det, pending, windows, fed, control, events, done,
                 ctxDone, told>>

-----------------------------------------------------------------------------
(* The reader, and whoever owns the stream and its context.                *)

Receive ==
  /\ events # <<>>
  /\ events' = Tail(events)
  /\ told' = IF Head(events) = "inference" THEN told ELSE Head(events)
  /\ UNCHANGED <<callVars, runVars, control, done, ctxDone>>

Close ==
  /\ ~done
  /\ done' = TRUE
  /\ UNCHANGED <<callVars, runVars, control, events, ctxDone, told>>

ContextEnds ==
  /\ ~ctxDone
  /\ ctxDone' = TRUE
  /\ UNCHANGED <<callVars, runVars, control, events, done, told>>

-----------------------------------------------------------------------------
Calling == PushFrame \/ Flush \/ EndInput \/ SendCtl \/ SendCtlAbandoned
Running == TakeFrame \/ TakeReset \/ Infer \/ Emit \/ EmitAbandoned \/ Return
Next == Calling \/ Running \/ Receive \/ Close \/ ContextEnds

Spec == Init /\ [][Next]_vars

(* Both goroutines and the call run, and the reader reads.  A select with  *)
(* the end of the stream ready does not choose the queue forever.          *)
Fairness ==
  /\ WF_vars(SendCtl \/ SendCtlAbandoned)
  /\ WF_vars(TakeFrame \/ TakeReset \/ Infer \/ Emit \/ EmitAbandoned)
  /\ SF_vars(Return)
  /\ WF_vars(Receive)

FairSpec == Spec /\ Fairness

-----------------------------------------------------------------------------
(* The detector, fed piece by piece, knows at any time what it would have  *)
(* to say of all the windows since the last reset.                         *)
DetectorCorrect ==
  /\ det.speaking = (SpeechFrom(windows) # {})
  /\ det.utteranceSamples = Utterance(windows)

(* However frames and windows are aligned, every sample is looked at once  *)
(* or still in the buffer.                                                 *)
EverySampleOnce == WindowSize * Len(windows) + buf = fed

(* Starts and ends alternate, whatever inferences are reported in between. *)
Alternate(way) ==
  \A i, j \in DOMAIN way :
    /\ i < j /\ "inference" \notin {way[i], way[j]}
    /\ \A k \in i+1..j-1 : way[k] = "inference"
    => way[i] # way[j]

(* e is the last change.                                                   *)
LastChange(way, e) ==
  \E i \in DOMAIN way : way[i] = e /\ \A k \in i+1..Len(way) : way[k] = "inference"

(* Until the stream is closed, nothing the detector decides is lost on its *)
(* way to the reader: starts and ends alternate, and when the reader has   *)
(* received what is on its way it agrees with the detector.                *)
ChangesArrive ==
  LET way == <<told>> \o events \o pending IN
    ~done => Alternate(way) /\ LastChange(way, IF det.speaking THEN "start" ELSE "end")

(* Nobody waits for ever.  A call returns, unless nobody reads the queue   *)
(* and nobody has closed the stream: then it waits for Close.  The         *)
(* goroutine ends with its stream and with its context.                    *)
NobodyStuck ==
  /\ call # <<>> ~> call = <<>> \/ (run # "running" /\ ~done)
  /\ run = "running" /\ (done \/ ctxDone) ~> run = "returned"
=============================================================================
