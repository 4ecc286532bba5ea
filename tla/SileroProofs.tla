---------------------------- MODULE SileroProofs ----------------------------
(***************************************************************************)
(* Proofs about SileroStream for every size of window and frame and every  *)
(* capacity of its queues.  TypeOK is inductive; EverySampleOnce and       *)
(* ChangesArrive are too, given the types.  DetectorCorrect needs to say   *)
(* what the detector's counters count: DetInv.                             *)
(***************************************************************************)
EXTENDS SileroStream, SequenceTheorems, TLAPS

USE DurationsAssumption, SizesAssumption, CapsAssumption

-----------------------------------------------------------------------------
(* The detector.                                                           *)

LEMMA StepTyped ==
  ASSUME NEW d \in Detectors, NEW loud \in BOOLEAN
  PROVE  Step(d, loud) \in Detectors
<1>1. Loud(d) \in Detectors
  <2> DEFINE speech == d.speechSamples + WindowSize
  <2>1. d.speaking \in BOOLEAN /\ d.utteranceSamples \in Nat /\ speech \in Nat
    BY DEF Detectors
  <2>2. (d.speaking \/ speech >= MinSpeech) \in BOOLEAN
    OBVIOUS
  <2>3. (IF d.speaking THEN d.utteranceSamples + WindowSize
         ELSE IF speech >= MinSpeech THEN speech
         ELSE d.utteranceSamples) \in Nat
    BY <2>1
  <2>4. Loud(d) = [speaking |-> d.speaking \/ speech >= MinSpeech,
                   speechSamples |-> speech,
                   silenceSamples |-> 0,
                   utteranceSamples |-> IF d.speaking THEN d.utteranceSamples + WindowSize
                                        ELSE IF speech >= MinSpeech THEN speech
                                        ELSE d.utteranceSamples]
    BY DEF Loud
  <2> HIDE DEF speech
  <2> DEFINE total == IF d.speaking THEN d.utteranceSamples + WindowSize
                      ELSE IF speech >= MinSpeech THEN speech
                      ELSE d.utteranceSamples
             on == d.speaking \/ speech >= MinSpeech
  <2>5. on \in BOOLEAN /\ total \in Nat
    BY <2>2, <2>3
  <2>6. Loud(d) = [speaking |-> on, speechSamples |-> speech,
                   silenceSamples |-> 0, utteranceSamples |-> total]
    BY <2>4
  <2> HIDE DEF on, total
  <2> QED
    BY <2>1, <2>5, <2>6 DEF Detectors
<1>2. Quiet(d) \in Detectors
  <2>1. NotSpeaking \in Detectors
    BY DEF NotSpeaking, Detectors
  <2>2. [d EXCEPT !.speechSamples = 0] \in Detectors
    BY DEF Detectors
  <2>3. \A silence \in Nat :
          [d EXCEPT !.silenceSamples = silence, !.utteranceSamples = @ + WindowSize]
            \in Detectors
    <3> SUFFICES ASSUME NEW silence \in Nat
                 PROVE  [d EXCEPT !.silenceSamples = silence,
                                  !.utteranceSamples = @ + WindowSize] \in Detectors
      OBVIOUS
    <3>1. [d EXCEPT !.silenceSamples = silence] \in Detectors
      BY DEF Detectors
    <3>2. \A e \in Detectors : [e EXCEPT !.utteranceSamples = @ + WindowSize] \in Detectors
      BY DEF Detectors
    <3>3. [d EXCEPT !.silenceSamples = silence, !.utteranceSamples = @ + WindowSize]
            = [[d EXCEPT !.silenceSamples = silence] EXCEPT !.utteranceSamples = @ + WindowSize]
      BY DEF Detectors
    <3> QED
      BY <3>1, <3>2, <3>3
  <2>4. d.silenceSamples + WindowSize \in Nat
    BY DEF Detectors
  <2> QED
    BY <2>1, <2>2, <2>3, <2>4 DEF Quiet
<1> QED
  BY <1>1, <1>2 DEF Step

LEMMA EventsTyped ==
  ASSUME NEW d \in Detectors
  PROVE  /\ ResetEvents(d) \in Seq(Events)
         /\ \A loud \in BOOLEAN : StepEvents(d, loud) \in Seq(Events)
<1> DEFINE E == {"inference", "start", "end"}
<1>1. <<>> \in Seq(E) /\ <<"start">> \in Seq(E) /\ <<"end">> \in Seq(E)
      /\ <<"inference">> \in Seq(E)
  OBVIOUS
<1>2. E = Events
  BY DEF Events
<1> HIDE DEF E
<1>3. \A e : Changed(d, e) \in Seq(Events)
  BY <1>1, <1>2 DEF Changed
<1>4. \A loud \in BOOLEAN : StepEvents(d, loud) \in Seq(Events)
  <2> SUFFICES ASSUME NEW loud \in BOOLEAN PROVE StepEvents(d, loud) \in Seq(Events)
    OBVIOUS
  <2>1. Changed(d, Step(d, loud)) \in Seq(Events)
    BY <1>3
  <2> QED
    BY <1>1, <1>2, <2>1, ConcatProperties DEF StepEvents
<1> QED
  BY <1>3, <1>4 DEF ResetEvents

-----------------------------------------------------------------------------
(* Types.                                                                  *)

LEMMA TypeInit == Init => TypeOK
<1> SUFFICES ASSUME Init PROVE TypeOK
  OBVIOUS
<1>1. {inputEnded, done, ctxDone} \subseteq BOOLEAN
  BY DEF Init
<1>2. control \in Seq(Items) /\ pending \in Seq(Events) /\ events \in Seq(Events)
      /\ windows \in Seq(BOOLEAN)
  BY EmptySeq DEF Init
<1>3. Len(control) = 0 /\ Len(events) = 0
  BY DEF Init
<1> QED
  BY <1>1, <1>2, <1>3 DEF Init, TypeOK, NotSpeaking, Detectors

(* What is taken from a control queue is a well-formed item.               *)
LEMMA HeadTyped ==
  ASSUME TypeOK, control # <<>>
  PROVE  /\ Head(control) \in Items /\ Head(control).n \in Nat
         /\ Tail(control) \in Seq(Items) /\ Len(Tail(control)) = Len(control) - 1
<1>1. \A i \in Items : i.n \in Nat
  <2> SUFFICES ASSUME NEW i \in Items PROVE i.n \in Nat
    OBVIOUS
  <2>1. CASE i \in [kind : {"frame"}, n : FrameSizes]
    <3>1. i.n \in FrameSizes
      BY <2>1
    <3> QED
      BY <3>1
  <2>2. CASE i \in [kind : {"flush", "end"}, n : {0}]
    BY <2>2
  <2> QED
    BY <2>1, <2>2 DEF Items
<1>2. control \in Seq(Items)
  BY DEF TypeOK
<1> HIDE DEF Items
<1>3. Head(control) \in Items /\ Tail(control) \in Seq(Items)
      /\ Len(Tail(control)) = Len(control) - 1
  BY <1>2, HeadTailProperties
<1> QED
  BY <1>1, <1>3

LEMMA CallingTyped == TypeOK /\ Calling => TypeOK'
<1> SUFFICES ASSUME TypeOK PROVE Calling => TypeOK'
  OBVIOUS
<1> USE DEF runVars
<1>1. PushFrame => TypeOK'
  <2> SUFFICES ASSUME PushFrame PROVE TypeOK'
    OBVIOUS
  <2>1. PICK n \in FrameSizes : call' = <<[kind |-> "frame", n |-> n]>>
    BY DEF PushFrame
  <2>2. [kind |-> "frame", n |-> n] \in Items
    BY DEF Items
  <2>3. call' \in {<<i>> : i \in Items}
    BY <2>1, <2>2
  <2>4. pushed' \in 0..MaxFrames
    BY DEF PushFrame, TypeOK
  <2> QED
    BY <2>3, <2>4 DEF PushFrame, TypeOK
<1>2. Flush => TypeOK'
  <2> SUFFICES ASSUME Flush PROVE TypeOK'
    OBVIOUS
  <2>1. [kind |-> "flush", n |-> 0] \in Items
    BY DEF Items
  <2>2. call' \in {<<i>> : i \in Items}
    BY <2>1 DEF Flush
  <2>3. flushed' \in 0..MaxFlushes
    BY DEF Flush, TypeOK
  <2> QED
    BY <2>2, <2>3 DEF Flush, TypeOK
<1>3. EndInput => TypeOK'
  <2> SUFFICES ASSUME EndInput PROVE TypeOK'
    OBVIOUS
  <2>1. [kind |-> "end", n |-> 0] \in Items
    BY DEF Items
  <2>2. call' \in {<<i>> : i \in Items}
    BY <2>1 DEF EndInput
  <2>3. {inputEnded', done', ctxDone'} \subseteq BOOLEAN
    BY DEF EndInput, TypeOK
  <2> QED
    BY <2>2, <2>3 DEF EndInput, TypeOK
<1>4. SendCtl => TypeOK'
  <2> SUFFICES ASSUME SendCtl PROVE TypeOK'
    OBVIOUS
  <2>1. PICK i \in Items : call = <<i>>
    BY DEF SendCtl, TypeOK
  <2> HIDE DEF Items
  <2>2. call \in Seq(Items) /\ Len(call) = 1
    BY <2>1
  <2>3. control' \in Seq(Items) /\ Len(control') = Len(control) + 1
    BY <2>2, ConcatProperties DEF SendCtl, TypeOK
  <2>4. Len(control') <= ControlCap
    BY <2>3, LenProperties DEF SendCtl, TypeOK
  <2> QED
    BY <2>3, <2>4 DEF SendCtl, TypeOK
<1>5. SendCtlAbandoned => TypeOK'
  BY DEF SendCtlAbandoned, TypeOK
<1> QED
  BY <1>1, <1>2, <1>3, <1>4, <1>5 DEF Calling

LEMMA RunningTyped == TypeOK /\ Running => TypeOK'
<1> SUFFICES ASSUME TypeOK PROVE Running => TypeOK'
  OBVIOUS
<1> USE DEF callVars
<1>1. TakeFrame => TypeOK'
  <2> SUFFICES ASSUME TakeFrame PROVE TypeOK'
    OBVIOUS
  <2>1. control' \in Seq(Items) /\ Len(control') = Len(control) - 1
    BY HeadTyped DEF TakeFrame
  <2>2. Head(control).n \in Nat
    BY HeadTyped DEF TakeFrame
  <2>3. Len(control') <= ControlCap
    BY <2>1, LenProperties DEF TypeOK
  <2>4. buf' \in Nat /\ fed' \in Nat
    <3>1. buf \in Nat /\ fed \in Nat
      BY DEF TypeOK
    <3>2. buf' = buf + Head(control).n /\ fed' = fed + Head(control).n
      BY DEF TakeFrame
    <3> QED
      BY <2>2, <3>1, <3>2
  <2>5. UNCHANGED <<call, pushed, flushed, inputEnded, run, det, pending, windows, events,
                    done, ctxDone, told>>
    BY DEF TakeFrame
  <2> HIDE DEF Items, Detectors, Events
  <2>6. {inputEnded', done', ctxDone'} \subseteq BOOLEAN
    BY <2>5 DEF TypeOK
  <2> QED
    BY <2>1, <2>3, <2>4, <2>5, <2>6 DEF TypeOK
<1>2. TakeReset => TypeOK'
  <2> SUFFICES ASSUME TakeReset PROVE TypeOK'
    OBVIOUS
  <2>1. control' \in Seq(Items) /\ Len(control') = Len(control) - 1
    BY HeadTyped DEF TakeReset
  <2>2. Len(control') <= ControlCap
    BY <2>1, LenProperties DEF TypeOK
  <2>3. pending' \in Seq(Events) /\ windows' \in Seq(BOOLEAN)
    BY EventsTyped, EmptySeq DEF TakeReset, TypeOK
  <2>4. det' \in Detectors
    BY DEF TakeReset, NotSpeaking, Detectors
  <2> QED
    BY <2>1, <2>2, <2>3, <2>4 DEF TakeReset, TypeOK
<1>3. Infer => TypeOK'
  <2> SUFFICES ASSUME Infer PROVE TypeOK'
    OBVIOUS
  <2>1. PICK loud \in BOOLEAN :
          /\ det' = Step(det, loud)
          /\ pending' = StepEvents(det, loud)
          /\ windows' = Append(windows, loud)
    BY DEF Infer
  <2>2. det' \in Detectors /\ pending' \in Seq(Events)
    BY <2>1, StepTyped, EventsTyped DEF TypeOK
  <2>3. windows' \in Seq(BOOLEAN)
    BY <2>1, AppendProperties DEF TypeOK
  <2>4. buf' \in Nat
    BY DEF Infer, TypeOK
  <2> QED
    BY <2>2, <2>3, <2>4 DEF Infer, TypeOK
<1>4. Emit => TypeOK'
  <2> SUFFICES ASSUME Emit PROVE TypeOK'
    OBVIOUS
  <2>1. Head(pending) \in Events /\ pending' \in Seq(Events)
    BY HeadTailProperties DEF Emit, TypeOK
  <2>2. events' \in Seq(Events) /\ Len(events') = Len(events) + 1
    BY <2>1, AppendProperties DEF Emit, TypeOK
  <2>3. Len(events') <= EventCap
    BY <2>2, LenProperties DEF Emit, TypeOK
  <2> QED
    BY <2>1, <2>2, <2>3 DEF Emit, TypeOK
<1>5. EmitAbandoned => TypeOK'
  BY EmptySeq DEF EmitAbandoned, TypeOK
<1>6. Return => TypeOK'
  BY DEF Return, TypeOK
<1> QED
  BY <1>1, <1>2, <1>3, <1>4, <1>5, <1>6 DEF Running

LEMMA OthersTyped == TypeOK /\ (Receive \/ Close \/ ContextEnds \/ UNCHANGED vars) => TypeOK'
<1> SUFFICES ASSUME TypeOK PROVE Receive \/ Close \/ ContextEnds \/ UNCHANGED vars => TypeOK'
  OBVIOUS
<1> USE DEF callVars, runVars
<1>1. Receive => TypeOK'
  <2> SUFFICES ASSUME Receive PROVE TypeOK'
    OBVIOUS
  <2>1. Head(events) \in Events /\ events' \in Seq(Events) /\ Len(events') = Len(events) - 1
    BY HeadTailProperties DEF Receive, TypeOK
  <2>2. Len(events') <= EventCap
    BY <2>1, LenProperties DEF TypeOK
  <2>3. told' \in {"start", "end"}
    BY <2>1 DEF Receive, Events, TypeOK
  <2> QED
    BY <2>1, <2>2, <2>3 DEF Receive, TypeOK
<1>2. Close \/ ContextEnds => TypeOK'
  <2> SUFFICES ASSUME Close \/ ContextEnds PROVE TypeOK'
    OBVIOUS
  <2>1. {inputEnded', done', ctxDone'} \subseteq BOOLEAN
    BY DEF Close, ContextEnds, TypeOK
  <2> QED
    BY <2>1 DEF Close, ContextEnds, TypeOK
<1>3. UNCHANGED vars => TypeOK'
  BY DEF vars, TypeOK
<1> QED
  BY <1>1, <1>2, <1>3

(* The stream is always well typed, its queues within their capacities.    *)
THEOREM SileroTypeCorrect == Spec => []TypeOK
<1>1. TypeOK /\ [Next]_vars => TypeOK'
  BY CallingTyped, RunningTyped, OthersTyped DEF Next
<1> QED
  BY TypeInit, <1>1, PTL DEF Spec

-----------------------------------------------------------------------------
(* Samples: a window takes its samples out of the buffer and puts one      *)
(* entry into the history.                                                 *)

LEMMA OneMoreWindow ==
  ASSUME NEW n \in Nat
  PROVE  WindowSize * (n + 1) = WindowSize * n + WindowSize
         /\ WindowSize * n \in Nat /\ WindowSize * 0 = 0
  OBVIOUS

LEMMA SamplesInit == Init => EverySampleOnce
  BY OneMoreWindow DEF Init, EverySampleOnce

LEMMA SamplesStep == TypeOK /\ EverySampleOnce /\ [Next]_vars => EverySampleOnce'
<1> SUFFICES ASSUME TypeOK, EverySampleOnce, [Next]_vars PROVE EverySampleOnce'
  OBVIOUS
<1> USE DEF callVars, runVars
<1>1. Len(windows) \in Nat /\ buf \in Nat /\ fed \in Nat
  BY LenProperties DEF TypeOK
<1>2. CASE TakeFrame
  <2>1. Head(control).n \in Nat
    BY <1>2, HeadTyped DEF TakeFrame
  <2>2. WindowSize * Len(windows) \in Nat
    BY <1>1, OneMoreWindow
  <2>3. windows' = windows /\ buf' = buf + Head(control).n /\ fed' = fed + Head(control).n
    BY <1>2 DEF TakeFrame
  <2> QED
    BY <1>1, <2>1, <2>2, <2>3 DEF EverySampleOnce
<1>3. CASE TakeReset
  <2>1. Len(windows') = 0 /\ buf' = 0 /\ fed' = 0
    BY <1>3 DEF TakeReset
  <2> QED
    BY <2>1, OneMoreWindow DEF EverySampleOnce
<1>4. CASE Infer
  <2>1. Len(windows') = Len(windows) + 1
    BY <1>4, AppendProperties DEF Infer, TypeOK
  <2>2. /\ WindowSize * Len(windows') = WindowSize * Len(windows) + WindowSize
        /\ WindowSize * Len(windows) \in Nat
    BY <1>1, <2>1, OneMoreWindow
  <2>3. buf' = buf - WindowSize /\ fed' = fed
    BY <1>4 DEF Infer
  <2> QED
    BY <1>1, <2>2, <2>3 DEF EverySampleOnce
<1>5. CASE Calling
  BY <1>5 DEF Calling, PushFrame, Flush, EndInput, SendCtl, SendCtlAbandoned, EverySampleOnce
<1>6. CASE Emit \/ EmitAbandoned \/ Return
  BY <1>6 DEF Emit, EmitAbandoned, Return, EverySampleOnce
<1>7. CASE Receive \/ Close \/ ContextEnds \/ UNCHANGED vars
  BY <1>7 DEF Receive, Close, ContextEnds, vars, EverySampleOnce
<1> QED
  BY <1>2, <1>3, <1>4, <1>5, <1>6, <1>7 DEF Next, Running

(* However frames and windows are aligned, every sample is looked at once  *)
(* or still in the buffer: for every size of frame and window.             *)
THEOREM EverySampleOnceHolds == Spec => []EverySampleOnce
  BY SamplesInit, SamplesStep, SileroTypeCorrect, PTL DEF Spec

-----------------------------------------------------------------------------
(* What is on its way to the reader, and what happens to it.               *)

LEMMA InferenceReported ==
  ASSUME NEW way \in Seq(Events)
  PROVE  LET new == Append(way, "inference") IN
           /\ Alternate(way) => Alternate(new)
           /\ \A e \in Events : LastChange(way, e) => LastChange(new, e)
<1> DEFINE new == Append(way, "inference")
<1>1. /\ Len(way) \in Nat /\ Len(new) = Len(way) + 1
      /\ DOMAIN way = 1..Len(way) /\ DOMAIN new = 1..Len(new)
      /\ new[Len(new)] = "inference" /\ \A i \in 1..Len(way) : new[i] = way[i]
  BY AppendProperties, LenProperties DEF Events
<1> HIDE DEF new
<1>2. ASSUME Alternate(way), NEW i \in DOMAIN new, NEW j \in DOMAIN new,
             i < j, "inference" \notin {new[i], new[j]},
             \A k \in i+1..j-1 : new[k] = "inference"
      PROVE  new[i] # new[j]
  <2>1. i \in DOMAIN way /\ j \in DOMAIN way
    BY <1>1, <1>2
  <2>2. \A k \in i+1..j-1 : way[k] = "inference"
    BY <1>1, <1>2, <2>1
  <2> QED
    BY <1>1, <1>2, <2>1, <2>2 DEF Alternate
<1>3. ASSUME NEW e \in Events, LastChange(way, e)
      PROVE  LastChange(new, e)
  <2>1. PICK i \in DOMAIN way : way[i] = e /\ \A k \in i+1..Len(way) : way[k] = "inference"
    BY <1>3 DEF LastChange
  <2>2. i \in DOMAIN new /\ new[i] = e /\ \A k \in i+1..Len(new) : new[k] = "inference"
    BY <1>1, <2>1
  <2> QED
    BY <2>2 DEF LastChange
<1>4. Alternate(way) => Alternate(new)
  BY <1>2 DEF Alternate
<1> QED
  BY <1>3, <1>4 DEF new

LEMMA ChangeReported ==
  ASSUME NEW way \in Seq(Events), NEW e \in {"start", "end"}, NEW f \in {"start", "end"},
         e # f, Alternate(way), LastChange(way, e)
  PROVE  LET new == Append(way, f) IN Alternate(new) /\ LastChange(new, f)
<1> DEFINE new == Append(way, f)
<1>1. /\ Len(way) \in Nat /\ Len(new) = Len(way) + 1
      /\ DOMAIN way = 1..Len(way) /\ DOMAIN new = 1..Len(new)
      /\ new[Len(new)] = f /\ \A i \in 1..Len(way) : new[i] = way[i]
  BY AppendProperties, LenProperties DEF Events
<1> HIDE DEF new
<1>2. PICK last \in DOMAIN way :
        way[last] = e /\ \A k \in last+1..Len(way) : way[k] = "inference"
  BY DEF LastChange
<1>3. ASSUME NEW i \in DOMAIN new, NEW j \in DOMAIN new,
             i < j, "inference" \notin {new[i], new[j]},
             \A k \in i+1..j-1 : new[k] = "inference"
      PROVE  new[i] # new[j]
  <2>1. i \in DOMAIN way
    BY <1>1, <1>3
  <2>2. CASE j \in DOMAIN way
    <3>1. \A k \in i+1..j-1 : way[k] = "inference"
      BY <1>1, <1>3, <2>1, <2>2
    <3> QED
      BY <1>1, <1>3, <2>1, <2>2, <3>1 DEF Alternate
  <2>3. CASE j \notin DOMAIN way
    <3>1. j = Len(way) + 1
      BY <1>1, <2>3
    <3>2. ~(i < last)
      <4>1. i < last => new[last] = "inference"
        BY <1>1, <1>3, <3>1
      <4> QED
        BY <1>1, <1>2, <4>1
    <3>3. ~(last < i)
      BY <1>1, <1>2, <1>3, <2>1
    <3>4. i = last
      BY <1>1, <2>1, <3>2, <3>3
    <3> QED
      BY <1>1, <1>2, <3>1, <3>4
  <2> QED
    BY <2>2, <2>3
<1>4. Alternate(new)
  BY <1>3 DEF Alternate
<1>5. LastChange(new, f)
  BY <1>1 DEF LastChange
<1> QED
  BY <1>4, <1>5 DEF new

(* The reader takes an inference from behind the change it knows.          *)
LEMMA InferenceReceived ==
  ASSUME NEW a \in Events, NEW s \in Seq(Events), s # <<>>, Head(s) = "inference",
         NEW e \in {"start", "end"},
         Alternate(<<a>> \o s), LastChange(<<a>> \o s, e)
  PROVE  Alternate(<<a>> \o Tail(s)) /\ LastChange(<<a>> \o Tail(s), e)
<1> DEFINE way == <<a>> \o s
           new == <<a>> \o Tail(s)
           at(i) == IF i = 1 THEN 1 ELSE i + 1
<1>1. /\ Len(s) \in Nat \ {0} /\ Len(way) = Len(s) + 1 /\ Len(new) = Len(s)
      /\ DOMAIN way = 1..Len(way) /\ DOMAIN new = 1..Len(new)
      /\ way[1] = a /\ way[2] = "inference" /\ new[1] = a
      /\ \A i \in 2..Len(new) : new[i] = way[i + 1]
  <2> HIDE DEF Events
  <2> QED
    OBVIOUS
<1> HIDE DEF way, new
<1>2. \A i \in DOMAIN new : at(i) \in DOMAIN way /\ new[i] = way[at(i)]
  BY <1>1
<1>3. ASSUME NEW i \in DOMAIN new, NEW j \in DOMAIN new,
             i < j, "inference" \notin {new[i], new[j]},
             \A k \in i+1..j-1 : new[k] = "inference"
      PROVE  new[i] # new[j]
  <2>1. \A k \in at(i)+1..at(j)-1 : way[k] = "inference"
    <3> SUFFICES ASSUME NEW k \in at(i)+1..at(j)-1 PROVE way[k] = "inference"
      OBVIOUS
    <3>1. CASE k = 2
      BY <1>1, <3>1
    <3>2. CASE k # 2
      <4>1. k - 1 \in i+1..j-1 /\ k - 1 \in 2..Len(new)
        BY <1>1, <3>2
      <4> QED
        BY <1>1, <1>3, <4>1
    <3> QED
      BY <3>1, <3>2
  <2>2. at(i) < at(j)
    BY <1>1, <1>3
  <2>3. /\ at(i) \in DOMAIN way /\ at(j) \in DOMAIN way
        /\ new[i] = way[at(i)] /\ new[j] = way[at(j)]
    BY <1>2
  <2>4. Alternate(way)
    BY DEF way
  <2> HIDE DEF at
  <2> QED
    BY <1>3, <2>1, <2>2, <2>3, <2>4 DEF Alternate
<1>4. LastChange(new, e)
  <2>1. PICK i \in DOMAIN way : way[i] = e /\ \A k \in i+1..Len(way) : way[k] = "inference"
    BY DEF LastChange, way
  <2>2. i # 2
    BY <1>1, <2>1
  <2> DEFINE j == IF i = 1 THEN 1 ELSE i - 1
  <2>3. j \in DOMAIN new /\ new[j] = e
    BY <1>1, <2>1, <2>2
  <2>4. ASSUME NEW k \in j+1..Len(new) PROVE new[k] = "inference"
    <3>1. k \in 2..Len(new) /\ k + 1 \in i+1..Len(way)
      BY <1>1, <2>1, <2>2
    <3>2. new[k] = way[k + 1]
      BY <1>1, <3>1
    <3> QED
      BY <2>1, <3>1, <3>2
  <2> QED
    BY <2>3, <2>4 DEF LastChange
<1> QED
  BY <1>3, <1>4 DEF Alternate, new

(* The reader takes a change, which replaces the one it knows.             *)
LEMMA ChangeReceived ==
  ASSUME NEW a \in Events, NEW s \in Seq(Events), s # <<>>, Head(s) # "inference",
         NEW e \in {"start", "end"},
         Alternate(<<a>> \o s), LastChange(<<a>> \o s, e)
  PROVE  Alternate(s) /\ LastChange(s, e)
<1> DEFINE way == <<a>> \o s
<1>1. /\ Len(s) \in Nat \ {0} /\ Len(way) = Len(s) + 1
      /\ DOMAIN way = 1..Len(way) /\ DOMAIN s = 1..Len(s)
      /\ way[2] # "inference" /\ \A i \in 1..Len(s) : s[i] = way[i + 1]
  <2> HIDE DEF Events
  <2> QED
    OBVIOUS
<1> HIDE DEF way
<1>2. ASSUME NEW i \in DOMAIN s, NEW j \in DOMAIN s,
             i < j, "inference" \notin {s[i], s[j]},
             \A k \in i+1..j-1 : s[k] = "inference"
      PROVE  s[i] # s[j]
  <2>1. \A k \in (i+1)+1..(j+1)-1 : way[k] = "inference"
    <3> SUFFICES ASSUME NEW k \in (i+1)+1..(j+1)-1 PROVE way[k] = "inference"
      OBVIOUS
    <3>1. k - 1 \in i+1..j-1 /\ k - 1 \in 1..Len(s) /\ (k - 1) + 1 = k
      BY <1>1
    <3> QED
      BY <1>1, <1>2, <3>1
  <2>2. i + 1 \in DOMAIN way /\ j + 1 \in DOMAIN way /\ i + 1 < j + 1
        /\ "inference" \notin {way[i + 1], way[j + 1]}
    BY <1>1, <1>2
  <2>3. way[i + 1] # way[j + 1]
    BY <2>1, <2>2 DEF Alternate, way
  <2> QED
    BY <1>1, <2>3
<1>3. LastChange(s, e)
  <2>1. PICK i \in DOMAIN way : way[i] = e /\ \A k \in i+1..Len(way) : way[k] = "inference"
    BY DEF LastChange, way
  <2>2. i # 1
    BY <1>1, <2>1
  <2>3. i - 1 \in DOMAIN s /\ s[i - 1] = e
    BY <1>1, <2>1, <2>2
  <2>4. \A k \in (i-1)+1..Len(s) : s[k] = "inference"
    BY <1>1, <2>1, <2>2
  <2> QED
    BY <2>3, <2>4 DEF LastChange
<1> QED
  BY <1>2, <1>3 DEF Alternate

Spoken(d) == IF d.speaking THEN "start" ELSE "end"

(* What the detector reports for a window or a reset, sent on its way.     *)
LEMMA ReportsArrive ==
  ASSUME NEW way \in Seq(Events), NEW d \in Detectors, NEW c \in Detectors,
         Alternate(way), LastChange(way, Spoken(d))
  PROVE  /\ way \o Changed(d, c) \in Seq(Events)
         /\ Alternate(way \o Changed(d, c)) /\ LastChange(way \o Changed(d, c), Spoken(c))
<1>1. d.speaking \in BOOLEAN /\ c.speaking \in BOOLEAN
  BY DEF Detectors
<1>2. CASE d.speaking = c.speaking
  <2>1. way \o Changed(d, c) = way
    BY <1>2, ConcatEmptySeq DEF Changed
  <2> QED
    BY <1>2, <2>1 DEF Spoken
<1>3. CASE d.speaking # c.speaking
  <2>1. /\ Spoken(d) \in {"start", "end"} /\ Spoken(c) \in {"start", "end"}
        /\ Spoken(d) # Spoken(c) /\ Spoken(c) \in Events
    BY <1>1, <1>3 DEF Spoken, Events
  <2>2. Changed(d, c) = <<Spoken(c)>>
    BY <1>1, <1>3 DEF Changed, Spoken
  <2>3. way \o Changed(d, c) = Append(way, Spoken(c))
    BY <2>1, <2>2, AppendIsConcat
  <2> QED
    BY <2>1, <2>3, ChangeReported, AppendProperties
<1> QED
  BY <1>2, <1>3

LEMMA ArriveInit == Init => ChangesArrive
<1> SUFFICES ASSUME Init PROVE ChangesArrive
  OBVIOUS
<1>1. told = "end" /\ events = <<>> /\ pending = <<>> /\ det = NotSpeaking
  BY DEF Init
<1>2. <<told>> \o events \o pending = <<"end">>
  BY <1>1
<1>3. Alternate(<<"end">>) /\ LastChange(<<"end">>, "end")
  BY DEF Alternate, LastChange
<1> QED
  BY <1>1, <1>2, <1>3 DEF ChangesArrive, NotSpeaking

Way == <<told>> \o events \o pending

LEMMA ArriveStep == TypeOK /\ ChangesArrive /\ [Next]_vars => ChangesArrive'
<1> SUFFICES ASSUME TypeOK, ChangesArrive, [Next]_vars, ~done'
             PROVE  Alternate(Way') /\ LastChange(Way', Spoken(det'))
  BY DEF ChangesArrive, Way, Spoken
<1>1. /\ told \in {"start", "end"} /\ events \in Seq(Events) /\ pending \in Seq(Events)
      /\ det \in Detectors
  BY DEF TypeOK
<1>2. <<told>> \in Seq(Events) /\ <<told>> \o events \in Seq(Events) /\ Way \in Seq(Events)
  BY <1>1 DEF Way, Events
<1>3. ~done
  BY DEF Next, Calling, PushFrame, Flush, EndInput, SendCtl, SendCtlAbandoned, Running,
         TakeFrame, TakeReset, Infer, Emit, EmitAbandoned, Return, Receive, Close,
         ContextEnds, vars
<1>4. Alternate(Way) /\ LastChange(Way, Spoken(det))
  BY <1>3 DEF ChangesArrive, Way, Spoken
<1>5. CASE UNCHANGED <<told, events, pending, det>>
  BY <1>4, <1>5 DEF Way, Spoken
<1>6. CASE TakeReset
  <2>1. pending = <<>> /\ UNCHANGED <<told, events>>
    BY <1>6 DEF TakeReset, AtSelect
  <2>2. pending' = Changed(det, NotSpeaking) /\ det' = NotSpeaking /\ det' \in Detectors
    BY <1>6 DEF TakeReset, ResetEvents, NotSpeaking, Detectors
  <2>3. Way = <<told>> \o events
    BY <1>2, <2>1, ConcatEmptySeq DEF Way
  <2>4. Way' = Way \o Changed(det, det')
    BY <2>1, <2>2, <2>3 DEF Way
  <2> QED
    BY <1>1, <1>2, <1>4, <2>2, <2>4, ReportsArrive
<1>7. CASE Infer
  <2>1. PICK loud \in BOOLEAN : det' = Step(det, loud) /\ pending' = StepEvents(det, loud)
    BY <1>7 DEF Infer
  <2>2. pending = <<>> /\ UNCHANGED <<told, events>>
    BY <1>7 DEF Infer
  <2>3. det' \in Detectors
    BY <1>1, <2>1, StepTyped
  <2>4. Way = <<told>> \o events
    BY <1>2, <2>2, ConcatEmptySeq DEF Way
  <2> DEFINE seen == Append(Way, "inference")
  <2>5. seen \in Seq(Events) /\ Alternate(seen) /\ LastChange(seen, Spoken(det))
    <3>1. "inference" \in Events /\ Spoken(det) \in Events
      BY DEF Events, Spoken
    <3> QED
      BY <1>2, <1>4, <3>1, InferenceReported, AppendProperties
  <2>6. Changed(det, det') \in Seq(Events) /\ <<"inference">> \in Seq(Events)
    <3>1. Changed(det, det') \in {<<>>, <<"start">>, <<"end">>}
      BY DEF Changed
    <3>2. <<>> \in Seq(Events) /\ \A e \in Events : <<e>> \in Seq(Events)
      <4> HIDE DEF Events
      <4> QED
        OBVIOUS
    <3> QED
      BY <3>1, <3>2 DEF Events
  <2>7. Way' = seen \o Changed(det, det')
    <3>1. pending' = <<"inference">> \o Changed(det, det')
      BY <2>1 DEF StepEvents
    <3>2. Way' = Way \o (<<"inference">> \o Changed(det, det'))
      BY <2>2, <2>4, <3>1 DEF Way
    <3>3. seen = Way \o <<"inference">>
      BY <1>2, AppendIsConcat DEF Events
    <3> QED
      BY <1>2, <2>6, <3>2, <3>3, ConcatAssociative
  <2> HIDE DEF seen
  <2> QED
    BY <1>1, <2>3, <2>5, <2>7, ReportsArrive
<1>8. CASE Emit
  <2>1. /\ pending # <<>> /\ events' = Append(events, Head(pending))
        /\ pending' = Tail(pending) /\ UNCHANGED <<told, det>>
    BY <1>8 DEF Emit
  <2>2. Head(pending) \in Events /\ Tail(pending) \in Seq(Events)
        /\ <<Head(pending)>> \in Seq(Events) /\ pending = <<Head(pending)>> \o Tail(pending)
    <3> HIDE DEF Events
    <3> QED
      BY <1>1, <2>1
  <2>3. events' = events \o <<Head(pending)>>
    BY <1>1, <2>1, <2>2, AppendIsConcat
  <2>4. <<told>> \o (events \o <<Head(pending)>>) = (<<told>> \o events) \o <<Head(pending)>>
    BY <1>1, <1>2, <2>2, ConcatAssociative
  <2>5. ((<<told>> \o events) \o <<Head(pending)>>) \o Tail(pending) = Way
    <3> DEFINE said == <<told>> \o events
    <3>1. said \in Seq(Events) /\ <<Head(pending)>> \in Seq(Events)
          /\ Tail(pending) \in Seq(Events)
      BY <1>2, <2>2
    <3>2. Way = said \o (<<Head(pending)>> \o Tail(pending))
      BY <2>2 DEF Way
    <3> HIDE DEF said
    <3>3. (said \o <<Head(pending)>>) \o Tail(pending) = Way
      BY <3>1, <3>2, ConcatAssociative
    <3> QED
      BY <3>3 DEF said
  <2>6. Way' = Way
    BY <2>1, <2>3, <2>4, <2>5 DEF Way
  <2> QED
    BY <1>4, <2>1, <2>6
<1>9. CASE Receive
  <2> DEFINE rest == events \o pending
  <2>1. /\ events # <<>> /\ events' = Tail(events) /\ UNCHANGED <<pending, det>>
        /\ told' = IF Head(events) = "inference" THEN told ELSE Head(events)
    BY <1>9 DEF Receive, runVars
  <2>2. /\ rest \in Seq(Events) /\ rest # <<>> /\ Head(rest) = Head(events)
        /\ Tail(rest) = Tail(events) \o pending /\ Tail(events) \in Seq(Events)
        /\ Head(events) \in Events /\ rest = <<Head(rest)>> \o Tail(rest)
        /\ Tail(rest) \in Seq(Events)
    <3> HIDE DEF Events
    <3> QED
      BY <1>1, <2>1
  <2>3. Way = <<told>> \o rest
    BY <1>1, <1>2, ConcatAssociative DEF Way
  <2>4. told \in Events /\ Spoken(det) \in {"start", "end"}
    BY <1>1 DEF Events, Spoken
  <2>5. Way' = <<told'>> \o Tail(rest)
    <3>1. <<told'>> \in Seq(Events)
      <4>1. told' \in Events
        BY <2>1, <2>2, <2>4
      <4> HIDE DEF Events
      <4> QED
        BY <4>1
    <3> QED
      BY <1>1, <2>1, <2>2, <3>1, ConcatAssociative DEF Way
  <2> HIDE DEF rest
  <2>6. CASE Head(events) = "inference"
    BY <1>4, <2>1, <2>2, <2>3, <2>4, <2>5, <2>6, InferenceReceived
  <2>7. CASE Head(events) # "inference"
    <3>1. Way' = rest
      BY <2>1, <2>2, <2>5, <2>7
    <3>2. Alternate(rest) /\ LastChange(rest, Spoken(det))
      <4>1. Alternate(<<told>> \o rest) /\ LastChange(<<told>> \o rest, Spoken(det))
        BY <1>4, <2>3
      <4>2. rest \in Seq(Events) /\ rest # <<>> /\ Head(rest) # "inference"
        BY <2>2, <2>7
      <4> HIDE DEF Events
      <4> QED
        BY <2>4, <4>1, <4>2, ChangeReceived
    <3> QED
      BY <2>1, <3>1, <3>2
  <2> QED
    BY <2>6, <2>7
<1>10. CASE Calling \/ TakeFrame \/ Return \/ Close \/ ContextEnds \/ UNCHANGED vars
  <2>1. UNCHANGED <<told, events, pending, det>>
    BY <1>10 DEF Calling, PushFrame, Flush, EndInput, SendCtl, SendCtlAbandoned, TakeFrame,
                 Return, Close, ContextEnds, vars, runVars
  <2> QED
    BY <1>5, <2>1
<1>11. CASE EmitAbandoned
  BY <1>3, <1>11 DEF EmitAbandoned
<1> QED
  BY <1>6, <1>7, <1>8, <1>9, <1>10, <1>11 DEF Next, Running

(* Until the stream is closed the reader hears of every start and end, in  *)
(* turns, and with what is on its way agrees with the detector: for every  *)
(* capacity of the channel and every pace of the reader.                   *)
THEOREM ChangesArriveHolds == Spec => []ChangesArrive
  BY ArriveInit, ArriveStep, SileroTypeCorrect, PTL DEF Spec

-----------------------------------------------------------------------------
(* The detector against its definition over all the windows.               *)

Loudly(w, i, j) == \A k \in i..j : w[k]
Quietly(w, i, j) == \A k \in i..j : ~w[k]

(* A run of silence from k to l that ends the speech before it.            *)
Pause(w, k, l) == Quietly(w, k, l) /\ Lasts(k, l, MinSilence)
Over(w, j) == \E k \in j+1..Len(w) : \E l \in k..Len(w) : Pause(w, k, l)

Heard(w, i, j) == Loudly(w, i, j) /\ Lasts(i, j, MinSpeech)

LEMMA SpeechFromMeans ==
  ASSUME NEW w \in Seq(BOOLEAN)
  PROVE  \A i : i \in SpeechFrom(w) <=>
                  i \in 1..Len(w) /\ \E j \in i..Len(w) : Heard(w, i, j) /\ ~Over(w, j)
<1>1. DOMAIN w = 1..Len(w)
  BY LenProperties
<1> QED
  BY <1>1 DEF SpeechFrom, Heard, Loudly, Over, Pause, Quietly

LEMMA PauseAfter ==
  ASSUME NEW w \in Seq(BOOLEAN), NEW j \in Nat, Over(w, j)
  PROVE  \E k, l \in Nat : j < k /\ k <= l /\ l <= Len(w) /\ Pause(w, k, l)
<1>1. PICK k \in j+1..Len(w) : \E l \in k..Len(w) : Pause(w, k, l)
  BY DEF Over
<1>2. PICK l \in k..Len(w) : Pause(w, k, l)
  BY <1>1
<1>3. k \in Nat /\ l \in Nat /\ j < k /\ k <= l /\ l <= Len(w)
  BY LenProperties
<1> QED
  BY <1>2, <1>3

LEMMA OverAfter ==
  ASSUME NEW w \in Seq(BOOLEAN), NEW j \in Nat, NEW k \in Nat, NEW l \in Nat,
         j < k, k <= l, l <= Len(w), Pause(w, k, l)
  PROVE  Over(w, j)
<1>1. k \in j+1..Len(w) /\ l \in k..Len(w)
  BY LenProperties
<1> QED
  BY <1>1 DEF Over

(* A longer run lasts longer.                                              *)
LEMMA Longer ==
  /\ \A m, n \in Nat : m <= n => m * WindowSize <= n * WindowSize
  /\ \A n \in Nat : (n + 1) * WindowSize = n * WindowSize + WindowSize
  /\ \A n \in Nat : n * WindowSize \in Nat
  /\ 0 * WindowSize = 0 /\ 1 * WindowSize = WindowSize
  OBVIOUS

(* v is w and one more window.                                             *)
OneMore(v, w) ==
  /\ v \in Seq(BOOLEAN) /\ w \in Seq(BOOLEAN)
  /\ Len(w) \in Nat /\ Len(v) = Len(w) + 1
  /\ \A i \in 1..Len(w) : v[i] = w[i]

LEMMA OneMoreAppended ==
  ASSUME NEW w \in Seq(BOOLEAN), NEW b \in BOOLEAN
  PROVE  OneMore(Append(w, b), w) /\ Append(w, b)[Len(w) + 1] = b
  BY AppendProperties, LenProperties DEF OneMore

LEMMA OldRuns ==
  ASSUME NEW w, NEW v, OneMore(v, w), NEW i \in Nat \ {0}, NEW j \in Nat, j <= Len(w)
  PROVE  /\ Heard(v, i, j) <=> Heard(w, i, j)
         /\ Pause(v, i, j) <=> Pause(w, i, j)
<1>1. \A k \in i..j : k \in 1..Len(w)
  BY DEF OneMore
<1> QED
  BY <1>1 DEF OneMore, Heard, Loudly, Pause, Quietly

LEMMA StillOver ==
  ASSUME NEW w, NEW v, OneMore(v, w), NEW j \in Nat, Over(w, j)
  PROVE  Over(v, j)
<1>1. v \in Seq(BOOLEAN) /\ w \in Seq(BOOLEAN) /\ Len(w) \in Nat /\ Len(v) = Len(w) + 1
  BY DEF OneMore
<1>2. PICK k, l \in Nat : j < k /\ k <= l /\ l <= Len(w) /\ Pause(w, k, l)
  BY <1>1, PauseAfter
<1>3. Pause(v, k, l)
  BY <1>1, <1>2, OldRuns
<1> QED
  BY <1>1, <1>2, <1>3, OverAfter

(* Speech that goes on was there before, unless the last window began it.  *)
LEMMA SpeechGoesOn ==
  ASSUME NEW w, NEW v, OneMore(v, w), NEW i \in SpeechFrom(v), ~Heard(v, i, Len(v))
  PROVE  i \in SpeechFrom(w) /\ i \in 1..Len(w)
         /\ \E j \in i..Len(w) : Heard(w, i, j) /\ ~Over(v, j)
<1>1. v \in Seq(BOOLEAN) /\ w \in Seq(BOOLEAN) /\ Len(w) \in Nat /\ Len(v) = Len(w) + 1
  BY DEF OneMore
<1>2. i \in 1..Len(v)
  BY <1>1, SpeechFromMeans
<1>3. PICK j \in i..Len(v) : Heard(v, i, j) /\ ~Over(v, j)
  BY <1>1, SpeechFromMeans
<1>4. j \in i..Len(w) /\ i \in 1..Len(w)
  BY <1>1, <1>2, <1>3
<1>5. Heard(w, i, j) /\ ~Over(w, j)
  BY <1>3, <1>4, OldRuns, StillOver
<1> QED
  BY <1>1, <1>3, <1>4, <1>5, SpeechFromMeans

(* A loud window ends no speech, and begins one if the run is long enough. *)
LEMMA LoudWindow ==
  ASSUME NEW w, NEW v, OneMore(v, w), v[Len(v)], NEW i \in 1..Len(v)
  PROVE  i \in SpeechFrom(v) <=> i \in SpeechFrom(w) \/ Heard(v, i, Len(v))
<1>1. v \in Seq(BOOLEAN) /\ w \in Seq(BOOLEAN) /\ Len(w) \in Nat /\ Len(v) = Len(w) + 1
  BY DEF OneMore
<1>2. ASSUME NEW j \in Nat, Over(v, j) PROVE Over(w, j)
  <2>1. PICK k, l \in Nat : j < k /\ k <= l /\ l <= Len(v) /\ Pause(v, k, l)
    BY <1>1, <1>2, PauseAfter
  <2>2. l # Len(v)
    BY <1>1, <2>1 DEF Pause, Quietly
  <2>3. l <= Len(w) /\ k # 0
    BY <1>1, <2>1, <2>2
  <2>4. Pause(w, k, l)
    BY <2>1, <2>3, OldRuns
  <2> QED
    BY <1>1, <2>1, <2>3, <2>4, OverAfter
<1>3. ASSUME i \in SpeechFrom(w) PROVE i \in SpeechFrom(v)
  <2>1. i \in 1..Len(w)
    BY <1>1, <1>3, SpeechFromMeans
  <2>2. PICK j \in i..Len(w) : Heard(w, i, j) /\ ~Over(w, j)
    BY <1>1, <1>3, SpeechFromMeans
  <2>3. j \in Nat /\ j <= Len(w) /\ j \in i..Len(v)
    BY <1>1, <2>1, <2>2
  <2>4. Heard(v, i, j) /\ ~Over(v, j)
    BY <1>2, <2>1, <2>2, <2>3, OldRuns
  <2> QED
    BY <1>1, <2>3, <2>4, SpeechFromMeans
<1>4. ASSUME Heard(v, i, Len(v)) PROVE i \in SpeechFrom(v)
  <2>1. ~Over(v, Len(v))
    BY <1>1 DEF Over
  <2>2. Len(v) \in i..Len(v)
    BY <1>1
  <2> QED
    BY <1>1, <1>4, <2>1, <2>2, SpeechFromMeans
<1> QED
  BY <1>3, <1>4, SpeechGoesOn

(* A quiet window begins no speech.                                        *)
LEMMA QuietBegins ==
  ASSUME NEW w, NEW v, OneMore(v, w), ~v[Len(v)]
  PROVE  \A i \in SpeechFrom(v) :
           i \in SpeechFrom(w) /\ i \in 1..Len(w)
           /\ \E j \in i..Len(w) : Heard(w, i, j) /\ ~Over(v, j)
<1> SUFFICES ASSUME NEW i \in SpeechFrom(v) PROVE ~Heard(v, i, Len(v))
  BY SpeechGoesOn
<1>1. v \in Seq(BOOLEAN) /\ Len(v) \in Nat
  BY LenProperties DEF OneMore
<1>2. i \in 1..Len(v)
  BY <1>1, SpeechFromMeans
<1> QED
  BY <1>1, <1>2 DEF Heard, Loudly

(* It ends all of it if the quiet run, of q windows before it, is now long *)
(* enough, and none if it is not.                                          *)
LEMMA QuietEnds ==
  ASSUME NEW w, NEW v, OneMore(v, w), ~v[Len(v)],
         NEW q \in Nat, q < Len(w), Quietly(w, Len(w) - q + 1, Len(w)), w[Len(w) - q]
  PROVE  SpeechFrom(v) = IF (q + 1) * WindowSize < MinSilence THEN SpeechFrom(w) ELSE {}
<1> DEFINE n == Len(w)
           c == n - q
<1>1. v \in Seq(BOOLEAN) /\ w \in Seq(BOOLEAN) /\ n \in Nat /\ Len(v) = n + 1
      /\ \A k \in 1..n : v[k] = w[k]
  BY DEF OneMore
<1>2. c \in Nat /\ 1 <= c /\ c <= n /\ w[c] /\ n + 1 - c = q + 1
  BY <1>1
<1>3. \A k \in Nat : c < k /\ k <= n => ~w[k]
  BY <1>1, <1>2 DEF Quietly
<1>4. ASSUME NEW k \in Nat, c < k, k <= n + 1 PROVE ~v[k]
  <2>1. CASE k = n + 1
    BY <1>1, <2>1
  <2>2. CASE k # n + 1
    <3>1. k <= n /\ k \in 1..n
      BY <1>1, <1>2, <1>4, <2>2
    <3> QED
      BY <1>1, <1>3, <1>4, <3>1
  <2> QED
    BY <2>1, <2>2
<1>5. (q + 1) * WindowSize \in Nat
  BY Longer
<1> HIDE DEF c, n
<1>6. CASE ~((q + 1) * WindowSize < MinSilence)
  <2>1. Pause(v, c + 1, n + 1)
    <3>1. (n + 1) - (c + 1) + 1 = q + 1
      BY <1>1, <1>2
    <3>2. Lasts(c + 1, n + 1, MinSilence)
      BY <1>5, <1>6, <3>1 DEF Lasts
    <3>3. Quietly(v, c + 1, n + 1)
      BY <1>1, <1>2, <1>4 DEF Quietly
    <3> QED
      BY <3>2, <3>3 DEF Pause
  <2>2. ASSUME NEW i \in SpeechFrom(v) PROVE FALSE
    <3>1. i \in 1..n
      BY QuietBegins DEF n
    <3>2. PICK j \in i..n : Heard(w, i, j) /\ ~Over(v, j)
      BY QuietBegins DEF n
    <3>3. w[j] /\ j \in Nat /\ j <= n
      BY <1>1, <3>1, <3>2 DEF Heard, Loudly
    <3>4. j <= c
      BY <1>2, <1>3, <3>3
    <3>5. Over(v, j)
      <4>1. j < c + 1 /\ c + 1 <= n + 1 /\ n + 1 <= Len(v) /\ c + 1 \in Nat /\ n + 1 \in Nat
        BY <1>1, <1>2, <3>3, <3>4
      <4> QED
        BY <1>1, <2>1, <3>3, <4>1, OverAfter
    <3> QED
      BY <3>2, <3>5
  <2> QED
    BY <1>6, <2>2
<1>7. CASE (q + 1) * WindowSize < MinSilence
  <2>1. ASSUME NEW i \in SpeechFrom(w) PROVE i \in SpeechFrom(v)
    <3>1. i \in 1..n
      BY <1>1, SpeechFromMeans DEF n
    <3>2. PICK j \in i..n : Heard(w, i, j) /\ ~Over(w, j)
      BY <1>1, SpeechFromMeans DEF n
    <3>3. w[j] /\ j \in Nat /\ j <= n /\ j \in i..Len(v) /\ i \in 1..Len(v)
      BY <1>1, <3>1, <3>2 DEF Heard, Loudly
    <3>4. Heard(v, i, j)
      BY <3>1, <3>2, <3>3, OldRuns DEF n
    <3>5. ASSUME Over(v, j) PROVE FALSE
      <4>1. PICK k, l \in Nat : j < k /\ k <= l /\ l <= Len(v) /\ Pause(v, k, l)
        BY <1>1, <3>3, <3>5, PauseAfter
      <4>2. CASE l = n + 1
        <5>1. ~(k <= c)
          <6>1. k <= c => v[c] /\ ~v[c]
            BY <1>1, <1>2, <4>1, <4>2 DEF Pause, Quietly
          <6> QED
            BY <6>1
        <5> DEFINE m == l - k + 1
        <5>2. m \in Nat /\ m <= q + 1
          <6>1. k \in Nat /\ k <= l /\ l = n + 1
            BY <4>1, <4>2
          <6>2. n \in Nat /\ c \in Nat /\ n + 1 - c = q + 1
            BY <1>1, <1>2
          <6> QED
            BY <5>1, <6>1, <6>2
        <5>3. m * WindowSize >= MinSilence
          BY <4>1 DEF Pause, Lasts
        <5> HIDE DEF m
        <5>4. m * WindowSize <= (q + 1) * WindowSize /\ m * WindowSize \in Nat
          BY <5>2, Longer
        <5> QED
          BY <1>5, <1>7, <5>3, <5>4
      <4>3. CASE l # n + 1
        <5>1. l <= n /\ k # 0
          BY <1>1, <3>3, <4>1, <4>3
        <5>2. Pause(w, k, l)
          BY <4>1, <5>1, OldRuns DEF n
        <5>3. Over(w, j)
          BY <1>1, <3>3, <4>1, <5>1, <5>2, OverAfter DEF n
        <5> QED
          BY <3>2, <5>3
      <4> QED
        BY <4>2, <4>3
    <3> QED
      BY <1>1, <3>3, <3>4, <3>5, SpeechFromMeans
  <2>2. SpeechFrom(v) = SpeechFrom(w)
    BY <2>1, QuietBegins
  <2> QED
    BY <1>7, <2>2
<1> QED
  BY <1>6, <1>7

(* The last r windows are loud and the one before them is not, the last q  *)
(* are quiet and the one before them is not, speech began at f.            *)
LoudRun(w, r) ==
  /\ r \in Nat /\ r <= Len(w)
  /\ Loudly(w, Len(w) - r + 1, Len(w))
  /\ r < Len(w) => ~w[Len(w) - r]
QuietRun(w, q) ==
  /\ q \in Nat /\ q < Len(w)
  /\ Quietly(w, Len(w) - q + 1, Len(w))
  /\ w[Len(w) - q]
First(w, f) == f \in SpeechFrom(w) /\ \A i \in SpeechFrom(w) : f <= i

(* The inductive invariant: the counters of the detector are the lengths   *)
(* of those runs.  Without speech silenceSamples means nothing, with it    *)
(* speechSamples does not.                                                 *)
InSilence(d, w) ==
  /\ SpeechFrom(w) = {}
  /\ d.utteranceSamples = 0
  /\ \E r \in Nat : LoudRun(w, r) /\ d.speechSamples = r * WindowSize
InSpeech(d, w) ==
  /\ \E f \in Nat : First(w, f) /\ d.utteranceSamples = (Len(w) - f + 1) * WindowSize
  /\ \E q \in Nat : QuietRun(w, q) /\ d.silenceSamples = q * WindowSize
Counts(d, w) == IF d.speaking THEN InSpeech(d, w) ELSE InSilence(d, w)

DetInv == Counts(det, windows)

(* A run that is heard with the last window is no longer than the loud run.*)
LEMMA HeardLast ==
  ASSUME NEW w, NEW v, OneMore(v, w), v[Len(v)], NEW r \in Nat, LoudRun(w, r)
  PROVE  /\ \A i \in 1..Len(v) : Heard(v, i, Len(v)) => Len(w) - r + 1 <= i
         /\ Heard(v, Len(w) - r + 1, Len(v)) <=> (r + 1) * WindowSize >= MinSpeech
         /\ (r + 1) * WindowSize < MinSpeech =>
              \A i \in 1..Len(v) : ~Heard(v, i, Len(v))
<1> DEFINE n == Len(w)
           c == n - r + 1
<1>1. n \in Nat /\ Len(v) = n + 1 /\ \A k \in 1..n : v[k] = w[k]
  BY DEF OneMore
<1>2. c \in Nat /\ 1 <= c /\ c <= n + 1 /\ (n + 1) - c + 1 = r + 1
  BY <1>1 DEF LoudRun
<1>3. \A k \in Nat : c <= k /\ k <= n + 1 => v[k]
  <2>1. \A k \in c..n : w[k]
    BY DEF LoudRun, Loudly
  <2> QED
    BY <1>1, <1>2, <2>1
<1>4. c > 1 => c - 1 \in 1..n /\ ~v[c - 1]
  <2>1. c > 1 => r < n /\ c - 1 = n - r
    BY <1>1
  <2>2. c > 1 => ~w[c - 1]
    BY <2>1 DEF LoudRun
  <2> QED
    BY <1>1, <1>2, <2>2
<1> HIDE DEF c, n
<1>5. ASSUME NEW i \in 1..(n + 1), Heard(v, i, n + 1) PROVE c <= i
  <2>1. i < c => v[c - 1]
    BY <1>1, <1>2, <1>5 DEF Heard, Loudly
  <2> QED
    BY <1>1, <1>2, <1>4, <2>1
<1>6. Heard(v, c, n + 1) <=> (r + 1) * WindowSize >= MinSpeech
  <2>1. Loudly(v, c, n + 1)
    BY <1>1, <1>2, <1>3 DEF Loudly
  <2> QED
    BY <1>2, <2>1 DEF Heard, Lasts
<1>7. ASSUME (r + 1) * WindowSize < MinSpeech, NEW i \in 1..(n + 1), Heard(v, i, n + 1)
      PROVE  FALSE
  <2> DEFINE m == (n + 1) - i + 1
  <2>1. m \in Nat /\ m <= r + 1
    BY <1>1, <1>2, <1>5, <1>7
  <2>2. m * WindowSize >= MinSpeech
    BY <1>7 DEF Heard, Lasts
  <2> HIDE DEF m
  <2>3. m * WindowSize <= (r + 1) * WindowSize /\ m * WindowSize \in Nat
        /\ (r + 1) * WindowSize \in Nat
    BY <2>1, Longer
  <2> QED
    BY <1>7, <2>2, <2>3
<1> QED
  BY <1>1, <1>5, <1>6, <1>7 DEF c, n

(* The run that a loud window makes longer.                                *)
LEMMA RunGrows ==
  ASSUME NEW w, NEW v, OneMore(v, w)
  PROVE  /\ v[Len(v)] => \A r \in Nat : LoudRun(w, r) => LoudRun(v, r + 1)
         /\ v[Len(v)] => QuietRun(v, 0)
         /\ ~v[Len(v)] => \A q \in Nat : QuietRun(w, q) => QuietRun(v, q + 1)
         /\ ~v[Len(v)] => LoudRun(v, 0)
<1> DEFINE n == Len(w)
<1>1. n \in Nat /\ Len(v) = n + 1 /\ \A k \in 1..n : v[k] = w[k]
  BY DEF OneMore
<1>2. ASSUME v[Len(v)], NEW r \in Nat, LoudRun(w, r) PROVE LoudRun(v, r + 1)
  <2>1. (n + 1) - (r + 1) + 1 = n - r + 1 /\ (n + 1) - (r + 1) = n - r
        /\ n - r + 1 \in Nat \ {0}
    BY <1>1, <1>2 DEF LoudRun
  <2>2. Loudly(v, n - r + 1, n + 1)
    BY <1>1, <1>2, <2>1 DEF LoudRun, Loudly
  <2>3. r < n => ~v[n - r]
    BY <1>1, <1>2 DEF LoudRun
  <2>4. r + 1 <= n + 1
    BY <1>1, <1>2 DEF LoudRun
  <2> QED
    BY <1>1, <2>1, <2>2, <2>3, <2>4 DEF LoudRun
<1>3. ASSUME ~v[Len(v)], NEW q \in Nat, QuietRun(w, q) PROVE QuietRun(v, q + 1)
  <2>1. (n + 1) - (q + 1) + 1 = n - q + 1 /\ (n + 1) - (q + 1) = n - q
        /\ n - q + 1 \in Nat \ {0} /\ n - q \in 1..n
    BY <1>1, <1>3 DEF QuietRun
  <2>2. Quietly(v, n - q + 1, n + 1)
    BY <1>1, <1>3, <2>1 DEF QuietRun, Quietly
  <2>3. v[n - q] /\ q + 1 < n + 1
    BY <1>1, <1>3, <2>1 DEF QuietRun
  <2> QED
    BY <1>1, <2>1, <2>2, <2>3 DEF QuietRun
<1>4. v[Len(v)] => QuietRun(v, 0)
  BY <1>1 DEF QuietRun, Quietly
<1>5. ~v[Len(v)] => LoudRun(v, 0)
  BY <1>1 DEF LoudRun, Loudly
<1> QED
  BY <1>2, <1>3, <1>4, <1>5

(* Speech that goes on began where it began.                               *)
LEMMA SameFirst ==
  ASSUME NEW w, NEW v, OneMore(v, w), v[Len(v)], NEW f \in Nat, First(w, f)
  PROVE  First(v, f)
<1>1. v \in Seq(BOOLEAN) /\ w \in Seq(BOOLEAN) /\ Len(w) \in Nat /\ Len(v) = Len(w) + 1
      /\ \A k \in 1..Len(w) : v[k] = w[k]
  BY DEF OneMore
<1>2. f \in 1..Len(w) /\ f \in 1..Len(v)
  BY <1>1, SpeechFromMeans DEF First
<1>3. PICK j \in f..Len(w) : Heard(w, f, j) /\ ~Over(w, j)
  BY <1>1, SpeechFromMeans DEF First
<1>4. f \in SpeechFrom(v)
  BY <1>2, LoudWindow DEF First
<1>5. ASSUME NEW i \in SpeechFrom(v), i < f PROVE FALSE
  <2>1. i \in 1..Len(v) /\ i \in 1..Len(w)
    BY <1>1, <1>2, <1>5, SpeechFromMeans
  <2>2. i \notin SpeechFrom(w)
    BY <1>2, <1>5, <2>1 DEF First
  <2>3. Heard(v, i, Len(v))
    BY <2>1, <2>2, LoudWindow
  <2>4. Loudly(w, i, j) /\ j \in i..Len(w)
    BY <1>1, <1>2, <1>3, <1>5, <2>1, <2>3 DEF Heard, Loudly
  <2>5. Lasts(i, j, MinSpeech)
    <3>1. j - f + 1 \in Nat /\ j - i + 1 \in Nat /\ j - f + 1 <= j - i + 1
      BY <1>2, <1>3, <1>5, <2>1
    <3>2. (j - f + 1) * WindowSize <= (j - i + 1) * WindowSize
          /\ (j - f + 1) * WindowSize \in Nat /\ (j - i + 1) * WindowSize \in Nat
      BY <3>1, Longer
    <3> QED
      BY <1>3, <3>2 DEF Heard, Lasts
  <2> QED
    BY <1>1, <1>3, <2>1, <2>2, <2>4, <2>5, SpeechFromMeans DEF Heard
<1>6. \A i \in SpeechFrom(v) : i \in Nat
  BY <1>1, SpeechFromMeans
<1> QED
  BY <1>4, <1>5, <1>6 DEF First

LEMMA CountsLoud ==
  ASSUME NEW w, NEW v, OneMore(v, w), v[Len(v)], NEW d \in Detectors, Counts(d, w)
  PROVE  Counts(Loud(d), v)
<1> DEFINE e == Loud(d)
<1>1. /\ d.speechSamples \in Nat /\ d.utteranceSamples \in Nat /\ d.speaking \in BOOLEAN
      /\ Len(w) \in Nat /\ Len(v) = Len(w) + 1
      /\ v \in Seq(BOOLEAN) /\ w \in Seq(BOOLEAN)
  BY DEF Detectors, OneMore
<1>2. CASE d.speaking
  <2>1. PICK f \in Nat : First(w, f) /\ d.utteranceSamples = (Len(w) - f + 1) * WindowSize
    BY <1>2 DEF Counts, InSpeech
  <2>2. First(v, f)
    BY <2>1, SameFirst
  <2>3. Len(w) - f + 1 \in Nat /\ Len(v) - f + 1 = (Len(w) - f + 1) + 1
    BY <1>1, <2>1, SpeechFromMeans DEF First
  <2>4. e.speaking /\ e.silenceSamples = 0 /\ e.utteranceSamples = d.utteranceSamples + WindowSize
    BY <1>2 DEF Loud
  <2>5. e.utteranceSamples = (Len(v) - f + 1) * WindowSize
    BY <2>1, <2>3, <2>4, Longer
  <2>6. QuietRun(v, 0) /\ e.silenceSamples = 0 * WindowSize
    BY <2>4, RunGrows, Longer
  <2> QED
    BY <2>2, <2>4, <2>5, <2>6 DEF Counts, InSpeech
<1>3. CASE ~d.speaking
  <2>1. SpeechFrom(w) = {} /\ d.utteranceSamples = 0
    BY <1>3 DEF Counts, InSilence
  <2>2. PICK r \in Nat : LoudRun(w, r) /\ d.speechSamples = r * WindowSize
    BY <1>3 DEF Counts, InSilence
  <2> DEFINE speech == d.speechSamples + WindowSize
             c == Len(w) - r + 1
  <2>3. speech = (r + 1) * WindowSize /\ speech \in Nat
    BY <1>1, <2>2, Longer
  <2>4. c \in 1..Len(v) /\ c \in Nat /\ Len(v) - c + 1 = r + 1
    BY <1>1, <2>2 DEF LoudRun
  <2>5. \A i \in 1..Len(v) : i \in SpeechFrom(v) <=> Heard(v, i, Len(v))
    BY <2>1, LoudWindow
  <2>6. \A i \in SpeechFrom(v) : i \in 1..Len(v)
    BY <1>1, SpeechFromMeans
  <2>7. CASE speech >= MinSpeech
    <3>1. e.speaking /\ e.silenceSamples = 0 /\ e.utteranceSamples = speech
      BY <1>3, <2>7 DEF Loud
    <3>2. First(v, c)
      BY <2>2, <2>3, <2>4, <2>5, <2>6, <2>7, HeardLast DEF First
    <3>3. QuietRun(v, 0) /\ e.silenceSamples = 0 * WindowSize
      BY <3>1, RunGrows, Longer
    <3>4. e.utteranceSamples = (Len(v) - c + 1) * WindowSize
      BY <2>3, <2>4, <3>1
    <3> QED
      BY <2>4, <3>1, <3>2, <3>3, <3>4 DEF Counts, InSpeech
  <2>8. CASE ~(speech >= MinSpeech)
    <3>1. ~e.speaking /\ e.speechSamples = speech /\ e.utteranceSamples = 0
      BY <1>3, <2>1, <2>8 DEF Loud
    <3>2. SpeechFrom(v) = {}
      <4>1. (r + 1) * WindowSize < MinSpeech
        BY <2>3, <2>8
      <4> QED
        BY <2>2, <2>5, <2>6, <4>1, HeardLast
    <3>3. LoudRun(v, r + 1) /\ e.speechSamples = (r + 1) * WindowSize
      BY <2>2, <2>3, <3>1, RunGrows
    <3> QED
      BY <3>1, <3>2, <3>3 DEF Counts, InSilence
  <2> QED
    BY <2>7, <2>8
<1> QED
  BY <1>1, <1>2, <1>3

LEMMA CountsQuiet ==
  ASSUME NEW w, NEW v, OneMore(v, w), ~v[Len(v)], NEW d \in Detectors, Counts(d, w)
  PROVE  Counts(Quiet(d), v)
<1> DEFINE e == Quiet(d)
<1>1. /\ d.silenceSamples \in Nat /\ d.utteranceSamples \in Nat /\ d.speaking \in BOOLEAN
      /\ Len(w) \in Nat /\ Len(v) = Len(w) + 1
      /\ v \in Seq(BOOLEAN) /\ w \in Seq(BOOLEAN)
  BY DEF Detectors, OneMore
<1>2. LoudRun(v, 0)
  BY RunGrows
<1>3. CASE ~d.speaking
  <2>1. ~e.speaking /\ e.speechSamples = 0 * WindowSize /\ e.utteranceSamples = 0
    <3>1. d.utteranceSamples = 0
      BY <1>3 DEF Counts, InSilence
    <3>2. e = [d EXCEPT !.speechSamples = 0]
      BY <1>3 DEF Quiet
    <3> QED
      BY <1>3, <3>1, <3>2, Longer DEF Detectors
  <2>2. SpeechFrom(v) = {}
    <3>1. SpeechFrom(w) = {}
      BY <1>3 DEF Counts, InSilence
    <3> QED
      BY <3>1, QuietBegins
  <2> QED
    BY <1>2, <2>1, <2>2 DEF Counts, InSilence
<1>4. CASE d.speaking
  <2>1. PICK q \in Nat : QuietRun(w, q) /\ d.silenceSamples = q * WindowSize
    BY <1>4 DEF Counts, InSpeech
  <2>2. PICK f \in Nat : First(w, f) /\ d.utteranceSamples = (Len(w) - f + 1) * WindowSize
    BY <1>4 DEF Counts, InSpeech
  <2> DEFINE silence == d.silenceSamples + WindowSize
  <2>3. silence = (q + 1) * WindowSize /\ silence \in Nat
    BY <1>1, <2>1, Longer
  <2>4. SpeechFrom(v) = IF silence < MinSilence THEN SpeechFrom(w) ELSE {}
    BY <2>1, <2>3, QuietEnds DEF QuietRun
  <2>5. CASE silence < MinSilence
    <3>1. e = [d EXCEPT !.silenceSamples = silence, !.utteranceSamples = @ + WindowSize]
      BY <1>4, <2>5 DEF Quiet
    <3>2. e.speaking /\ e.silenceSamples = silence
          /\ e.utteranceSamples = d.utteranceSamples + WindowSize
      BY <1>4, <3>1 DEF Detectors
    <3>3. First(v, f)
      BY <2>2, <2>4, <2>5 DEF First
    <3>4. Len(w) - f + 1 \in Nat /\ Len(v) - f + 1 = (Len(w) - f + 1) + 1
      BY <1>1, <2>2, SpeechFromMeans DEF First
    <3>5. e.utteranceSamples = (Len(v) - f + 1) * WindowSize
      BY <2>2, <3>2, <3>4, Longer
    <3>6. QuietRun(v, q + 1)
      BY <2>1, RunGrows
    <3>7. e.silenceSamples = (q + 1) * WindowSize /\ q + 1 \in Nat
      BY <2>3, <3>2
    <3>8. Counts(e, v)
      <4> HIDE DEF e, silence
      <4> QED
        BY <3>2, <3>3, <3>5, <3>6, <3>7 DEF Counts, InSpeech
    <3> QED
      BY <3>8
  <2>6. CASE ~(silence < MinSilence)
    <3>1. e = NotSpeaking
      BY <1>4, <2>6 DEF Quiet
    <3>2. ~e.speaking /\ e.speechSamples = 0 * WindowSize /\ e.utteranceSamples = 0
      BY <3>1, Longer DEF NotSpeaking
    <3> QED
      BY <1>2, <2>4, <2>6, <3>2 DEF Counts, InSilence
  <2> QED
    BY <2>5, <2>6
<1> QED
  BY <1>1, <1>3, <1>4

LEMMA CountsNothing == Counts(NotSpeaking, <<>>)
<1>1. <<>> \in Seq(BOOLEAN) /\ Len(<<>>) = 0
  OBVIOUS
<1>2. SpeechFrom(<<>>) = {}
  <2>1. \A i : i \notin 1..Len(<<>>)
    BY <1>1
  <2> QED
    BY <1>1, <2>1, SpeechFromMeans
<1>3. LoudRun(<<>>, 0)
  BY <1>1 DEF LoudRun, Loudly
<1> QED
  BY <1>2, <1>3, Longer DEF Counts, InSilence, NotSpeaking

LEMMA DetInit == Init => DetInv
  BY CountsNothing DEF Init, DetInv

LEMMA DetStep == TypeOK /\ DetInv /\ [Next]_vars => DetInv'
<1> SUFFICES ASSUME TypeOK, DetInv, [Next]_vars PROVE DetInv'
  OBVIOUS
<1>1. CASE UNCHANGED <<det, windows>>
  BY <1>1 DEF DetInv
<1>2. CASE TakeReset
  BY <1>2, CountsNothing DEF TakeReset, DetInv
<1>3. CASE Infer
  <2>1. PICK loud \in BOOLEAN : det' = Step(det, loud) /\ windows' = Append(windows, loud)
    BY <1>3 DEF Infer
  <2>2. OneMore(windows', windows) /\ windows'[Len(windows')] = loud
    BY <2>1, OneMoreAppended DEF TypeOK, OneMore
  <2>3. det \in Detectors /\ Counts(det, windows)
    BY DEF TypeOK, DetInv
  <2>4. CASE loud
    <3>1. Counts(Loud(det), windows')
      BY <2>2, <2>3, <2>4, CountsLoud
    <3> QED
      BY <2>1, <2>4, <3>1 DEF Step, DetInv
  <2>5. CASE ~loud
    <3>1. Counts(Quiet(det), windows')
      BY <2>2, <2>3, <2>5, CountsQuiet
    <3> QED
      BY <2>1, <2>5, <3>1 DEF Step, DetInv
  <2> QED
    BY <2>4, <2>5
<1>4. CASE Calling \/ Receive \/ Close \/ ContextEnds \/ UNCHANGED vars
  <2>1. UNCHANGED <<det, windows>>
    BY <1>4 DEF Calling, PushFrame, Flush, EndInput, SendCtl, SendCtlAbandoned, Receive,
                Close, ContextEnds, vars, runVars
  <2> QED
    BY <1>1, <2>1
<1>5. CASE TakeFrame \/ Emit \/ EmitAbandoned \/ Return
  <2>1. UNCHANGED <<det, windows>>
    BY <1>5 DEF TakeFrame, Emit, EmitAbandoned, Return
  <2> QED
    BY <1>1, <2>1
<1> QED
  BY <1>2, <1>3, <1>4, <1>5 DEF Next, Running

LEMMA DetCorrect == TypeOK /\ DetInv => DetectorCorrect
<1> SUFFICES ASSUME TypeOK, DetInv PROVE DetectorCorrect
  OBVIOUS
<1>1. det.speaking \in BOOLEAN /\ windows \in Seq(BOOLEAN)
  BY DEF TypeOK, Detectors
<1>2. CASE ~det.speaking
  BY <1>1, <1>2 DEF DetInv, Counts, InSilence, DetectorCorrect, Utterance
<1>3. CASE det.speaking
  <2>1. PICK f \in Nat :
          First(windows, f) /\ det.utteranceSamples = (Len(windows) - f + 1) * WindowSize
    BY <1>3 DEF DetInv, Counts, InSpeech
  <2> DEFINE IsFirst(i) == \A j \in SpeechFrom(windows) : i <= j
             first == CHOOSE i \in SpeechFrom(windows) : IsFirst(i)
  <2>2. \A i \in SpeechFrom(windows) : i \in Nat
    BY <1>1, SpeechFromMeans
  <2>3. f \in SpeechFrom(windows) /\ IsFirst(f)
    BY <2>1 DEF First
  <2>4. first \in SpeechFrom(windows) /\ IsFirst(first)
    <3> HIDE DEF IsFirst
    <3> QED
      BY <2>3
  <2>5. first = f
    <3> HIDE DEF first
    <3> QED
      BY <2>2, <2>3, <2>4
  <2>6. Utterance(windows) = (Len(windows) - first + 1) * WindowSize
    BY <2>3 DEF Utterance
  <2>7. SpeechFrom(windows) # {}
    BY <2>3
  <2> QED
    BY <1>3, <2>1, <2>5, <2>6, <2>7 DEF DetectorCorrect
<1> QED
  BY <1>1, <1>2, <1>3

(* Fed window by window, the detector says what its definition says of all *)
(* the windows since the last reset, for every size of window and every    *)
(* minimum of speech and silence.                                          *)
THEOREM DetectorCorrectHolds == Spec => []DetectorCorrect
  BY DetInit, DetStep, DetCorrect, SileroTypeCorrect, PTL DEF Spec
=============================================================================
