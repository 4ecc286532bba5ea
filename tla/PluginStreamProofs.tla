------------------------- MODULE PluginStreamProofs -------------------------
(***************************************************************************)
(* Proofs about PluginStreams, the streams of the three network plugins,   *)
(* for any number of messages and calls and any capacity of the channel.   *)
(*   TypeInv    the types, and how many segments there can be;             *)
(*   CloseInv   which of the two callers of Close has found st.closed      *)
(*              unset, and may close st.done;                              *)
(*   ErrInv     which read is reported as an error;                        *)
(*   EndInv     why a reader has stopped reading;                          *)
(*   SegmentInv what Cartesia is told next.                                *)
(***************************************************************************)
EXTENDS PluginStreams, SequenceTheorems, TLAPS

USE BoundsAssumption

-----------------------------------------------------------------------------
(* The steps of the three plugins, sorted by what they are about.          *)

CallStep == PushFrame \/ EndInput \/ PushText \/ Flush \/ EndText \/ FlushResets

SendStep ==
  \/ SendRefused \/ KeepAliveReturns
  \/ \E w \in Writers : SendBegins(w) \/ WriteBegins(w) \/ WriteEnds(w)

ReadStep == ReadEvents \/ ReadAudio \/ ReadError \/ ReadResponse

EmitStep == Emit \/ EmitAbandoned \/ RunAbandons

EndStep == ReadFails \/ RunEnds \/ SetErr \/ CloseChan

CloseStep ==
  \/ \E c \in Closers : CloseBegins(c) \/ CloseSignals(c) \/ CloseConn(c)
  \/ WatcherReturns

ConnStep == ConnEnds \/ ServerStalls \/ LastResponse

LEMMA StepCases ==
  [Next]_vars =>
    \/ CallStep \/ SendStep \/ ReadStep \/ EmitStep \/ EndStep \/ CloseStep \/ ConnStep
    \/ Receive \/ ContextEnds \/ UNCHANGED vars
<1> DEFINE Steps ==
      \/ CallStep \/ SendStep \/ ReadStep \/ EmitStep \/ EndStep \/ CloseStep \/ ConnStep
      \/ Receive \/ ContextEnds \/ UNCHANGED vars
<1>1. DeepgramNext => Steps
  BY DEF DeepgramNext, CallStep, SendStep, ReadStep, EmitStep, EndStep, CloseStep, ConnStep,
         DeepgramEnds
<1>2. CartesiaNext => Steps
  BY DEF CartesiaNext, CartesiaSends, CartesiaReads, CartesiaSetsErr, CartesiaEmits,
         CartesiaCloses, CartesiaWatches, CallStep, SendStep, ReadStep, EmitStep, EndStep,
         CloseStep, Writers
<1>3. GeminiNext => Steps
  BY DEF GeminiNext, RunEmits, RunSetsErr, RunReturns, GeminiCloses, ReadStep, EmitStep,
         EndStep, CloseStep, ConnStep, Closers
<1> QED
  BY <1>1, <1>2, <1>3 DEF Next, ConnStep

-----------------------------------------------------------------------------
(* Types.                                                                  *)

(* A segment is begun by a call, and by EndInput once.                     *)
TypeInv ==
  /\ TypeOK
  /\ ctxN <= calls + (IF inputEnded THEN 1 ELSE 0)

LEMMA TypeInit == Init => TypeInv
<1> SUFFICES ASSUME Init PROVE TypeInv
  OBVIOUS
<1>1. PICK p \in Plugins, dialed \in BOOLEAN : Opens(p, dialed)
  BY DEF Init, DeepgramOpens, CartesiaOpens, GeminiOpens, Plugins
<1>2. /\ sent \in Seq([segment : Nat, last : BOOLEAN])
      /\ pending \in Seq(Items) /\ items \in Seq(Items) /\ due \in Seq(Items)
      /\ Len(items) = 0
  BY <1>1, EmptySeq DEF Opens
<1>3. at \in [Writers -> {"idle", "ready", "writing"}]
  BY <1>1 DEF Opens
<1>4. closing \in [Closers -> {"idle", "flagged", "signalled", "finished"}]
  BY <1>1 DEF Opens
<1>5. {inputEnded, segment, keeper, failed, err, closed, done, ctxDone} \subseteq BOOLEAN
  BY <1>1 DEF Opens
<1>6. Len(items) <= ChanCap /\ calls \in 0..MaxWork /\ got \in 0..MaxMessages
      /\ ctxN \in 0..(MaxWork + 1)
  BY <1>1, <1>2 DEF Opens
<1>7. /\ call = "none" /\ closes = 0 /\ conn \in {"open", "none"}
      /\ reader \in {"reading", "returned"}
      /\ ctxN = 0 /\ calls = 0
  BY <1>1 DEF Opens
<1>8. plugin \in Plugins
  BY <1>1 DEF Opens
<1> QED
  BY <1>2, <1>3, <1>4, <1>5, <1>6, <1>7, <1>8 DEF TypeInv, TypeOK, Live

LEMMA CallTyped == TypeInv /\ CallStep => TypeInv'
<1> SUFFICES ASSUME TypeInv, CallStep PROVE TypeInv'
  OBVIOUS
<1> USE DEF TypeInv, TypeOK, readVars, closeVars, sendVars, chanVars
<1>0. {inputEnded', segment', keeper', failed', err', closed', done', ctxDone'}
        \subseteq BOOLEAN
  BY DEF CallStep, PushFrame, EndInput, PushText, Flush, PushOrFlush, EndText, FlushResets,
         CurrentCtx, NextSegment
<1>1. CASE PushFrame \/ EndInput
  BY <1>0, <1>1 DEF PushFrame, EndInput, LastMessage
<1>2. CASE PushText
  BY <1>0, <1>2 DEF PushText, PushOrFlush, CurrentCtx
<1>3. CASE Flush
  BY <1>0, <1>3 DEF Flush, PushOrFlush, CurrentCtx
<1>4. CASE EndText
  BY <1>0, <1>4 DEF EndText, CurrentCtx
<1>5. CASE FlushResets
  BY <1>0, <1>5 DEF FlushResets, NextSegment
<1> QED
  BY <1>1, <1>2, <1>3, <1>4, <1>5 DEF CallStep

LEMMA SendTyped == TypeInv /\ SendStep => TypeInv'
<1> SUFFICES ASSUME TypeInv, SendStep PROVE TypeInv'
  OBVIOUS
<1> USE DEF TypeInv, TypeOK, callVars, readVars, closeVars, chanVars
<1>1. CASE SendRefused \/ KeepAliveReturns
  <2>1. {inputEnded', segment', keeper', failed', err', closed', done', ctxDone'}
          \subseteq BOOLEAN
    BY <1>1 DEF SendRefused, KeepAliveReturns, sendVars
  <2> QED
    BY <1>1, <2>1 DEF SendRefused, KeepAliveReturns, sendVars, AfterSend
<1>2. ASSUME NEW w \in Writers, SendBegins(w) \/ WriteBegins(w)
      PROVE  TypeInv'
  <2>1. at' \in [Writers -> {"idle", "ready", "writing"}]
    BY <1>2 DEF SendBegins, WriteBegins
  <2> QED
    BY <1>2, <2>1 DEF SendBegins, WriteBegins
<1>3. ASSUME NEW w \in Writers, WriteEnds(w)
      PROVE  TypeInv'
  <2> DEFINE told == [segment |-> ctxN, last |-> call # "push"]
  <2>1. Append(sent, told) \in Seq([segment : Nat, last : BOOLEAN])
    <3>1. told \in [segment : Nat, last : BOOLEAN]
      OBVIOUS
    <3> QED
      BY <3>1, AppendProperties
  <2>2. sent' \in Seq([segment : Nat, last : BOOLEAN])
    BY <1>3, <2>1 DEF WriteEnds
  <2>3. conn' \in Live \cup {"none", "lost", "ended", "closed"}
    BY <1>3 DEF WriteEnds, Live
  <2>4. call' \in {"none", "push", "flush", "reset", "end"}
    BY <1>3 DEF WriteEnds, AfterSend
  <2>5. at' \in [Writers -> {"idle", "ready", "writing"}]
    BY <1>3 DEF WriteEnds
  <2> QED
    BY <1>3, <2>2, <2>3, <2>4, <2>5 DEF WriteEnds
<1> QED
  BY <1>1, <1>2, <1>3 DEF SendStep

(* Every kind of message becomes a sequence of items.                      *)
LEMMA ReadCases == ReadStep => \E new \in Seq(Items) : Read(new)
<1>1. \A i \in Items : <<i>> \in Seq(Items)
  OBVIOUS
<1>2. /\ <<>> \in Seq(Items)
      /\ <<"InterimTranscript", "EndOfSpeech">> \in Seq(Items)
      /\ <<"FinalTranscript", "EndOfSpeech">> \in Seq(Items)
  BY DEF Items
<1>3. ReadEvents => \E new \in Seq(Items) : Read(new)
  <2>1. \A m \in DOMAIN Handle :
          Handle[m] \in {<<"StartOfSpeech">>, <<"EndOfSpeech">>, <<"InterimTranscript">>,
                        <<"InterimTranscript", "EndOfSpeech">>, <<"FinalTranscript">>,
                        <<"FinalTranscript", "EndOfSpeech">>, <<>>}
    BY DEF Handle
  <2>2. \A m \in DOMAIN Handle : Handle[m] \in Seq(Items)
    BY <1>1, <1>2, <2>1 DEF Items
  <2> QED
    BY <2>2 DEF ReadEvents
<1>4. ReadAudio \/ ReadError => \E new \in Seq(Items) : Read(new)
  BY <1>1, <1>2 DEF ReadAudio, ReadError, Items
<1>5. ReadResponse => \E new \in Seq(Items) : Read(new)
  <2>1. \A r \in DOMAIN RespToChunk : RespToChunk[r] \in {<<"chunk">>, <<>>}
    BY DEF RespToChunk
  <2>2. \A r \in DOMAIN RespToChunk : RespToChunk[r] \in Seq(Items)
    BY <1>1, <1>2, <2>1 DEF Items
  <2> QED
    BY <2>2 DEF ReadResponse
<1> QED
  BY <1>3, <1>4, <1>5 DEF ReadStep

LEMMA ReadTyped == TypeInv /\ ReadStep => TypeInv'
<1> SUFFICES ASSUME TypeInv, ReadStep PROVE TypeInv'
  OBVIOUS
<1>1. PICK new \in Seq(Items) : Read(new)
  BY ReadCases
<1>2. due' \in Seq(Items) /\ pending' \in Seq(Items)
  BY <1>1, ConcatProperties DEF Read, TypeInv, TypeOK
<1>3. failed' \in BOOLEAN /\ err' \in BOOLEAN
  BY DEF ReadStep, ReadEvents, ReadAudio, ReadError, ReadResponse, TypeInv, TypeOK
<1>4. got' \in 0..MaxMessages
  BY <1>1 DEF Read, TypeInv, TypeOK
<1> QED
  BY <1>1, <1>2, <1>3, <1>4 DEF Read, TypeInv, TypeOK, callVars, sendVars, closeVars

LEMMA EmitTyped == TypeInv /\ EmitStep => TypeInv'
<1> SUFFICES ASSUME TypeInv, EmitStep PROVE TypeInv'
  OBVIOUS
<1> USE DEF TypeInv, TypeOK, callVars, sendVars, closeVars
<1>1. CASE Emit
  <2>1. Head(pending) \in Items /\ pending' \in Seq(Items)
    BY <1>1, HeadTailProperties DEF Emit
  <2>2. items' \in Seq(Items) /\ Len(items') = Len(items) + 1
    BY <1>1, <2>1, AppendProperties DEF Emit, Put
  <2>3. Len(items') <= ChanCap
    BY <1>1, <2>2, LenProperties DEF Emit, Put
  <2> QED
    BY <1>1, <2>1, <2>2, <2>3 DEF Emit
<1>2. CASE EmitAbandoned
  <2>1. pending' \in Seq(Items)
    BY <1>2, HeadTailProperties DEF EmitAbandoned
  <2> QED
    BY <1>2, <2>1 DEF EmitAbandoned, chanVars
<1>3. CASE RunAbandons
  BY <1>3, EmptySeq DEF RunAbandons, chanVars
<1> QED
  BY <1>1, <1>2, <1>3 DEF EmitStep

LEMMA EndTyped == TypeInv /\ EndStep => TypeInv'
<1> SUFFICES ASSUME TypeInv, EndStep PROVE TypeInv'
  OBVIOUS
<1>1. {inputEnded', segment', keeper', failed', err', closed', done', ctxDone'}
        \subseteq BOOLEAN
  BY DEF EndStep, ReadFails, RunEnds, SetErr, CloseChan, TypeInv, TypeOK, callVars, sendVars,
         closeVars
<1>2. reader' \in {"reading", "failing", "returning", "returned"}
  BY DEF EndStep, ReadFails, RunEnds, SetErr, CloseChan
<1> QED
  BY <1>1, <1>2
     DEF EndStep, ReadFails, RunEnds, SetErr, CloseChan, TypeInv, TypeOK, callVars, sendVars,
         chanVars, closeVars

LEMMA CloseTyped == TypeInv /\ CloseStep => TypeInv'
<1> SUFFICES ASSUME TypeInv, CloseStep PROVE TypeInv'
  OBVIOUS
<1> USE DEF TypeInv, TypeOK, callVars, sendVars, readVars, chanVars
<1>1. closing' \in [Closers -> {"idle", "flagged", "signalled", "finished"}]
  <2>1. ASSUME NEW c \in Closers, CloseBegins(c) \/ CloseSignals(c) \/ CloseConn(c)
        PROVE  closing' \in [Closers -> {"idle", "flagged", "signalled", "finished"}]
    BY <2>1 DEF CloseBegins, AfterFlag, CloseSignals, CloseConn
  <2>2. CASE WatcherReturns
    BY <2>2 DEF WatcherReturns
  <2> QED
    BY <2>1, <2>2 DEF CloseStep
<1>2. closes' \in Nat /\ closed' \in BOOLEAN /\ done' \in BOOLEAN
  <2>1. closes \in Nat /\ closed \in BOOLEAN /\ done \in BOOLEAN
    OBVIOUS
  <2>2. closes' \in {closes, closes + 1}
    BY DEF CloseStep, CloseBegins, CloseSignals, CloseConn, WatcherReturns
  <2>3. closed' \in {closed, TRUE} /\ done' \in {done, TRUE}
    BY DEF CloseStep, CloseBegins, CloseSignals, CloseConn, WatcherReturns
  <2>4. closes' \in Nat
    BY <2>1, <2>2
  <2> QED
    BY <2>1, <2>3, <2>4
<1>3. conn' \in Live \cup {"none", "lost", "ended", "closed"}
  BY DEF CloseStep, CloseBegins, CloseSignals, CloseConn, WatcherReturns
<1>4. due' \in Seq(Items) /\ items' = items
  <2>1. <<>> \in Seq(Items)
    BY EmptySeq
  <2> QED
    BY <2>1 DEF CloseStep, CloseBegins, CloseSignals, CloseConn, WatcherReturns
<1>5. UNCHANGED <<plugin, callVars, sendVars, readVars, ctxDone>>
  BY DEF CloseStep, CloseBegins, CloseSignals, CloseConn, WatcherReturns
<1> QED
  BY <1>1, <1>2, <1>3, <1>4, <1>5

LEMMA OthersTyped ==
  TypeInv /\ (ConnStep \/ Receive \/ ContextEnds \/ UNCHANGED vars) => TypeInv'
<1> SUFFICES ASSUME TypeInv, ConnStep \/ Receive \/ ContextEnds \/ UNCHANGED vars
             PROVE  TypeInv'
  OBVIOUS
<1> USE DEF TypeInv, TypeOK, callVars, sendVars, readVars, closeVars
<1>1. CASE ConnStep
  BY <1>1 DEF ConnStep, ConnEnds, ServerStalls, LastResponse, ConnBecomes, Live, chanVars
<1>2. CASE Receive
  <2>1. items' \in Seq(Items) /\ Len(items') = Len(items) - 1
    BY <1>2, HeadTailProperties DEF Receive
  <2>2. due' \in Seq(Items)
    BY <1>2, HeadTailProperties DEF Receive
  <2>3. Len(items') <= ChanCap
    BY <2>1, LenProperties
  <2> QED
    BY <1>2, <2>1, <2>2, <2>3 DEF Receive
<1>3. CASE ContextEnds
  BY <1>3 DEF ContextEnds, chanVars
<1>4. CASE UNCHANGED vars
  BY <1>4 DEF vars, chanVars
<1> QED
  BY <1>1, <1>2, <1>3, <1>4

LEMMA TypeInvHolds == Spec => []TypeInv
<1>1. TypeInv /\ [Next]_vars => TypeInv'
  BY StepCases, CallTyped, SendTyped, ReadTyped, EmitTyped, EndTyped, CloseTyped, OthersTyped
<1> QED
  BY TypeInit, <1>1, PTL DEF Spec

(* A stream is always well typed: its channel is within its capacity, and  *)
(* no more segments are begun than there are calls.                        *)
THEOREM StreamTypeCorrect == Spec => []TypeOK
<1>1. TypeInv => TypeOK
  BY DEF TypeInv
<1> QED
  BY TypeInvHolds, <1>1, PTL

-----------------------------------------------------------------------------
(* Close.  Besides its own steps nothing changes what it looks at.         *)

LEMMA CloseFrame ==
  [Next]_vars => CloseStep \/ UNCHANGED <<closed, done, closes, closing>>
<1> SUFFICES ASSUME [Next]_vars
             PROVE  CloseStep \/ UNCHANGED <<closed, done, closes, closing>>
  OBVIOUS
<1> USE DEF closeVars
<1>1. CallStep => UNCHANGED <<closed, done, closes, closing>>
  BY DEF CallStep, PushFrame, EndInput, PushText, Flush, PushOrFlush, EndText, FlushResets
<1>2. SendStep => UNCHANGED <<closed, done, closes, closing>>
  BY DEF SendStep, SendRefused, KeepAliveReturns, SendBegins, WriteBegins, WriteEnds
<1>3. ReadStep => UNCHANGED <<closed, done, closes, closing>>
  BY ReadCases DEF Read
<1>4. EmitStep \/ EndStep => UNCHANGED <<closed, done, closes, closing>>
  BY DEF EmitStep, Emit, EmitAbandoned, RunAbandons, EndStep, ReadFails, RunEnds, SetErr,
         CloseChan
<1>5. ConnStep \/ Receive \/ ContextEnds \/ UNCHANGED vars
        => UNCHANGED <<closed, done, closes, closing>>
  BY DEF ConnStep, ConnEnds, ServerStalls, LastResponse, ConnBecomes, Receive, ContextEnds,
         vars
<1> QED
  BY <1>1, <1>2, <1>3, <1>4, <1>5, StepCases

CloseInv ==
  /\ closing \in [Closers -> {"idle", "flagged", "signalled", "finished"}]
  /\ closes \in {0, 1}
  /\ ~closed => ~done /\ closes = 0
  /\ ~closed => \A c \in Closers : closing[c] \notin {"flagged", "signalled"}
  /\ \A c \in Closers : closing[c] = "flagged" => closes = 0
  /\ \A c, d \in Closers : closing[c] = "flagged" /\ closing[d] = "flagged" => c = d

LEMMA CloseInit == Init => CloseInv
  BY DEF Init, DeepgramOpens, CartesiaOpens, GeminiOpens, Opens, CloseInv

LEMMA CloseNext == CloseInv /\ [Next]_vars => CloseInv'
<1> SUFFICES ASSUME CloseInv, [Next]_vars PROVE CloseInv'
  OBVIOUS
<1> USE DEF CloseInv
<1>1. ASSUME NEW c \in Closers, CloseBegins(c) PROVE CloseInv'
  BY <1>1 DEF CloseBegins, AfterFlag
<1>2. ASSUME NEW c \in Closers, CloseSignals(c) PROVE CloseInv'
  BY <1>2 DEF CloseSignals
<1>3. ASSUME NEW c \in Closers, CloseConn(c) PROVE CloseInv'
  BY <1>3 DEF CloseConn
<1>4. CASE WatcherReturns
  BY <1>4 DEF WatcherReturns, Closers
<1>5. CASE UNCHANGED <<closed, done, closes, closing>>
  BY <1>5
<1> QED
  BY <1>1, <1>2, <1>3, <1>4, <1>5, CloseFrame DEF CloseStep

LEMMA CloseCorrect == Spec => []CloseInv
  BY CloseInit, CloseNext, PTL DEF Spec

(* The owner's Close and the watcher's never both close st.done: only the  *)
(* one that found st.closed unset goes on.                                 *)
THEOREM DoneClosedOnceHolds == Spec => []DoneClosedOnce
<1>1. CloseInv => DoneClosedOnce
  BY DEF CloseInv, DoneClosedOnce
<1> QED
  BY <1>1, CloseCorrect, PTL

-----------------------------------------------------------------------------
(* The error.  A connection is closed by Close only, which has set         *)
(* st.closed before; and only Gemini's has an end that is no failure.      *)

ErrInv ==
  /\ conn \in Live \cup {"none", "lost", "ended", "closed"}
  /\ conn = "closed" => closed
  /\ conn = "ended" => plugin = "gemini"
  /\ reader = "failing" => conn \in {"lost", "none"}
  /\ ErrIsReal

LEMMA ErrInit == Init => ErrInv
  BY DEF Init, DeepgramOpens, CartesiaOpens, GeminiOpens, Opens, ErrInv, ErrIsReal, Live

LEMMA ErrNext == CloseInv /\ ErrInv /\ [Next]_vars => ErrInv'
<1> SUFFICES ASSUME CloseInv, ErrInv, [Next]_vars PROVE ErrInv'
  OBVIOUS
<1> USE DEF ErrInv, ErrIsReal, Live, readVars, closeVars
<1>1. CASE CallStep
  BY <1>1 DEF CallStep, PushFrame, EndInput, PushText, Flush, PushOrFlush, EndText,
              FlushResets
<1>2. CASE SendStep
  BY <1>2 DEF SendStep, SendRefused, KeepAliveReturns, SendBegins, WriteBegins, WriteEnds
<1>3. CASE ReadStep
  BY <1>3 DEF ReadStep, ReadEvents, ReadAudio, ReadError, ReadResponse, Read
<1>4. CASE EmitStep
  BY <1>4 DEF EmitStep, Emit, EmitAbandoned, RunAbandons
<1>5. CASE EndStep
  BY <1>5 DEF EndStep, ReadFails, OwnFault, RunEnds, SetErr, CloseChan
<1>6. ASSUME NEW c \in Closers, CloseBegins(c) \/ CloseSignals(c)
      PROVE  ErrInv'
  BY <1>6 DEF CloseBegins, CloseSignals
<1>7. ASSUME NEW c \in Closers, CloseConn(c)
      PROVE  ErrInv'
  BY <1>7 DEF CloseConn, CloseInv
<1>8. CASE WatcherReturns
  BY <1>8 DEF WatcherReturns
<1>9. CASE ConnStep
  BY <1>9 DEF ConnStep, ConnEnds, ServerStalls, LastResponse, ConnBecomes
<1>10. CASE Receive \/ ContextEnds \/ UNCHANGED vars
  BY <1>10 DEF Receive, ContextEnds, vars
<1> QED
  BY <1>1, <1>2, <1>3, <1>4, <1>5, <1>6, <1>7, <1>8, <1>9, <1>10, StepCases DEF CloseStep

LEMMA ErrInvHolds == Spec => []ErrInv
  BY ErrInit, ErrNext, CloseCorrect, PTL DEF Spec

(* An error that a stream reports is one of its service or its connection: *)
(* the reads that fail because the stream is closed are not reported.      *)
THEOREM ErrIsRealHolds == Spec => []ErrIsReal
<1>1. ErrInv => ErrIsReal
  BY DEF ErrInv
<1> QED
  BY <1>1, ErrInvHolds, PTL

-----------------------------------------------------------------------------
(* The contract.  A reader goes to its return with an error that is set,   *)
(* because it was asked to, or because there is nothing more to come.      *)

EndInv ==
  reader \in {"returning", "returned"} => err \/ closed \/ ctxDone \/ conn = "ended"

LEMMA EndInit == Init => EndInv
  BY DEF Init, DeepgramOpens, CartesiaOpens, GeminiOpens, Opens, EndInv

LEMMA EndNext == CloseInv /\ EndInv /\ [Next]_vars => EndInv'
<1> SUFFICES ASSUME CloseInv, EndInv, [Next]_vars PROVE EndInv'
  OBVIOUS
<1> USE DEF EndInv, Live, readVars, closeVars
<1>1. CASE CallStep
  BY <1>1 DEF CallStep, PushFrame, EndInput, PushText, Flush, PushOrFlush, EndText,
              FlushResets
<1>2. CASE SendStep
  BY <1>2 DEF SendStep, SendRefused, KeepAliveReturns, SendBegins, WriteBegins, WriteEnds
<1>3. CASE ReadStep
  BY <1>3 DEF ReadStep, ReadEvents, ReadAudio, ReadError, ReadResponse, Read
<1>4. CASE EmitStep
  BY <1>4 DEF EmitStep, Emit, EmitAbandoned, RunAbandons, RunCancelled, CloseInv
<1>5. CASE EndStep
  BY <1>5 DEF EndStep, ReadFails, OwnFault, RunEnds, RunCancelled, SetErr, CloseChan, CloseInv
<1>6. CASE CloseStep
  BY <1>6 DEF CloseStep, CloseBegins, CloseSignals, CloseConn, WatcherReturns
<1>7. CASE ConnStep
  BY <1>7 DEF ConnStep, ConnEnds, ServerStalls, LastResponse, ConnBecomes
<1>8. CASE Receive \/ ContextEnds \/ UNCHANGED vars
  BY <1>8 DEF Receive, ContextEnds, vars
<1> QED
  BY <1>1, <1>2, <1>3, <1>4, <1>5, <1>6, <1>7, <1>8, StepCases

LEMMA EndInvHolds == Spec => []EndInv
  BY EndInit, EndNext, CloseCorrect, PTL DEF Spec

(* Each step of a stream is a step of the contract or is not seen there.   *)
LEMMA ContractStep == EndInv /\ [Next]_vars => [Contract!Next]_(Contract!vars)
<1> SUFFICES ASSUME EndInv, [Next]_vars PROVE [Contract!Next]_(Contract!vars)
  OBVIOUS
<1> DEFINE Unseen == UNCHANGED <<reader, err, closed, ctxDone, conn>>
<1> USE DEF readVars, closeVars
<1>1. Unseen => UNCHANGED Contract!vars
  BY DEF Contract!vars
<1>2. CASE CallStep
  <2>1. Unseen
    BY <1>2 DEF CallStep, PushFrame, EndInput, PushText, Flush, PushOrFlush, EndText,
                FlushResets
  <2> QED
    BY <1>1, <2>1
<1>3. CASE SendStep
  <2>1. UNCHANGED <<reader, err, closed, ctxDone>> /\ (conn = "ended" <=> conn' = "ended")
    BY <1>3 DEF SendStep, SendRefused, KeepAliveReturns, SendBegins, WriteBegins, WriteEnds
  <2> QED
    BY <2>1 DEF Contract!vars
<1>4. CASE ReadStep
  <2>1. /\ reader = "reading" /\ UNCHANGED <<reader, closed, ctxDone, conn>>
        /\ err' = TRUE \/ err' = err
    BY <1>4 DEF ReadStep, ReadEvents, ReadAudio, ReadError, ReadResponse, Read
  <2> QED
    BY <2>1 DEF Contract!vars, Contract!Next, Contract!Fail
<1>5. CASE EmitStep
  <2>1. /\ reader = "reading" /\ reader' # "returned"
        /\ UNCHANGED <<err, closed, ctxDone, conn>>
    BY <1>5 DEF EmitStep, Emit, EmitAbandoned, RunAbandons
  <2> QED
    BY <2>1 DEF Contract!vars
<1>6. CASE ReadFails \/ RunEnds
  <2>1. /\ reader = "reading" /\ reader' # "returned"
        /\ UNCHANGED <<err, closed, ctxDone, conn>>
    BY <1>6 DEF ReadFails, RunEnds
  <2> QED
    BY <2>1 DEF Contract!vars
<1>7. CASE SetErr
  BY <1>7 DEF SetErr, Contract!vars, Contract!Next, Contract!Fail
<1>8. CASE CloseChan
  BY <1>8 DEF CloseChan, EndInv, Contract!Next, Contract!End
<1>9. ASSUME NEW c \in Closers, CloseBegins(c)
      PROVE  [Contract!Next]_(Contract!vars)
  BY <1>9 DEF CloseBegins, Contract!vars, Contract!Next, Contract!Ask
<1>10. ASSUME NEW c \in Closers, CloseSignals(c) \/ CloseConn(c)
       PROVE  [Contract!Next]_(Contract!vars)
  <2>1. UNCHANGED <<reader, err, closed, ctxDone>> /\ (conn = "ended" <=> conn' = "ended")
    BY <1>10 DEF CloseSignals, CloseConn, Live
  <2> QED
    BY <2>1 DEF Contract!vars
<1>11. CASE WatcherReturns
  <2>1. Unseen
    BY <1>11 DEF WatcherReturns
  <2> QED
    BY <1>1, <2>1
<1>12. CASE ConnEnds \/ ServerStalls
  <2>1. UNCHANGED <<reader, err, closed, ctxDone>> /\ (conn = "ended" <=> conn' = "ended")
    BY <1>12 DEF ConnEnds, ServerStalls, ConnBecomes, Live
  <2> QED
    BY <2>1 DEF Contract!vars
<1>13. CASE LastResponse
  BY <1>13 DEF LastResponse, ConnBecomes, Live, Contract!Next, Contract!Complete
<1>14. CASE Receive \/ UNCHANGED vars
  <2>1. Unseen
    BY <1>14 DEF Receive, vars
  <2> QED
    BY <1>1, <2>1
<1>15. CASE ContextEnds
  BY <1>15 DEF ContextEnds, Contract!vars, Contract!Next, Contract!Ask
<1> QED
  BY <1>2, <1>3, <1>4, <1>5, <1>6, <1>7, <1>8, <1>9, <1>10, <1>11, <1>12, <1>13, <1>14,
     <1>15, StepCases DEF EndStep, CloseStep, ConnStep

(* Every stream of the three plugins implements StreamContract in all that *)
(* it does: the channel is closed once, with its error settled before, and *)
(* never without an error, a request to end or the end of what there is.   *)
THEOREM ContractKept == Spec => Contract!Safety
<1>1. Init => Contract!Init
  <2> SUFFICES ASSUME NEW p \in Plugins, NEW dialed \in BOOLEAN, Opens(p, dialed)
               PROVE  Contract!Init
    BY DEF Init, DeepgramOpens, CartesiaOpens, GeminiOpens, Plugins
  <2> QED
    BY DEF Opens, Contract!Init
<1> QED
  BY <1>1, ContractStep, EndInvHolds, PTL DEF Spec, Contract!Safety

-----------------------------------------------------------------------------
(* The items.                                                              *)

LEMMA ItemsInit == Init => ItemsInOrder
<1> SUFFICES ASSUME Init PROVE items \o pending = due
  BY DEF ItemsInOrder
<1>1. items = <<>> /\ pending = <<>> /\ due = <<>>
  BY DEF Init, DeepgramOpens, CartesiaOpens, GeminiOpens, Opens
<1> QED
  BY <1>1, EmptySeq, ConcatEmptySeq

(* An item is moved from the front of one sequence to the end of another.  *)
LEMMA MoveItem ==
  ASSUME NEW s \in Seq(Items), NEW t \in Seq(Items), t # <<>>
  PROVE  Append(s, Head(t)) \o Tail(t) = s \o t
  OBVIOUS

LEMMA TailOfConcat ==
  ASSUME NEW s \in Seq(Items), NEW t \in Seq(Items), s # <<>>
  PROVE  s \o t # <<>> /\ Tail(s \o t) = Tail(s) \o t
  OBVIOUS

LEMMA ItemsNext == TypeInv /\ CloseInv /\ ItemsInOrder /\ [Next]_vars => ItemsInOrder'
<1> SUFFICES ASSUME TypeInv, CloseInv, ItemsInOrder, [Next]_vars,
                    ~done', plugin' = "gemini" => ~ctxDone'
             PROVE  items' \o pending' = due'
  BY DEF ItemsInOrder
<1>0. items \in Seq(Items) /\ pending \in Seq(Items) /\ due \in Seq(Items)
  BY DEF TypeInv, TypeOK
<1> USE DEF ItemsInOrder, closeVars, readVars, chanVars
<1>1. CASE CallStep
  BY <1>1 DEF CallStep, PushFrame, EndInput, PushText, Flush, PushOrFlush, EndText,
              FlushResets
<1>2. CASE SendStep
  BY <1>2 DEF SendStep, SendRefused, KeepAliveReturns, SendBegins, WriteBegins, WriteEnds
<1>3. CASE ReadStep
  <2>1. PICK new \in Seq(Items) : Read(new)
    BY <1>3, ReadCases
  <2>2. items \o <<>> = due /\ due' = due \o new /\ items' = items /\ pending' = new
    BY <2>1 DEF Read
  <2> QED
    BY <1>0, <2>2, ConcatEmptySeq
<1>4. CASE Emit
  <2>1. items \o pending = due /\ due' = due /\ pending' = Tail(pending)
        /\ items' = Append(items, Head(pending))
    BY <1>4 DEF Emit, Put
  <2>2. pending # <<>>
    BY <1>4 DEF Emit
  <2> QED
    BY <1>0, <2>1, <2>2, MoveItem
<1>5. CASE EmitAbandoned \/ RunAbandons
  BY <1>5 DEF EmitAbandoned, RunAbandons, RunCancelled
<1>6. CASE EndStep
  BY <1>6 DEF EndStep, ReadFails, RunEnds, SetErr, CloseChan
<1>7. CASE CloseStep
  BY <1>7 DEF CloseStep, CloseBegins, CloseSignals, CloseConn, WatcherReturns
<1>8. CASE ConnStep
  BY <1>8 DEF ConnStep, ConnEnds, ServerStalls, LastResponse, ConnBecomes
<1>9. CASE Receive
  <2>1. items \o pending = due /\ pending' = pending /\ items' = Tail(items) /\ items # <<>>
    BY <1>9 DEF Receive
  <2>2. due # <<>> /\ Tail(due) = Tail(items) \o pending
    BY <1>0, <2>1, TailOfConcat
  <2>3. due' = Tail(due)
    BY <1>9, <2>2 DEF Receive
  <2> QED
    BY <2>1, <2>2, <2>3
<1>10. CASE ContextEnds \/ UNCHANGED vars
  BY <1>10 DEF ContextEnds, vars
<1> QED
  BY <1>1, <1>2, <1>3, <1>4, <1>5, <1>6, <1>7, <1>8, <1>9, <1>10, StepCases DEF EmitStep

(* Until a stream is closed its reader gets every item of every message    *)
(* that was read, in order and once, whatever the capacity of the channel. *)
THEOREM ItemsInOrderHolds == Spec => []ItemsInOrder
  BY ItemsInit, ItemsNext, TypeInvHolds, CloseCorrect, PTL DEF Spec

-----------------------------------------------------------------------------
(* Cartesia's segments.  As long as the stream still sends, every call so  *)
(* far has been heard, and the next message follows the last one.          *)

Following(m) == m.segment + (IF m.last THEN 1 ELSE 0)

(* The segment of the next message, in this call or a later one.           *)
Upcoming == IF segment /\ call # "reset" THEN ctxN ELSE ctxN + 1

Sending == conn \in Live /\ (~closed \/ at["caller"] # "idle")

SegmentInv ==
  plugin = "cartesia" =>
    /\ at["caller"] # "idle" => call \in {"push", "flush", "end"}
    /\ call \in {"push", "flush", "end"} => segment
    /\ Sending /\ sent # <<>> => Upcoming = Following(sent[Len(sent)])
    /\ SegmentsWhole

LEMMA SegmentInit == Init => SegmentInv
<1> SUFFICES ASSUME Init PROVE SegmentInv
  OBVIOUS
<1>1. at["caller"] = "idle" /\ call = "none" /\ sent = <<>>
  BY DEF Init, DeepgramOpens, CartesiaOpens, GeminiOpens, Opens, Writers
<1>2. Len(sent) - 1 = -1
  BY <1>1
<1> QED
  BY <1>1, <1>2 DEF SegmentInv, SegmentsWhole

(* Whole segments, one more message.                                       *)
LEMMA OneMoreMessage ==
  ASSUME NEW s \in Seq([segment : Nat, last : BOOLEAN]),
         NEW m \in [segment : Nat, last : BOOLEAN],
         \A i \in 1..(Len(s) - 1) : s[i + 1].segment = Following(s[i]),
         s # <<>> => m.segment = Following(s[Len(s)])
  PROVE  /\ Append(s, m) # <<>> /\ Append(s, m)[Len(Append(s, m))] = m
         /\ \A i \in 1..(Len(Append(s, m)) - 1) :
              Append(s, m)[i + 1].segment = Following(Append(s, m)[i])
<1> DEFINE t == Append(s, m)
<1>1. /\ t # <<>> /\ Len(t) = Len(s) + 1 /\ Len(s) \in Nat
      /\ t[Len(s) + 1] = m /\ \A i \in 1..Len(s) : t[i] = s[i]
  <2> DEFINE M == [segment : Nat, last : BOOLEAN]
  <2>1. s \in Seq(M) /\ m \in M
    OBVIOUS
  <2> HIDE DEF M
  <2> QED
    BY <2>1, AppendProperties, LenProperties
<1> HIDE DEF t
<1>2. ASSUME NEW i \in 1..(Len(t) - 1)
      PROVE  t[i + 1].segment = Following(t[i])
  <2>1. CASE i = Len(s)
    <3>1. s # <<>>
      BY <1>1, <2>1
    <3> QED
      BY <1>1, <2>1, <3>1
  <2>2. CASE i # Len(s)
    <3>1. i \in 1..(Len(s) - 1) /\ i \in 1..Len(s) /\ i + 1 \in 1..Len(s)
      BY <1>1, <2>2
    <3> QED
      BY <1>1, <3>1
  <2> QED
    BY <2>1, <2>2
<1> QED
  BY <1>1, <1>2 DEF t

(* The message of a call that is written, and what the next one will be.   *)
LEMMA SegmentWrite ==
  TypeInv /\ SegmentInv /\ WriteEnds("caller") /\ plugin = "cartesia" => SegmentInv'
<1> SUFFICES ASSUME TypeInv, SegmentInv, WriteEnds("caller"), plugin = "cartesia"
             PROVE  SegmentInv'
  OBVIOUS
<1> DEFINE m == [segment |-> ctxN, last |-> call # "push"]
<1>1. /\ at["caller"] = "writing" /\ at'["caller"] = "idle"
      /\ call' = AfterSend /\ conn' = conn
      /\ sent' = IF conn \in Live THEN Append(sent, m) ELSE sent
      /\ UNCHANGED <<plugin, ctxN, segment, closed>>
  BY DEF WriteEnds, TypeInv, TypeOK, Writers, closeVars
<1>2. call \in {"push", "flush", "end"} /\ segment
  BY <1>1 DEF SegmentInv
<1>3. sent \in Seq([segment : Nat, last : BOOLEAN]) /\ ctxN \in Nat
  BY DEF TypeInv, TypeOK
<1>4. m \in [segment : Nat, last : BOOLEAN]
  BY <1>3
<1>5. call' = IF call = "push" THEN "none" ELSE "reset"
  BY <1>1, <1>2 DEF AfterSend
<1>6. CASE conn \in Live
  <2>1. sent # <<>> => ctxN = Following(sent[Len(sent)])
    BY <1>1, <1>2, <1>6 DEF SegmentInv, Sending, Upcoming
  <2>2. \A i \in 1..(Len(sent) - 1) : sent[i + 1].segment = Following(sent[i])
    BY DEF SegmentInv, SegmentsWhole, Following
  <2>3. m.segment = ctxN /\ m.last = (call # "push")
    OBVIOUS
  <2>4. sent' = Append(sent, m)
    BY <1>1, <1>6
  <2> HIDE DEF m
  <2>5. /\ sent' # <<>> /\ sent'[Len(sent')] = m
        /\ \A i \in 1..(Len(sent') - 1) : sent'[i + 1].segment = Following(sent'[i])
    BY <1>3, <1>4, <2>1, <2>2, <2>3, <2>4, OneMoreMessage
  <2>6. Upcoming' = Following(m)
    <3>1. CASE call = "push"
      <4>1. Upcoming' = ctxN /\ ~m.last
        BY <1>1, <1>2, <1>5, <2>3, <3>1 DEF Upcoming
      <4> QED
        BY <1>3, <2>3, <4>1 DEF Following
    <3>2. CASE call # "push"
      <4>1. Upcoming' = ctxN + 1 /\ m.last
        BY <1>1, <1>2, <1>5, <2>3, <3>2 DEF Upcoming
      <4> QED
        BY <1>3, <2>3, <4>1 DEF Following
    <3> QED
      BY <3>1, <3>2
  <2> QED
    BY <1>1, <1>2, <1>5, <2>5, <2>6 DEF SegmentInv, SegmentsWhole, Following
<1>7. CASE conn \notin Live
  BY <1>1, <1>2, <1>5, <1>7 DEF SegmentInv, SegmentsWhole, Sending
<1> QED
  BY <1>6, <1>7

LEMMA SegmentNext == TypeInv /\ SegmentInv /\ [Next]_vars => SegmentInv'
<1> SUFFICES ASSUME TypeInv, SegmentInv, [Next]_vars, plugin' = "cartesia"
             PROVE  SegmentInv'
  BY DEF SegmentInv
<1>0. ctxN \in Nat
  BY DEF TypeInv, TypeOK
<1> USE DEF SegmentInv, SegmentsWhole, Sending, Upcoming, closeVars, callVars, sendVars
<1>1. CASE PushFrame \/ EndInput
  BY <1>1 DEF PushFrame, EndInput
<1>2. CASE PushText \/ Flush \/ EndText
  BY <1>0, <1>2 DEF PushText, Flush, PushOrFlush, EndText, CurrentCtx
<1>3. CASE FlushResets
  BY <1>3 DEF FlushResets, NextSegment
<1>4. CASE SendRefused
  BY <1>4 DEF SendRefused, AfterSend, Live
<1>5. CASE KeepAliveReturns
  BY <1>5 DEF KeepAliveReturns
<1>6. ASSUME NEW w \in Writers, SendBegins(w) \/ WriteBegins(w)
      PROVE  SegmentInv'
  <2>1. UNCHANGED <<plugin, call, segment, ctxN, sent, conn, closed>>
    BY <1>6 DEF SendBegins, WriteBegins
  <2>2. at'["caller"] # "idle" => call \in {"push", "flush", "end"}
    <3>1. CASE SendBegins(w)
      BY <3>1 DEF SendBegins, TypeInv, TypeOK, Writers
    <3>2. CASE WriteBegins(w)
      BY <3>2 DEF WriteBegins, TypeInv, TypeOK, Writers
    <3> QED
      BY <1>6, <3>1, <3>2
  <2>3. Sending' => Sending
    <3>1. CASE SendBegins(w)
      BY <2>1, <3>1 DEF SendBegins
    <3>2. CASE WriteBegins(w)
      BY <2>1, <3>2 DEF WriteBegins, TypeInv, TypeOK, Writers
    <3> QED
      BY <1>6, <3>1, <3>2
  <2> QED
    BY <2>1, <2>2, <2>3
<1>7. ASSUME NEW w \in Writers, WriteEnds(w)
      PROVE  SegmentInv'
  <2>1. CASE w = "caller"
    <3>1. plugin = "cartesia"
      BY <1>7 DEF WriteEnds
    <3> QED
      BY <1>7, <2>1, <3>1, SegmentWrite
  <2>2. CASE w # "caller"
    BY <1>7, <2>2 DEF WriteEnds, TypeInv, TypeOK, Writers
  <2> QED
    BY <2>1, <2>2
<1>8. CASE ReadStep
  BY <1>8, ReadCases DEF Read
<1>9. CASE EmitStep \/ EndStep
  BY <1>9 DEF EmitStep, Emit, EmitAbandoned, RunAbandons, EndStep, ReadFails, RunEnds, SetErr,
              CloseChan
<1>10. CASE CloseStep
  BY <1>10 DEF CloseStep, CloseBegins, CloseSignals, CloseConn, WatcherReturns, Live
<1>11. CASE ConnStep
  BY <1>11 DEF ConnStep, ConnEnds, ServerStalls, LastResponse, ConnBecomes
<1>12. CASE Receive \/ ContextEnds \/ UNCHANGED vars
  BY <1>12 DEF Receive, ContextEnds, vars
<1> QED
  BY <1>1, <1>2, <1>3, <1>4, <1>5, <1>6, <1>7, <1>8, <1>9, <1>10, <1>11, <1>12, StepCases
     DEF CallStep, SendStep

(* What Cartesia hears is a sequence of whole segments, for any number of  *)
(* calls, whatever of them fails or is refused, and wherever Close comes.  *)
THEOREM SegmentsWholeHolds == Spec => []SegmentsWhole
<1>1. SegmentInv => SegmentsWhole
  BY DEF SegmentInv, SegmentsWhole
<1> QED
  BY <1>1, SegmentInit, SegmentNext, TypeInvHolds, PTL DEF Spec
=============================================================================
