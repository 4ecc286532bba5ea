-------------------------- MODULE RoomSessionProofs --------------------------
(***************************************************************************)
(* Proofs about RoomSession for any set of tracks.  Each invariant rests   *)
(* on where the job is:                                                    *)
(*   TypeInv      the types, and where the callbacks and the input can be: *)
(*                finishJob has counted none before it begins, and a track *)
(*                is offered and read only when its callback has returned; *)
(*   RoomInv      who knows of a room that is joined: Connect, until it    *)
(*                has stored it, then c.room, then finishJob;              *)
(*   CleanedInv   the input of a session is closed when the entrypoint has *)
(*                returned, and never opened again.                        *)
(***************************************************************************)
EXTENDS RoomSession, TLAPS

USE NoTrackAssumption

Gone == {"callbacks", "disconnecting", "removing", "removed"}
Left == {"disconnecting", "removing", "removed"}

-----------------------------------------------------------------------------
(* Type correctness, with the bound of two callbacks.                      *)

CallbacksInv ==
  /\ shutdownFns + fns + ran <= 2
  /\ job \notin Gone => fns = 0 /\ ran = 0 /\ late = 0
  /\ job \in Gone => shutdownFns = late

InputInv ==
  /\ job \notin {"session", "closing"} \cup Finishing \cup {"removed"} => in = NoTrack
  /\ in # NoTrack => subscribed[in] = "yes"
  /\ job \in {"session", "closing"} => in # NoTrack
  /\ \A t \in Tracks : inputCh = <<t>> => subscribed[t] = "yes"

TypeInv == TypeOK /\ CallbacksInv /\ InputInv

LEMMA TypeInit == Init => TypeInv
<1>1. Init => TypeOK
  <2> SUFFICES ASSUME Init PROVE TypeOK
    OBVIOUS
  <2>1. inputCh \in {<<>>} \cup {<<t>> : t \in Tracks}
    BY DEF Init
  <2>2. {preconnected, roomSet, taken, ctxDone, onceDone} \subseteq BOOLEAN
    BY DEF Init
  <2> QED
    BY <2>1, <2>2 DEF Init, TypeOK
<1>2. Init => CallbacksInv
  BY DEF Init, CallbacksInv, Gone
<1>3. Init => InputInv
  <2> SUFFICES ASSUME Init PROVE InputInv
    OBVIOUS
  <2>1. \A t \in Tracks : inputCh # <<t>>
    BY DEF Init
  <2> QED
    BY <2>1 DEF Init, InputInv, Finishing
<1> QED
  BY <1>1, <1>2, <1>3 DEF TypeInv

LEMMA EntrypointTyped == TypeInv /\ EntrypointStep => TypeInv'
<1> SUFFICES ASSUME TypeInv PROVE EntrypointStep => TypeInv'
  OBVIOUS
<1> USE DEF TypeInv, TypeOK, CallbacksInv, InputInv, Connecting, InSession, Finishing, Gone,
            jobVars, contextVars, fnVars, trackVars
<1>1. Connect \/ JoinRoom \/ JoinFails \/ ConnectStores => TypeInv'
  BY DEF Connect, JoinRoom, JoinFails, ConnectStores
<1>2. Publish \/ JobDone \/ WaitShutDown => TypeInv'
  BY DEF Publish, JobDone, WaitShutDown
<1>3. TakeInput => TypeInv'
  <2> SUFFICES ASSUME TakeInput PROVE TypeInv'
    OBVIOUS
  <2>1. PICK t \in Tracks : inputCh = <<t>>
    BY DEF TakeInput
  <2>2. in' = t /\ subscribed[t] = "yes" /\ t # NoTrack
    BY <2>1 DEF TakeInput
  <2> QED
    BY <2>1, <2>2 DEF TakeInput
<1>4. CloseInput => TypeInv'
  BY DEF CloseInput
<1> QED
  BY <1>1, <1>2, <1>3, <1>4 DEF EntrypointStep

LEMMA FinishTyped == TypeInv /\ FinishStep => TypeInv'
<1> SUFFICES ASSUME TypeInv PROVE FinishStep => TypeInv'
  OBVIOUS
<1> USE DEF TypeInv, TypeOK, CallbacksInv, InputInv, Connecting, InSession, Finishing, Gone,
            jobVars, contextVars, fnVars, trackVars
<1>1. FinishJob => TypeInv'
  <2> SUFFICES ASSUME FinishJob PROVE TypeInv'
    OBVIOUS
  <2>1. {preconnected, roomSet, taken, ctxDone, onceDone}' \subseteq BOOLEAN
    BY DEF FinishJob
  <2>2. TypeOK'
    BY <2>1 DEF FinishJob
  <2>3. CallbacksInv' /\ InputInv'
    BY DEF FinishJob
  <2> QED
    BY <2>2, <2>3
<1>2. RunCallback => TypeInv'
  BY DEF RunCallback
<1>3. CallbacksDone => TypeInv'
  BY DEF CallbacksDone
<1>4. Disconnect => TypeInv'
  BY DEF Disconnect
<1>5. Remove => TypeInv'
  BY DEF Remove
<1> QED
  BY <1>1, <1>2, <1>3, <1>4, <1>5 DEF FinishStep

LEMMA TracksTyped ==
  ASSUME TypeInv, NEW t \in Tracks,
         OnTrackSubscribed(t) \/ NewRemoteTrackInput(t) \/ OfferFirst(t)
           \/ WriteSampleBegins(t) \/ WriteSampleEnds(t)
  PROVE  TypeInv'
<1> USE DEF TypeInv, TypeOK, CallbacksInv, InputInv, Connecting, InSession, Finishing, Gone,
            jobVars, contextVars, fnVars, trackVars
<1>1. CASE OnTrackSubscribed(t)
  BY <1>1 DEF OnTrackSubscribed
<1>2. CASE NewRemoteTrackInput(t)
  BY <1>2 DEF NewRemoteTrackInput
<1>3. CASE OfferFirst(t)
  BY <1>3 DEF OfferFirst
<1>4. CASE WriteSampleBegins(t) \/ WriteSampleEnds(t)
  BY <1>4 DEF WriteSampleBegins, WriteSampleEnds
<1> QED
  BY <1>1, <1>2, <1>3, <1>4

LEMMA TypeNext == TypeInv /\ [Next]_vars => TypeInv'
<1> SUFFICES ASSUME TypeInv, [Next]_vars PROVE TypeInv'
  OBVIOUS
<1> USE DEF TypeInv, TypeOK, CallbacksInv, InputInv, Connecting, InSession, Finishing, Gone,
            jobVars, contextVars, fnVars, trackVars
<1>1. ConnectBefore \/ WaitForParticipant \/ ParticipantFound \/ EntrypointReturns => TypeInv'
  BY DEF ConnectBefore, WaitForParticipant, ParticipantFound, EntrypointReturns
<1>2. Shutdown \/ OnDisconnected \/ StartReturns => TypeInv'
  BY DEF Shutdown, OnDisconnected, StartReturns
<1>3. AddShutdownCallback => TypeInv'
  BY DEF AddShutdownCallback
<1>4. UNCHANGED vars => TypeInv'
  BY DEF vars
<1> QED
  BY <1>1, <1>2, <1>3, <1>4, EntrypointTyped, FinishTyped, TracksTyped DEF Next

LEMMA TypeInvCorrect == Spec => []TypeInv
  BY TypeInit, TypeNext, PTL DEF Spec

(* The state is well typed: above all, a session has an input to read and  *)
(* to close, and the channel of tracks never holds more than one.          *)
THEOREM RoomTypeCorrect == Spec => []TypeOK
<1>1. TypeInv => TypeOK
  BY DEF TypeInv
<1> QED
  BY <1>1, TypeInvCorrect, PTL

-----------------------------------------------------------------------------
(* The callbacks.                                                          *)

FnsCalled == job \in Left => fns = 0

(* When the job leaves its room each callback that was added in time has   *)
(* been called, and the late ones are still there.                         *)
THEOREM CallbacksBeforeLeavingHolds == Spec => []CallbacksBeforeLeaving
<1>1. Init => FnsCalled
  BY DEF Init, FnsCalled, Left
<1>2. TypeInv /\ FnsCalled /\ [Next]_vars => FnsCalled'
  <2> SUFFICES ASSUME TypeInv, FnsCalled, [Next]_vars PROVE FnsCalled'
    OBVIOUS
  <2> USE DEF FnsCalled, Left, jobVars, contextVars, fnVars, trackVars
  <2>1. EntrypointStep => FnsCalled'
    BY DEF EntrypointStep, Connect, JoinRoom, JoinFails, ConnectStores, Publish, JobDone,
           WaitShutDown, TakeInput, CloseInput
  <2>2. FinishStep => FnsCalled'
    BY DEF FinishStep, FinishJob, RunCallback, CallbacksDone, Disconnect, Remove
  <2>3. ConnectBefore \/ WaitForParticipant \/ ParticipantFound \/ EntrypointReturns \/ Shutdown
          \/ OnDisconnected \/ StartReturns \/ AddShutdownCallback \/ UNCHANGED vars
          => FnsCalled'
    BY DEF ConnectBefore, WaitForParticipant, ParticipantFound, EntrypointReturns, Shutdown,
           OnDisconnected, StartReturns, AddShutdownCallback, vars
  <2>4. ASSUME NEW t \in Tracks,
               OnTrackSubscribed(t) \/ NewRemoteTrackInput(t) \/ OfferFirst(t)
                 \/ WriteSampleBegins(t) \/ WriteSampleEnds(t)
        PROVE  FnsCalled'
    BY <2>4 DEF OnTrackSubscribed, NewRemoteTrackInput, OfferFirst, WriteSampleBegins,
           WriteSampleEnds
  <2> QED
    BY <2>1, <2>2, <2>3, <2>4 DEF Next
<1>3. TypeInv /\ FnsCalled => CallbacksBeforeLeaving
  BY DEF TypeInv, CallbacksInv, FnsCalled, CallbacksBeforeLeaving, Gone, Left
<1> QED
  BY <1>1, <1>2, <1>3, TypeInvCorrect, PTL DEF Spec

-----------------------------------------------------------------------------
(* The input.                                                              *)

(* Close waits for the writer of its track and leaves the others alone, so *)
(* no sample is sent on a closed channel.                                  *)
THEOREM NoWriteAfterCloseHolds == Spec => []NoWriteAfterClose
<1>1. Init => NoWriteAfterClose
  BY DEF Init, NoWriteAfterClose
<1>2. TypeInv /\ NoWriteAfterClose /\ [Next]_vars => NoWriteAfterClose'
  <2> SUFFICES ASSUME TypeInv, NoWriteAfterClose, [Next]_vars PROVE NoWriteAfterClose'
    OBVIOUS
  <2> USE DEF TypeInv, TypeOK, InputInv, NoWriteAfterClose, jobVars, contextVars, fnVars,
              trackVars
  <2>1. CloseInput => NoWriteAfterClose'
    BY DEF CloseInput
  <2>2. Connect \/ JoinRoom \/ JoinFails \/ ConnectStores \/ Publish \/ JobDone \/ WaitShutDown
          \/ TakeInput => NoWriteAfterClose'
    BY DEF Connect, JoinRoom, JoinFails, ConnectStores, Publish, JobDone, WaitShutDown, TakeInput
  <2>3. FinishStep => NoWriteAfterClose'
    BY DEF FinishStep, FinishJob, RunCallback, CallbacksDone, Disconnect, Remove
  <2>4. ConnectBefore \/ WaitForParticipant \/ ParticipantFound \/ EntrypointReturns \/ Shutdown
          \/ OnDisconnected \/ StartReturns \/ AddShutdownCallback \/ UNCHANGED vars
          => NoWriteAfterClose'
    BY DEF ConnectBefore, WaitForParticipant, ParticipantFound, EntrypointReturns, Shutdown,
           OnDisconnected, StartReturns, AddShutdownCallback, vars
  <2>5. ASSUME NEW t \in Tracks, NewRemoteTrackInput(t) PROVE NoWriteAfterClose'
    BY <2>5 DEF NewRemoteTrackInput
  <2>6. ASSUME NEW t \in Tracks, WriteSampleBegins(t) \/ WriteSampleEnds(t)
        PROVE  NoWriteAfterClose'
    BY <2>6 DEF WriteSampleBegins, WriteSampleEnds
  <2>7. ASSUME NEW t \in Tracks, OnTrackSubscribed(t) \/ OfferFirst(t)
        PROVE  NoWriteAfterClose'
    BY <2>7 DEF OnTrackSubscribed, OfferFirst
  <2> QED
    BY <2>1, <2>2, <2>3, <2>4, <2>5, <2>6, <2>7 DEF Next, EntrypointStep
<1> QED
  BY <1>1, <1>2, TypeInvCorrect, PTL DEF Spec

-----------------------------------------------------------------------------
(* The room and the session's input, at the end.                           *)

RoomInv ==
  /\ room = "joined" /\ job \notin {"storing"} \cup Gone => roomSet
  /\ room = "joined" /\ job \in {"callbacks", "disconnecting"} => taken
  /\ job \in {"removing", "removed"} => room # "joined"
  /\ job = "joining" => ~roomSet

CleanedInv ==
  in # NoTrack /\ job \in Finishing \cup {"removed"} => input[in] = "closed"

EndInv == RoomInv /\ CleanedInv

LEMMA EndNext == TypeInv /\ EndInv /\ [Next]_vars => EndInv'
<1> SUFFICES ASSUME TypeInv, EndInv, [Next]_vars PROVE EndInv'
  OBVIOUS
<1> USE DEF TypeInv, TypeOK, InputInv, EndInv, RoomInv, CleanedInv, Connecting, InSession, Finishing, Gone,
            jobVars, contextVars, fnVars, trackVars
<1>1. Connect \/ JoinRoom \/ JoinFails \/ ConnectStores => EndInv'
  BY DEF Connect, JoinRoom, JoinFails, ConnectStores
<1>2. Publish \/ JobDone \/ WaitShutDown \/ TakeInput => EndInv'
  BY DEF Publish, JobDone, WaitShutDown, TakeInput
<1>3. CloseInput => EndInv'
  BY DEF CloseInput
<1>4. FinishJob \/ RunCallback \/ CallbacksDone => EndInv'
  BY DEF FinishJob, RunCallback, CallbacksDone
<1>5. Disconnect \/ Remove => EndInv'
  BY DEF Disconnect, Remove
<1>6. ConnectBefore \/ WaitForParticipant \/ ParticipantFound \/ EntrypointReturns => EndInv'
  BY DEF ConnectBefore, WaitForParticipant, ParticipantFound, EntrypointReturns
<1>7. Shutdown \/ OnDisconnected \/ StartReturns => EndInv'
  BY DEF Shutdown, OnDisconnected, StartReturns
<1>8. AddShutdownCallback \/ UNCHANGED vars => EndInv'
  BY DEF AddShutdownCallback, vars
<1>9. ASSUME NEW t \in Tracks, NewRemoteTrackInput(t) PROVE EndInv'
  BY <1>9 DEF NewRemoteTrackInput
<1>10. ASSUME NEW t \in Tracks,
              OnTrackSubscribed(t) \/ OfferFirst(t) \/ WriteSampleBegins(t) \/ WriteSampleEnds(t)
       PROVE  EndInv'
  BY <1>10 DEF OnTrackSubscribed, OfferFirst, WriteSampleBegins, WriteSampleEnds
<1> QED
  BY <1>1, <1>2, <1>3, <1>4, <1>5, <1>6, <1>7, <1>8, <1>9, <1>10
  DEF Next, EntrypointStep, FinishStep

(* A job that is gone has left its room, and the input of its session is   *)
(* closed, wherever it was when it was told to end.                        *)
THEOREM CleanedUpHolds == Spec => []CleanedUp
<1>1. Init => EndInv
  BY DEF Init, EndInv, RoomInv, CleanedInv, Finishing
<1>2. EndInv => CleanedUp
  BY DEF EndInv, RoomInv, CleanedInv, CleanedUp
<1> QED
  BY <1>1, <1>2, EndNext, TypeInvCorrect, PTL DEF Spec
=============================================================================
