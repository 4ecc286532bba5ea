----------------------------- MODULE RoomSession -----------------------------
(***************************************************************************)
(* A job that runs RunRoomSession (voice/room_io.go): its JobContext       *)
(* (job.go) connects to the room, the first audio track that is subscribed *)
(* becomes the input (audio/track/input.go) of the session, and finishJob  *)
(* (worker.go) cleans up.  Besides the job's goroutine there are the       *)
(* room's callbacks, one for each track and one for the disconnection, and *)
(* the goroutine that writes a track's samples.                            *)
(* External: the room; and Start, which AgentSession models: it returns    *)
(* when its context ends, and may return before.                           *)
(***************************************************************************)
EXTENDS Naturals, Sequences

CONSTANTS
  Tracks,   \* remote audio tracks
  NoTrack   \* no track

ASSUME NoTrackAssumption == NoTrack \notin Tracks

VARIABLES
  job,          \* where the job's goroutine is
  preconnected, \* the entrypoint connects before it calls RunRoomSession
  room,         \* the connection to the room
  roomSet,      \* c.room is set
  taken,        \* finishJob has a room to disconnect from
  ctxDone,      \* c.ctx has ended
  shutdownFns,  \* number of callbacks in c.shutdownFns
  fns,          \* number of callbacks finishJob has still to call
  ran,          \* number of callbacks it has called
  late,         \* number of callbacks added after it had taken the others
  subscribed,   \* where the callback of each track is
  onceDone,     \* once has been used
  inputCh,      \* the channel of that name
  in,           \* the track that the session reads
  input,        \* the Input of each track
  writing       \* tracks whose writer is in WriteSample, with the lock

jobVars == <<job, preconnected, in>>
contextVars == <<room, roomSet, taken, ctxDone>>
fnVars == <<shutdownFns, fns, ran, late>>
trackVars == <<subscribed, onceDone, inputCh, input, writing>>
vars == <<jobVars, contextVars, fnVars, trackVars>>

Connecting == {"joining", "storing"}
InSession == {"publishing", "waiting", "session", "closing"}
Finishing == {"finishing", "callbacks", "disconnecting", "removing"}

TypeOK ==
  /\ job \in {"entrypoint", "awaiting", "removed"} \cup Connecting \cup InSession \cup Finishing
  /\ room \in {"none", "joined", "lost", "left"}
  /\ shutdownFns \in 0..2 /\ fns \in 0..2 /\ ran \in 0..2 /\ late \in 0..2
  /\ subscribed \in [Tracks -> {"no", "creating", "offering", "yes"}]
  /\ inputCh \in {<<>>} \cup {<<t>> : t \in Tracks}
  /\ in \in Tracks \cup {NoTrack}
  /\ input \in [Tracks -> {"none", "open", "closed"}]
  /\ writing \subseteq Tracks
  /\ {preconnected, roomSet, taken, ctxDone, onceDone} \subseteq BOOLEAN

Init ==
  /\ job = "entrypoint"
  /\ preconnected = FALSE
  /\ room = "none"
  /\ roomSet = FALSE
  /\ taken = FALSE
  /\ ctxDone = FALSE
  /\ shutdownFns = 0
  /\ fns = 0
  /\ ran = 0
  /\ late = 0
  /\ subscribed = [t \in Tracks |-> "no"]
  /\ onceDone = FALSE
  /\ inputCh = <<>>
  /\ in = NoTrack
  /\ input = [t \in Tracks |-> "none"]
  /\ writing = {}

-----------------------------------------------------------------------------
(* JobContext.                                                             *)

(* The entrypoint calls Connect by itself, with callbacks of its own.  The *)
(* room is joined without the lock.                                        *)
ConnectBefore ==
  /\ job = "entrypoint" /\ ~roomSet
  /\ preconnected' = TRUE
  /\ job' = "joining"
  /\ UNCHANGED <<in, contextVars, fnVars, trackVars>>

(* The Connect of RunRoomSession: it returns the room there is, and the    *)
(* callbacks of this call are forgotten; or it goes on to join.            *)
Connect ==
  /\ job = "entrypoint"
  /\ job' = IF roomSet THEN "publishing" ELSE "joining"
  /\ UNCHANGED <<preconnected, in, contextVars, fnVars, trackVars>>

(* External: ConnectToRoomWithToken.  Callbacks may come before it returns. *)
JoinRoom ==
  /\ job = "joining"
  /\ room' = "joined"
  /\ job' = "storing"
  /\ UNCHANGED <<preconnected, in, roomSet, taken, ctxDone, fnVars, trackVars>>

(* The entrypoint returns the error, its own or RunRoomSession's.          *)
JoinFails ==
  /\ job = "joining"
  /\ job' = "finishing"
  /\ UNCHANGED <<preconnected, in, contextVars, fnVars, trackVars>>

(* Mutant: the room is not kept when the job has been shut down meanwhile. *)
ConnectStoresIfAlive ==
  /\ job = "storing"
  /\ roomSet' = ~ctxDone
  /\ job' = IF preconnected THEN "entrypoint" ELSE "publishing"
  /\ UNCHANGED <<preconnected, in, room, taken, ctxDone, fnVars, trackVars>>

ConnectStores ==
  /\ job = "storing"
  /\ roomSet' = TRUE
  /\ job' = IF preconnected THEN "entrypoint" ELSE "publishing"
  /\ UNCHANGED <<preconnected, in, room, taken, ctxDone, fnVars, trackVars>>

(* WaitForParticipant, by the entrypoint: without a room it is an error,   *)
(* and nothing happens.                                                    *)
WaitForParticipant ==
  /\ job = "entrypoint" /\ roomSet
  /\ job' = "awaiting"
  /\ UNCHANGED <<preconnected, in, contextVars, fnVars, trackVars>>

(* It ends: somebody is there, or the context that the caller gave it has  *)
(* ended, and that context is not the job's.                               *)
ParticipantFound ==
  /\ job = "awaiting"
  /\ job' = "entrypoint"
  /\ UNCHANGED <<preconnected, in, contextVars, fnVars, trackVars>>

(* The job is shut down: an error, and the entrypoint returns it.          *)
WaitShutDown ==
  /\ job = "awaiting" /\ ctxDone
  /\ job' = "finishing"
  /\ UNCHANGED <<preconnected, in, contextVars, fnVars, trackVars>>

(* The entrypoint may also return without a session, with an error or not. *)
EntrypointReturns ==
  /\ job = "entrypoint"
  /\ job' = "finishing"
  /\ UNCHANGED <<preconnected, in, contextVars, fnVars, trackVars>>

(* Shutdown, by termination, by Drain or by the entrypoint's own code.     *)
Shutdown ==
  /\ ~ctxDone /\ job # "removed"
  /\ ctxDone' = TRUE
  /\ UNCHANGED <<jobVars, room, roomSet, taken, fnVars, trackVars>>

(* Mutant: the callback is the user's only.                                *)
OnDisconnectedUnwrapped ==
  /\ room = "joined"
  /\ room' = "lost"
  /\ UNCHANGED <<jobVars, roomSet, taken, ctxDone, fnVars, trackVars>>

(* The room ends the connection: OnDisconnected, as Connect wraps it.      *)
OnDisconnected ==
  /\ room = "joined"
  /\ room' = "lost"
  /\ ctxDone' = TRUE
  /\ UNCHANGED <<jobVars, roomSet, taken, fnVars, trackVars>>

(* AddShutdownCallback, by the entrypoint or by a goroutine it has left.   *)
(* Bound: two callbacks.                                                   *)
AddShutdownCallback ==
  /\ shutdownFns + fns + ran + late < 2
  /\ job # "removed"
  /\ shutdownFns' = shutdownFns + 1
  /\ late' = late + (IF job \in {"callbacks", "disconnecting", "removing"} THEN 1 ELSE 0)
  /\ UNCHANGED <<jobVars, contextVars, fns, ran, trackVars>>

-----------------------------------------------------------------------------
(* RunRoomSession.                                                         *)

(* The output is created and published.                                    *)
Publish ==
  /\ job = "publishing"
  /\ job' \in {"waiting", "finishing"}
  /\ UNCHANGED <<preconnected, in, contextVars, fnVars, trackVars>>

TakeInput ==
  /\ job = "waiting"
  /\ inputCh # <<>>
  /\ in' = Head(inputCh)
  /\ inputCh' = <<>>
  /\ job' = "session"
  /\ UNCHANGED <<preconnected, contextVars, fnVars, subscribed, onceDone, input, writing>>

JobDone ==
  /\ job = "waiting"
  /\ ctxDone
  /\ job' = "finishing"
  /\ UNCHANGED <<preconnected, in, contextVars, fnVars, trackVars>>

(* External: see AgentSession.                                             *)
StartReturns ==
  /\ job = "session"
  /\ job' = "closing"
  /\ UNCHANGED <<preconnected, in, contextVars, fnVars, trackVars>>

(* Mutant: Close does not wait for WriteSample.                            *)
CloseInputUnlocked ==
  /\ job = "closing"
  /\ input' = [input EXCEPT ![in] = "closed"]
  /\ job' = "finishing"
  /\ UNCHANGED <<preconnected, in, contextVars, fnVars, subscribed, onceDone, inputCh,
                 writing>>

(* The deferred in.Close needs the lock for itself.                        *)
CloseInput ==
  /\ job = "closing"
  /\ in \notin writing
  /\ input' = [input EXCEPT ![in] = "closed"]
  /\ job' = "finishing"
  /\ UNCHANGED <<preconnected, in, contextVars, fnVars, subscribed, onceDone, inputCh,
                 writing>>

-----------------------------------------------------------------------------
(* The callback of a track.  Its Input is made before it is known whether  *)
(* it is the first.  Callbacks of different tracks may overlap.            *)

OnTrackSubscribed(t) ==
  /\ room = "joined" /\ ~preconnected
  /\ subscribed[t] = "no"
  /\ subscribed' = [subscribed EXCEPT ![t] = "creating"]
  /\ UNCHANGED <<jobVars, contextVars, fnVars, onceDone, inputCh, input, writing>>

NewRemoteTrackInput(t) ==
  /\ subscribed[t] = "creating"
  /\ \/ subscribed' = [subscribed EXCEPT ![t] = "offering"]
        /\ input' = [input EXCEPT ![t] = "open"]
     \/ subscribed' = [subscribed EXCEPT ![t] = "yes"]   \* an error
        /\ UNCHANGED input
  /\ UNCHANGED <<jobVars, contextVars, fnVars, onceDone, inputCh, writing>>

(* Mutant: no once, and a channel that takes every track.                  *)
OfferAppending(t) ==
  /\ subscribed[t] = "offering"
  /\ inputCh' = Append(inputCh, t)
  /\ subscribed' = [subscribed EXCEPT ![t] = "yes"]
  /\ UNCHANGED <<jobVars, contextVars, fnVars, onceDone, input, writing>>

(* Mutant: the track is given to a receiver that waits, or to nobody.      *)
OfferIfWaiting(t) ==
  /\ subscribed[t] = "offering"
  /\ inputCh' = IF onceDone \/ job # "waiting" THEN inputCh ELSE <<t>>
  /\ onceDone' = TRUE
  /\ subscribed' = [subscribed EXCEPT ![t] = "yes"]
  /\ UNCHANGED <<jobVars, contextVars, fnVars, input, writing>>

(* once.Do: only the first is offered, and there is room for it.           *)
OfferFirst(t) ==
  /\ subscribed[t] = "offering"
  /\ inputCh' = IF onceDone THEN inputCh ELSE <<t>>
  /\ onceDone' = TRUE
  /\ subscribed' = [subscribed EXCEPT ![t] = "yes"]
  /\ UNCHANGED <<jobVars, contextVars, fnVars, input, writing>>

(* WriteSample holds the read lock from its look at closed to its send,    *)
(* which drops the frame if the channel is full.  A sample may come when   *)
(* the room has been left.                                                 *)
WriteSampleBegins(t) ==
  /\ input[t] = "open" /\ t \notin writing
  /\ writing' = writing \cup {t}
  /\ UNCHANGED <<jobVars, contextVars, fnVars, subscribed, onceDone, inputCh, input>>

WriteSampleEnds(t) ==
  /\ t \in writing
  /\ writing' = writing \ {t}
  /\ UNCHANGED <<jobVars, contextVars, fnVars, subscribed, onceDone, inputCh, input>>

-----------------------------------------------------------------------------
(* finishJob.                                                              *)

(* Cancels, and takes the callbacks and the room.                          *)
FinishJob ==
  /\ job = "finishing"
  /\ ctxDone' = TRUE
  /\ fns' = shutdownFns
  /\ shutdownFns' = 0
  /\ taken' = roomSet
  /\ roomSet' = FALSE
  /\ job' = "callbacks"
  /\ UNCHANGED <<preconnected, in, room, ran, late, trackVars>>

(* Mutant: the list is emptied once its callbacks have been called.        *)
CallbacksDoneClearing ==
  /\ job = "callbacks" /\ fns = 0
  /\ shutdownFns' = 0
  /\ job' = "disconnecting"
  /\ UNCHANGED <<preconnected, in, contextVars, fns, ran, late, trackVars>>

RunCallback ==
  /\ job = "callbacks" /\ fns > 0
  /\ fns' = fns - 1
  /\ ran' = ran + 1
  /\ UNCHANGED <<jobVars, contextVars, shutdownFns, late, trackVars>>

CallbacksDone ==
  /\ job = "callbacks" /\ fns = 0
  /\ job' = "disconnecting"
  /\ UNCHANGED <<preconnected, in, contextVars, fnVars, trackVars>>

Disconnect ==
  /\ job = "disconnecting"
  /\ room' = IF taken /\ room = "joined" THEN "left" ELSE room
  /\ job' = "removing"
  /\ UNCHANGED <<preconnected, in, roomSet, taken, ctxDone, fnVars, trackVars>>

(* The worker forgets the job; see Worker.                                 *)
Remove ==
  /\ job = "removing"
  /\ job' = "removed"
  /\ UNCHANGED <<preconnected, in, contextVars, fnVars, trackVars>>

-----------------------------------------------------------------------------
EntrypointStep ==
  Connect \/ JoinRoom \/ JoinFails \/ ConnectStores \/ Publish \/ TakeInput
    \/ JobDone \/ CloseInput \/ WaitShutDown

FinishStep == FinishJob \/ RunCallback \/ CallbacksDone \/ Disconnect \/ Remove

Next ==
  \/ EntrypointStep
  \/ FinishStep
  \/ ConnectBefore \/ WaitForParticipant \/ ParticipantFound \/ EntrypointReturns
  \/ Shutdown \/ OnDisconnected \/ AddShutdownCallback
  \/ StartReturns
  \/ \E t \in Tracks :
       OnTrackSubscribed(t) \/ NewRemoteTrackInput(t) \/ OfferFirst(t)
         \/ WriteSampleBegins(t) \/ WriteSampleEnds(t)

Spec == Init /\ [][Next]_vars

(* Every goroutine runs; joining, publishing and shutdown callbacks end.   *)
(* Start returns once its context has ended (SessionStops and StartReturns *)
(* of AgentSession).  CloseInput is strongly fair: a writer asks for the   *)
(* lock again and again, but a waiting Lock goes before a new RLock.       *)
FairSpec ==
  /\ Spec
  /\ WF_vars(EntrypointStep)
  /\ SF_vars(CloseInput)
  /\ WF_vars(FinishStep)
  /\ WF_vars(ctxDone /\ StartReturns)
  /\ \A t \in Tracks :
       WF_vars(NewRemoteTrackInput(t) \/ OfferFirst(t)) /\ WF_vars(WriteSampleEnds(t))

-----------------------------------------------------------------------------
(* A job that is gone has left its room, and the input of its session is   *)
(* closed, wherever the job was when it was told to end.                   *)
CleanedUp ==
  job = "removed" => /\ room # "joined"
                     /\ in # NoTrack => input[in] = "closed"

(* No sample is sent on a channel that Close has closed: that panics, on a *)
(* goroutine of the media SDK.                                             *)
NoWriteAfterClose == \A t \in writing : input[t] # "closed"

(* When the room is left every callback added in time has been called, and *)
(* those that were added too late are still there: none is lost, or called *)
(* twice.                                                                  *)
CallbacksBeforeLeaving ==
  job \in {"disconnecting", "removing", "removed"} => fns = 0 /\ shutdownFns = late

(* The end of the context and the loss of the room, at any time and in any *)
(* order with connecting and with tracks, end the job.                     *)
JobEnds == (ctxDone \/ room = "lost") ~> job = "removed"

(* The first track to arrive becomes the session's, also while the job is  *)
(* still connecting or publishing, unless the job ends.                    *)
OfferedIsHeard ==
  (\E t \in Tracks : subscribed[t] = "offering") ~> (in # NoTrack \/ job = "removed")
=============================================================================
