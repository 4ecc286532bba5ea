---------------------------- MODULE WorkerProofs ----------------------------
(***************************************************************************)
(* Proofs about Worker for every set of jobs and offers.  Three inductive  *)
(* invariants, each resting on the one before:                             *)
(*   TypeOK        the types of the state;                                 *)
(*   OfferInv      where an acceptance can be at a time: it is new, with   *)
(*                 the read loop, in w.pending, or handed to a run, and    *)
(*                 never in two of these places;                           *)
(*   OwnershipInv  JobContexts of one job that run at the same time know   *)
(*                 of it (overlapped), and w.jobs holds all the others.    *)
(* They hold for every server, also one that offers a job again while an   *)
(* acceptance of it is pending or running.                                 *)
(***************************************************************************)
EXTENDS Worker, TLAPS

USE JobOfAssumption, NoOfferAssumption

-----------------------------------------------------------------------------
(* Type correctness.  The maps, flags and control points of worker.go keep *)
(* their types; above all, w.jobs holds a JobContext whenever one is       *)
(* looked up, so that none of the handlers touches an absent one.          *)

LEMMA TypeInit == Init => TypeOK
  BY DEF Init, TypeOK, ReaderSteps, RunSteps, DrainSteps

LEMMA TypeNext == TypeOK /\ [Next]_vars => TypeOK'
<1> SUFFICES ASSUME TypeOK, [Next]_vars PROVE TypeOK'
  OBVIOUS
<1> USE DEF TypeOK, ReaderSteps, RunSteps, DrainSteps
<1>1. ASSUME NEW o \in Offers, ReceiveOffer(o) PROVE TypeOK'
  BY <1>1 DEF ReceiveOffer, jobVars, drainVars
<1>2. ASSUME NEW o \in Offers, AssignmentTimeout(o) PROVE TypeOK'
  BY <1>2 DEF AssignmentTimeout, readerVars, jobVars, drainVars
<1>3. ASSUME NEW o \in Offers, Shutdown(o) PROVE TypeOK'
  BY <1>3 DEF Shutdown, readerVars, drainVars
<1>4. ASSUME NEW o \in Offers, EntrypointReturns(o) PROVE TypeOK'
  BY <1>4 DEF EntrypointReturns, readerVars, drainVars
<1>5. ASSUME NEW o \in Offers, RemoveJob(o) PROVE TypeOK'
  BY <1>5 DEF RemoveJob, readerVars, drainVars
<1>6. ASSUME NEW j \in Jobs, ReceiveAssignment(j) PROVE TypeOK'
  BY <1>6 DEF ReceiveAssignment, jobVars, drainVars
<1>7. ASSUME NEW j \in Jobs, ReceiveTermination(j) PROVE TypeOK'
  BY <1>7 DEF ReceiveTermination, readerVars, drainVars
<1>8. CASE DeclineOffer
  BY <1>8 DEF DeclineOffer, jobVars, drainVars
<1>9. CASE AcceptOffer
  BY <1>9 DEF AcceptOffer, jobVars, drainVars
<1>10. CASE StartJob
  BY <1>10 DEF StartJob, Beside, drainVars
<1>11. CASE DrainBegin
  BY <1>11 DEF DrainBegin, Registered, readerVars, jobVars
<1>12. CASE DrainPoll
  BY <1>12 DEF DrainPoll, readerVars, jobVars
<1>13. CASE DrainTimeout
  BY <1>13 DEF DrainTimeout, Registered, readerVars
<1>14. CASE UNCHANGED vars
  BY <1>14 DEF vars
<1> QED
  BY <1>1, <1>2, <1>3, <1>4, <1>5, <1>6, <1>7, <1>8, <1>9, <1>10, <1>11,
     <1>12, <1>13, <1>14 DEF Next

(* The state of the worker is always well typed.                           *)
THEOREM TypeCorrect == Spec => []TypeOK
  BY TypeInit, TypeNext, PTL DEF Spec

-----------------------------------------------------------------------------
(* OfferInv.  An offer the server has not sent is nowhere; the one the     *)
(* read loop handles has not started and is not stored; a stored one has   *)
(* not started and is stored under its own job.                            *)

OfferUnsent ==
  \A o \in Offers : o \notin offered =>
    run[o] = "none" /\ pending[JobOf[o]] # o /\ (readerAt # "idle" => readerOffer # o)

OfferAtReader ==
  readerAt # "idle" =>
    run[readerOffer] = "none" /\ pending[JobOf[readerOffer]] # readerOffer

OfferStored ==
  \A j \in Jobs : pending[j] # NoOffer => JobOf[pending[j]] = j /\ run[pending[j]] = "none"

OfferInv == OfferUnsent /\ OfferAtReader /\ OfferStored

LEMMA OfferInit == Init => OfferInv
  BY DEF Init, OfferInv, OfferUnsent, OfferAtReader, OfferStored

LEMMA OfferNext == TypeOK /\ OfferInv /\ [Next]_vars => OfferInv'
<1> SUFFICES ASSUME TypeOK, OfferInv, [Next]_vars PROVE OfferInv'
  OBVIOUS
<1> USE DEF TypeOK, OfferInv, OfferUnsent, OfferAtReader, OfferStored
<1>1. ASSUME NEW o \in Offers, ReceiveOffer(o) PROVE OfferInv'
  BY <1>1 DEF ReceiveOffer, jobVars, drainVars
<1>2. ASSUME NEW o \in Offers, AssignmentTimeout(o) PROVE OfferInv'
  BY <1>2 DEF AssignmentTimeout, readerVars, jobVars, drainVars
<1>3. ASSUME NEW o \in Offers, Shutdown(o) PROVE OfferInv'
  BY <1>3 DEF Shutdown, readerVars, drainVars
<1>4. ASSUME NEW o \in Offers, EntrypointReturns(o) PROVE OfferInv'
  BY <1>4 DEF EntrypointReturns, readerVars, drainVars
<1>5. ASSUME NEW o \in Offers, RemoveJob(o) PROVE OfferInv'
  BY <1>5 DEF RemoveJob, readerVars, drainVars
<1>6. ASSUME NEW j \in Jobs, ReceiveAssignment(j) PROVE OfferInv'
  BY <1>6 DEF ReceiveAssignment, jobVars, drainVars
<1>7. ASSUME NEW j \in Jobs, ReceiveTermination(j) PROVE OfferInv'
  BY <1>7 DEF ReceiveTermination, readerVars, drainVars
<1>8. CASE DeclineOffer
  BY <1>8 DEF DeclineOffer, jobVars, drainVars
<1>9. CASE AcceptOffer
  BY <1>9 DEF AcceptOffer, jobVars, drainVars
<1>10. CASE StartJob
  BY <1>10 DEF StartJob, drainVars
<1>11. CASE DrainBegin
  BY <1>11 DEF DrainBegin, readerVars, jobVars
<1>12. CASE DrainPoll
  BY <1>12 DEF DrainPoll, readerVars, jobVars
<1>13. CASE DrainTimeout
  BY <1>13 DEF DrainTimeout, readerVars
<1>14. CASE UNCHANGED vars
  BY <1>14 DEF vars
<1> QED
  BY <1>1, <1>2, <1>3, <1>4, <1>5, <1>6, <1>7, <1>8, <1>9, <1>10, <1>11,
     <1>12, <1>13, <1>14 DEF Next

LEMMA OfferCorrect == Spec => [](TypeOK /\ OfferInv)
  BY TypeInit, TypeNext, OfferInit, OfferNext, PTL DEF Spec

(* An acceptance starts at most one run, whatever assignments the server   *)
(* repeats: StartJob finds its offer unstarted.                            *)
THEOREM RunsOnceHolds == Spec => RunsOnce
<1>1. TypeOK /\ OfferInv /\ [Next]_vars
        => [\A o \in Offers : run'[o] # run[o] => Rank(run'[o]) = Rank(run[o]) + 1]_vars
  <2> SUFFICES ASSUME TypeOK, OfferInv, [Next]_vars, NEW p \in Offers, run'[p] # run[p]
               PROVE  Rank(run'[p]) = Rank(run[p]) + 1
    BY DEF vars
  <2> USE DEF TypeOK, RunSteps
  <2>1. ASSUME NEW o \in Offers, EntrypointReturns(o)
        PROVE  run[p] = "entrypoint" /\ run'[p] = "finishing"
    BY <2>1 DEF EntrypointReturns
  <2>2. ASSUME NEW o \in Offers, RemoveJob(o)
        PROVE  run[p] = "finishing" /\ run'[p] = "done"
    BY <2>2 DEF RemoveJob
  <2>3. ASSUME StartJob
        PROVE  run[p] = "none" /\ run'[p] = "entrypoint"
    BY <2>3 DEF StartJob, OfferInv, OfferAtReader
  <2>4. EntrypointReturns(p) \/ RemoveJob(p) \/ StartJob
    BY DEF Next, vars, ReceiveOffer, AssignmentTimeout, Shutdown, EntrypointReturns,
           RemoveJob, ReceiveAssignment, ReceiveTermination, DeclineOffer, AcceptOffer,
           StartJob, DrainBegin, DrainPoll, DrainTimeout, jobVars
  <2> QED
    BY <2>1, <2>2, <2>3, <2>4 DEF Rank
<1> QED
  BY <1>1, OfferCorrect, PTL DEF RunsOnce, Spec

-----------------------------------------------------------------------------
(* OwnershipInv.  Of two JobContexts that run for one job each is in       *)
(* overlapped; so the entry that finishJob deletes by id is its own, or    *)
(* that of a JobContext which has run beside it.                           *)

Together(o, p) == JobOf[o] = JobOf[p] /\ Live(o) /\ Live(p)

BesideKnown ==
  \A o \in Offers, p \in Offers : o # p /\ Together(o, p) => o \in overlapped

OwnershipInv == BesideKnown /\ RegisteredWhileLive

LEMMA OwnershipInit == Init => OwnershipInv
  BY DEF Init, OwnershipInv, BesideKnown, Together, RegisteredWhileLive, Live

LEMMA OwnershipNext == TypeOK /\ OfferInv /\ OwnershipInv /\ [Next]_vars => OwnershipInv'
<1> SUFFICES ASSUME TypeOK, OfferInv, OwnershipInv, [Next]_vars PROVE OwnershipInv'
  OBVIOUS
<1> USE DEF TypeOK, OwnershipInv, BesideKnown, Together, RegisteredWhileLive, Live,
            RunSteps, ReaderSteps
<1>1. ASSUME NEW o \in Offers, ReceiveOffer(o) PROVE OwnershipInv'
  BY <1>1 DEF ReceiveOffer, jobVars, drainVars
<1>2. ASSUME NEW o \in Offers, AssignmentTimeout(o) PROVE OwnershipInv'
  BY <1>2 DEF AssignmentTimeout, readerVars, jobVars, drainVars
<1>3. ASSUME NEW o \in Offers, Shutdown(o) PROVE OwnershipInv'
  BY <1>3 DEF Shutdown, readerVars, drainVars
<1>4. ASSUME NEW o \in Offers, EntrypointReturns(o) PROVE OwnershipInv'
  BY <1>4 DEF EntrypointReturns, readerVars, drainVars
<1>5. ASSUME NEW o \in Offers, RemoveJob(o) PROVE OwnershipInv'
  BY <1>5 DEF RemoveJob, readerVars, drainVars
<1>6. ASSUME NEW j \in Jobs, ReceiveAssignment(j) PROVE OwnershipInv'
  BY <1>6 DEF ReceiveAssignment, jobVars, drainVars
<1>7. ASSUME NEW j \in Jobs, ReceiveTermination(j) PROVE OwnershipInv'
  BY <1>7 DEF ReceiveTermination, readerVars, drainVars
<1>8. CASE DeclineOffer
  BY <1>8 DEF DeclineOffer, jobVars, drainVars
<1>9. CASE AcceptOffer
  BY <1>9 DEF AcceptOffer, jobVars, drainVars
<1>10. CASE StartJob
  BY <1>10 DEF StartJob, drainVars, Beside, OfferInv, OfferAtReader
<1>11. CASE DrainBegin
  BY <1>11 DEF DrainBegin, readerVars, jobVars
<1>12. CASE DrainPoll
  BY <1>12 DEF DrainPoll, readerVars, jobVars
<1>13. CASE DrainTimeout
  BY <1>13 DEF DrainTimeout, readerVars
<1>14. CASE UNCHANGED vars
  BY <1>14 DEF vars
<1> QED
  BY <1>1, <1>2, <1>3, <1>4, <1>5, <1>6, <1>7, <1>8, <1>9, <1>10, <1>11,
     <1>12, <1>13, <1>14 DEF Next

LEMMA OwnershipCorrect == Spec => [](TypeOK /\ OfferInv /\ OwnershipInv)
  BY OwnershipInit, OwnershipNext, OfferCorrect, PTL DEF Spec

(* What is registered runs, and what runs is registered, unless the server *)
(* has given the job out again while it ran: whatever timers fire, however *)
(* Drain interleaves, and whatever else the server sends.                  *)
THEOREM RegisteredWhileLiveHolds == Spec => []RegisteredWhileLive
  BY OwnershipCorrect, PTL DEF OwnershipInv

-----------------------------------------------------------------------------
(* Drain.  What it took its count of has been started, and while it waits  *)
(* an unfinished one is still live, so still registered unless overlapped. *)

OwedStarted ==
  /\ drain = "off" => owed = {}
  /\ \A o \in owed : Live(o) \/ run[o] = "done"

DrainInv == OwedStarted /\ DrainSettles

LEMMA DrainInit == Init => DrainInv
  BY DEF Init, DrainInv, OwedStarted, DrainSettles

LEMMA DrainNext ==
  TypeOK /\ OfferInv /\ OwnershipInv /\ DrainInv /\ [Next]_vars => DrainInv'
<1> SUFFICES ASSUME TypeOK, OfferInv, OwnershipInv, DrainInv, [Next]_vars PROVE DrainInv'
  OBVIOUS
<1> USE DEF TypeOK, DrainInv, OwedStarted, DrainSettles, Live, DrainSteps, RunSteps
<1>1. ASSUME NEW o \in Offers, ReceiveOffer(o) PROVE DrainInv'
  BY <1>1 DEF ReceiveOffer, jobVars, drainVars
<1>2. ASSUME NEW o \in Offers, AssignmentTimeout(o) PROVE DrainInv'
  BY <1>2 DEF AssignmentTimeout, readerVars, jobVars, drainVars
<1>3. ASSUME NEW o \in Offers, Shutdown(o) PROVE DrainInv'
  BY <1>3 DEF Shutdown, readerVars, drainVars
<1>4. ASSUME NEW o \in Offers, EntrypointReturns(o) PROVE DrainInv'
  BY <1>4 DEF EntrypointReturns, readerVars, drainVars
<1>5. ASSUME NEW o \in Offers, RemoveJob(o) PROVE DrainInv'
  BY <1>5 DEF RemoveJob, readerVars, drainVars
<1>6. ASSUME NEW j \in Jobs, ReceiveAssignment(j) PROVE DrainInv'
  BY <1>6 DEF ReceiveAssignment, jobVars, drainVars
<1>7. ASSUME NEW j \in Jobs, ReceiveTermination(j) PROVE DrainInv'
  BY <1>7 DEF ReceiveTermination, readerVars, drainVars
<1>8. CASE DeclineOffer
  BY <1>8 DEF DeclineOffer, jobVars, drainVars
<1>9. CASE AcceptOffer
  BY <1>9 DEF AcceptOffer, jobVars, drainVars
<1>10. CASE StartJob
  BY <1>10 DEF StartJob, drainVars, OfferInv, OfferAtReader
<1>11. CASE DrainBegin
  BY <1>11 DEF DrainBegin, readerVars, jobVars, Registered, OwnershipInv,
               RegisteredWhileLive
<1>12. CASE DrainPoll
  BY <1>12 DEF DrainPoll, readerVars, jobVars, Registered, OwnershipInv,
               RegisteredWhileLive
<1>13. CASE DrainTimeout
  BY <1>13 DEF DrainTimeout, readerVars, Registered, OwnershipInv, RegisteredWhileLive
<1>14. CASE UNCHANGED vars
  BY <1>14 DEF vars
<1> QED
  BY <1>1, <1>2, <1>3, <1>4, <1>5, <1>6, <1>7, <1>8, <1>9, <1>10, <1>11,
     <1>12, <1>13, <1>14 DEF Next

(* When Drain returns nil the jobs it found have finished; when it returns *)
(* an error they have finished or been cancelled: all but those that the   *)
(* server has given out again while they ran.                              *)
THEOREM DrainSettlesHolds == Spec => []DrainSettles
<1>1. Spec => []DrainInv
  BY OwnershipCorrect, DrainInit, DrainNext, PTL DEF Spec
<1> QED
  BY <1>1, PTL DEF DrainInv

-----------------------------------------------------------------------------
(* The dispatch promise.  Every step of the worker is a step of Dispatch   *)
(* on the phases of its offers, or leaves them alone.                      *)

DrainFlag == drain = "off" <=> ~draining

LEMMA DrainFlagCorrect == Spec => []DrainFlag
<1>1. Init => DrainFlag
  BY DEF Init, DrainFlag
<1>2. DrainFlag /\ [Next]_vars => DrainFlag'
  BY DEF DrainFlag, Next, vars, ReceiveOffer, AssignmentTimeout, Shutdown,
         EntrypointReturns, RemoveJob, ReceiveAssignment, ReceiveTermination,
         DeclineOffer, AcceptOffer, StartJob, DrainBegin, DrainPoll, DrainTimeout,
         drainVars
<1> QED
  BY <1>1, <1>2, PTL DEF Spec

LEMMA PhaseStep ==
  ASSUME NEW o \in Offers, NEW x,
         PhaseOf(o)' = x, \A p \in Offers \ {o} : PhaseOf(p)' = PhaseOf(p)
  PROVE  [q \in Offers |-> PhaseOf(q)]' = [[q \in Offers |-> PhaseOf(q)] EXCEPT ![o] = x]
  OBVIOUS

LEMMA PromiseInit == Init => Promise!DispatchInit
  BY DEF Init, Promise!DispatchInit, PhaseOf, Live

LEMMA PromiseNext ==
  TypeOK /\ OfferInv /\ DrainFlag /\ [Next]_vars => [Promise!DispatchNext]_(Promise!dvars)
<1> SUFFICES ASSUME TypeOK, OfferInv, DrainFlag, [Next]_vars
             PROVE  Promise!DispatchNext \/ UNCHANGED Promise!dvars
  OBVIOUS
<1> USE DEF TypeOK, OfferInv, OfferUnsent, OfferAtReader, OfferStored, Live, RunSteps,
            ReaderSteps, Promise!dvars
<1>1. ASSUME NEW o \in Offers, ReceiveOffer(o) PROVE Promise!Arrive(o)
  <2>1. PhaseOf(o) = "new" /\ PhaseOf(o)' = IF draining THEN "over" ELSE "weighed"
    BY <1>1 DEF ReceiveOffer, jobVars, drainVars, PhaseOf
  <2>2. \A p \in Offers \ {o} : PhaseOf(p)' = PhaseOf(p)
    BY <1>1 DEF ReceiveOffer, jobVars, drainVars, PhaseOf
  <2>3. UNCHANGED draining
    BY <1>1 DEF ReceiveOffer, drainVars
  <2> QED
    BY <2>1, <2>2, <2>3, PhaseStep DEF Promise!Arrive
<1>2. ASSUME NEW o \in Offers, AssignmentTimeout(o), pending[JobOf[o]] # NoOffer
      PROVE  Promise!Lapse(pending[JobOf[o]])
  BY <1>2 DEF AssignmentTimeout, readerVars, jobVars, drainVars, PhaseOf, Promise!Lapse
<1>3. ASSUME NEW o \in Offers, AssignmentTimeout(o), pending[JobOf[o]] = NoOffer
      PROVE  UNCHANGED Promise!dvars
  BY <1>3 DEF AssignmentTimeout, readerVars, jobVars, drainVars, PhaseOf
<1>4. ASSUME NEW o \in Offers, Shutdown(o) PROVE UNCHANGED Promise!dvars
  BY <1>4 DEF Shutdown, readerVars, drainVars, PhaseOf
<1>5. ASSUME NEW o \in Offers, EntrypointReturns(o) PROVE UNCHANGED Promise!dvars
  BY <1>5 DEF EntrypointReturns, readerVars, drainVars, PhaseOf
<1>6. ASSUME NEW o \in Offers, RemoveJob(o) PROVE Promise!Finish(o)
  <2>1. PhaseOf(o) = "active" /\ PhaseOf(o)' = "over"
    BY <1>6 DEF RemoveJob, readerVars, drainVars, PhaseOf
  <2>2. \A p \in Offers \ {o} : PhaseOf(p)' = PhaseOf(p)
    BY <1>6 DEF RemoveJob, readerVars, drainVars, PhaseOf
  <2>3. UNCHANGED draining
    BY <1>6 DEF RemoveJob, drainVars
  <2> QED
    BY <2>1, <2>2, <2>3, PhaseStep DEF Promise!Finish
<1>7. ASSUME NEW j \in Jobs, ReceiveAssignment(j) PROVE UNCHANGED Promise!dvars
  BY <1>7 DEF ReceiveAssignment, jobVars, drainVars, PhaseOf
<1>8. ASSUME NEW j \in Jobs, ReceiveTermination(j) PROVE UNCHANGED Promise!dvars
  BY <1>8 DEF ReceiveTermination, readerVars, drainVars, PhaseOf
<1>9. CASE DeclineOffer /\ ~sawDraining
  <2>1. PICK o \in Offers : readerOffer = o
    BY <1>9 DEF DeclineOffer
  <2>2. PhaseOf(o) = "weighed" /\ PhaseOf(o)' = "over"
    BY <1>9, <2>1 DEF DeclineOffer, jobVars, drainVars, PhaseOf
  <2>3. \A p \in Offers \ {o} : PhaseOf(p)' = PhaseOf(p)
    BY <1>9, <2>1 DEF DeclineOffer, jobVars, drainVars, PhaseOf
  <2>4. UNCHANGED draining
    BY <1>9 DEF DeclineOffer, drainVars
  <2>5. Promise!Decline(o)
    BY <2>2, <2>3, <2>4, PhaseStep DEF Promise!Decline
  <2> QED
    BY <2>5 DEF Promise!DispatchNext
<1>10. CASE DeclineOffer /\ sawDraining
  BY <1>10 DEF DeclineOffer, jobVars, drainVars, PhaseOf
<1>11. CASE AcceptOffer
  <2>1. Promise!Accept(readerOffer)
    BY <1>11 DEF AcceptOffer, jobVars, drainVars, PhaseOf, Promise!Accept
  <2> QED
    BY <2>1, <1>11 DEF Promise!DispatchNext, AcceptOffer
<1>12. CASE StartJob
  <2>1. Promise!Start(readerOffer)
    BY <1>12 DEF StartJob, drainVars, PhaseOf, Promise!Start
  <2> QED
    BY <2>1, <1>12 DEF Promise!DispatchNext, StartJob
<1>13. CASE DrainBegin
  <2>1. \A p \in Offers : PhaseOf(p)' = PhaseOf(p)
    BY <1>13 DEF DrainBegin, readerVars, jobVars, PhaseOf
  <2>2. Promise!Close
    BY <1>13, <2>1 DEF DrainBegin, DrainFlag, Promise!Close
  <2> QED
    BY <2>2 DEF Promise!DispatchNext
<1>14. CASE DrainPoll
  BY <1>14 DEF DrainPoll, readerVars, jobVars, PhaseOf
<1>15. CASE DrainTimeout
  BY <1>15 DEF DrainTimeout, readerVars, PhaseOf
<1>16. CASE UNCHANGED vars
  BY <1>16 DEF vars, PhaseOf
<1>17. \A o \in Offers : AssignmentTimeout(o) /\ pending[JobOf[o]] # NoOffer
                          => pending[JobOf[o]] \in Offers
  BY DEF AssignmentTimeout
<1> QED
  BY <1>1, <1>2, <1>3, <1>4, <1>5, <1>6, <1>7, <1>8, <1>9, <1>10, <1>11, <1>12,
     <1>13, <1>14, <1>15, <1>16, <1>17 DEF Next, Promise!DispatchNext

(* Worker implements Dispatch, also for a server that overlaps offers: an  *)
(* accepted offer lapses or becomes exactly one run, and nothing that      *)
(* arrives after Drain has begun is weighed.                               *)
THEOREM KeepsPromiseHolds == Spec => KeepsPromise
  BY OfferCorrect, DrainFlagCorrect, PromiseInit, PromiseNext, PTL
     DEF Spec, KeepsPromise, Promise!DispatchSpec

-----------------------------------------------------------------------------
(* An offer that arrives once Drain has begun is turned down.              *)

TooLate(o) ==
  /\ draining
  /\ pending[JobOf[o]] # o
  /\ o \in offered => (readerAt = "deciding" /\ readerOffer = o => sawDraining)

(* Once the flag is set, an offer that has not arrived is never stored in  *)
(* w.pending: the flag is read after the offer arrives.                    *)
THEOREM LateOffersDeclinedHolds == Spec => LateOffersDeclined
<1> SUFFICES ASSUME NEW o \in Offers
             PROVE  Spec => [](draining /\ o \notin offered => [](pending[JobOf[o]] # o))
  BY DEF LateOffersDeclined
<1>1. OfferInv /\ draining /\ o \notin offered => TooLate(o)
  BY DEF OfferInv, OfferUnsent, TooLate
<1>2. TypeOK /\ OfferInv /\ TooLate(o) /\ [Next]_vars => TooLate(o)'
  <2> SUFFICES ASSUME TypeOK, OfferInv, TooLate(o), [Next]_vars PROVE TooLate(o)'
    OBVIOUS
  <2> USE DEF TypeOK, OfferInv, OfferUnsent, TooLate
  <2>1. ASSUME NEW p \in Offers, ReceiveOffer(p) PROVE TooLate(o)'
    BY <2>1 DEF ReceiveOffer, drainVars
  <2>2. ASSUME NEW p \in Offers, AssignmentTimeout(p) PROVE TooLate(o)'
    BY <2>2 DEF AssignmentTimeout, readerVars, drainVars
  <2>3. CASE AcceptOffer
    BY <2>3 DEF AcceptOffer, drainVars
  <2>4. ASSUME NEW j \in Jobs, ReceiveAssignment(j) PROVE TooLate(o)'
    BY <2>4 DEF ReceiveAssignment, drainVars
  <2>5. CASE DeclineOffer \/ StartJob
    BY <2>5 DEF DeclineOffer, StartJob, drainVars
  <2>6. ASSUME NEW p \in Offers, Shutdown(p) \/ EntrypointReturns(p) \/ RemoveJob(p)
        PROVE  TooLate(o)'
    BY <2>6 DEF Shutdown, EntrypointReturns, RemoveJob, readerVars, drainVars
  <2>7. ASSUME NEW j \in Jobs, ReceiveTermination(j) PROVE TooLate(o)'
    BY <2>7 DEF ReceiveTermination, readerVars, drainVars
  <2>8. CASE DrainBegin \/ DrainPoll \/ DrainTimeout \/ UNCHANGED vars
    BY <2>8 DEF DrainBegin, DrainPoll, DrainTimeout, readerVars, vars
  <2> QED
    BY <2>1, <2>2, <2>3, <2>4, <2>5, <2>6, <2>7, <2>8 DEF Next
<1>3. TooLate(o) => pending[JobOf[o]] # o
  BY DEF TooLate
<1> QED
  BY <1>1, <1>2, <1>3, OfferCorrect, PTL DEF Spec
=============================================================================
