----------------------------- MODULE CliProofs -----------------------------
(***************************************************************************)
(* Proofs about Cli, for any number of jobs and connections.  RunInv, that *)
(* nobody but a signal ends Run's context and nothing else makes Run       *)
(* return, is inductive; with it every step of the process is one of       *)
(* WorkerConn's.                                                           *)
(***************************************************************************)
EXTENDS Cli, TLAPS

RunInv ==
  /\ ctxDone => proc \notin {"serving", "draining"}
  /\ runAt = "returned" => ctxDone

-----------------------------------------------------------------------------
LEMMA RunInvInit == CliInit => RunInv
  BY DEF CliInit, Init, RunInv

(* Run returns at the end of its context only, which a connection's        *)
(* goroutines, the jobs and Drain leave alone.                             *)
LEMMA WorkerStep ==
  ASSUME RunInv, UNCHANGED proc,
         Running \/ Reading \/ Writing \/ Ticking \/ Draining \/ Working \/ ConnBreaks
  PROVE  RunInv'
<1> USE DEF RunInv, groupVars, senderVars, serverVars, runVars
<1>1. CASE Dial \/ FlushOne \/ FlushEnds \/ Register \/ CloseConn
  BY <1>1 DEF Dial, FlushOne, FlushEnds, Register, CloseConn
<1>2. CASE DialFails \/ RunConnReturns
  BY <1>2 DEF DialFails, RunConnReturns, AfterConn
<1>3. CASE BackoffElapses \/ BackoffCancelled
  BY <1>3 DEF BackoffElapses, BackoffCancelled
<1>4. CASE Reading
  BY <1>4 DEF Reading, ReceiveRegister, ReaderReports, ReceiveOffer, AnswerOffer,
              ReaderReturns, ReceiveAssignment
<1>5. CASE Writing
  BY <1>5 DEF Writing, WriteMessage, WriteLost, WriteFails, WriterStops
<1>6. CASE Ticking
  BY <1>6 DEF Ticking, Ping, Tick, TickerReports, TickerStops
<1>7. CASE Draining
  BY <1>7 DEF Draining, DrainSets, DrainSnapshot, DrainReports
<1>8. CASE Working
  BY <1>8 DEF Working, JobStarts, JobEnds, JobRemoved, JobSnapshot, JobReports
<1>9. CASE ConnBreaks
  BY <1>9 DEF ConnBreaks
<1> QED
  BY <1>1, <1>2, <1>3, <1>4, <1>5, <1>6, <1>7, <1>8, <1>9 DEF Running

LEMMA RunInvStep == RunInv /\ [CliNext]_allVars => RunInv'
<1> SUFFICES ASSUME RunInv, [CliNext]_allVars PROVE RunInv'
  OBVIOUS
<1>1. CASE Signal \/ TakeSignal \/ SecondSignal \/ WorkerReturned
  BY <1>1 DEF RunInv, Signal, TakeSignal, SecondSignal, WorkerReturned, vars, runVars
<1>2. CASE DrainStarts
  BY <1>2, WorkerStep DEF DrainStarts, Draining
<1>3. CASE DrainGoesOn
  BY <1>3, WorkerStep DEF DrainGoesOn, Draining, cliVars
<1>4. CASE DrainReturns
  BY <1>4 DEF RunInv, DrainReturns, Cancel
<1>5. CASE InProcess(Running \/ Reading \/ Writing \/ Ticking \/ Working \/ ConnBreaks)
  BY <1>5, WorkerStep DEF InProcess, cliVars
<1>6. CASE UNCHANGED allVars
  BY <1>6 DEF RunInv, allVars, vars, runVars, cliVars
<1> QED
  BY <1>1, <1>2, <1>3, <1>4, <1>5, <1>6 DEF CliNext

LEMMA RunInvHolds == CliSpec => []RunInv
  BY RunInvInit, RunInvStep, PTL DEF CliSpec

(* Nothing but a signal ends the process: Run does not return by itself,   *)
(* whatever connections and their goroutines do.                           *)
THEOREM StaysUpHolds == CliSpec => []StaysUp
<1>1. RunInv => StaysUp
  BY DEF RunInv, StaysUp
<1> QED
  BY RunInvHolds, <1>1, PTL

-----------------------------------------------------------------------------
LEMMA StepIsConnStep == RunInv /\ [CliNext]_allVars => [Next]_vars
<1> SUFFICES ASSUME RunInv, [CliNext]_allVars PROVE [Next]_vars
  OBVIOUS
<1>1. CASE Signal \/ TakeSignal \/ SecondSignal \/ WorkerReturned
  BY <1>1 DEF Signal, TakeSignal, SecondSignal, WorkerReturned
<1>2. CASE DrainStarts \/ DrainGoesOn
  BY <1>2 DEF DrainStarts, DrainGoesOn, Next, Draining
<1>3. CASE DrainReturns
  <2>1. ContextEnds
    BY <1>3 DEF RunInv, DrainReturns, Cancel, ContextEnds
  <2> QED
    BY <2>1 DEF Next
<1>4. CASE InProcess(Running \/ Reading \/ Writing \/ Ticking \/ Working \/ ConnBreaks)
  BY <1>4 DEF InProcess, Next
<1>5. CASE UNCHANGED allVars
  BY <1>5 DEF allVars
<1> QED
  BY <1>1, <1>2, <1>3, <1>4, <1>5 DEF CliNext

(* The process takes a worker only through steps of WorkerConn: what       *)
(* WorkerConn promises of its queue and its reports holds within cli.Run.  *)
THEOREM ProcessImplementsConn == CliSpec => Spec
<1>1. CliInit => Init
  BY DEF CliInit
<1> QED
  BY <1>1, RunInvHolds, StepIsConnStep, PTL DEF CliSpec, Spec
=============================================================================
