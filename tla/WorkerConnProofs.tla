-------------------------- MODULE WorkerConnProofs --------------------------
(***************************************************************************)
(* Proofs about WorkerConn for any number of jobs and connections, any     *)
(* capacity of the queue and any limit of the wait.  Three inductive       *)
(* invariants, each resting on the ones before:                            *)
(*   TypeOK      the types of the state, the queue within its capacity and *)
(*               the wait below twice its limit;                           *)
(*   GroupInv    the goroutines of a connection run only while runConn     *)
(*               waits for them, and the queue holds no answer of another  *)
(*               connection: none at all between the flush and the         *)
(*               registration;                                             *)
(*   JobOrder    what the queue may still hold about a job, by where the   *)
(*               job is and by what the server has been told.              *)
(***************************************************************************)
EXTENDS WorkerConn, FiniteSetTheorems, SequenceTheorems, TLAPS

USE JobsAssumption, QueueAssumption, BackoffAssumption, ConnsAssumption DEF JobSteps

-----------------------------------------------------------------------------
(* A connection in use has a number; its goroutines run only while runConn *)
(* waits for them.                                                         *)
GroupPlaced ==
  /\ runAt \in {"flushing", "registering", "up"} => conn >= 1
  /\ runAt # "up" => reader = "off" /\ ~writer /\ ticker = "off"

(* The flush leaves no answer behind, and none is added before Register.   *)
QueueBound ==
  /\ runAt = "registering" => \A i \in DOMAIN queue : queue[i].kind # "bound"
  /\ AnswersStay

GroupInv == GroupPlaced /\ QueueBound

-----------------------------------------------------------------------------
(* What the helpers of the actions yield.                                  *)

LEMMA ReportsTyped ==
  ASSUME NEW full \in BOOLEAN, NEW S \in SUBSET Jobs
  PROVE  [full |-> full, count |-> Cardinality(S)] \in Reports
<1>1. Cardinality(S) \in Nat /\ Cardinality(Jobs) \in Nat /\ Cardinality(S) <= Cardinality(Jobs)
  BY FS_Subset, FS_CardinalityType
<1> QED
  BY <1>1 DEF Reports

LEMMA SnapshotTyped ==
  ASSUME TypeOK, NEW r \in Reporters, Snapshot(r)
  PROVE  snap' \in [Reporters -> Reports]
<1>1. [full |-> draining, count |-> Cardinality(Registered)] \in Reports
  BY ReportsTyped DEF TypeOK, Registered
<1> QED
  BY <1>1 DEF TypeOK, Snapshot

LEMMA SendTyped ==
  ASSUME TypeOK, NEW m \in Messages, Send(m)
  PROVE  queue' \in Seq(Messages) /\ Len(queue') <= QueueCap
<1> HIDE DEF Messages
<1>1. queue \in Seq(Messages) /\ Len(queue) \in Nat /\ Len(queue) <= QueueCap
  BY DEF TypeOK
<1>2. CASE Len(queue) < QueueCap
  BY <1>1, <1>2, AppendProperties DEF Send
<1>3. CASE ~(Len(queue) < QueueCap)
  BY <1>1, <1>3 DEF Send
<1> QED
  BY <1>2, <1>3

LEMMA NoReportTyped == NoReport \in Reports
<1>1. Cardinality(Jobs) \in Nat
  BY FS_CardinalityType
<1> QED
  BY <1>1 DEF NoReport, Reports

LEMMA SendStatusTyped ==
  ASSUME TypeOK, NEW r \in Reporters, SendStatus(r)
  PROVE  /\ queue' \in Seq(Messages) /\ Len(queue') <= QueueCap
         /\ snap' \in [Reporters -> Reports]
<1>1. snap[r] \in Reports
  BY DEF TypeOK
<1>2. [kind |-> "status", report |-> snap[r]] \in Messages
  BY <1>1 DEF Messages
<1> QED
  BY <1>2, SendTyped, NoReportTyped DEF SendStatus, TypeOK

LEMMA TakeTyped ==
  ASSUME TypeOK, queue # <<>>
  PROVE  /\ Tail(queue) \in Seq(Messages) /\ Len(Tail(queue)) <= QueueCap
         /\ Head(queue) \in Messages
<1> HIDE DEF Messages
<1> QED
  BY HeadTailProperties DEF TypeOK

LEMMA BoundTyped ==
  ASSUME TypeOK, GroupInv, runAt \in {"registering", "up"}
  PROVE  [kind |-> "bound", conn |-> conn] \in Messages
  BY DEF TypeOK, GroupInv, GroupPlaced, Messages

-----------------------------------------------------------------------------
(* TypeOK and GroupInv.                                                    *)

LEMMA TypeInit == Init => TypeOK
<1> SUFFICES ASSUME Init PROVE TypeOK
  OBVIOUS
<1>1. queue \in Seq(Messages) /\ Len(queue) <= QueueCap
  BY EmptySeq DEF Init
<1>2. snap \in [Reporters -> Reports] /\ seen \in Reports
  BY NoReportTyped DEF Init
<1>3. backoff \in 1..(2 * MaxReconnectBackoff - 1)
  BY DEF Init
<1>4. job \in [Jobs -> JobSteps]
      /\ seenJob \in [Jobs -> {"none", "running", "ended"}]
  BY DEF Init
<1>5. {ctxDone, connOpen, failed, writer, draining} \subseteq BOOLEAN
  BY DEF Init
<1>6. conn \in 0..MaxConns
  BY DEF Init
<1>7. /\ runAt \in {"dialing", "flushing", "registering", "up", "backoff", "returned"}
      /\ reader \in {"off", "reading", "answering", "reporting", "holding"}
      /\ ticker \in {"off", "waiting", "holding"}
      /\ drainer \in {"off", "set", "holding", "reported"}
  BY DEF Init
<1> QED
  BY <1>1, <1>2, <1>3, <1>4, <1>5, <1>6, <1>7 DEF TypeOK

LEMMA RunTyped == TypeOK /\ GroupInv /\ Running => TypeOK'
<1> SUFFICES ASSUME TypeOK, GroupInv PROVE Running => TypeOK'
  OBVIOUS
<1> USE DEF TypeOK, groupVars, senderVars, serverVars, runVars
<1>1. Dial => TypeOK'
  BY DEF Dial
<1>2. AfterConn /\ UNCHANGED <<ctxDone, conn, queue, senderVars, serverVars, groupVars>>
        => TypeOK'
  BY DEF AfterConn
<1>3. DialFails => TypeOK'
  BY <1>2 DEF DialFails
<1>4. FlushOne => TypeOK'
  BY TakeTyped DEF FlushOne
<1>5. FlushEnds => TypeOK'
  BY DEF FlushEnds
<1>6. Register => TypeOK'
  BY BoundTyped, SendTyped DEF Register
<1>7. CloseConn => TypeOK'
  BY DEF CloseConn
<1>8. RunConnReturns => TypeOK'
  BY <1>2 DEF RunConnReturns
<1>9. BackoffElapses => TypeOK'
  BY DEF BackoffElapses
<1>10. BackoffCancelled => TypeOK'
  BY DEF BackoffCancelled
<1> QED
  BY <1>1, <1>3, <1>4, <1>5, <1>6, <1>7, <1>8, <1>9, <1>10 DEF Running

LEMMA ReadTyped == TypeOK /\ GroupInv /\ Reading => TypeOK'
<1> SUFFICES ASSUME TypeOK, GroupInv PROVE Reading => TypeOK'
  OBVIOUS
<1> USE DEF TypeOK, groupVars, senderVars, serverVars, runVars
<1>1. ReceiveRegister => TypeOK'
  BY SnapshotTyped DEF ReceiveRegister, Reporters
<1>2. ReaderReports => TypeOK'
  BY SendStatusTyped DEF ReaderReports, Reporters
<1>3. ReceiveOffer => TypeOK'
  BY DEF ReceiveOffer
<1>4. AnswerOffer => TypeOK'
  <2>1. AnswerOffer => runAt = "up"
    BY DEF AnswerOffer, GroupInv, GroupPlaced
  <2> QED
    BY <2>1, BoundTyped, SendTyped DEF AnswerOffer
<1>5. ReaderReturns => TypeOK'
  BY DEF ReaderReturns
<1>6. ASSUME NEW j \in Jobs, ReceiveAssignment(j) PROVE TypeOK'
  BY <1>6 DEF ReceiveAssignment
<1> QED
  BY <1>1, <1>2, <1>3, <1>4, <1>5, <1>6 DEF Reading

LEMMA WriteTyped == TypeOK /\ Writing => TypeOK'
<1> SUFFICES ASSUME TypeOK PROVE Writing => TypeOK'
  OBVIOUS
<1> USE DEF TypeOK, groupVars, senderVars, serverVars, runVars
<1>1. WriteMessage => TypeOK'
  <2> SUFFICES ASSUME WriteMessage PROVE TypeOK'
    OBVIOUS
  <2>1. queue' \in Seq(Messages) /\ Len(queue') <= QueueCap /\ Head(queue) \in Messages
    BY TakeTyped DEF WriteMessage
  <2>2. seen' \in Reports /\ seenJob' \in [Jobs -> {"none", "running", "ended"}]
    BY <2>1 DEF WriteMessage, Deliver, Messages
  <2> QED
    BY <2>1, <2>2 DEF WriteMessage
<1>2. WriteLost => TypeOK'
  BY TakeTyped DEF WriteLost
<1>3. WriteFails => TypeOK'
  BY TakeTyped DEF WriteFails
<1>4. WriterStops => TypeOK'
  BY DEF WriterStops
<1> QED
  BY <1>1, <1>2, <1>3, <1>4 DEF Writing

LEMMA OthersTyped ==
  TypeOK /\ GroupInv /\ (Ticking \/ Draining \/ Working \/ ContextEnds \/ ConnBreaks)
    => TypeOK'
<1> SUFFICES ASSUME TypeOK, GroupInv
             PROVE  Ticking \/ Draining \/ Working \/ ContextEnds \/ ConnBreaks => TypeOK'
  OBVIOUS
<1> USE DEF TypeOK, groupVars, senderVars, serverVars, runVars
<1>1. Ping => TypeOK'
  BY BoundTyped, SendTyped DEF Ping
<1>2. Tick => TypeOK'
  BY SnapshotTyped DEF Tick, Reporters
<1>3. TickerReports => TypeOK'
  BY SendStatusTyped DEF TickerReports, Reporters
<1>4. TickerStops => TypeOK'
  BY DEF TickerStops
<1>5. DrainSets => TypeOK'
  BY DEF DrainSets
<1>6. DrainSnapshot => TypeOK'
  BY SnapshotTyped DEF DrainSnapshot, Reporters
<1>7. DrainReports => TypeOK'
  BY SendStatusTyped DEF DrainReports, Reporters
<1>8. ASSUME NEW j \in Jobs, JobStarts(j) PROVE TypeOK'
  <2>1. [kind |-> "job", job |-> j, status |-> "running"] \in Messages
    BY DEF Messages
  <2> QED
    BY <1>8, <2>1, SendTyped DEF JobStarts
<1>9. ASSUME NEW j \in Jobs, JobEnds(j) PROVE TypeOK'
  <2>1. [kind |-> "job", job |-> j, status |-> "ended"] \in Messages
    BY DEF Messages
  <2> QED
    BY <1>9, <2>1, SendTyped DEF JobEnds
<1>10. ASSUME NEW j \in Jobs, JobRemoved(j) \/ JobSnapshot(j) PROVE TypeOK'
  BY <1>10, SnapshotTyped DEF JobRemoved, JobSnapshot, Reporters
<1>11. ASSUME NEW j \in Jobs, JobReports(j) PROVE TypeOK'
  BY <1>11, SendStatusTyped DEF JobReports, Reporters
<1>12. ContextEnds => TypeOK'
  BY DEF ContextEnds
<1>13. ConnBreaks => TypeOK'
  BY DEF ConnBreaks
<1> QED
  BY <1>1, <1>2, <1>3, <1>4, <1>5, <1>6, <1>7, <1>8, <1>9, <1>10, <1>11, <1>12, <1>13
  DEF Ticking, Draining, Working

LEMMA TypeNext == TypeOK /\ GroupInv /\ [Next]_vars => TypeOK'
<1>1. TypeOK /\ UNCHANGED vars => TypeOK'
  BY DEF TypeOK, vars, groupVars, senderVars, serverVars, runVars
<1> QED
  BY <1>1, RunTyped, ReadTyped, WriteTyped, OthersTyped DEF Next

-----------------------------------------------------------------------------
(* How the queue may change: a message is added behind it, or its first    *)
(* one is taken away.                                                      *)

LEMMA SendShape ==
  ASSUME TypeOK, NEW m \in Messages, Send(m)
  PROVE  \A i \in DOMAIN queue' :
           \/ i \in DOMAIN queue /\ queue'[i] = queue[i]
           \/ i \in Nat /\ (\A k \in DOMAIN queue : k < i) /\ queue'[i] = m
<1> HIDE DEF Messages
<1>1. queue \in Seq(Messages) /\ Len(queue) \in Nat /\ DOMAIN queue = 1..Len(queue)
  BY DEF TypeOK
<1>2. CASE queue' = queue
  BY <1>2
<1>3. CASE queue' = Append(queue, m)
  <2>1. /\ queue' \in Seq(Messages) /\ Len(queue') = Len(queue) + 1
        /\ \A i \in 1..Len(queue) : queue'[i] = queue[i]
        /\ queue'[Len(queue) + 1] = m
    BY <1>1, <1>3, AppendProperties
  <2>2. DOMAIN queue' = 1..(Len(queue) + 1)
    BY <2>1
  <2> QED
    BY <1>1, <2>1, <2>2
<1> QED
  BY <1>2, <1>3 DEF Send

LEMMA TakeShape ==
  ASSUME TypeOK, queue # <<>>, queue' = Tail(queue)
  PROVE  /\ 1 \in DOMAIN queue /\ Head(queue) = queue[1]
         /\ \A i \in DOMAIN queue' :
              i + 1 \in DOMAIN queue /\ 1 < i + 1 /\ queue'[i] = queue[i + 1]
<1> HIDE DEF Messages
<1>1. queue \in Seq(Messages) /\ Len(queue) \in Nat /\ DOMAIN queue = 1..Len(queue)
  BY DEF TypeOK
<1>2. /\ queue' \in Seq(Messages) /\ Len(queue') = Len(queue) - 1
      /\ \A i \in 1..Len(queue') : queue'[i] = queue[i + 1]
  BY <1>1, HeadTailProperties
<1>3. Len(queue) >= 1 /\ Head(queue) = queue[1]
  BY <1>1, EmptySeq
<1>4. DOMAIN queue' = 1..Len(queue')
  BY <1>2
<1> QED
  BY <1>1, <1>2, <1>3, <1>4

LEMMA OrderTyped ==
  TypeOK => DOMAIN queue \subseteq Nat
  BY DEF TypeOK

-----------------------------------------------------------------------------
(* GroupInv is inductive.                                                  *)

LEMMA GroupInit == Init => GroupInv
  BY DEF Init, GroupInv, GroupPlaced, QueueBound, AnswersStay

LEMMA QueueKept ==
  ASSUME GroupInv, UNCHANGED <<queue, conn>>,
         runAt' = runAt \/ runAt' \notin {"registering", "up"}
  PROVE  QueueBound'
  BY DEF GroupInv, QueueBound, AnswersStay

LEMMA QueueTaken ==
  ASSUME TypeOK, GroupInv, queue # <<>>, queue' = Tail(queue), UNCHANGED <<runAt, conn>>
  PROVE  QueueBound'
  BY TakeShape DEF GroupInv, QueueBound, AnswersStay

LEMMA OtherSent ==
  ASSUME TypeOK, GroupInv, NEW m \in Messages, m.kind # "bound", Send(m),
         UNCHANGED <<runAt, conn>>
  PROVE  QueueBound'
  BY SendShape DEF GroupInv, QueueBound, AnswersStay

LEMMA BoundSent ==
  ASSUME TypeOK, GroupInv, runAt \in {"registering", "up"}, runAt' = "up", UNCHANGED conn,
         Send([kind |-> "bound", conn |-> conn])
  PROVE  QueueBound'
<1> DEFINE m == [kind |-> "bound", conn |-> conn]
<1>1. m \in Messages /\ m.conn = conn
  BY BoundTyped
<1>2. \A i \in DOMAIN queue : queue[i].kind = "bound" => queue[i].conn = conn
  BY DEF GroupInv, QueueBound, AnswersStay
<1>3. \A i \in DOMAIN queue' : queue'[i].kind = "bound" => queue'[i].conn = conn
  <2> HIDE DEF m
  <2> QED
    BY <1>1, <1>2, SendShape DEF m
<1> QED
  BY <1>3 DEF QueueBound, AnswersStay

LEMMA StatusSent ==
  ASSUME TypeOK, GroupInv, NEW r \in Reporters, SendStatus(r), UNCHANGED <<runAt, conn>>
  PROVE  QueueBound'
<1>1. [kind |-> "status", report |-> snap[r]] \in Messages
  BY DEF TypeOK, Messages
<1> QED
  BY <1>1, OtherSent DEF SendStatus

LEMMA GroupNext == TypeOK /\ GroupInv /\ [Next]_vars => GroupInv'
<1> SUFFICES ASSUME TypeOK, GroupInv, [Next]_vars PROVE GroupInv'
  OBVIOUS
<1>1. GroupPlaced'
  <2> USE DEF GroupInv, GroupPlaced, groupVars, senderVars, serverVars, runVars
  <2>1. conn \in Nat
    BY DEF TypeOK
  <2>2. Running => GroupPlaced'
    <3>1. Dial \/ FlushOne \/ FlushEnds \/ Register \/ CloseConn => GroupPlaced'
      BY <2>1 DEF Dial, FlushOne, FlushEnds, Register, CloseConn
    <3>2. DialFails \/ RunConnReturns => GroupPlaced'
      BY DEF DialFails, RunConnReturns, AfterConn
    <3>3. BackoffElapses \/ BackoffCancelled => GroupPlaced'
      BY DEF BackoffElapses, BackoffCancelled
    <3> QED
      BY <3>1, <3>2, <3>3 DEF Running
  <2>3. Reading => GroupPlaced'
    BY DEF Reading, ReceiveRegister, ReaderReports, ReceiveOffer, AnswerOffer,
           ReceiveAssignment, ReaderReturns
  <2>4. Writing => GroupPlaced'
    BY DEF Writing, WriteMessage, WriteLost, WriteFails, WriterStops
  <2>5. Ticking \/ Draining => GroupPlaced'
    BY DEF Ticking, Ping, Tick, TickerReports, TickerStops, Draining, DrainSets,
           DrainSnapshot, DrainReports
  <2>6. Working \/ ContextEnds \/ ConnBreaks => GroupPlaced'
    <3>1. ASSUME NEW j \in Jobs,
                 \/ JobStarts(j) \/ JobEnds(j)
                 \/ JobRemoved(j) \/ JobSnapshot(j) \/ JobReports(j)
          PROVE  GroupPlaced'
      BY <3>1 DEF JobStarts, JobEnds, JobRemoved, JobSnapshot, JobReports
    <3>2. ContextEnds \/ ConnBreaks => GroupPlaced'
      BY DEF ContextEnds, ConnBreaks
    <3> QED
      BY <3>1, <3>2 DEF Working
  <2>7. UNCHANGED vars => GroupPlaced'
    BY DEF vars
  <2> QED
    BY <2>2, <2>3, <2>4, <2>5, <2>6, <2>7 DEF Next
<1>2. QueueBound'
  <2> USE DEF groupVars, senderVars, serverVars, runVars
  <2>1. Dial \/ DialFails \/ CloseConn \/ RunConnReturns \/ BackoffElapses \/ BackoffCancelled
          => QueueBound'
    <3>1. Dial => QueueBound'
      BY DEF Dial, QueueBound, AnswersStay
    <3> QED
      BY <3>1, QueueKept DEF DialFails, AfterConn, CloseConn, RunConnReturns, BackoffElapses,
             BackoffCancelled
  <2>2. FlushOne \/ WriteMessage \/ WriteLost \/ WriteFails => QueueBound'
    BY QueueTaken DEF FlushOne, WriteMessage, WriteLost, WriteFails
  <2>3. FlushEnds => QueueBound'
    BY DEF FlushEnds, QueueBound, AnswersStay
  <2>4. Register \/ AnswerOffer \/ Ping => QueueBound'
    BY BoundSent DEF Register, AnswerOffer, Ping, GroupInv, GroupPlaced
  <2>5. ReaderReports \/ TickerReports \/ DrainReports => QueueBound'
    BY StatusSent DEF ReaderReports, TickerReports, DrainReports, Reporters
  <2>6. ASSUME NEW j \in Jobs, JobReports(j) PROVE QueueBound'
    BY <2>6, StatusSent DEF JobReports, Reporters
  <2>7. ASSUME NEW j \in Jobs, JobStarts(j) \/ JobEnds(j) PROVE QueueBound'
    <3>1. /\ [kind |-> "job", job |-> j, status |-> "running"] \in Messages
          /\ [kind |-> "job", job |-> j, status |-> "ended"] \in Messages
      BY DEF Messages
    <3> QED
      BY <2>7, <3>1, OtherSent DEF JobStarts, JobEnds
  <2>8. ReceiveRegister \/ ReceiveOffer \/ ReaderReturns \/ WriterStops \/ Tick \/ TickerStops
          => QueueBound'
    BY QueueKept DEF ReceiveRegister, ReceiveOffer, ReaderReturns, WriterStops, Tick, TickerStops
  <2>9. ASSUME NEW j \in Jobs, ReceiveAssignment(j) \/ JobRemoved(j) \/ JobSnapshot(j)
        PROVE  QueueBound'
    BY <2>9, QueueKept DEF ReceiveAssignment, JobRemoved, JobSnapshot
  <2>10. DrainSets \/ DrainSnapshot \/ ContextEnds \/ ConnBreaks \/ UNCHANGED vars
           => QueueBound'
    BY QueueKept DEF DrainSets, DrainSnapshot, ContextEnds, ConnBreaks, vars
  <2> QED
    BY <2>1, <2>2, <2>3, <2>4, <2>5, <2>6, <2>7, <2>8, <2>9, <2>10
    DEF Next, Running, Reading, Writing, Ticking, Draining, Working
<1> QED
  BY <1>1, <1>2 DEF GroupInv

LEMMA GroupCorrect == Spec => [](TypeOK /\ GroupInv)
  BY TypeInit, TypeNext, GroupInit, GroupNext, PTL DEF Spec

(* The state is well typed: the queue never exceeds its capacity, the wait *)
(* between two attempts may pass its limit by the last doubling but never  *)
(* reaches twice the limit, and the number of jobs in a report is one the  *)
(* worker can have.                                                        *)
THEOREM ConnTypeCorrect == Spec => []TypeOK
  BY GroupCorrect, PTL

(* Registrations, answers to offers and pings go out on the connection     *)
(* they belong to, or not at all: runConn waits for its goroutines, and    *)
(* the next one empties the queue before it registers.                     *)
THEOREM AnswersStayHolds == Spec => []AnswersStay
<1>1. GroupInv => AnswersStay
  BY DEF GroupInv, QueueBound
<1> QED
  BY <1>1, GroupCorrect, PTL

-----------------------------------------------------------------------------
(* JobOrder.  A job has not ended for the server, nor has a message said   *)
(* so, before its entrypoint has returned; no message that it runs is      *)
(* queued before it has started, behind the message of its end, or after   *)
(* the server has heard of that.                                           *)

Says(i, j, status) ==
  queue[i].kind = "job" /\ queue[i].job = j /\ queue[i].status = status

JobOrder ==
  \A j \in Jobs :
    /\ job[j] \in {"off", "starting"} =>
         \A i \in DOMAIN queue : ~Says(i, j, "running")
    /\ job[j] \in {"off", "starting", "running"} =>
         seenJob[j] # "ended" /\ \A i \in DOMAIN queue : ~Says(i, j, "ended")
    /\ seenJob[j] = "ended" => \A i \in DOMAIN queue : ~Says(i, j, "running")
    /\ \A i, k \in DOMAIN queue : i < k /\ Says(i, j, "ended") => ~Says(k, j, "running")

LEMMA OrderInit == Init => JobOrder
  BY DEF Init, JobOrder, Says

LEMMA OrderKept ==
  ASSUME JobOrder, UNCHANGED <<queue, job, seenJob>>
  PROVE  JobOrder'
  BY DEF JobOrder, Says

LEMMA OrderSent ==
  ASSUME TypeOK, JobOrder, NEW m \in Messages, m.kind # "job", Send(m),
         UNCHANGED <<job, seenJob>>
  PROVE  JobOrder'
  BY SendShape DEF JobOrder, Says

LEMMA OrderTaken ==
  ASSUME TypeOK, JobOrder, queue # <<>>, queue' = Tail(queue), UNCHANGED <<job, seenJob>>
  PROVE  JobOrder'
  BY TakeShape, OrderTyped DEF JobOrder, Says

LEMMA OrderDelivered ==
  ASSUME TypeOK, JobOrder, WriteMessage
  PROVE  JobOrder' /\ \A j \in Jobs : seenJob[j] = "ended" => seenJob'[j] = "ended"
<1> DEFINE m == Head(queue)
<1>1. /\ 1 \in DOMAIN queue /\ m = queue[1]
      /\ \A i \in DOMAIN queue' :
           i + 1 \in DOMAIN queue /\ 1 < i + 1 /\ queue'[i] = queue[i + 1]
  BY TakeShape DEF WriteMessage
<1>2. m \in Messages /\ DOMAIN queue' \subseteq Nat
  BY TakeTyped, OrderTyped, WriteTyped DEF Writing, WriteMessage, TypeOK
<1>3. job' = job
  BY DEF WriteMessage, senderVars
<1>4. \A j \in Jobs :
        seenJob'[j] = IF Says(1, j, "ended") THEN "ended"
                      ELSE IF Says(1, j, "running") THEN "running" ELSE seenJob[j]
  <2> HIDE DEF m
  <2> QED
    BY <1>1, <1>2 DEF WriteMessage, Deliver, Says, TypeOK, Messages, m
<1> HIDE DEF m
<1> QED
  BY <1>1, <1>2, <1>3, <1>4 DEF JobOrder, Says

LEMMA OrderJobSent ==
  ASSUME TypeOK, JobOrder, NEW j \in Jobs, JobStarts(j) \/ JobEnds(j)
  PROVE  JobOrder'
<1>1. CASE JobStarts(j)
  <2> DEFINE m == [kind |-> "job", job |-> j, status |-> "running"]
  <2>1. m \in Messages /\ m.kind = "job" /\ m.job = j /\ m.status = "running"
    BY DEF Messages
  <2>2. \A i \in DOMAIN queue' :
          \/ i \in DOMAIN queue /\ queue'[i] = queue[i]
          \/ i \in Nat /\ (\A k \in DOMAIN queue : k < i) /\ queue'[i] = m
    BY <1>1, <2>1, SendShape DEF JobStarts
  <2>3. /\ job[j] = "starting" /\ job' = [job EXCEPT ![j] = "running"] /\ seenJob' = seenJob
        /\ job \in [Jobs -> JobSteps]
    BY <1>1 DEF JobStarts, TypeOK, serverVars
  <2> HIDE DEF m
  <2> QED
    BY <2>1, <2>2, <2>3, OrderTyped DEF JobOrder, Says
<1>2. CASE JobEnds(j)
  <2> DEFINE m == [kind |-> "job", job |-> j, status |-> "ended"]
  <2>1. m \in Messages /\ m.kind = "job" /\ m.job = j /\ m.status = "ended"
    BY DEF Messages
  <2>2. \A i \in DOMAIN queue' :
          \/ i \in DOMAIN queue /\ queue'[i] = queue[i]
          \/ i \in Nat /\ (\A k \in DOMAIN queue : k < i) /\ queue'[i] = m
    BY <1>2, <2>1, SendShape DEF JobEnds
  <2>3. /\ job[j] = "running" /\ job' = [job EXCEPT ![j] = "finishing"] /\ seenJob' = seenJob
        /\ job \in [Jobs -> JobSteps]
    BY <1>2 DEF JobEnds, TypeOK, serverVars
  <2>4. \A i, k \in DOMAIN queue' : i < k /\ queue'[i] = m => ~(k \in DOMAIN queue)
                                      \/ (i \in DOMAIN queue /\ queue'[i] = queue[i])
    BY <2>2, OrderTyped
  <2> HIDE DEF m
  <2>5. seenJob[j] # "ended"
    BY <2>3 DEF JobOrder
  <2>6. ASSUME NEW l \in Jobs, NEW i \in DOMAIN queue', NEW k \in DOMAIN queue', i < k,
               Says(i, l, "ended")'
        PROVE  ~Says(k, l, "running")'
    <3>1. CASE k \in DOMAIN queue /\ queue'[k] = queue[k]
      BY <2>1, <2>2, <2>4, <2>6, <3>1 DEF JobOrder, Says
    <3>2. CASE queue'[k] = m
      BY <2>1, <3>2 DEF Says
    <3> QED
      BY <2>2, <3>1, <3>2
  <2>7. ASSUME NEW l \in Jobs
        PROVE  /\ job'[l] \in {"off", "starting"} =>
                    \A i \in DOMAIN queue' : ~Says(i, l, "running")'
               /\ job'[l] \in {"off", "starting", "running"} =>
                    seenJob'[l] # "ended" /\ \A i \in DOMAIN queue' : ~Says(i, l, "ended")'
               /\ seenJob'[l] = "ended" => \A i \in DOMAIN queue' : ~Says(i, l, "running")'
    BY <2>1, <2>2, <2>3, <2>5 DEF JobOrder, Says
  <2> QED
    BY <2>6, <2>7 DEF JobOrder
<1> QED
  BY <1>1, <1>2

LEMMA OrderStatusSent ==
  ASSUME TypeOK, JobOrder, NEW r \in Reporters, SendStatus(r), UNCHANGED <<job, seenJob>>
  PROVE  JobOrder'
<1>1. [kind |-> "status", report |-> snap[r]] \in Messages
  BY DEF TypeOK, Messages
<1> QED
  BY <1>1, OrderSent DEF SendStatus

LEMMA OrderBoundSent ==
  ASSUME TypeOK, GroupInv, JobOrder, runAt \in {"registering", "up"},
         Send([kind |-> "bound", conn |-> conn]), UNCHANGED <<job, seenJob>>
  PROVE  JobOrder'
  BY BoundTyped, OrderSent

LEMMA OrderNext ==
  ASSUME TypeOK, GroupInv, JobOrder, [Next]_vars
  PROVE  JobOrder' /\ \A j \in Jobs : seenJob[j] = "ended" => seenJob'[j] = "ended"
<1> DEFINE Forward == \A j \in Jobs : seenJob[j] = "ended" => seenJob'[j] = "ended"
<1> USE DEF groupVars, senderVars, serverVars, runVars
<1>1. WriteMessage => JobOrder' /\ Forward
  BY OrderDelivered
<1>2. FlushOne \/ WriteLost \/ WriteFails => JobOrder' /\ Forward
  BY OrderTaken DEF FlushOne, WriteLost, WriteFails
<1>3. Register \/ AnswerOffer \/ Ping => JobOrder' /\ Forward
  BY OrderBoundSent DEF Register, AnswerOffer, Ping, GroupInv, GroupPlaced
<1>4. ReaderReports \/ TickerReports \/ DrainReports => JobOrder' /\ Forward
  BY OrderStatusSent DEF ReaderReports, TickerReports, DrainReports, Reporters
<1>5. ASSUME NEW j \in Jobs, JobStarts(j) \/ JobEnds(j) PROVE JobOrder' /\ Forward
  BY <1>5, OrderJobSent DEF JobStarts, JobEnds
<1>6. ASSUME NEW j \in Jobs, ReceiveAssignment(j) PROVE JobOrder' /\ Forward
  BY <1>6 DEF ReceiveAssignment, JobOrder, Says, TypeOK
<1>7. ASSUME NEW j \in Jobs, JobRemoved(j) \/ JobSnapshot(j) PROVE JobOrder' /\ Forward
  BY <1>7 DEF JobRemoved, JobSnapshot, JobOrder, Says, TypeOK
<1>8. ASSUME NEW j \in Jobs, JobReports(j) PROVE JobOrder' /\ Forward
  <2>1. [kind |-> "status", report |-> snap[j]] \in Messages
    BY DEF TypeOK, Messages, Reporters
  <2>2. \A i \in DOMAIN queue' :
          (i \in DOMAIN queue /\ queue'[i] = queue[i]) \/ queue'[i].kind = "status"
    BY <1>8, <2>1, SendShape DEF JobReports, SendStatus
  <2>3. /\ job[j] = "reporting" /\ job' = [job EXCEPT ![j] = "done"] /\ seenJob' = seenJob
        /\ job \in [Jobs -> JobSteps]
    BY <1>8 DEF JobReports, TypeOK
  <2> QED
    BY <2>2, <2>3 DEF JobOrder, Says
<1>9. Dial \/ DialFails \/ FlushEnds \/ CloseConn \/ RunConnReturns => JobOrder' /\ Forward
  BY OrderKept DEF Dial, DialFails, FlushEnds, CloseConn, RunConnReturns
<1>10. BackoffElapses \/ BackoffCancelled \/ ContextEnds \/ ConnBreaks => JobOrder' /\ Forward
  BY OrderKept DEF BackoffElapses, BackoffCancelled, ContextEnds, ConnBreaks
<1>11. ReceiveRegister \/ ReceiveOffer \/ ReaderReturns \/ WriterStops \/ Tick \/ TickerStops
         => JobOrder' /\ Forward
  BY OrderKept DEF ReceiveRegister, ReceiveOffer, ReaderReturns, WriterStops, Tick, TickerStops
<1>12. DrainSets \/ DrainSnapshot \/ UNCHANGED vars => JobOrder' /\ Forward
  BY OrderKept DEF DrainSets, DrainSnapshot, vars
<1> HIDE DEF Forward
<1>13. JobOrder' /\ Forward
  BY <1>1, <1>2, <1>3, <1>4, <1>5, <1>6, <1>7, <1>8, <1>9, <1>10, <1>11, <1>12
  DEF Next, Running, Reading, Writing, Ticking, Draining, Working
<1> QED
  BY <1>13 DEF Forward

(* The server never hears that a job runs after hearing that it has ended, *)
(* whatever connections, losses and full queues come in between: the two   *)
(* messages are put into the queue by one goroutine, in this order, and    *)
(* the queue is emptied from the front.                                    *)
THEOREM JobStatusForwardHolds == Spec => JobStatusForward
<1>1. TypeOK /\ GroupInv /\ JobOrder /\ [Next]_vars => JobOrder'
  BY OrderNext
<1>2. TypeOK /\ GroupInv /\ JobOrder /\ [Next]_vars
        => [\A j \in Jobs : seenJob[j] = "ended" => seenJob'[j] = "ended"]_vars
  BY OrderNext
<1> QED
  BY <1>1, <1>2, OrderInit, GroupCorrect, PTL DEF Spec, JobStatusForward
=============================================================================
