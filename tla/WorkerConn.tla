----------------------------- MODULE WorkerConn -----------------------------
(***************************************************************************)
(* The worker's connection to the server in worker.go: the reconnect loop  *)
(* of Run, runConn with the group of goroutines it waits for, and the      *)
(* bounded queue w.sendCh.  Goroutines of the connection put messages into *)
(* the queue, and so do others that outlive it: jobs and Drain.  When the  *)
(* queue is full a message is dropped.                                     *)
(* Which jobs are taken and how they end is the subject of Worker; here a  *)
(* job is the sequence of messages that one run of it sends, so a job that *)
(* the server gives out again is another one.                              *)
(***************************************************************************)
EXTENDS Naturals, Sequences, FiniteSets

CONSTANTS
  Jobs,                \* jobs the server may assign
  QueueCap,            \* capacity of w.sendCh
  MaxReconnectBackoff, \* maxReconnectBackoff, in seconds
  MaxConns             \* bound: connections that come about

ASSUME JobsAssumption == IsFiniteSet(Jobs)
ASSUME QueueAssumption == QueueCap \in Nat \ {0}
ASSUME BackoffAssumption == MaxReconnectBackoff \in Nat \ {0}
ASSUME ConnsAssumption == MaxConns \in Nat

VARIABLES
  runAt,      \* where Run is
  backoff,    \* its variable of that name, in seconds
  ctxDone,    \* the context of Run has ended
  conn,       \* connections so far; the latest is the one in use
  connOpen,   \* is it open?
  failed,     \* a goroutine of the group has returned an error
  reader,     \* where readLoop is
  writer,     \* is writeLoop running?
  ticker,     \* where statusLoop is
  queue,      \* w.sendCh
  draining,   \* w.draining, set together with w.status
  drainer,    \* where Drain is, up to its status message
  job,        \* where each job's goroutine is
  snap,       \* the status and job count that a caller of sendStatus has read
  seen,       \* the status and job count the server was told last
  seenJob     \* the status of each job the server was told last

groupVars == <<connOpen, failed, reader, writer, ticker>>
senderVars == <<draining, drainer, job, snap>>
serverVars == <<seen, seenJob>>
runVars == <<runAt, backoff, ctxDone, conn>>
vars == <<runVars, groupVars, queue, senderVars, serverVars>>

Reporters == {"reader", "ticker", "drain"} \cup Jobs
Reports == [full : BOOLEAN, count : 0..Cardinality(Jobs)]
NoReport == [full |-> FALSE, count |-> 0]
(* Registrations, answers to offers and pings belong to a connection, and  *)
(* nothing else about them matters here.                                   *)
Messages ==
  [kind : {"bound"}, conn : 1..MaxConns]
    \cup [kind : {"status"}, report : Reports]
    \cup [kind : {"job"}, job : Jobs, status : {"running", "ended"}]

JobSteps ==
  {"off", "starting", "running", "finishing", "removed", "reporting", "done"}
Registered == {j \in Jobs : job[j] \in {"starting", "running", "finishing"}}

(* The wait is compared with maxReconnectBackoff before it is doubled: it  *)
(* may exceed the maximum (32 s for 30 s), but never reaches its double.   *)
TypeOK ==
  /\ runAt \in {"dialing", "flushing", "registering", "up", "backoff", "returned"}
  /\ backoff \in 1..(2 * MaxReconnectBackoff - 1)
  /\ conn \in 0..MaxConns
  /\ reader \in {"off", "reading", "answering", "reporting", "holding"}
  /\ ticker \in {"off", "waiting", "holding"}
  /\ drainer \in {"off", "set", "holding", "reported"}
  /\ {ctxDone, connOpen, failed, writer, draining} \subseteq BOOLEAN
  /\ queue \in Seq(Messages)
  /\ Len(queue) <= QueueCap
  /\ job \in [Jobs -> JobSteps]
  /\ snap \in [Reporters -> Reports]
  /\ seen \in Reports
  /\ seenJob \in [Jobs -> {"none", "running", "ended"}]

Init ==
  /\ runAt = "dialing"
  /\ backoff = 1
  /\ ctxDone = FALSE
  /\ conn = 0
  /\ connOpen = FALSE
  /\ failed = FALSE
  /\ reader = "off"
  /\ writer = FALSE
  /\ ticker = "off"
  /\ queue = <<>>
  /\ draining = FALSE
  /\ drainer = "off"
  /\ job = [j \in Jobs |-> "off"]
  /\ snap = [r \in Reporters |-> NoReport]
  /\ seen = NoReport
  /\ seenJob = [j \in Jobs |-> "none"]

(* send: a full queue drops the message.                                   *)
Send(m) == queue' = IF Len(queue) < QueueCap THEN Append(queue, m) ELSE queue

(* sendStatus reads under the lock and sends without it.  What it has read *)
(* is local to the call and gone with it.                                  *)
Snapshot(r) ==
  snap' = [snap EXCEPT ![r] = [full |-> draining, count |-> Cardinality(Registered)]]
SendStatus(r) ==
  /\ Send([kind |-> "status", report |-> snap[r]])
  /\ snap' = [snap EXCEPT ![r] = NoReport]

-----------------------------------------------------------------------------
(* Run and runConn.                                                        *)

Dial ==
  /\ runAt = "dialing"
  /\ ~ctxDone
  /\ conn < MaxConns
  /\ conn' = conn + 1
  /\ connOpen' = TRUE
  /\ runAt' = "flushing"
  /\ UNCHANGED <<backoff, ctxDone, failed, reader, writer, ticker, queue, senderVars,
                 serverVars>>

(* Mutant: a failed connection ends Run when the limit has been reached.   *)
AfterConnGivingUp ==
  /\ runAt' = IF ctxDone \/ backoff >= MaxReconnectBackoff THEN "returned" ELSE "backoff"
  /\ UNCHANGED backoff

(* runConn has returned: Run returns or waits before the next attempt.  If *)
(* the attempt and the connection took long, the wait starts over.         *)
AfterConn ==
  /\ runAt' = IF ctxDone THEN "returned" ELSE "backoff"
  /\ \/ UNCHANGED backoff
     \/ ~ctxDone /\ backoff' = 1

DialFails ==
  /\ runAt = "dialing"
  /\ AfterConn
  /\ UNCHANGED <<ctxDone, conn, groupVars, queue, senderVars, serverVars>>

(* What was queued before the connection is thrown away, one by one.       *)
FlushOne ==
  /\ runAt = "flushing"
  /\ queue # <<>>
  /\ queue' = Tail(queue)
  /\ UNCHANGED <<runVars, groupVars, senderVars, serverVars>>

(* Mutant: the queue is not flushed.                                       *)
FlushSkipped ==
  /\ runAt = "flushing"
  /\ runAt' = "registering"
  /\ UNCHANGED <<backoff, ctxDone, conn, groupVars, queue, senderVars, serverVars>>

FlushEnds ==
  /\ runAt = "flushing"
  /\ queue = <<>>
  /\ runAt' = "registering"
  /\ UNCHANGED <<backoff, ctxDone, conn, groupVars, queue, senderVars, serverVars>>

Register ==
  /\ runAt = "registering"
  /\ Send([kind |-> "bound", conn |-> conn])
  /\ reader' = "reading"
  /\ writer' = TRUE
  /\ ticker' = "waiting"
  /\ failed' = FALSE
  /\ runAt' = "up"
  /\ UNCHANGED <<backoff, ctxDone, conn, connOpen, senderVars, serverVars>>

(* The group's context ends with the first error or with the parent's.     *)
GroupEnds == failed \/ ctxDone

(* The goroutine that waits for the end of the group's context.            *)
CloseConn ==
  /\ runAt = "up"
  /\ GroupEnds
  /\ connOpen
  /\ connOpen' = FALSE
  /\ UNCHANGED <<runVars, failed, reader, writer, ticker, queue, senderVars, serverVars>>

(* g.Wait: every goroutine of the group has returned.                      *)
RunConnReturns ==
  /\ runAt = "up"
  /\ GroupEnds
  /\ ~connOpen /\ reader = "off" /\ ~writer /\ ticker = "off"
  /\ AfterConn
  /\ UNCHANGED <<ctxDone, conn, groupVars, queue, senderVars, serverVars>>

(* Mutant: the wait is doubled without a limit.                            *)
BackoffElapsesUnlimited ==
  /\ runAt = "backoff"
  /\ backoff' = 2 * backoff
  /\ runAt' = "dialing"
  /\ UNCHANGED <<ctxDone, conn, groupVars, queue, senderVars, serverVars>>

BackoffElapses ==
  /\ runAt = "backoff"
  /\ backoff' = IF backoff < MaxReconnectBackoff THEN 2 * backoff ELSE backoff
  /\ runAt' = "dialing"
  /\ UNCHANGED <<ctxDone, conn, groupVars, queue, senderVars, serverVars>>

BackoffCancelled ==
  /\ runAt = "backoff"
  /\ ctxDone
  /\ runAt' = "returned"
  /\ UNCHANGED <<backoff, ctxDone, conn, groupVars, queue, senderVars, serverVars>>

ContextEnds ==
  /\ ~ctxDone
  /\ ctxDone' = TRUE
  /\ UNCHANGED <<runAt, backoff, conn, groupVars, queue, senderVars, serverVars>>

(* External: the connection breaks.                                        *)
ConnBreaks ==
  /\ connOpen
  /\ connOpen' = FALSE
  /\ UNCHANGED <<runVars, failed, reader, writer, ticker, queue, senderVars, serverVars>>

-----------------------------------------------------------------------------
(* readLoop and the handlers that send.  A handler runs to its end also    *)
(* when the connection has broken.                                         *)

(* handleRegister reports the status, handleAvailability asks the request  *)
(* callback and answers.                                                   *)
ReceiveRegister ==
  /\ reader = "reading" /\ connOpen
  /\ Snapshot("reader")
  /\ reader' = "holding"
  /\ UNCHANGED <<runVars, connOpen, failed, writer, ticker, queue, draining, drainer, job,
                 serverVars>>

ReaderReports ==
  /\ reader = "holding"
  /\ SendStatus("reader")
  /\ reader' = "reading"
  /\ UNCHANGED <<runVars, connOpen, failed, writer, ticker, draining, drainer, job,
                 serverVars>>

ReceiveOffer ==
  /\ reader = "reading" /\ connOpen
  /\ reader' = "answering"
  /\ UNCHANGED <<runVars, connOpen, failed, writer, ticker, queue, senderVars, serverVars>>

AnswerOffer ==
  /\ reader = "answering"
  /\ Send([kind |-> "bound", conn |-> conn])
  /\ reader' = "reading"
  /\ UNCHANGED <<runVars, connOpen, failed, writer, ticker, senderVars, serverVars>>

(* Mutant: a job that has been here before is started again.               *)
ReceiveAssignmentAgain(j) ==
  /\ reader = "reading" /\ connOpen
  /\ job[j] \in {"off", "done"}
  /\ job' = [job EXCEPT ![j] = "starting"]
  /\ UNCHANGED <<runVars, groupVars, queue, draining, drainer, snap, serverVars>>

(* The guard on job is handleAssignment's look at w.pending, which is      *)
(* Worker's: an acceptance starts one run (RunsOnce).                      *)
ReceiveAssignment(j) ==
  /\ reader = "reading" /\ connOpen
  /\ job[j] = "off"
  /\ job' = [job EXCEPT ![j] = "starting"]
  /\ UNCHANGED <<runVars, groupVars, queue, draining, drainer, snap, serverVars>>

ReaderReturns ==
  /\ reader = "reading" /\ ~connOpen
  /\ reader' = "off"
  /\ failed' = TRUE
  /\ UNCHANGED <<runVars, connOpen, writer, ticker, queue, senderVars, serverVars>>

-----------------------------------------------------------------------------
(* writeLoop.                                                              *)

(* What the server makes of a message.                                     *)
Deliver(m) ==
  /\ seen' = IF m.kind = "status" THEN m.report ELSE seen
  /\ seenJob' = IF m.kind = "job" THEN [seenJob EXCEPT ![m.job] = m.status] ELSE seenJob

WriteMessage ==
  /\ writer /\ connOpen
  /\ queue # <<>>
  /\ queue' = Tail(queue)
  /\ Deliver(Head(queue))
  /\ UNCHANGED <<runVars, groupVars, senderVars>>

(* The write succeeds and the message is lost with the connection.         *)
WriteLost ==
  /\ writer /\ connOpen
  /\ queue # <<>>
  /\ queue' = Tail(queue)
  /\ connOpen' = FALSE
  /\ UNCHANGED <<runVars, failed, reader, writer, ticker, senderVars, serverVars>>

WriteFails ==
  /\ writer /\ ~connOpen
  /\ queue # <<>>
  /\ queue' = Tail(queue)
  /\ writer' = FALSE
  /\ failed' = TRUE
  /\ UNCHANGED <<runVars, connOpen, reader, ticker, senderVars, serverVars>>

WriterStops ==
  /\ writer /\ GroupEnds
  /\ writer' = FALSE
  /\ UNCHANGED <<runVars, connOpen, failed, reader, ticker, queue, senderVars, serverVars>>

-----------------------------------------------------------------------------
(* pingLoop and statusLoop.                                                *)

Ping ==
  /\ runAt = "up"
  /\ Send([kind |-> "bound", conn |-> conn])
  /\ UNCHANGED <<runVars, groupVars, senderVars, serverVars>>

Tick ==
  /\ ticker = "waiting"
  /\ Snapshot("ticker")
  /\ ticker' = "holding"
  /\ UNCHANGED <<runVars, connOpen, failed, reader, writer, queue, draining, drainer, job,
                 serverVars>>

(* Mutant: statusLoop reports once.                                        *)
TickerReportsOnce ==
  /\ ticker = "holding"
  /\ SendStatus("ticker")
  /\ ticker' = "off"
  /\ UNCHANGED <<runVars, connOpen, failed, reader, writer, draining, drainer, job,
                 serverVars>>

TickerReports ==
  /\ ticker = "holding"
  /\ SendStatus("ticker")
  /\ ticker' = "waiting"
  /\ UNCHANGED <<runVars, connOpen, failed, reader, writer, draining, drainer, job,
                 serverVars>>

TickerStops ==
  /\ ticker = "waiting" /\ GroupEnds
  /\ ticker' = "off"
  /\ UNCHANGED <<runVars, connOpen, failed, reader, writer, queue, senderVars, serverVars>>

-----------------------------------------------------------------------------
(* Drain, up to its report.                                                *)

DrainSets ==
  /\ drainer = "off"
  /\ draining' = TRUE
  /\ drainer' = "set"
  /\ UNCHANGED <<runVars, groupVars, queue, job, snap, serverVars>>

DrainSnapshot ==
  /\ drainer = "set"
  /\ Snapshot("drain")
  /\ drainer' = "holding"
  /\ UNCHANGED <<runVars, groupVars, queue, draining, job, serverVars>>

DrainReports ==
  /\ drainer = "holding"
  /\ SendStatus("drain")
  /\ drainer' = "reported"
  /\ UNCHANGED <<runVars, groupVars, draining, job, serverVars>>

-----------------------------------------------------------------------------
(* runJob and finishJob.                                                   *)

JobStarts(j) ==
  /\ job[j] = "starting"
  /\ Send([kind |-> "job", job |-> j, status |-> "running"])
  /\ job' = [job EXCEPT ![j] = "running"]
  /\ UNCHANGED <<runVars, groupVars, draining, drainer, snap, serverVars>>

(* The entrypoint has returned or panicked: SUCCESS or FAILED.             *)
JobEnds(j) ==
  /\ job[j] = "running"
  /\ Send([kind |-> "job", job |-> j, status |-> "ended"])
  /\ job' = [job EXCEPT ![j] = "finishing"]
  /\ UNCHANGED <<runVars, groupVars, draining, drainer, snap, serverVars>>

(* finishJob deletes the entry after the shutdown callbacks; sendStatus    *)
(* then takes its own look at the map, and queues what it saw.             *)
JobRemoved(j) ==
  /\ job[j] = "finishing"
  /\ job' = [job EXCEPT ![j] = "removed"]
  /\ UNCHANGED <<runVars, groupVars, queue, draining, drainer, snap, serverVars>>

JobSnapshot(j) ==
  /\ job[j] = "removed"
  /\ Snapshot(j)
  /\ job' = [job EXCEPT ![j] = "reporting"]
  /\ UNCHANGED <<runVars, groupVars, queue, draining, drainer, serverVars>>

JobReports(j) ==
  /\ job[j] = "reporting"
  /\ SendStatus(j)
  /\ job' = [job EXCEPT ![j] = "done"]
  /\ UNCHANGED <<runVars, groupVars, draining, drainer, serverVars>>

-----------------------------------------------------------------------------
Running ==
  \/ Dial \/ DialFails \/ FlushOne \/ FlushEnds \/ Register \/ CloseConn
  \/ RunConnReturns \/ BackoffElapses \/ BackoffCancelled
Reading ==
  \/ ReceiveRegister \/ ReaderReports \/ ReceiveOffer \/ AnswerOffer \/ ReaderReturns
  \/ \E j \in Jobs : ReceiveAssignment(j)
Writing == WriteMessage \/ WriteLost \/ WriteFails \/ WriterStops
Ticking == Ping \/ Tick \/ TickerReports \/ TickerStops
Draining == DrainSets \/ DrainSnapshot \/ DrainReports
Working ==
  \E j \in Jobs :
    JobStarts(j) \/ JobEnds(j) \/ JobRemoved(j) \/ JobSnapshot(j) \/ JobReports(j)
Next ==
  \/ Running \/ Reading \/ Writing \/ Ticking \/ Draining \/ Working
  \/ ContextEnds \/ ConnBreaks

Spec == Init /\ [][Next]_vars

(* Every goroutine runs; dials, callbacks and writes come to an end; a     *)
(* select with the ended context ready does not choose the tick forever.   *)
Fairness ==
  /\ WF_vars(Running)
  /\ WF_vars(ReaderReports \/ AnswerOffer \/ ReaderReturns)
  /\ WF_vars(WriteMessage \/ WriteFails)
  /\ WF_vars(WriterStops)
  /\ WF_vars(Tick)
  /\ WF_vars(TickerReports)
  /\ SF_vars(TickerStops)
  /\ WF_vars(DrainSnapshot \/ DrainReports)
  /\ \A j \in Jobs :
       WF_vars(JobStarts(j) \/ JobRemoved(j) \/ JobSnapshot(j) \/ JobReports(j))

FairSpec == Spec /\ Fairness

-----------------------------------------------------------------------------
(* runConn waits for its goroutines and the next one flushes the queue, so *)
(* an answer to an offer goes out on the connection the offer came in on,  *)
(* or not at all.                                                          *)
AnswersStay ==
  runAt = "up" =>
    \A i \in DOMAIN queue : queue[i].kind = "bound" => queue[i].conn = conn

(* The server never hears that a job runs after hearing that it has ended, *)
(* however the connections come and go.                                    *)
JobStatusForward ==
  [][\A j \in Jobs : seenJob[j] = "ended" => seenJob'[j] = "ended"]_vars

(* While a connection lasts whose writer keeps up with the queue, the      *)
(* server comes to know the true status and the true number of jobs,       *)
(* although any one report may be stale, out of order or dropped.          *)
StatusConverges ==
  <>[](runAt = "up" /\ connOpen /\ Len(queue) < QueueCap)
    => <>[](seen = [full |-> draining, count |-> Cardinality(Registered)])
=============================================================================
