--------------------------------- MODULE Cli ---------------------------------
(***************************************************************************)
(* The process of cli/cli.go around a worker (WorkerConn): the first       *)
(* signal makes it drain, cancel Run's context and wait for Run to return, *)
(* and from then on another one ends it at once.  Options, logging and the *)
(* health endpoint are left out.                                           *)
(***************************************************************************)
EXTENDS WorkerConn

VARIABLES
  proc,      \* where run is; "exited" by its own return, "killed" by os.Exit(1)
  sigCh,     \* a signal is in the channel of that name, which has room for one
  active     \* Drain has found jobs to wait for

cliVars == <<proc, sigCh, active>>
allVars == <<vars, cliVars>>

CliInit ==
  /\ Init
  /\ proc = "serving"
  /\ sigCh = FALSE
  /\ active = FALSE

Alive == proc \notin {"exited", "killed"}

(* External: signal.Notify does not wait, a full channel drops the signal. *)
Signal ==
  /\ Alive
  /\ sigCh' = TRUE
  /\ UNCHANGED <<vars, proc, active>>

TakeSignal ==
  /\ proc = "serving" /\ sigCh
  /\ sigCh' = FALSE
  /\ proc' = "draining"
  /\ UNCHANGED <<vars, active>>

(* The goroutine that waits for another signal calls os.Exit.              *)
SecondSignal ==
  /\ proc \in {"draining", "stopping"} /\ sigCh
  /\ proc' = "killed"
  /\ UNCHANGED <<vars, sigCh, active>>

(* Drain, whose first steps are those of WorkerConn.                       *)
DrainStarts ==
  /\ proc = "draining"
  /\ DrainSets
  /\ active' = (Registered # {})
  /\ UNCHANGED <<proc, sigCh>>

DrainGoesOn ==
  /\ Alive
  /\ DrainSnapshot \/ DrainReports
  /\ UNCHANGED cliVars

(* Mutant: Run is waited for without the end of its context.               *)
CancelForgotten == UNCHANGED ctxDone
Cancel == ctxDone' = TRUE

(* It waits for the jobs it has found, or until its own context times out, *)
(* and then Run's context is cancelled.                                    *)
DrainReturns ==
  /\ proc = "draining" /\ drainer = "reported"
  /\ \/ ~active
     \/ Registered = {}
     \/ active /\ Registered # {}   \* the timeout
  /\ proc' = "stopping"
  /\ Cancel
  /\ UNCHANGED <<sigCh, active, runAt, backoff, conn, groupVars, queue,
                 senderVars, serverVars>>

(* Run has returned, after the cancellation or, were it to, by itself.     *)
WorkerReturned ==
  /\ proc \in {"serving", "stopping"} /\ runAt = "returned"
  /\ proc' = "exited"
  /\ UNCHANGED <<vars, sigCh, active>>

(* A step of the worker goes on as long as there is a process.             *)
InProcess(step) == Alive /\ step /\ UNCHANGED cliVars

CliNext ==
  \/ Signal \/ TakeSignal \/ SecondSignal
  \/ DrainStarts \/ DrainGoesOn \/ DrainReturns \/ WorkerReturned
  \/ InProcess(Running \/ Reading \/ Writing \/ Ticking \/ Working \/ ConnBreaks)

CliSpec == CliInit /\ [][CliNext]_allVars

(* Goroutines run and a dial comes to an end (see WorkerConn); the request *)
(* callback, and so AnswerOffer, need not, and nobody has to send signals. *)
CliFairness ==
  /\ WF_allVars(TakeSignal)
  /\ WF_allVars(SecondSignal)
  /\ WF_allVars(DrainStarts \/ DrainGoesOn)
  /\ WF_allVars(DrainReturns)
  /\ WF_allVars(WorkerReturned)
  /\ WF_allVars(InProcess(Running))
  /\ WF_allVars(InProcess(ReaderReports \/ ReaderReturns))
  /\ WF_allVars(InProcess(WriterStops))
  /\ WF_allVars(InProcess(TickerReports))
  /\ SF_allVars(InProcess(TickerStops))

CliFairSpec == CliSpec /\ CliFairness

-----------------------------------------------------------------------------
(* A signal ends the process, wherever Run is, unless it is stuck in the   *)
(* request callback; a signal that comes when one is being handled ends it *)
(* in any case.                                                            *)
SignalsStop ==
  /\ []<>(reader # "answering") => (sigCh ~> ~Alive)
  /\ (proc \in {"draining", "stopping"} /\ sigCh) ~> ~Alive

(* Nothing but a signal ends the process: not the loss of a connection,    *)
(* and not a failure of any of its goroutines.                             *)
StaysUp == runAt = "returned" => proc # "serving"
=============================================================================
