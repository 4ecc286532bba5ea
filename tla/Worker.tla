------------------------------- MODULE Worker -------------------------------
(***************************************************************************)
(* Job dispatch in worker.go: the maps w.pending and w.jobs, the goroutine *)
(* that reads the server's messages, the assignment timers, one goroutine  *)
(* per running job, and Drain.  Every critical section under w.mu is one   *)
(* atomic step; what a goroutine does between two critical sections is     *)
(* where the others interleave.                                            *)
(*                                                                         *)
(* An accepted offer is identified with the JobContext that its assignment *)
(* creates: w.pending holds at most one acceptance per job id, and an      *)
(* assignment consumes it.  Messages to the server are the subject of      *)
(* WorkerConn; here the server is free to send an offer, an assignment or  *)
(* a termination at any time, over however many connections, and to offer  *)
(* a job again that is accepted or running here.                           *)
(***************************************************************************)
EXTENDS Naturals, FiniteSets

CONSTANTS
  Jobs,       \* job identifiers
  Offers,     \* availability requests; each arrives at most once
  JobOf,      \* the job an availability request is about
  NoOffer     \* an absent map entry

ASSUME JobOfAssumption == JobOf \in [Offers -> Jobs]
ASSUME NoOfferAssumption == NoOffer \notin Offers

VARIABLES
  draining,    \* w.draining
  pending,     \* w.pending: the acceptance stored under each job id
  jobs,        \* w.jobs: the JobContext registered under each job id
  offered,     \* offers the server has sent
  timers,      \* time.AfterFunc timers that have not fired
  readerAt,    \* where the read loop is in its current handler
  readerOffer, \* the handler's offer, or the JobContext it is starting
  sawDraining, \* the handler's copy of w.draining
  run,         \* progress of each JobContext's goroutine
  cancelled,   \* JobContexts whose ctx is cancelled
  drain,       \* progress of Drain
  owed,        \* JobContexts registered when Drain took its count
  overlapped   \* history: JobContexts that ran beside another of their job

readerVars == <<readerAt, readerOffer, sawDraining>>
jobVars == <<jobs, run, cancelled, overlapped>>
drainVars == <<draining, drain, owed>>
vars == <<draining, pending, jobs, offered, timers, readerAt, readerOffer,
          sawDraining, run, cancelled, drain, owed, overlapped>>

ReaderSteps == {"idle", "deciding", "starting"}
RunSteps == {"none", "entrypoint", "finishing", "done"}
DrainSteps == {"off", "waiting", "drained", "timedOut"}

Live(o) == run[o] \in {"entrypoint", "finishing"}
Registered == {jobs[j] : j \in Jobs} \ {NoOffer}

TypeOK ==
  /\ draining \in BOOLEAN
  /\ pending \in [Jobs -> Offers \cup {NoOffer}]
  /\ jobs \in [Jobs -> Offers \cup {NoOffer}]
  /\ offered \subseteq Offers
  /\ timers \subseteq Offers
  /\ readerAt \in ReaderSteps
  /\ readerOffer \in Offers \cup {NoOffer}
  /\ (readerAt # "idle") => (readerOffer \in Offers)
  /\ sawDraining \in BOOLEAN
  /\ run \in [Offers -> RunSteps]
  /\ cancelled \subseteq Offers
  /\ drain \in DrainSteps
  /\ owed \subseteq Offers
  /\ overlapped \subseteq Offers

Init ==
  /\ draining = FALSE
  /\ pending = [j \in Jobs |-> NoOffer]
  /\ jobs = [j \in Jobs |-> NoOffer]
  /\ offered = {}
  /\ timers = {}
  /\ readerAt = "idle"
  /\ readerOffer = NoOffer
  /\ sawDraining = FALSE
  /\ run = [o \in Offers |-> "none"]
  /\ cancelled = {}
  /\ drain = "off"
  /\ owed = {}
  /\ overlapped = {}

-----------------------------------------------------------------------------
(* handleAvailability.  The flag is read in one critical section; the      *)
(* request callback then runs unlocked, for as long as it likes.           *)

(* An availability request may be about any job at any time.               *)
ReceiveOffer(o) ==
  /\ readerAt = "idle"
  /\ o \notin offered
  /\ offered' = offered \cup {o}
  /\ readerAt' = "deciding"
  /\ readerOffer' = o
  /\ sawDraining' = draining
  /\ UNCHANGED <<pending, timers, jobVars, drainVars>>

(* RequestFnc failed or rejected, or the worker was draining.              *)
DeclineOffer ==
  /\ readerAt = "deciding"
  /\ readerAt' = "idle"
  /\ readerOffer' = NoOffer
  /\ UNCHANGED <<pending, offered, timers, sawDraining, jobVars, drainVars>>

(* Mutant: the acceptance is stored without a timer.                       *)
AcceptOfferUntimed ==
  /\ readerAt = "deciding"
  /\ ~sawDraining
  /\ pending' = [pending EXCEPT ![JobOf[readerOffer]] = readerOffer]
  /\ readerAt' = "idle"
  /\ readerOffer' = NoOffer
  /\ UNCHANGED <<offered, timers, sawDraining, jobVars, drainVars>>

(* Mutant: the return after a refusal is missing.                          *)
AcceptOfferAlways ==
  /\ readerAt = "deciding"
  /\ pending' = [pending EXCEPT ![JobOf[readerOffer]] = readerOffer]
  /\ timers' = timers \cup {readerOffer}
  /\ readerAt' = "idle"
  /\ readerOffer' = NoOffer
  /\ UNCHANGED <<offered, sawDraining, jobVars, drainVars>>

(* RequestFnc is absent, accepted, or returned without an answer: the      *)
(* acceptance is stored and its timer is armed.                            *)
AcceptOffer ==
  /\ readerAt = "deciding"
  /\ ~sawDraining
  /\ pending' = [pending EXCEPT ![JobOf[readerOffer]] = readerOffer]
  /\ timers' = timers \cup {readerOffer}
  /\ readerAt' = "idle"
  /\ readerOffer' = NoOffer
  /\ UNCHANGED <<offered, sawDraining, jobVars, drainVars>>

(* The timer of one acceptance deletes whatever is stored under the job id. *)
AssignmentTimeout(o) ==
  /\ o \in timers
  /\ timers' = timers \ {o}
  /\ pending' = [pending EXCEPT ![JobOf[o]] = NoOffer]
  /\ UNCHANGED <<offered, readerVars, jobVars, drainVars>>

-----------------------------------------------------------------------------
(* handleAssignment: one critical section takes the acceptance out of      *)
(* w.pending, a second one registers the JobContext.  An assignment for a  *)
(* job that is not pending is ignored and changes nothing.                 *)

(* Mutant: the acceptance is read but not deleted.                         *)
ReceiveAssignmentKeeps(j) ==
  /\ readerAt = "idle"
  /\ pending[j] # NoOffer
  /\ readerAt' = "starting"
  /\ readerOffer' = pending[j]
  /\ UNCHANGED <<pending, offered, timers, sawDraining, jobVars, drainVars>>

ReceiveAssignment(j) ==
  /\ readerAt = "idle"
  /\ pending[j] # NoOffer
  /\ pending' = [pending EXCEPT ![j] = NoOffer]
  /\ readerAt' = "starting"
  /\ readerOffer' = pending[j]
  /\ UNCHANGED <<offered, timers, sawDraining, jobVars, drainVars>>

(* The JobContexts of o's job that are running.                            *)
Beside(o) == {p \in Offers \ {o} : JobOf[p] = JobOf[o] /\ Live(p)}

(* A job that is offered again while it runs is registered over the one    *)
(* that is there.                                                          *)
StartJob ==
  /\ readerAt = "starting"
  /\ jobs' = [jobs EXCEPT ![JobOf[readerOffer]] = readerOffer]
  /\ run' = [run EXCEPT ![readerOffer] = "entrypoint"]
  /\ overlapped' = overlapped \cup Beside(readerOffer)
                      \cup {o \in {readerOffer} : Beside(o) # {}}
  /\ readerAt' = "idle"
  /\ readerOffer' = NoOffer
  /\ UNCHANGED <<pending, offered, timers, sawDraining, cancelled, drainVars>>

(* Mutant: the job is shut down without a look at whether there is one.    *)
ReceiveTerminationUnchecked(j) ==
  /\ readerAt = "idle"
  /\ cancelled' = cancelled \cup {jobs[j]}
  /\ UNCHANGED <<pending, jobs, overlapped, offered, timers, readerVars, run, drainVars>>

(* handleTermination: the registered JobContext is looked up and shut down. *)
ReceiveTermination(j) ==
  /\ readerAt = "idle"
  /\ jobs[j] # NoOffer
  /\ cancelled' = cancelled \cup {jobs[j]}
  /\ UNCHANGED <<pending, jobs, overlapped, offered, timers, readerVars, run, drainVars>>

-----------------------------------------------------------------------------
(* runJob and finishJob, one goroutine per JobContext.                     *)

(* JobContext.Shutdown from the entrypoint or from OnDisconnected.         *)
Shutdown(o) ==
  /\ run[o] = "entrypoint"
  /\ cancelled' = cancelled \cup {o}
  /\ UNCHANGED <<pending, jobs, overlapped, offered, timers, readerVars, run, drainVars>>

(* Mutant: finishJob deletes the entry before it runs the callbacks.       *)
EntrypointReturnsUnregistering(o) ==
  /\ run[o] = "entrypoint"
  /\ run' = [run EXCEPT ![o] = "finishing"]
  /\ cancelled' = cancelled \cup {o}
  /\ jobs' = [jobs EXCEPT ![JobOf[o]] = NoOffer]
  /\ UNCHANGED <<pending, overlapped, offered, timers, readerVars, drainVars>>

(* The entrypoint returns or panics; the deferred finishJob first cancels. *)
EntrypointReturns(o) ==
  /\ run[o] = "entrypoint"
  /\ run' = [run EXCEPT ![o] = "finishing"]
  /\ cancelled' = cancelled \cup {o}
  /\ UNCHANGED <<pending, jobs, overlapped, offered, timers, readerVars, drainVars>>

(* After the shutdown callbacks and Disconnect, the entry under the job id *)
(* is deleted, whichever JobContext it holds.                              *)
RemoveJob(o) ==
  /\ run[o] = "finishing"
  /\ jobs' = [jobs EXCEPT ![JobOf[o]] = NoOffer]
  /\ run' = [run EXCEPT ![o] = "done"]
  /\ UNCHANGED <<pending, overlapped, offered, timers, readerVars, cancelled, drainVars>>

-----------------------------------------------------------------------------
(* Drain: one call, from the signal handler of the cli.                    *)

DrainBegin ==
  /\ drain = "off"
  /\ draining' = TRUE
  /\ owed' = Registered
  /\ drain' = IF Registered = {} THEN "drained" ELSE "waiting"
  /\ UNCHANGED <<pending, offered, timers, readerVars, jobVars>>

DrainPoll ==
  /\ drain = "waiting"
  /\ Registered = {}
  /\ drain' = "drained"
  /\ UNCHANGED <<draining, pending, offered, timers, readerVars, jobVars, owed>>

(* Mutant: the jobs are left running when the context ends.                *)
DrainTimeoutSilent ==
  /\ drain = "waiting"
  /\ drain' = "timedOut"
  /\ UNCHANGED <<draining, pending, offered, timers, readerVars, jobVars, owed>>

(* The caller's context ends while the loop waits for the next tick.       *)
DrainTimeout ==
  /\ drain = "waiting"
  /\ drain' = "timedOut"
  /\ cancelled' = cancelled \cup Registered
  /\ UNCHANGED <<draining, pending, jobs, overlapped, offered, timers, readerVars, run,
                 owed>>

-----------------------------------------------------------------------------
Next ==
  \/ \E o \in Offers : \/ ReceiveOffer(o)
                       \/ AssignmentTimeout(o)
                       \/ Shutdown(o)
                       \/ EntrypointReturns(o)
                       \/ RemoveJob(o)
  \/ \E j \in Jobs : ReceiveAssignment(j) \/ ReceiveTermination(j)
  \/ DeclineOffer
  \/ AcceptOffer
  \/ StartJob
  \/ DrainBegin
  \/ DrainPoll
  \/ DrainTimeout

Spec == Init /\ [][Next]_vars

(* Timers fire, the request callback and the shutdown callbacks return,    *)
(* the drain context ends, and an entrypoint returns once its context is   *)
(* cancelled.  Nothing makes the server send or an entrypoint stop.        *)
Fairness ==
  /\ WF_vars(DeclineOffer \/ AcceptOffer)
  /\ WF_vars(StartJob)
  /\ WF_vars(DrainPoll \/ DrainTimeout)
  /\ \A o \in Offers : /\ WF_vars(AssignmentTimeout(o))
                       /\ WF_vars(o \in cancelled /\ EntrypointReturns(o))
                       /\ WF_vars(RemoveJob(o))

FairSpec == Spec /\ Fairness

-----------------------------------------------------------------------------
(* What is registered is running, so that Drain does not wait for what is   *)
(* over; and what is running is registered, so that ActiveJobs counts it   *)
(* and a termination and Drain reach it.  finishJob deletes by job id: a   *)
(* JobContext may lose its entry if another of its job has run beside it,  *)
(* because the server gave the job out again, and in no other case.        *)
RegisteredWhileLive ==
  /\ \A j \in Jobs : jobs[j] # NoOffer => JobOf[jobs[j]] = j /\ Live(jobs[j])
  /\ \A o \in Offers : Live(o) /\ o \notin overlapped => jobs[JobOf[o]] = o

(* Every job running when Drain is called has finished when Drain returns  *)
(* nil, and has finished or been told to stop when it returns an error,    *)
(* unless another JobContext of the same job has run beside it.            *)
DrainSettles ==
  /\ drain = "drained" => \A o \in owed \ overlapped : run[o] = "done"
  /\ drain = "timedOut" =>
       \A o \in owed \ overlapped : run[o] = "done" \/ o \in cancelled

(* An acceptance starts at most one run, and a run never goes back: a      *)
(* repeated or late assignment starts nothing.                             *)
Rank(step) == CASE step = "none" -> 0
                [] step = "entrypoint" -> 1
                [] step = "finishing" -> 2
                [] step = "done" -> 3
RunsOnce ==
  [][\A o \in Offers : run'[o] # run[o] => Rank(run'[o]) = Rank(run[o]) + 1]_vars

(* An offer that arrives after Drain has begun never becomes an acceptance. *)
LateOffersDeclined ==
  \A o \in Offers :
    [](draining /\ o \notin offered => [](pending[JobOf[o]] # o))

(* Drain "waits for active jobs": nothing runs once it has returned nil.   *)
DrainedIsIdle == drain = "drained" => \A o \in Offers : ~Live(o)

(* An acceptance is resolved one way or the other: pending does not leak.  *)
AcceptanceResolved ==
  \A o \in Offers : pending[JobOf[o]] = o ~> pending[JobOf[o]] # o

-----------------------------------------------------------------------------
(* The dispatch promise.  An acceptance counts as such until its JobContext *)
(* is registered, also while the read loop is between the critical         *)
(* sections of handleAssignment.                                           *)
PhaseOf(o) ==
  CASE Live(o) -> "active"
    [] run[o] = "done" -> "over"
    [] run[o] = "none" /\ pending[JobOf[o]] = o -> "accepted"
    [] run[o] = "none" /\ readerAt = "starting" /\ readerOffer = o -> "accepted"
    [] run[o] = "none" /\ readerAt = "deciding" /\ readerOffer = o /\ ~sawDraining
         -> "weighed"
    [] run[o] = "none" /\ o \notin offered -> "new"
    [] OTHER -> "over"

Promise == INSTANCE Dispatch WITH phase <- [o \in Offers |-> PhaseOf(o)],
                                  closed <- draining
KeepsPromise == Promise!DispatchSpec
=============================================================================
