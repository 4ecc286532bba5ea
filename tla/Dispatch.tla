------------------------------ MODULE Dispatch ------------------------------
(***************************************************************************)
(* What the worker promises about a job offer, whatever goroutines it uses *)
(* to keep the promise.  The server offers a job; the worker weighs the    *)
(* offer, declines or accepts it, and an accepted offer either lapses or   *)
(* becomes exactly one run of the job, which ends once.  After the worker  *)
(* is closed to new work, no offer that had not yet arrived is weighed.    *)
(* The module Worker implements this specification.                        *)
(***************************************************************************)
CONSTANTS
  Offers,   \* the availability requests the server may send
  Jobs,     \* job identifiers
  JobOf     \* the job an availability request is about

VARIABLES
  phase,    \* how far each offer has come
  closed    \* the worker has stopped taking new offers

dvars == <<phase, closed>>

Phases == {"new", "weighed", "accepted", "active", "over"}

DispatchInit ==
  /\ phase = [o \in Offers |-> "new"]
  /\ closed = FALSE

(* An offer arrives: it is weighed, or turned down outright when closed.   *)
Arrive(o) ==
  /\ phase[o] = "new"
  /\ phase' = [phase EXCEPT ![o] = IF closed THEN "over" ELSE "weighed"]
  /\ UNCHANGED closed

Decline(o) ==
  /\ phase[o] = "weighed"
  /\ phase' = [phase EXCEPT ![o] = "over"]
  /\ UNCHANGED closed

(* At most one acceptance of a job is outstanding: a newer one replaces it. *)
Accept(o) ==
  /\ phase[o] = "weighed"
  /\ phase' = [p \in Offers |->
                 CASE p = o -> "accepted"
                   [] p # o /\ JobOf[p] = JobOf[o] /\ phase[p] = "accepted" -> "over"
                   [] OTHER -> phase[p]]
  /\ UNCHANGED closed

Lapse(o) ==
  /\ phase[o] = "accepted"
  /\ phase' = [phase EXCEPT ![o] = "over"]
  /\ UNCHANGED closed

Start(o) ==
  /\ phase[o] = "accepted"
  /\ phase' = [phase EXCEPT ![o] = "active"]
  /\ UNCHANGED closed

Finish(o) ==
  /\ phase[o] = "active"
  /\ phase' = [phase EXCEPT ![o] = "over"]
  /\ UNCHANGED closed

Close ==
  /\ ~closed
  /\ closed' = TRUE
  /\ UNCHANGED phase

DispatchNext ==
  \/ Close
  \/ \E o \in Offers : \/ Arrive(o) \/ Decline(o) \/ Accept(o)
                       \/ Lapse(o) \/ Start(o) \/ Finish(o)

DispatchSpec == DispatchInit /\ [][DispatchNext]_dvars
=============================================================================
