----------------------------- MODULE MCWorker -------------------------------
(* Instances of Worker: three offers, two of them for the same job.        *)
EXTENDS Worker, TLC

CONSTANTS o1, o2, o3, j1, j2

MCJobs == {j1, j2}
MCOffers == {o1, o2, o3}
MCJobOf == (o1 :> j1) @@ (o2 :> j1) @@ (o3 :> j2)
=============================================================================
