--------------------------- MODULE StreamContract ---------------------------
(***************************************************************************)
(* What every stream of a plugin promises its reader, who ranges over      *)
(* Chan() and then looks at Err(): the channel is closed once; by then the *)
(* error is settled, and if there is none the stream is complete or        *)
(* somebody asked for its end; and a stream that was asked does end.       *)
(***************************************************************************)
VARIABLES
  open,      \* the channel is not closed
  err,       \* Err() is not nil
  asked,     \* Close has been called or the context has ended
  complete   \* there is nothing more to come

vars == <<open, err, asked, complete>>

(* A stream that could not be set up is closed from the start.             *)
Init ==
  /\ open \in BOOLEAN
  /\ err = ~open
  /\ asked = FALSE
  /\ complete = FALSE

Ask ==
  /\ ~asked
  /\ asked' = TRUE
  /\ UNCHANGED <<open, err, complete>>

Complete ==
  /\ open /\ ~complete
  /\ complete' = TRUE
  /\ UNCHANGED <<open, err, asked>>

Fail ==
  /\ open /\ ~err
  /\ err' = TRUE
  /\ UNCHANGED <<open, asked, complete>>

End ==
  /\ open
  /\ err \/ asked \/ complete
  /\ open' = FALSE
  /\ UNCHANGED <<err, asked, complete>>

Next == Ask \/ Complete \/ Fail \/ End

(* What a stream may do at all.                                            *)
Safety == Init /\ [][Next]_vars

(* An error alone need not end the stream: Cartesia's reports one and goes on. *)
Spec == Safety /\ WF_vars((asked \/ complete) /\ End)
=============================================================================
