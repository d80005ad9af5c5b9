---------------------------- MODULE BatchContract ----------------------------
(***************************************************************************)
(* What a bulk batch promises those who create, watch and cancel it.  Its  *)
(* messages are handed to the engine in their order and once each, as long *)
(* as the batch runs and nobody halted it.  It runs once.  COMPLETED is    *)
(* said of a run that handed over every message and that nobody halted.    *)
(* When the run is over, nothing more is sent, and all that may still      *)
(* happen to the status is a cancel that came too late, or the FAILED a    *)
(* restart gives a run that was cut off.                                   *)
(***************************************************************************)
EXTENDS Naturals

CONSTANT Size

VARIABLES
  status,   \* what the batch's row says
  running,  \* whether messages may still be handed over
  halted,   \* whether a cancel reached the run
  handed    \* how often each message was handed to the engine

contractVars == <<status, running, halted, handed>>

Start ==
  /\ status = "NONE" /\ ~running /\ ~halted
  /\ handed = [m \in 1..Size |-> 0]

Begins ==
  /\ status = "NONE"
  /\ status' = "PENDING" /\ running' = TRUE
  /\ UNCHANGED <<halted, handed>>

(* The next message; the progress may be saved with it.                     *)
Hands ==
  /\ running /\ ~halted
  /\ \E m \in 1..Size :
       /\ handed[m] = 0 /\ \A n \in 1..m - 1 : handed[n] = 1
       /\ handed' = [handed EXCEPT ![m] = 1]
  /\ status' \in {status, "PROCESSING"}
  /\ UNCHANGED <<running, halted>>

(* While it runs, the row says what was last saved.                         *)
Reports ==
  /\ running /\ status # "NONE"
  /\ status' \in {"PROCESSING", "CANCELLED"}
  /\ UNCHANGED <<running, halted, handed>>

Halts ==
  /\ running
  /\ halted' = TRUE
  /\ UNCHANGED <<status, running, handed>>

Ends ==
  /\ running
  /\ running' = FALSE
  /\ status' \in {status, "COMPLETED", "FAILED", "CANCELLED"}
  /\ status' = "COMPLETED" /\ status # "COMPLETED"
       => ~halted /\ \A m \in 1..Size : handed[m] = 1
  /\ UNCHANGED <<halted, handed>>

Settles ==
  /\ ~running /\ status # "NONE"
  /\ \/ status' = "CANCELLED"
     \/ status = "PROCESSING" /\ status' = "FAILED"
  /\ UNCHANGED <<running, halted, handed>>

Proceed == Begins \/ Hands \/ Reports \/ Halts \/ Ends \/ Settles

Spec == Start /\ [][Proceed]_contractVars
=============================================================================
