------------------------------- MODULE MCGpio -------------------------------
(***************************************************************************)
(* Instances of the two kinds of GPIOs for TLC.  A file N.in configures an *)
(* input, N.out an output; the two share nothing but the event loop, so a  *)
(* behaviour has GPIOs of one kind only.  The other half never leaves its  *)
(* initial state, in which none of the actions that fairness is about is   *)
(* enabled.                                                                *)
(***************************************************************************)
EXTENDS GpioInput, GpioOutput

VARIABLE direction    \* "in" or "out"

MCInit ==
    /\ Init
    /\ OutInit
    /\ \/ /\ direction = "in"
          /\ value = [g \in Gpios |-> "inactive"]
       \/ /\ direction = "out"
          /\ line = "inactive"
          /\ config = [request |-> "both", press |-> "rising", timeout |-> TRUE, interval |-> TRUE]

MCNext ==
    /\ \/ direction = "in" /\ Next /\ UNCHANGED outVars
       \/ direction = "out" /\ OutNext /\ UNCHANGED vars
    /\ UNCHANGED direction

MCSpec == MCInit /\ [][MCNext]_<<vars, outVars, direction>> /\ Fairness /\ OutFairness
=============================================================================
