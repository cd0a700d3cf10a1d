------------------------------- MODULE Button -------------------------------
(***************************************************************************)
(* What an observer may see of one input GPIO that is used as a button     *)
(* (both edges requested, a long press configured): the order of its       *)
(* events, without edges, queues or timers.                                *)
(*                                                                         *)
(* "Long press is triggered by a falling or rising event and does not      *)
(* disable the triggering event, but the release event"                    *)
(* (docs/mygpiod-configuration.rst): a press is followed by any number of  *)
(* long_press events, and then by the release event if there were none and *)
(* by long_press_release otherwise.                                        *)
(***************************************************************************)
VARIABLES phase,
          lossy   \* has an edge been lost on the way?

vars == <<phase, lossy>>

(* The daemon may be started while the button is held down.                *)
Init == phase \in {"up", "down"} /\ lossy = FALSE

Press == phase = "up" /\ phase' = "down" /\ UNCHANGED lossy

LongPress == phase \in {"down", "long"} /\ phase' = "long" /\ UNCHANGED lossy

Release == phase = "down" /\ phase' = "up" /\ UNCHANGED lossy

LongPressRelease == phase = "long" /\ phase' = "up" /\ UNCHANGED lossy

Lose == lossy' = TRUE /\ UNCHANGED phase

(* The release between two presses is lost: the second press is reported   *)
(* as the end of the first.                                                *)
PressAgain == lossy /\ phase = "long" /\ phase' = "down" /\ UNCHANGED lossy

Next == Press \/ LongPress \/ Release \/ LongPressRelease \/ Lose \/ PressAgain

Spec == Init /\ [][Next]_vars
=============================================================================
