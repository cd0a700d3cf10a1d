---------------------------- MODULE MCGpioInput ----------------------------
(* Instances of GpioInput for TLC.                                         *)
EXTENDS GpioInput
=============================================================================
