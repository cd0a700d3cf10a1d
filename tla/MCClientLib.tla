---------------------------- MODULE MCClientLib -----------------------------
(* Instances of ClientLib for TLC.                                         *)
EXTENDS ClientLib

Input(id, v, bias, request, clock, low) ==
    [id |-> id, direction |-> "IN", value |-> v, active_low |-> low, bias |-> bias,
     event_request |-> request, is_debounced |-> ~low, debounce_period_us |-> 5,
     event_clock |-> clock, drive |-> "PUSH_PULL", name |-> "a"]

Output(id, v, drive) ==
    [Input(id, v, "AS_IS", "NONE", "MONOTONIC", FALSE) EXCEPT
        !.direction = "OUT", !.drive = drive, !.name = "b"]

(* Settings the library can read, and some that it cannot.                 *)
MCSettings ==
    { <<Input(1, "ACTIVE", "PULL_UP", "BOTH", "REALTIME", TRUE),
        Output(2, "INACTIVE", "OPEN_DRAIN")>>,
      <<Input(1, "INACTIVE", "UNKNOWN", "NONE", "MONOTONIC", FALSE),
        Output(2, "ERROR", "PUSH_PULL"),
        Output(9, "ACTIVE", "OPEN_SOURCE")>> }

Cmd(name, args) == [name |-> name, args |-> args]

MCCommands ==
    { Cmd("gpiolist", <<>>), Cmd("gpioinfo", <<1>>), Cmd("gpioget", <<2>>),
      Cmd("gpioset", <<2, "active">>), Cmd("gpioblink", <<2, 1, 0>>),
      Cmd("hook", <<"name">>), Cmd("idle", <<>>), Cmd("noidle", <<>>) }

MCCmdLines ==
    (MCCommands \ {Cmd("hook", <<"name">>)}) \cup
    { Cmd("gpioinfo", <<2>>), Cmd("gpioinfo", <<9>>), Cmd("gpioget", <<9>>),
      Cmd("gpioget", <<>>), Cmd("gpioset", <<2, "on">>), Cmd("gpiotoggle", <<2>>),
      Cmd("gpiotoggle", <<NaN>>), Cmd("gpioblink", <<2, NaN, 0>>),
      Cmd("hook", <<"two", "words">>), Cmd("vcio", <<>>), Cmd("idle", <<1>>),
      Cmd("idle", <<NaN>>) }
=============================================================================
