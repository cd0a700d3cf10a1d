----------------------------- MODULE MCActions ------------------------------
(***************************************************************************)
(* A configuration with two input devices whose entries overlap, actions   *)
(* of every kind and scripts, for TLC.                                     *)
(***************************************************************************)
EXTENDS Actions

MCCodes == [KEY_A |-> 30, REL_X |-> 0, ABS_X |-> 0]

Kv(key, val) == [key |-> key, val |-> val]
File(lines) == [lines |-> lines, newline |-> TRUE]
Entry(num, ext, lines) ==
    [num |-> num, ext |-> ext, regular |-> TRUE, opens |-> TRUE, file |-> File(lines)]
Ev(device, type, code, value, action, options) ==
    Kv("input_ev", [device |-> device, type |-> type, code |-> code, value |-> value,
                    value_ok |-> TRUE, action |-> action, options |-> options, fields |-> 6])
Act(key, name, options) == Kv(key, [action |-> name, options |-> options])
Hook(name, options) ==
    Kv("hook", [name |-> "h", action |-> name, options |-> options, fields |-> 3])

(* KEY_A is tracked and starts actions; REL_X and ABS_X have one code; the *)
(* press of KEY_A on b is remembered for ever.                             *)
MCInstallation ==
    [conf |-> File(<<
        Kv("chip", "gpiochip0"), Kv("lua_file", <<"f">>),
        Ev("a", "EV_KEY", "*", 1, "lua", <<"shift">>),
        Ev("a", "EV_KEY", "KEY_A", NaN, "none", <<>>),
        Ev("a", "EV_KEY", "KEY_A", 0, "mpc", <<"pause">>),
        Ev("a", "EV_ABS", "ABS_X", NaN, "mpc", <<"setvol", "50">>),
        Ev("b", "EV_KEY", "KEY_A", 1, "lua_async", <<"s">>),
        Ev("b", "EV_REL", "REL_X", NaN, "lua", <<"calls">>),
        Hook("http", <<"GET", "uri">>), Hook("http", <<"TRACE", "uri", "text", "body">>),
        Hook("mympd", <<"uri", "default", "script">>), Hook("system", <<"cmd">>),
        Hook("lua", <<"bad">>), Hook("lua", <<"no such function">>), Hook("lua_async", <<"syntax">>),
        Hook("lua_async", <<"calls">>), Hook("mpc", <<>>), Hook("gpioblink", <<2, 5, -1>>) >>),
     gpio_dir |-> << Entry(1, "in", << Act("action_rising", "gpioset", <<2, "active">>),
                                       Act("action_rising", "mpc", <<"play">>),
                                       Act("action_rising", "gpiotoggle", <<2>>),
                                       Act("action_falling", "gpioblink", <<2, 5, 5>>),
                                       Act("action_falling", "http", <<"GET">>),
                                       Act("action_falling", "mympd", <<"uri">>),
                                       Act("action_falling", "system", <<>>),
                                       Act("action_falling", "gpioset", <<100, "active">>),
                                       Act("action_falling", "gpiotoggle", <<NaN>>) >>),
                     Entry(2, "out", <<>>) >>,
     opens |-> TRUE,
     lua_async_dir |-> [i \in 1..3 |-> [name |-> <<"s", "calls", "syntax">>[i], ext |-> "lua",
                                   regular |-> TRUE, size |-> 1]]]

I(n) == [t |-> "int", v |-> n]
S(str) == [t |-> "string", v |-> str]
Nil == [t |-> "nil", v |-> "nil"]
C(fn, args) == [fn |-> fn, args |-> args]

MCFunctions ==
    [shift |-> << C("inputEvGet", <<S("a"), S("KEY_A")>>), C("gpioToggle", <<I(2)>>) >>,
     calls |-> << C("mpc", <<S(<<"next">>)>>), C("mpc", <<Nil>>), C("mpc", <<S(<<>>)>>),
                  C("system", <<S("cmd")>>), C("http", <<S("PUT"), S("uri"), Nil, S("body")>>),
                  C("mympd", <<S("uri"), S("default"), S("script")>>), C("system", <<>>) >>,
     bad |-> << C("gpioGet", <<I(1)>>), C("no_such_function", <<>>) >>]

MCScripts ==
    [s |-> << C("gpioSet", <<I(2), S("active")>>), C("mpc", <<S(<<"status">>)>>),
              C("mympd", <<S("uri"), S("default"), S("script")>>) >>,
     calls |-> << C("gpioSet", <<I(2), S("high")>>), C("gpioGet", <<I(3)>>), C("gpioGet", <<S("2")>>),
                  C("gpioBlink", <<I(2), I(-1), I(5)>>), C("gpioToggle", <<I(7)>>),
                  C("inputEvGet", <<S("b"), S("KEY_B")>>), C("inputEvGet", <<S("c"), S("KEY_A")>>),
                  C("inputEvGet", <<S("b"), S("ABS_X")>>), C("system", <<S("cmd")>>), C("system", <<>>),
                  C("http", <<S("GET"), S("uri"), Nil, Nil>>), C("mpc", <<S(<<>>)>>) >>,
     syntax |-> "syntax"]

InputEvent(device, type, code, value) ==
    [device |-> device, type |-> type, code |-> code, value |-> value]
MCInputEvents ==
    {InputEvent(1, "EV_KEY", 30, 0), InputEvent(1, "EV_KEY", 30, 1), InputEvent(1, "EV_ABS", 0, 7),
     InputEvent(1, "EV_REL", 0, 1), InputEvent(2, "EV_REL", 0, 1), InputEvent(2, "EV_KEY", 30, 1),
     InputEvent(1, "EV_SYN", 0, 0)}

=============================================================================
