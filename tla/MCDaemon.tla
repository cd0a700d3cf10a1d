------------------------------ MODULE MCDaemon ------------------------------
(***************************************************************************)
(* Installations for TLC: GPIO directories with duplicates, misspelled     *)
(* settings, skipped and too many files, configurations that are refused,  *)
(* and poll sets that are just large enough, or not.  MAX_FDS is 9.        *)
(***************************************************************************)
EXTENDS Daemon

MCCodes == [KEY_A |-> 30, REL_X |-> 0, ABS_X |-> 0]

Kv(key, val) == [key |-> key, val |-> val]
File(lines) == [lines |-> lines, newline |-> TRUE]
Cut(lines) == [lines |-> lines, newline |-> FALSE]
Entry(num, ext, lines) ==
    [num |-> num, ext |-> ext, regular |-> TRUE, opens |-> TRUE, file |-> File(lines)]
Inst(conf, dir) ==
    [conf |-> File(conf), gpio_dir |-> dir, opens |-> TRUE,
     lua_async_dir |-> <<[name |-> "s", ext |-> "lua", regular |-> TRUE, size |-> 1]>>]

Chip == Kv("chip", "gpiochip0")
Timer == Kv("timer_ev", [valid |-> TRUE])
Ev(device, type, code, value, action, fields) ==
    Kv("input_ev", [device |-> device, type |-> type, code |-> code, value |-> value,
                    value_ok |-> TRUE, action |-> action, options |-> <<>>, fields |-> fields])
Device(name) == Ev(name, "EV_KEY", "KEY_A", NaN, "none", 5)
Act(name) == [action |-> name, options |-> <<>>]
Hook(action, fields) == Kv("hook", [name |-> "h", action |-> action, options |-> <<>>, fields |-> fields])

In(num) == Entry(num, "in", << Kv("bias", "pull-up"), Kv("debounce", 100),
                               Kv("action_rising", Act("gpioset")), Kv("long_press_timeout", 5) >>)
Out(num) == Entry(num, "out", << Kv("value", "active") >>)

(* As many descriptors as MAX_FDS counts, and one or two more.             *)
Exact == Inst(<< Chip, Kv("lua_file", <<"f">>) >>, << In(1), Out(2) >>)
More == Inst(<< Chip, Device("a"), Timer >>, << In(1), Out(2) >>)
NoGpio == Inst(<< Device("a"), Device("b"), Device("a"), Timer, Hook("none", 2) >>, << In(1) >>)

(* More input files than GPIOS_MAX; too many for the web server, and for   *)
(* the socket.                                                             *)
Many == << In(1), In(2), In(3), In(4) >>
NoWeb == Inst(<< Chip, Device("a"), Device("b") >>, Many)
NoSocket == Inst(<< Chip, Device("a"), Device("b"), Timer >>, Many)

(* Duplicates, skipped files, misspelled and repeated settings.            *)
Twice == Inst(<< Chip >>, << In(5), Out(5) >>)
Thrice == Inst(<< Chip >>, << In(5), Out(6), In(5) >>)
Skipped ==
    Inst(<< Chip >>,
         << Out(1), Entry(2, "bak", <<>>), [Out(3) EXCEPT !.regular = FALSE],
            [Out(4) EXCEPT !.opens = FALSE], Out(100), Out(NaN), Out(7), In(8), Out(100), In(9),
            Entry(8, "in", << Kv("bias", "disable") >>) >>)
Spelled2 ==
    Inst(<< Kv("none", ""), Chip, Kv("loglevel", "loud"), Kv("syslog", "1"), Kv("socket", "s"),
            Kv("timeout", 10), Kv("http_ip", "::"), Kv("http_port", 1025), Kv("gpio_dir", "d"),
            Kv("lua_file", <<"f">>), Kv("lua_file", <<"g">>), Kv("lua_async_dir", "l"),
            Ev("a", "EV_REL", "*", NaN, "lua", 6), Ev("a", "EV_KEY", "KEY_A", 1, "mpc", 6) >>,
         << Entry(1, "in", << Kv("bias", "pull-up"), Kv("bias", "pullup"), Kv("event_request", "both"),
                              Kv("active_low", "true"), Kv("event_clock", "hte"), Kv("debounce", NaN),
                              Kv("long_press_event", "rising"), Kv("long_press_interval", -1),
                              Kv("long_press_action", Act("reboot")), Kv("action_falling", Act("system")),
                              Kv("long_press_release_action", Act("lua")), Kv("color", "red") >>),
            Entry(2, "out", << Kv("drive", "open-drain"), Kv("value", "activ"), Kv("value", "active") >>) >>)
BadValue == Inst(<< Chip >>, << Entry(2, "out", << Kv("value", "high") >>) >>)
CutFile == [Inst(<< Chip >>, << [Out(2) EXCEPT !.file = Cut(<< Kv("drive", "open-drain"), Kv("value", "high") >>)] >>)
            EXCEPT !.conf = Cut(<< Chip, Kv("no_such_key", "") >>)]

Refused ==
    {Inst(<< Chip, l >>, <<>>) :
        l \in { Kv("no_such_key", ""), Kv("syslog", "yes"), Kv("socket", "too long"), Kv("timeout", 9),
                Kv("http_port", 1024), Kv("timer_ev", [valid |-> FALSE]), Hook("reboot", 2), Hook("", 1),
                Ev("a", "EV_KEY", "KEY_B", NaN, "none", 5), Ev("a", "EV_NO", "KEY_A", NaN, "none", 5),
                Ev("a", "EV_KEY", "KEY_A", NaN, "reboot", 5), Ev("a", "EV_KEY", "KEY_A", NaN, "", 4) }}
    \cup { [Inst(<< Chip >>, <<>>) EXCEPT !.opens = FALSE] }

MCInstallations ==
    {Exact, More, NoGpio, NoWeb, NoSocket, Twice, Thrice, Skipped, Spelled2, BadValue, CutFile}
        \cup Refused

=============================================================================
