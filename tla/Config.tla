------------------------------- MODULE Config -------------------------------
(***************************************************************************)
(* What the daemon makes of its configuration: mygpiod.conf                *)
(* (config/config.c, input_ev.c, hook.c), the files N.in and N.out of      *)
(* gpio_dir (config/gpio.c) and the scripts of lua_async_dir               *)
(* (config/lua_async.c).                                                   *)
(*                                                                         *)
(* A file is [lines, newline]: its lines and whether the last one is       *)
(* terminated.  A line is [key, val], the two sides of its first '=';      *)
(* comments, blank lines and lines without '=' have the key "none".  A     *)
(* number is the integer, a structured value a record of its fields.       *)
(***************************************************************************)
EXTENDS GpioEnums, Sequences, SequencesExt

CONSTANTS GPIOS_MAX, TIMEOUT_MS_MAX,
          UINT_MAX,  \* the largest unsigned
          Codes      \* linux/input-event-codes.h: the number of each name

ASSUME ConfigAssumption ==
    /\ GPIOS_MAX \in Nat /\ TIMEOUT_MS_MAX \in Nat /\ UINT_MAX \in Nat
    /\ \A name \in DOMAIN Codes : Codes[name] \in 0..766

-----------------------------------------------------------------------------
(* sds_getline reports the end of the file instead of the last line when   *)
(* that line is not terminated; sds_splitfirst cuts a line at the '='.     *)
KeyValues(file) == IF file.newline THEN file.lines ELSE Front(file.lines)

(* actions.c: the actions by name.                                         *)
lookup_action ==
    [SYSTEM |-> "system", GPIO_SET |-> "gpioset", GPIO_TOGGLE |-> "gpiotoggle",
     GPIO_BLINK |-> "gpioblink", MPC |-> "mpc", HTTP |-> "http",
     MYMPD |-> "mympd", LUA |-> "lua", LUA_ASYNC |-> "lua_async", NONE |-> "none"]

parse_action(str) == Spelled(lookup_action, str, "UNKNOWN")

(* action_node_data_new.                                                   *)
NewAction(v) == [action |-> parse_action(v.action), options |-> v.options]

-----------------------------------------------------------------------------
(* GPIO files.                                                             *)

gpio_in_data_new ==
    [active_low |-> FALSE, bias |-> "AS_IS", event_request |-> "RISING",
     event_clock |-> "REALTIME", long_press_event |-> "FALLING", debounce |-> 0,
     long_press_timeout |-> 0, long_press_interval |-> 0,
     action_falling |-> <<>>, action_rising |-> <<>>,
     long_press_action |-> <<>>, long_press_release_action |-> <<>>]

gpio_out_data_new == [drive |-> "PUSH_PULL", value |-> "INACTIVE"]

(* The settings with names for their values; an unknown name yields the    *)
(* parser's default, which need not be the setting's.                      *)
Named == {"active_low", "bias", "event_request", "event_clock", "long_press_event",
          "drive", "value"}
Numbers == {"debounce", "long_press_timeout", "long_press_interval"}
ActionLists == {"action_falling", "action_rising", "long_press_action",
                "long_press_release_action"}

ParseNamed(key, val) ==
    CASE key = "active_low" -> mygpio_parse_bool(val)
      [] key = "bias" -> parse_bias(val)
      [] key \in {"event_request", "long_press_event"} -> parse_event_request(val)
      [] key = "event_clock" -> parse_event_clock(val)
      [] key = "drive" -> parse_drive(val)
      [] key = "value" -> parse_gpio_value(val)

NumberOk(key, val) ==
    mygpio_parse_uint(val, 0, IF key = "debounce" THEN UINT_MAX ELSE TIMEOUT_MS_MAX)

(* action_node_data_from_value; an invalid line is only logged.            *)
AddAction(list, v) == IF parse_action(v.action) # "UNKNOWN" THEN Append(list, NewAction(v)) ELSE list

parse_gpio_config_file_in_kv(data, l) ==
    IF l.key \notin DOMAIN data THEN data ELSE
    CASE l.key \in Named -> [data EXCEPT ![l.key] = ParseNamed(l.key, l.val)]
      [] l.key \in Numbers -> IF NumberOk(l.key, l.val) THEN [data EXCEPT ![l.key] = l.val] ELSE data
      [] l.key \in ActionLists -> [data EXCEPT ![l.key] = AddAction(@, l.val)]

parse_gpio_config_file_out_kv(data, l) ==
    IF l.key \in DOMAIN data THEN [data EXCEPT ![l.key] = ParseNamed(l.key, l.val)] ELSE data

parse_gpio_config_file(ext, file) ==
    IF ext = "in"
    THEN FoldLeft(parse_gpio_config_file_in_kv, gpio_in_data_new, KeyValues(file))
    ELSE FoldLeft(parse_gpio_config_file_out_kv, gpio_out_data_new, KeyValues(file))

(* gpio_read_dir.  An entry is [num, ext, regular, opens, file]: number    *)
(* and extension of its name, is it a regular file, can it be opened?      *)
(* GPIOS_MAX is looked at only when a file is skipped.                     *)
ReadGpioFile(g, e) ==
    IF g.full \/ ~e.regular THEN g
    ELSE IF mygpio_parse_uint(e.num, 0, 99) /\ e.ext \in {"in", "out"} /\ e.opens
    THEN [g EXCEPT ![e.ext] = Append(@, [id |-> e.num,
                                         data |-> parse_gpio_config_file(e.ext, e.file)])]
    ELSE [g EXCEPT !.full = Len(g.in) + Len(g.out) = GPIOS_MAX]

gpio_read_dir(dir) == FoldLeft(ReadGpioFile, [in |-> <<>>, out |-> <<>>, full |-> FALSE], dir)

(* lua_async_read_scripts: an entry is [name, ext, regular, size].         *)
lua_async_read_scripts(dir) ==
    SelectSeq(dir, LAMBDA e : e.regular /\ e.ext = "lua" /\ e.size > 0)

-----------------------------------------------------------------------------
(* mygpiod.conf.                                                           *)

input_event_type_names ==
    {"EV_SYN", "EV_KEY", "EV_REL", "EV_ABS", "EV_MSC", "EV_SW", "EV_LED", "EV_SND",
     "EV_REP", "EV_FF", "EV_PWR", "EV_FF_STATUS"}
KEY_MAX == 767  \* no such code
KEY_CNT == 768  \* any code
EV_MAX == "EV_MAX"

input_event_type_parse(name) == IF name \in input_event_type_names THEN name ELSE EV_MAX
input_event_code_parse(name) == IF name \in DOMAIN Codes THEN Codes[name] ELSE KEY_MAX

(* sds_getvalue returns NULL when nothing is left of the value: a value    *)
(* with too few fields is dereferenced as NULL.                            *)
Crash(c) == [c EXCEPT !.status = "crash"]
Invalid(c) == [c EXCEPT !.status = "invalid"]

input_device_get_by_name(devices, name) == {i \in DOMAIN devices : devices[i].name = name}

NewEntry(v) ==
    [type |-> input_event_type_parse(v.type),
     code |-> IF v.code = "*" THEN KEY_CNT ELSE input_event_code_parse(v.code),
     code_match |-> IF v.code = "*" THEN "MATCH_ALL" ELSE "MATCH_VALUE",
     value |-> IF v.value = NaN THEN UINT_MAX ELSE v.value,
     value_match |-> IF v.value = NaN THEN "MATCH_ALL" ELSE "MATCH_VALUE",
     action |-> IF v.action = "none" THEN [action |-> "NONE", options |-> <<>>] ELSE NewAction(v),
     state |-> 0]

(* The value "*" is written NaN; value_ok: it is "*" or a number.          *)
parse_input_ev(c, v) ==
    LET e == NewEntry(v)
        known == input_device_get_by_name(c.input_devices, v.device)
        devices == IF known # {} THEN c.input_devices
                   ELSE Append(c.input_devices, [name |-> v.device, event_actions |-> <<>>])
        d == CHOOSE i \in DOMAIN devices : devices[i].name = v.device
    IN  IF v.fields < 5 THEN Crash(c)
        ELSE IF \/ e.type = EV_MAX \/ e.code = KEY_MAX \/ ~v.value_ok
                \/ e.action.action = "UNKNOWN"
        THEN Invalid([c EXCEPT !.input_devices = devices])
        ELSE [c EXCEPT !.input_devices =
                [devices EXCEPT ![d].event_actions = Append(@, e)]]

parse_hook(c, v) ==
    IF v.fields < 2 THEN Crash(c)
    ELSE IF parse_action(v.action) = "UNKNOWN" THEN Invalid(c)
    ELSE [c EXCEPT !.hooks = Append(@, [name |-> v.name, action |-> NewAction(v)])]

(* The timer definitions are parsed in module TimerEv.                     *)
parse_timer_ev(c, v) ==
    IF v.valid THEN [c EXCEPT !.timer_definitions = Append(@, v)] ELSE Invalid(c)

loglevel_names == <<"EMERG", "ALERT", "CRITICAL", "ERROR", "WARN", "NOTICE", "INFO", "DEBUG">>

(* An unknown name is not refused; the default is that of syslog.          *)
parse_loglevel(name) ==
    IF \E i \in DOMAIN loglevel_names : loglevel_names[i] = name
    THEN (CHOOSE i \in DOMAIN loglevel_names : loglevel_names[i] = name) - 1
    ELSE 0

config_new ==
    [status |-> "ok", chip |-> "", loglevel |-> 5, syslog |-> FALSE,
     gpio_dir |-> "gpio.d", socket |-> "socket", timeout |-> 60,
     http_ip |-> "127.0.0.1", http_port |-> 8081, lua_file |-> <<>>,
     lua_async_dir |-> "lua_async.d", input_devices |-> <<>>,
     timer_definitions |-> <<>>, hooks |-> <<>>,
     gpios_in |-> <<>>, gpios_out |-> <<>>, lua_async_scripts |-> <<>>]

(* A setting that is kept as it is if it passes its check.                 *)
Checked(c, l, ok) == IF ok THEN [c EXCEPT ![l.key] = l.val] ELSE Invalid(c)

parse_config_file_kv(c, l) ==
    CASE l.key \in {"chip", "gpio_dir", "http_ip", "lua_async_dir"} -> Checked(c, l, TRUE)
      [] l.key = "loglevel" -> [c EXCEPT !.loglevel = parse_loglevel(l.val)]
      [] l.key = "syslog" ->
            IF l.val \in {"true", "1", "false", "0"}
            THEN [c EXCEPT !.syslog = mygpio_parse_bool(l.val)] ELSE Invalid(c)
      [] l.key = "socket" -> Checked(c, l, l.val # "too long")
      [] l.key = "timeout" -> Checked(c, l, mygpio_parse_int(l.val, 10, 120))
      [] l.key = "http_port" -> Checked(c, l, mygpio_parse_uint(l.val, 1025, 65535))
      [] l.key = "lua_file" -> [c EXCEPT !.lua_file = @ \o l.val]
      [] l.key = "input_ev" -> parse_input_ev(c, l.val)
      [] l.key = "timer_ev" -> parse_timer_ev(c, l.val)
      [] l.key = "hook" -> parse_hook(c, l.val)
      [] OTHER -> Invalid(c)

(* One pass of config_read's loop: comments and blank lines are skipped,   *)
(* the first invalid line ends it.                                         *)
ReadLine(c, l) ==
    IF c.status = "ok" /\ l.key # "none" THEN parse_config_file_kv(c, l) ELSE c

(* config_read.  opens: can the file and the directories be opened?        *)
config_read(inst) ==
    LET c == FoldLeft(ReadLine, config_new, KeyValues(inst.conf))
        g == gpio_read_dir(inst.gpio_dir)
    IN  IF c.status # "ok" THEN c
        ELSE IF ~inst.opens THEN Invalid(c)
        ELSE [c EXCEPT !.gpios_in = g.in, !.gpios_out = g.out,
                       !.lua_async_scripts = lua_async_read_scripts(inst.lua_async_dir)]

=============================================================================
