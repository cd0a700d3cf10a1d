------------------------------ MODULE Actions ------------------------------
(***************************************************************************)
(* Input devices and actions: what the main thread does for an event of an *)
(* input device (input_ev/event.c, action.c) or for any other trigger, the *)
(* actions themselves (actions/*.c) and the functions they offer to Lua,   *)
(* in the synchronous VM of the main thread and in the scripts' threads    *)
(* (lua/sync, lua/async).                                                  *)
(*                                                                         *)
(* A configured action is [action, options].  A Lua function or script is  *)
(* the sequence of the calls [fn, args] it makes; a Lua value is [t, v], a *)
(* command for MPD the sequence of its words.  The exchange of a script    *)
(* with the main thread is one step here (module LuaAsync takes it apart), *)
(* and so is whatever an output GPIO does (module GpioOutput).             *)
(***************************************************************************)
EXTENDS Config, FiniteSets

CONSTANTS
    Installation, \* the configuration files
    Functions,    \* the functions that lua_file defines
    Scripts,      \* the asynchronous scripts, "syntax" for one with an error
    Threads,      \* ids of the threads of scripts
    InputEvents,  \* what the input devices may send
    EventsMax     \* bound: input events and other triggers

(* mygpiod.conf is a sequence of lines; events come from the devices in    *)
(* it, with codes the kernel has.                                          *)
ASSUME EventsAssumption ==
    /\ Installation.conf.lines \in Seq(Range(Installation.conf.lines))
    /\ \A e \in InputEvents :
          e.device \in DOMAIN config_read(Installation).input_devices /\ e.code \in 0..KEY_MAX
    /\ EventsMax \in Nat

VARIABLES
    config,     \* t_config: what was read of them
    queue,      \* input events to be read
    current,    \* the input event that is handled, and the entry it is at
    states,     \* t_input_event_actions.state of the devices' entries
    work,       \* actions and Lua calls the main thread has still to do
    pc,         \* the main thread: "loop", "run", "mpc_send", "mpc_finish", "abort"
    ret,        \* result of the last action or Lua call
    level, blinking,  \* the output GPIOs
    conn,       \* mpd_conn: "none", "open", "closed" or "hup" by MPD
    mpd,        \* MPD: "up", "down" or "hung"
    children,   \* processes forked and never waited for
    requests,   \* HTTP requests of detached threads
    bytecode,   \* scripts that have been compiled
    scripts,    \* the threads of scripts
    enqueued,   \* input events put in the queues of the clients
    last,       \* history: the last value of each type and code of a device
    arrived,    \* history: did MPD carry out the last mpc action?
    broke,      \* history: trouble with MPD since the mpc action before
    events      \* number of events and triggers so far

input == <<config, queue, current, states, enqueued, last, events>>
outputs == <<level, blinking>>
mpc == <<conn, mpd, arrived, broke>>
procs == <<children, requests, bytecode, scripts>>
vars == <<input, work, pc, ret, outputs, mpc, procs>>

Devices == DOMAIN config.input_devices
Entries(d) == config.input_devices[d].event_actions
Outputs == {config.gpios_out[i].id : i \in DOMAIN config.gpios_out}
Inputs == {config.gpios_in[i].id : i \in DOMAIN config.gpios_in}
Kinds == {<<e.type, e.code>> : e \in InputEvents}
NoThread == [name |-> "none", at |-> 0, ret |-> <<>>]

(* What GPIO events, timers and hooks execute.                             *)
Triggers ==
    {<<config.hooks[i].action>> : i \in DOMAIN config.hooks}
    \cup {config.gpios_in[i].data[k] : i \in DOMAIN config.gpios_in, k \in ActionLists}

-----------------------------------------------------------------------------
(* Input devices.                                                          *)

(* The type is not compared: KEY, REL and ABS codes overlap.               *)
CheckCodeOnly(entry, ev) ==
    /\ entry.code_match = "MATCH_VALUE" => entry.code = ev.code
    /\ entry.value_match = "MATCH_VALUE" => entry.value = ev.value

check_event(entry, ev) ==
    /\ entry.type = ev.type
    /\ entry.code_match = "MATCH_VALUE" => entry.code = ev.code
    /\ entry.value_match = "MATCH_VALUE" => entry.value = ev.value

(* The entry that input_ev_get_state reads: the first that names the code. *)
FirstWith(d, code, i) ==
    /\ Entries(d)[i].code = code
    /\ \A j \in 1..(i - 1) : Entries(d)[j].code # code

input_ev_get_state(d, code) ==
    IF \E i \in DOMAIN Entries(d) : FirstWith(d, code, i)
    THEN states[d][CHOOSE i \in DOMAIN Entries(d) : FirstWith(d, code, i)]
    ELSE UINT_MAX

(* The types that input_ev_handle_event looks at; the others are dropped.  *)
HandledTypes == {"EV_KEY", "EV_REL", "EV_ABS", "EV_SW"}

(* input_ev_handle_event: one event is read.                               *)
ReadEvent ==
    /\ pc = "loop" /\ queue # <<>>
    /\ queue' = Tail(queue)
    /\ LET e == Head(queue) IN
       /\ last' = [last EXCEPT ![e.device][<<e.type, e.code>>] = e.value]
       /\ IF e.type \in HandledTypes
          THEN /\ current' = [ev |-> e, i |-> 1, subscribed |-> FALSE]
               /\ pc' = "run"
          ELSE UNCHANGED <<current, pc>>
    /\ UNCHANGED <<config, states, enqueued, events, work, ret, outputs, mpc, procs>>

(* input_ev_action_handle: the next entry of the device; its action is     *)
(* done before the entry after it is looked at.                            *)
HandleEntry ==
    /\ pc = "run" /\ work = <<>> /\ current # <<>>
    /\ LET d == current.ev.device IN
       /\ current.i <= Len(Entries(d))
       /\ LET hit == check_event(Entries(d)[current.i], current.ev) IN
          /\ states' = IF hit THEN [states EXCEPT ![d][current.i] = current.ev.value] ELSE states
          /\ work' = IF hit THEN <<Entries(d)[current.i].action>> ELSE <<>>
          /\ current' = [current EXCEPT !.i = @ + 1, !.subscribed = @ \/ hit]
    /\ UNCHANGED <<config, queue, enqueued, last, events, pc, ret, outputs, mpc, procs>>

(* Every entry and every action is done: the clients are told.             *)
Done ==
    /\ pc = "run" /\ work = <<>>
    /\ \/ /\ current # <<>> /\ current.i > Len(Entries(current.ev.device))
          /\ enqueued' = enqueued + (IF current.subscribed THEN 1 ELSE 0)
       \/ current = <<>> /\ UNCHANGED enqueued
    /\ current' = <<>> /\ pc' = "loop"
    /\ UNCHANGED <<config, queue, states, last, events, work, ret, outputs, mpc, procs>>

-----------------------------------------------------------------------------
(* Output GPIOs: gpio_set_value, gpio_toggle_value, gpio_blink.            *)

Flip(v) == IF v = "INACTIVE" THEN "ACTIVE" ELSE "INACTIVE"

GpioOp(gpio, op, value) ==
    \/ /\ gpio \in Outputs /\ value # "ERROR"
       /\ level' = [level EXCEPT ![gpio] = IF op = "set" THEN value ELSE Flip(@)]
       /\ blinking' = IF op = "blink" THEN blinking \cup {gpio} ELSE blinking \ {gpio}
       /\ ret' = <<TRUE>>
    \/ /\ gpio \notin Outputs \/ value = "ERROR"
       /\ blinking' = IF op = "blink" THEN blinking ELSE blinking \ {gpio}
       /\ ret' = <<FALSE>>
       /\ UNCHANGED level

Fail == ret' = <<FALSE>> /\ UNCHANGED outputs
Refuse == Fail /\ UNCHANGED procs

action_gpioset(o) ==
    IF Len(o) = 2 /\ mygpio_parse_uint(o[1], 0, GPIOS_MAX) /\ o[2] \in {"active", "inactive", "error"}
    THEN GpioOp(o[1], "set", parse_gpio_value(o[2])) /\ UNCHANGED procs
    ELSE Refuse

action_gpiotoggle(o) ==
    IF Len(o) = 1 /\ mygpio_parse_uint(o[1], 0, GPIOS_MAX)
    THEN GpioOp(o[1], "toggle", "") /\ UNCHANGED procs
    ELSE Refuse

action_gpioblink(o) ==
    IF /\ Len(o) = 3 /\ mygpio_parse_uint(o[1], 0, GPIOS_MAX)
       /\ \A i \in 2..3 : mygpio_parse_int(o[i], 0, TIMEOUT_MS_MAX)
    THEN GpioOp(o[1], "blink", "") /\ UNCHANGED procs
    ELSE Refuse

-----------------------------------------------------------------------------
(* Processes and threads.                                                  *)

(* fork may fail; the child is never waited for.                           *)
action_system_async ==
    \/ children' = children + 1 /\ ret' = <<TRUE>> /\ UNCHANGED <<outputs, requests, bytecode, scripts>>
    \/ Refuse

http_methods == {"DELETE", "GET", "HEAD", "OPTIONS", "PATCH", "POST", "PUT"}

(* A body needs a content type.  The thread has copies of its arguments;   *)
(* it may not be created.                                                  *)
action_http2_async(method, uri, content_type, postdata) ==
    \/ /\ method \in http_methods
       /\ requests' = requests \cup {[method |-> method, uri |-> uri,
                                      body |-> IF content_type # "nil" THEN postdata ELSE "nil"]}
       /\ ret' = <<TRUE>>
       /\ UNCHANGED <<outputs, children, bytecode, scripts>>
    \/ Refuse

action_http_async(o) ==
    CASE Len(o) = 4 -> action_http2_async(o[1], o[2], o[3], o[4])
      [] Len(o) = 2 -> action_http2_async(o[1], o[2], "nil", "nil")
      [] OTHER -> Refuse

action_mympd2_async(uri, partition, script) ==
    action_http2_async("POST", <<uri, partition>>, "application/json", script)

action_mympd_async(o) ==
    IF Len(o) < 3 THEN Refuse ELSE action_mympd2_async(o[1], o[2], o[3])

(* http_client: a body "<</" is the name of a file; curl may fail.         *)
http_client(body) == IF body = "<</no such file" THEN {FALSE} ELSE BOOLEAN

(* curl_thread: the result is only logged.                                 *)
CurlThread(r) ==
    /\ r \in requests
    /\ requests' = requests \ {r}
    /\ \E rc \in http_client(r.body) : TRUE
    /\ UNCHANGED <<input, work, pc, ret, outputs, mpc, children, bytecode, scripts>>

(* lua_async_load_source, lua_async_load_bytecode: only a script with an   *)
(* error is compiled again.  There may be no memory or no thread.          *)
Load(name) == Scripts[name] # "syntax"
get_script_by_name(name) == {i \in DOMAIN config.lua_async_scripts : config.lua_async_scripts[i].name = name}

action_lua_async(o) ==
    \/ /\ o # <<>> /\ get_script_by_name(o[1]) # {}
       /\ bytecode' = IF Load(o[1]) THEN bytecode \cup {o[1]} ELSE bytecode
       /\ \/ /\ Load(o[1])
             /\ \E t \in Threads :
                  /\ scripts[t] = NoThread
                  /\ scripts' = [scripts EXCEPT ![t] = [name |-> o[1], at |-> 1, ret |-> <<>>]]
             /\ ret' = <<TRUE>>
          \/ ret' = <<FALSE>> /\ UNCHANGED scripts
       /\ UNCHANGED <<outputs, children, requests>>
    \/ Refuse

-----------------------------------------------------------------------------
(* The functions for Lua.                                                  *)

(* luavm_sync_init, create_lua_vm: "mympd" is registered under the name    *)
(* "http" in the VMs of scripts, and then replaced.                        *)
MainFunctions == {"gpioBlink", "gpioGet", "gpioSet", "gpioToggle", "inputEvGet"}
Registered(vm) == MainFunctions \cup {"system", "mpc", "http"}
                    \cup (IF vm = "sync" THEN {"mympd"} ELSE {})

ArgCount == [gpioBlink |-> 3, gpioGet |-> 1, gpioSet |-> 2, gpioToggle |-> 1,
             inputEvGet |-> 2, system |-> 1, mpc |-> 1, http |-> 4, mympd |-> 3]
IntArgs(fn) == CASE fn = "gpioBlink" -> {1, 2, 3}
                 [] fn \in {"gpioGet", "gpioSet", "gpioToggle"} -> {1}
                 [] OTHER -> {}
StringArgs(fn) == CASE fn = "gpioSet" -> {2}
                    [] fn = "http" -> {1, 2}
                    [] fn \in {"inputEvGet", "system", "mpc", "mympd"} -> 1..ArgCount[fn]
                    [] OTHER -> {}

(* check_lua_arg_count, lua_isinteger, lua_tostring.                       *)
ArgsOk(c) ==
    /\ Len(c.args) = ArgCount[c.fn]
    /\ \A i \in IntArgs(c.fn) : c.args[i].t = "int"
    /\ \A i \in StringArgs(c.fn) : c.args[i].t # "nil"

gpio_get_value(gpio) ==
    IF gpio \in Outputs THEN {level[gpio]}
    ELSE IF gpio \in Inputs THEN {"ACTIVE", "INACTIVE"} ELSE {"ERROR"}

lua_input_ev_get(device, name) ==
    LET d == input_device_get_by_name(config.input_devices, device)
        code == input_event_code_parse(name)
        state == input_ev_get_state(CHOOSE i \in d : TRUE, code)
    IN  IF d = {} \/ code = KEY_MAX THEN <<FALSE>> ELSE <<state # UINT_MAX, "value", state>>

(* The functions that run in the main thread, on whichever VM.  Numbers    *)
(* are not limited here.                                                   *)
MainCall(c) ==
    LET v(i) == c.args[i].v IN
    IF ~ArgsOk(c) THEN Fail ELSE
    CASE c.fn = "gpioBlink" -> GpioOp(v(1), "blink", "")
      [] c.fn = "gpioToggle" -> GpioOp(v(1), "toggle", "")
      [] c.fn = "gpioSet" -> IF parse_gpio_value(v(2)) = "ERROR" THEN Fail
                             ELSE GpioOp(v(1), "set", parse_gpio_value(v(2)))
      [] c.fn = "gpioGet" -> /\ \E val \in gpio_get_value(v(1)) : ret' = <<TRUE, lookup_gpio_value[val]>>
                             /\ UNCHANGED outputs
      [] c.fn = "inputEvGet" -> ret' = lua_input_ev_get(v(1), v(2)) /\ UNCHANGED outputs

(* The other functions of the synchronous VM, except mpc.                  *)
SyncCall(c) ==
    LET v(i) == c.args[i].v IN
    IF c.fn \in MainFunctions THEN MainCall(c) /\ UNCHANGED procs ELSE
    CASE ~ArgsOk(c) -> Refuse
      [] ArgsOk(c) /\ c.fn = "system" -> action_system_async
      [] ArgsOk(c) /\ c.fn = "http" -> action_http2_async(v(1), v(2), v(3), v(4))
      [] ArgsOk(c) /\ c.fn = "mympd" -> action_mympd2_async(v(1), v(2), v(3))

-----------------------------------------------------------------------------
(* The mpc action.                                                         *)

(* mpc_check_conn: a connection that MPD has closed in order does not show *)
(* up in a poll for no events.                                             *)
mpc_check_conn == conn \in {"open", "closed"}

(* Too many or too few words, or no connection: nothing is sent.           *)
MpcRefused(o) ==
    /\ Len(o) \notin 1..10 \/ ~mpc_check_conn
    /\ conn' = IF Len(o) \in 1..10 THEN "none" ELSE conn
    /\ ret' = <<FALSE>> /\ work' = Tail(work)
    /\ UNCHANGED <<pc, mpd, arrived, broke>>

(* mpc_check_conn, mpc_connect.                                            *)
MpcConnect(o) ==
    /\ Len(o) \in 1..10
    /\ \/ mpc_check_conn /\ UNCHANGED conn
       \/ ~mpc_check_conn /\ mpd = "up" /\ conn' = "open"
    /\ pc' = "mpc_send"
    /\ UNCHANGED <<work, ret, mpd, arrived, broke>>

(* mpd_send_command: the result is not looked at.                          *)
MpcSend ==
    /\ pc = "mpc_send"
    /\ pc' = "mpc_finish"
    /\ arrived' = (conn = "open" /\ mpd = "up")
    /\ broke' = (mpd # "up")
    /\ UNCHANGED <<input, work, ret, outputs, conn, mpd, procs>>

(* A connection is kept although it failed.                                *)
FinishKeepsConn ==
    /\ pc = "mpc_finish"
    /\ pc' = "run" /\ work' = Tail(work) /\ ret' = <<TRUE>>
    /\ UNCHANGED <<input, outputs, mpc, procs>>

(* mpd_response_finish waits for the answer, without a timeout.            *)
FinishWaits ==
    /\ pc = "mpc_finish"
    /\ \/ conn = "open" /\ mpd # "hung" /\ UNCHANGED conn
       \/ conn # "open" /\ conn' = "none"
    /\ pc' = "run" /\ work' = Tail(work) /\ ret' = <<TRUE>>
    /\ UNCHANGED <<input, outputs, mpd, arrived, broke, procs>>

(* mpd_response_finish: MPD answers "OK", or it refuses the command, does  *)
(* not answer in time or is gone, and the connection is given up.  The     *)
(* action is a success all the same.                                       *)
MpcFinish ==
    /\ pc = "mpc_finish"
    /\ \/ arrived /\ UNCHANGED conn
       \/ conn' = "none"
    /\ pc' = "run" /\ work' = Tail(work) /\ ret' = <<TRUE>>
    /\ UNCHANGED <<input, outputs, mpd, arrived, broke, procs>>

-----------------------------------------------------------------------------
(* The main thread executes actions.                                       *)

(* lua_call is not protected: an error in the function ends the daemon.    *)
Abort == pc' = "abort" /\ UNCHANGED <<work, ret, outputs, mpc, procs>>

LuaCall(c) ==
    CASE c.fn \notin Registered("sync") -> Abort
      [] c.fn = "mpc" /\ ArgsOk(c) ->
            (MpcRefused(c.args[1].v) \/ MpcConnect(c.args[1].v)) /\ UNCHANGED <<outputs, procs>>
      [] OTHER -> /\ IF c.fn = "mpc" THEN Refuse ELSE SyncCall(c)
                  /\ work' = Tail(work) /\ UNCHANGED <<pc, mpc>>

(* action_lua_sync: the calls of the function come next.                   *)
action_lua_sync(o) ==
    LET found == config.lua_file # <<>> /\ o # <<>> /\ o[1] \in DOMAIN Functions IN
    /\ work' = (IF found THEN Functions[o[1]] ELSE <<>>) \o Tail(work)
    /\ ret' = <<found>>
    /\ UNCHANGED <<pc, outputs, mpc, procs>>

action_execute(a) ==
    LET o == a.options IN
    CASE a.action = "MPC" -> (MpcRefused(o) \/ MpcConnect(o)) /\ UNCHANGED <<outputs, procs>>
      [] a.action = "LUA" -> action_lua_sync(o)
      [] OTHER ->
            /\ CASE a.action = "SYSTEM" -> IF Len(o) = 1 THEN action_system_async ELSE Refuse
                 [] a.action = "GPIO_SET" -> action_gpioset(o)
                 [] a.action = "GPIO_TOGGLE" -> action_gpiotoggle(o)
                 [] a.action = "GPIO_BLINK" -> action_gpioblink(o)
                 [] a.action = "HTTP" -> action_http_async(o)
                 [] a.action = "MYMPD" -> action_mympd_async(o)
                 [] a.action = "LUA_ASYNC" -> action_lua_async(o)
                 [] OTHER -> UNCHANGED <<ret, outputs, procs>>  \* NONE, UNKNOWN
            /\ work' = Tail(work) /\ UNCHANGED <<pc, mpc>>

(* actions_execute: one after the other; results are ignored.              *)
Execute ==
    /\ pc = "run" /\ work # <<>>
    /\ LET a == Head(work) IN IF "fn" \in DOMAIN a THEN LuaCall(a) ELSE action_execute(a)
    /\ UNCHANGED input

-----------------------------------------------------------------------------
(* The threads of scripts.                                                 *)

Call(t) == Scripts[scripts[t].name][scripts[t].at]
Calling(t) == scripts[t] # NoThread /\ scripts[t].at <= Len(Scripts[scripts[t].name])
Advance(t, r) == scripts' = [scripts EXCEPT ![t].at = @ + 1, ![t].ret = r]

(* lua_mpc_async has a connection of its own.  An answer of three          *)
(* characters, "OK" and newline, is no success; one that needs more than   *)
(* one read overwrites itself, and what is compared with "OK" was never    *)
(* written.                                                                *)
lua_mpc_async ==
    IF mpd = "down" THEN {<<FALSE>>}
    ELSE {<<FALSE, "">>} \cup
         (IF mpd = "hung" THEN {}
          ELSE {<<FALSE, "OK">>, <<FALSE, "ACK">>, <<TRUE, "whole">>} \cup (BOOLEAN \X {"garbled"}))

lua_system_sync == {<<FALSE>>} \cup (BOOLEAN \X {"output"})

lua_http_sync(c) == http_client(c.args[4].v) \X {"response"}

(* NULL is dereferenced: an empty command for MPD, a body without a type.  *)
Crashes(c) ==
    \/ c.fn = "mpc" /\ c.args[1].v = <<>> /\ mpd # "down"
    \/ c.fn = "http" /\ c.args[3].t = "nil" /\ c.args[4].t # "nil"

(* What a script calls in its own thread.                                  *)
ScriptCall(t) ==
    /\ Calling(t) /\ Call(t).fn \in Registered("async") \ MainFunctions
    /\ LET c == Call(t) IN
       IF ArgsOk(c) /\ Crashes(c)
       THEN pc' = "abort" /\ UNCHANGED scripts
       ELSE /\ \E r \in CASE ~ArgsOk(c) -> {<<FALSE>>}
                          [] ArgsOk(c) /\ c.fn = "mpc" -> lua_mpc_async
                          [] ArgsOk(c) /\ c.fn = "system" -> lua_system_sync
                          [] ArgsOk(c) /\ c.fn = "http" -> lua_http_sync(c) : Advance(t, r)
            /\ UNCHANGED pc
    /\ UNCHANGED <<input, work, ret, outputs, mpc, children, requests, bytecode>>

(* script_run: the end of the script, or an error in it, ends the thread.  *)
ScriptEnd(t) ==
    /\ scripts[t] # NoThread
    /\ Calling(t) => Call(t).fn \notin Registered("async")
    /\ scripts' = [scripts EXCEPT ![t] = NoThread]
    /\ UNCHANGED <<input, work, pc, ret, outputs, mpc, children, requests, bytecode>>

(* lua_async_send_msg and lua_async_handle_msg.                            *)
HandleMsg(t) ==
    /\ pc = "loop"
    /\ Calling(t) /\ Call(t).fn \in MainFunctions
    /\ MainCall(Call(t))
    /\ Advance(t, ret')
    /\ UNCHANGED <<input, work, pc, mpc, children, requests, bytecode>>

-----------------------------------------------------------------------------
(* The outside world.                                                      *)

DeviceEvent(e) ==
    /\ events < EventsMax /\ pc # "abort"
    /\ queue' = Append(queue, e) /\ events' = events + 1
    /\ UNCHANGED <<config, current, states, enqueued, last, work, pc, ret, outputs, mpc, procs>>

(* A GPIO event, a timer event, a hook.                                    *)
Trigger(list) ==
    /\ events < EventsMax /\ pc = "loop"
    /\ events' = events + 1 /\ work' = list /\ pc' = "run"
    /\ UNCHANGED <<config, queue, current, states, enqueued, last, ret, outputs, mpc, procs>>

(* MPD closes the connection, goes away, or no longer answers.             *)
MpdTrouble ==
    /\ mpd = "up" /\ mpd' \in {"up", "down", "hung"}
    /\ \/ conn = "open" /\ mpd' # "hung" /\ conn' \in {"closed", "hup"}
       \/ (conn # "open" \/ mpd' = "hung") /\ mpd' # "up" /\ UNCHANGED conn
    /\ broke' = TRUE
    /\ UNCHANGED <<input, work, pc, ret, outputs, arrived, procs>>

MpdBack ==
    /\ mpd # "up" /\ mpd' = "up"
    /\ UNCHANGED <<input, work, pc, ret, outputs, conn, arrived, broke, procs>>

-----------------------------------------------------------------------------
Init ==
    /\ config = config_read(Installation)
    /\ queue = <<>> /\ current = <<>> /\ work = <<>> /\ pc = "loop" /\ ret = <<>>
    /\ states = [d \in Devices |-> [i \in DOMAIN Entries(d) |-> Entries(d)[i].state]]
    /\ last = [d \in Devices |-> [k \in Kinds |-> 0]]
    /\ level = [g \in Outputs |-> "INACTIVE"] /\ blinking = {}
    /\ conn = "none" /\ mpd = "up" /\ arrived = FALSE /\ broke = FALSE
    /\ children = 0 /\ requests = {} /\ bytecode = {}
    /\ scripts = [t \in Threads |-> NoThread]
    /\ enqueued = 0 /\ events = 0

Main == ReadEvent \/ HandleEntry \/ Execute \/ MpcSend \/ MpcFinish \/ Done

Next ==
    \/ Main
    \/ \E t \in Threads : HandleMsg(t) \/ ScriptCall(t) \/ ScriptEnd(t)
    \/ \E r \in requests : CurlThread(r)
    \/ \E e \in InputEvents : DeviceEvent(e)
    \/ \E list \in Triggers : Trigger(list)
    \/ MpdTrouble \/ MpdBack

Spec == Init /\ [][Next]_vars

(* The main thread runs whenever it can; libmpdclient's timeout lets it    *)
(* run when MPD does not.                                                  *)
FairSpec == Spec /\ WF_vars(Main)

-----------------------------------------------------------------------------
(* The result of an action or a call: none yet, or a success and values.   *)
Result(r) == r = <<>> \/ r[1] \in BOOLEAN

(* The main thread waits for MPD only for work that is still at hand, and  *)
(* has none at the loop; work comes from the configuration and from Lua,   *)
(* and nothing else is said of it.                                         *)
MainOK ==
    /\ pc \in {"loop", "run", "mpc_send", "mpc_finish", "abort"}
    /\ pc = "loop" => work = <<>> /\ current = <<>>
    /\ pc \in {"mpc_send", "mpc_finish"} => work # <<>>
    /\ Result(ret)

InputOK ==
    /\ config = config_read(Installation)
    /\ queue \in Seq(InputEvents)
    /\ current = <<>> \/ current \in [ev : InputEvents, i : Nat \ {0}, subscribed : BOOLEAN]
    /\ DOMAIN states = Devices /\ \A d \in Devices : DOMAIN states[d] = DOMAIN Entries(d)
    /\ DOMAIN last = Devices /\ \A d \in Devices : DOMAIN last[d] = Kinds
    /\ events \in 0..EventsMax /\ enqueued \in 0..events

OutputsOK == level \in [Outputs -> {"ACTIVE", "INACTIVE"}] /\ blinking \subseteq Outputs

MpcOK ==
    /\ conn \in {"none", "open", "closed", "hup"} /\ mpd \in {"up", "down", "hung"}
    /\ arrived \in BOOLEAN /\ broke \in BOOLEAN

(* A thread runs a script that has been compiled.                          *)
Running(s) ==
    /\ DOMAIN s = DOMAIN NoThread
    /\ s.name \in bytecode /\ s.at \in Nat \ {0} /\ Result(s.ret)

(* What is compiled is configured and has no error in it.                  *)
ProcsOK ==
    /\ children \in Nat
    /\ \A r \in requests : r.method \in http_methods
    /\ \A name \in bytecode : Load(name) /\ get_script_by_name(name) # {}
    /\ DOMAIN scripts = Threads
    /\ \A t \in Threads : scripts[t] = NoThread \/ Running(scripts[t])

(* Type correctness.                                                       *)
TypeOK == InputOK /\ MainOK /\ OutputsOK /\ MpcOK /\ ProcsOK

(* What inputEvGet reads is the value of the last event of a type and code *)
(* ("Returns the current value of tracked input event",                    *)
(* docs/lua-sync-scripts.rst:36), unless the event is handled and has not  *)
(* come to the entry yet, if the first entry that names the code is of     *)
(* that type, one that the daemon handles, and for all values.  One for a  *)
(* single value keeps that value for ever, and an entry for all codes is   *)
(* never read.                                                             *)
InputStateTracks ==
    \A d \in Devices, k \in Kinds : \A i \in DOMAIN Entries(d) :
        LET pending == /\ current # <<>> /\ current.ev.device = d
                       /\ <<current.ev.type, current.ev.code>> = k /\ current.i <= i
        IN  FirstWith(d, k[2], i) /\ Entries(d)[i].type = k[1] /\ k[1] \in HandledTypes
            /\ Entries(d)[i].value_match = "MATCH_ALL" /\ ~pending =>
                input_ev_get_state(d, k[2]) = last[d][k]

(* A command is sent to a connection that is no longer there, and taken    *)
(* for a success, at most once for each time MPD closes it or does not     *)
(* answer: the action after it gets a new connection.                      *)
OneLossPerBreak == [][pc = "mpc_send" /\ pc' = "mpc_finish" /\ ~arrived' => broke]_vars

(* Input events are served although actions wait for MPD in the main       *)
(* thread, which may not answer, and scripts and requests run beside it;   *)
(* unless an error in Lua has ended the daemon.                            *)
EventsServed == queue # <<>> ~> queue = <<>> \/ pc = "abort"

=============================================================================
