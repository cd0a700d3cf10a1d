------------------------------- MODULE Daemon -------------------------------
(***************************************************************************)
(* The life of the daemon (main.c): it reads its configuration, requests   *)
(* the GPIO lines, opens input devices, timers, queues, socket and web     *)
(* server, serves events in the order of its poll set                      *)
(* (event_loop/event_loop.c) and leaves on SIGTERM or SIGINT.              *)
(*                                                                         *)
(* A descriptor is <<type, number>>, the types those of enum pfd_types.    *)
(* Whatever serving a descriptor may do to the set of descriptors is       *)
(* here; what else it does is in the modules of the components.  One call  *)
(* of poll and the event it leads to are one step (module SocketServer     *)
(* takes them apart).                                                      *)
(***************************************************************************)
EXTENDS Config, FiniteSets

CONSTANTS CLIENT_CONNECTIONS_MAX,
          Installations,  \* the files the daemon may find
          EventsMax       \* bound: events that make a descriptor ready

ASSUME DaemonAssumption == CLIENT_CONNECTIONS_MAX \in Nat /\ EventsMax \in Nat

(* Directories and files are read in sequence.                             *)
ASSUME InstallationsAssumption ==
    \A files \in Installations :
        /\ files.gpio_dir \in Seq(Range(files.gpio_dir))
        /\ files.conf.lines \in Seq(Range(files.conf.lines))
        /\ \A e \in Range(files.gpio_dir) : e.file.lines \in Seq(Range(e.file.lines))

VARIABLES
    pc,         \* where main is
    at,         \* the list node the current start-up function is at
    inst,       \* the files found
    config,     \* t_config: what was read of them
    chip,       \* is the chip open?
    requests,   \* the lines held: <<"in" or "out", node>>
    opened,     \* the descriptors opened at start-up
    timers,     \* GPIO timers: <<"GPIO_IN_TIMER" or "GPIO_OUT_TIMER", node>>
    clients,    \* connected clients: descriptor and, unless idle, timeout
    poll_fds, pfd_len_init, update_pollfds,
    ready,      \* descriptors with something to read
    gone,       \* input devices that have been unplugged
    events,     \* events so far
    rc          \* exit code

started == <<inst, config, chip, requests, opened, pfd_len_init>>
vars == <<started, pc, at, timers, clients, poll_fds, update_pollfds, ready, gone, events, rc>>

Signal == <<"SIGNAL", 0>>
LuaAsync == <<"LUA_ASYNC", 0>>
Connection == <<"CONNECT", 0>>
Httpd == <<"HTTPD", 0>>

-----------------------------------------------------------------------------
(* The poll set.                                                           *)

(* The server socket is not counted.                                       *)
MaxFdsNoServer == GPIOS_MAX * 2 + CLIENT_CONNECTIONS_MAX * 2

MAX_FDS == GPIOS_MAX * 2 + CLIENT_CONNECTIONS_MAX * 2 + 1

event_poll_fd_add(fds, fd) == IF Len(fds) = MAX_FDS THEN fds ELSE Append(fds, fd)

Full == Len(poll_fds) = MAX_FDS

(* event_add_gpio_in_timer_fds, event_add_gpio_out_timer_fds,              *)
(* event_add_client_fds: the descriptors the nodes of the lists may have,  *)
(* the GPIOs in the order of the lists, the clients by their numbers.      *)
TimerFds(type, list) == [i \in DOMAIN list |-> <<type, i>>]

ClientFds ==
    [i \in 1..(2 * CLIENT_CONNECTIONS_MAX) |->
        IF i % 2 = 1 THEN <<"CLIENT", (i + 1) \div 2>> ELSE <<"CLIENT_TIMEOUT", i \div 2>>]

Dynamic == TimerFds("GPIO_IN_TIMER", config.gpios_in)
           \o TimerFds("GPIO_OUT_TIMER", config.gpios_out) \o ClientFds

(* Those that are open are added.                                          *)
AddOpen(fds, fd) == IF fd \in timers \cup clients THEN event_poll_fd_add(fds, fd) ELSE fds

-----------------------------------------------------------------------------
(* Start-up.                                                               *)

Fail == pc' = "clear" /\ rc' = "EXIT_FAILURE"
Goto(label) == pc' = label /\ at' = 1

(* get_config: an invalid file ends the daemon before anything is opened.  *)
GetConfig ==
    /\ pc = "config"
    /\ config' = config_read(inst)
    /\ CASE config'.status = "ok" -> /\ Goto("chip")
                                     /\ opened' = {Signal}
                                     /\ UNCHANGED rc
         [] OTHER -> /\ pc' = IF config'.status = "crash" THEN "crashed" ELSE "exited"
                     /\ rc' = "EXIT_FAILURE"
                     /\ UNCHANGED <<at, opened>>
    /\ UNCHANGED <<inst, chip, requests, pfd_len_init, timers, clients, poll_fds,
                   update_pollfds, ready, gone, events>>

(* gpio_init, gpio_open_chip: without a chip there are no GPIOs.           *)
OpenChip ==
    /\ pc = "chip"
    /\ \/ /\ config.chip # ""
          /\ \/ chip' = TRUE /\ Goto("outputs") /\ UNCHANGED rc
             \/ Fail /\ UNCHANGED <<chip, at>>
          /\ UNCHANGED config
       \/ /\ config.chip = ""
          /\ config' = [config EXCEPT !.gpios_in = <<>>, !.gpios_out = <<>>]
          /\ Goto("devices")
          /\ UNCHANGED <<chip, rc>>
    /\ UNCHANGED <<inst, requests, opened, pfd_len_init, timers, clients, poll_fds,
                   update_pollfds, ready, gone, events>>

Gpios(dir) == IF dir = "in" THEN config.gpios_in ELSE config.gpios_out

(* The kernel gives a line away once; libgpiod refuses the value "error".  *)
LineFree(id) == \A r \in requests : Gpios(r[1])[r[2]].id # id
Requestable(dir, node) ==
    /\ LineFree(node.id)
    /\ dir = "out" => node.data.value # "ERROR"

(* A line that is refused is only logged.                                  *)
RefusedIsLogged(dir) ==
    /\ at <= Len(Gpios(dir))
    /\ requests' = IF Requestable(dir, Gpios(dir)[at]) THEN requests \cup {<<dir, at>>} ELSE requests
    /\ at' = at + 1
    /\ UNCHANGED <<pc, rc>>

(* gpio_set_output, gpio_request_input for one node.  The line may be held *)
(* by another process; without its info the request is kept but start-up   *)
(* fails.                                                                  *)
RequestLine(dir) ==
    /\ at <= Len(Gpios(dir))
    /\ \/ /\ Requestable(dir, Gpios(dir)[at])
          /\ requests' = requests \cup {<<dir, at>>}
          /\ \/ at' = at + 1 /\ UNCHANGED <<pc, rc>>
             \/ Fail /\ UNCHANGED at
       \/ Fail /\ UNCHANGED <<requests, at>>

(* gpio_set_outputs.                                                       *)
SetOutputs ==
    /\ pc = "outputs"
    /\ \/ RequestLine("out")
       \/ at > Len(config.gpios_out) /\ Goto("inputs") /\ UNCHANGED <<requests, rc>>
    /\ UNCHANGED <<inst, config, chip, opened, pfd_len_init, timers, clients, poll_fds,
                   update_pollfds, ready, gone, events>>

(* gpio_request_inputs: nobody looks at whether the poll set is full.      *)
RequestInputs ==
    /\ pc = "inputs"
    /\ \/ /\ RequestLine("in")
          /\ opened' = IF requests' # requests THEN opened \cup {<<"GPIO", at>>} ELSE opened
          /\ poll_fds' = IF at' # at THEN event_poll_fd_add(poll_fds, <<"GPIO", at>>) ELSE poll_fds
       \/ /\ at > Len(config.gpios_in) /\ Goto("devices")
          /\ UNCHANGED <<requests, opened, poll_fds, rc>>
    /\ UNCHANGED <<inst, config, chip, pfd_len_init, timers, clients, update_pollfds,
                   ready, gone, events>>

(* input_device_open: a device that cannot be opened is only logged.       *)
OpenDevices ==
    /\ pc = "devices"
    /\ \/ /\ at <= Len(config.input_devices)
          /\ at' = at + 1
          /\ \/ /\ opened' = opened \cup {<<"INPUT", at>>}
                /\ poll_fds' = event_poll_fd_add(poll_fds, <<"INPUT", at>>)
             \/ UNCHANGED <<opened, poll_fds>>
          /\ UNCHANGED pc
       \/ /\ at > Len(config.input_devices) /\ Goto("timers")
          /\ UNCHANGED <<opened, poll_fds>>
    /\ UNCHANGED <<inst, config, chip, requests, pfd_len_init, timers, clients,
                   update_pollfds, ready, gone, events, rc>>

(* timer_ev_open: a timer that cannot be created or set ends the daemon.   *)
OpenTimers ==
    /\ pc = "timers"
    /\ \/ /\ at <= Len(config.timer_definitions)
          /\ \/ /\ opened' = opened \cup {<<"TIMER_EV", at>>}
                /\ poll_fds' = event_poll_fd_add(poll_fds, <<"TIMER_EV", at>>)
                /\ at' = at + 1 /\ UNCHANGED <<pc, rc>>
             \/ Fail /\ UNCHANGED <<opened, poll_fds, at>>
       \/ /\ at > Len(config.timer_definitions) /\ Goto("signal")
          /\ UNCHANGED <<opened, poll_fds, rc>>
    /\ UNCHANGED <<inst, config, chip, requests, pfd_len_init, timers, clients,
                   update_pollfds, ready, gone, events>>

(* The descriptors main adds by itself and without which it does not       *)
(* start.                                                                  *)
AddOrFail(fd, next) ==
    /\ poll_fds' = event_poll_fd_add(poll_fds, fd)
    /\ IF Full THEN Fail ELSE pc' = next /\ UNCHANGED rc

AddSignal ==
    /\ pc = "signal"
    /\ AddOrFail(Signal, "lua")
    /\ UNCHANGED <<started, at, timers, clients, update_pollfds, ready, gone, events>>

(* luavm_sync_init, then the queues; the script may be bad.                *)
StartLua ==
    /\ pc = "lua"
    /\ \/ AddOrFail(LuaAsync, "socket") /\ opened' = opened \cup {LuaAsync}
       \/ config.lua_file # <<>> /\ Fail /\ UNCHANGED <<opened, poll_fds>>
    /\ UNCHANGED <<inst, config, chip, requests, pfd_len_init, at, timers, clients,
                   update_pollfds, ready, gone, events>>

CreateSocket ==
    /\ pc = "socket"
    /\ \/ AddOrFail(Connection, "httpd") /\ opened' = opened \cup {Connection}
       \/ Fail /\ UNCHANGED <<opened, poll_fds>>
    /\ UNCHANGED <<inst, config, chip, requests, pfd_len_init, at, timers, clients,
                   update_pollfds, ready, gone, events>>

(* The result of the last event_poll_fd_add is not looked at.              *)
StartHttpd ==
    /\ pc = "httpd"
    /\ \/ /\ opened' = opened \cup {Httpd}
          /\ poll_fds' = event_poll_fd_add(poll_fds, Httpd)
          /\ pfd_len_init' = Len(poll_fds')
          /\ pc' = "loop" /\ UNCHANGED rc
       \/ Fail /\ UNCHANGED <<opened, poll_fds, pfd_len_init>>
    /\ UNCHANGED <<inst, config, chip, requests, at, timers, clients, update_pollfds,
                   ready, gone, events>>

StartUp == GetConfig \/ OpenChip \/ SetOutputs \/ RequestInputs \/ OpenDevices \/ OpenTimers
           \/ AddSignal \/ StartLua \/ CreateSocket \/ StartHttpd

-----------------------------------------------------------------------------
(* The loop.                                                               *)

UpdatePollFds ==
    /\ pc = "loop" /\ update_pollfds
    /\ poll_fds' = FoldLeft(AddOpen, SubSeq(poll_fds, 1, pfd_len_init), Dynamic)
    /\ update_pollfds' = FALSE
    /\ UNCHANGED <<started, pc, at, timers, clients, ready, gone, events, rc>>

(* The timers after actions or commands that start or end the blinking of  *)
(* outputs.                                                                *)
Blinked(ts) ==
    {SymDiff(ts, {"GPIO_OUT_TIMER"} \X outs) : outs \in SUBSET DOMAIN config.gpios_out}

(* What serving fd does to the set of descriptors.                         *)
Serve(fd) ==
    CASE fd[1] = "GPIO" ->
            /\ timers' \in Blinked(timers) \cup Blinked(SymDiff(timers, {<<"GPIO_IN_TIMER", fd[2]>>}))
            /\ UNCHANGED clients
      [] fd[1] = "GPIO_IN_TIMER" ->
            timers' \in Blinked(timers) \cup Blinked(timers \ {fd}) /\ UNCHANGED clients
      [] fd[1] = "GPIO_OUT_TIMER" -> timers' \in {timers, timers \ {fd}} /\ UNCHANGED clients
      [] fd[1] \in {"INPUT", "TIMER_EV", "LUA_ASYNC", "HTTPD"} ->
            timers' \in Blinked(timers) /\ UNCHANGED clients
      [] fd[1] = "CONNECT" ->
            LET ids == {c[2] : c \in clients}
                n == CHOOSE m \in 1..(CLIENT_CONNECTIONS_MAX + 1) : m \notin ids
            IN  /\ clients' = IF n > CLIENT_CONNECTIONS_MAX THEN clients
                              ELSE clients \cup {<<"CLIENT", n>>, <<"CLIENT_TIMEOUT", n>>}
                /\ UNCHANGED timers
      [] fd[1] = "CLIENT" ->
            \/ clients' = clients \ {fd, <<"CLIENT_TIMEOUT", fd[2]>>} /\ UNCHANGED timers
            \/ clients' = clients \ {<<"CLIENT_TIMEOUT", fd[2]>>} /\ UNCHANGED timers
            \/ clients' = clients \cup {<<"CLIENT_TIMEOUT", fd[2]>>} /\ timers' \in Blinked(timers)
      [] fd[1] = "CLIENT_TIMEOUT" ->
            clients' = clients \ {fd, <<"CLIENT", fd[2]>>} /\ UNCHANGED timers

(* The signal is read like any other event and the loop goes on.           *)
SignalGoesOn(fd) ==
    /\ IF fd = Signal THEN UNCHANGED <<timers, clients>> ELSE Serve(fd)
    /\ UNCHANGED <<pc, rc>>

(* The signal ends the loop.                                               *)
ServeOrStop(fd) ==
    IF fd = Signal
    THEN pc' = "clear" /\ rc' = "EXIT_SUCCESS" /\ UNCHANGED <<timers, clients>>
    ELSE Serve(fd) /\ UNCHANGED <<pc, rc>>

(* event_read_delegate: the first ready descriptor of the poll set is      *)
(* served.  A read from an unplugged device fails, which leaves it ready.  *)
Delegate ==
    /\ pc = "loop" /\ ~update_pollfds
    /\ LET hits == {i \in DOMAIN poll_fds : poll_fds[i] \in ready}
           fd == poll_fds[CHOOSE i \in hits : \A j \in hits : i <= j]
       IN  /\ hits # {}
           /\ ServeOrStop(fd)
           /\ ready' = ((IF fd[1] = "INPUT" /\ fd[2] \in gone THEN ready ELSE ready \ {fd})
                           \ ((timers \cup clients) \ (timers' \cup clients')))
    /\ update_pollfds' = (timers' # timers \/ clients' # clients)
    /\ UNCHANGED <<started, at, poll_fds, gone, events>>

(* poll or MHD_run fails: the daemon gives up.                             *)
PollFails ==
    /\ pc = "loop" /\ ~update_pollfds
    /\ Fail
    /\ UNCHANGED <<started, at, timers, clients, poll_fds, update_pollfds, ready, gone, events>>

-----------------------------------------------------------------------------
(* The end.                                                                *)

(* config_clear, then the queues; the server socket is left to the kernel. *)
ConfigClear ==
    /\ pc = "clear"
    /\ pc' = "exited"
    /\ requests' = {} /\ chip' = FALSE
    /\ timers' = {} /\ clients' = {}
    /\ opened' = opened \cap {Connection}
    /\ UNCHANGED <<at, inst, config, poll_fds, pfd_len_init, update_pollfds, ready, gone,
                   events, rc>>

(* The daemon is gone; nothing more happens.                               *)
Exited == pc \in {"exited", "crashed"} /\ UNCHANGED vars

-----------------------------------------------------------------------------
(* The outside world.                                                      *)

(* SIGTERM or SIGINT; the signals are blocked from config_new on.          *)
SigTerm ==
    /\ Signal \in opened /\ Signal \notin ready
    /\ ready' = ready \cup {Signal}
    /\ UNCHANGED <<started, pc, at, timers, clients, poll_fds, update_pollfds, gone, events, rc>>

(* An edge, an input event, an expired timer, a client, a request, a       *)
(* message of a script.                                                    *)
Event(fd) ==
    /\ events < EventsMax /\ fd \notin ready
    /\ ready' = ready \cup {fd}
    /\ events' = events + 1
    /\ UNCHANGED <<started, pc, at, timers, clients, poll_fds, update_pollfds, gone, rc>>

Unplug(fd) ==
    /\ fd[1] = "INPUT" /\ fd[2] \notin gone
    /\ gone' = gone \cup {fd[2]}
    /\ ready' = ready \cup {fd}
    /\ UNCHANGED <<started, pc, at, timers, clients, poll_fds, update_pollfds, events, rc>>

-----------------------------------------------------------------------------
Init ==
    /\ inst \in Installations
    /\ pc = "config" /\ at = 1 /\ rc = "EXIT_SUCCESS"
    /\ config = config_new
    /\ chip = FALSE /\ requests = {} /\ opened = {} /\ timers = {} /\ clients = {}
    /\ poll_fds = <<>> /\ pfd_len_init = 0 /\ update_pollfds = TRUE
    /\ ready = {} /\ gone = {} /\ events = 0

DaemonStep == StartUp \/ UpdatePollFds \/ Delegate \/ ConfigClear

Next ==
    \/ DaemonStep \/ PollFails \/ Exited
    \/ SigTerm
    \/ \E fd \in (opened \ {Signal}) \cup timers \cup clients : Event(fd)
    \/ \E fd \in opened : Unplug(fd)

Spec == Init /\ [][Next]_vars

(* The daemon runs on whenever it can.                                     *)
FairSpec == Spec /\ WF_vars(DaemonStep)

-----------------------------------------------------------------------------
(* Type correctness.                                                       *)
TypeOK ==
    /\ pc \in {"config", "chip", "outputs", "inputs", "devices", "timers", "signal", "lua",
               "socket", "httpd", "loop", "clear", "exited", "crashed"}
    /\ Len(poll_fds) <= MAX_FDS /\ pfd_len_init <= Len(poll_fds)
    /\ ready \subseteq opened \cup timers \cup clients \/ pc \in {"clear", "exited"}
    /\ update_pollfds \in BOOLEAN /\ events \in 0..EventsMax

Polled == {poll_fds[i] : i \in DOMAIN poll_fds}

(* A daemon that has entered its loop watches every descriptor it has      *)
(* opened, though most callers of event_poll_fd_add ignore that the set    *)
(* is full; only that of the web server may be missing.  The GPIO timers   *)
(* and the clients are watched too, up to their limits, as long as         *)
(* 2*inputs + outputs + devices + timer events + 3 <= 2*GPIOS_MAX: MAX_FDS *)
(* counts neither the web server nor signals, queue, devices and timers.   *)
PollSetComplete ==
    pc = "loop" =>
        /\ opened \ {Httpd} \subseteq Polled
        /\ 2 * Len(config.gpios_in) + Len(config.gpios_out) + Len(config.input_devices)
             + Len(config.timer_definitions) + 3 <= 2 * GPIOS_MAX =>
               /\ Httpd \in Polled
               /\ ~update_pollfds => timers \cup clients \subseteq Polled

(* The entries gpio_read_dir does not skip.                                *)
Readable(e) ==
    /\ e.regular /\ e.opens
    /\ mygpio_parse_uint(e.num, 0, 99) /\ e.ext \in {"in", "out"}

(* A line for key that is not refused, and what it sets.                   *)
Sets(l, key) == l.key = key /\ (key \in Numbers => NumberOk(key, l.val))
SetTo(l, key) == IF key \in Numbers THEN l.val ELSE ParseNamed(key, l.val)

(* data has the value of the last such line, or the default.               *)
SetBy(data, default, lines, key) ==
    \/ (\A k \in DOMAIN lines : ~Sets(lines[k], key)) /\ data[key] = default[key]
    \/ \E k \in DOMAIN lines :
          /\ Sets(lines[k], key) /\ \A j \in DOMAIN lines : Sets(lines[j], key) => j <= k
          /\ data[key] = SetTo(lines[k], key)

(* A node of one of the lists comes from the file e.                       *)
Default(dir) == IF dir = "in" THEN gpio_in_data_new ELSE gpio_out_data_new
ReadFrom(dir, node, e) ==
    /\ Readable(e) /\ e.ext = dir /\ e.num = node.id
    /\ \A key \in DOMAIN Default(dir) \ ActionLists :
          SetBy(node.data, Default(dir), KeyValues(e.file), key)

(* In the loop the lines of all GPIOs are held and every GPIO number       *)
(* belongs to one GPIO, although 5.in, 05.in and 5.out may all be there    *)
(* (list_node_by_id finds the first only); the settings of a GPIO are      *)
(* those of a file with its number, for each key the last line that is     *)
(* not refused; and a file that can be read has its GPIO, unless the       *)
(* daemon has no chip or GPIOS_MAX GPIOs.                                  *)
GpiosAsConfigured ==
    pc = "loop" =>
        /\ \A dir \in {"in", "out"} : \A i \in DOMAIN Gpios(dir) :
             /\ <<dir, i>> \in requests
             /\ \E e \in Range(inst.gpio_dir) : ReadFrom(dir, Gpios(dir)[i], e)
        /\ \A r, s \in requests : r # s => Gpios(r[1])[r[2]].id # Gpios(s[1])[s[2]].id
        /\ \A e \in Range(inst.gpio_dir) :
             \/ ~Readable(e) \/ config.chip = ""
             \/ Len(config.gpios_in) + Len(config.gpios_out) = GPIOS_MAX
             \/ \E i \in DOMAIN Gpios(e.ext) : Gpios(e.ext)[i].id = e.num

(* A signal ends the daemon, also one that comes while it starts, however  *)
(* many events are waiting before it in the poll set; but not when an      *)
(* input device has been unplugged: it stays ready, stands before the      *)
(* signal and is all that is served from then on.                          *)
StopsOnSignal == Signal \in ready ~> pc = "exited" \/ gone # {}

=============================================================================
