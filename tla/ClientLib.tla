----------------------------- MODULE ClientLib ------------------------------
(***************************************************************************)
(* libmygpio and mygpioc talking to the daemon over the Unix socket: what  *)
(* the daemon answers (server_socket/*.c), what the library reads of it    *)
(* (libmygpio/src/*.c) and what a caller is told.                          *)
(*                                                                         *)
(* The caller is mygpioc, which sends one command and exits, or a session: *)
(* a program written as the library's documentation and example ask, which *)
(* ends every response, leaves the idle mode with noidle when no event has *)
(* come, clears errors that are not fatal and reconnects after fatal ones. *)
(*                                                                         *)
(* A response is a sequence of lines and is written in one piece (it is    *)
(* far smaller than a socket's buffer); one read of the daemon takes all   *)
(* the commands that have arrived and treats them as one line.  Commands   *)
(* are numbered; every line of a response carries the number of the        *)
(* command it answers, which the code does not see.  SIGPIPE is ignored.   *)
(***************************************************************************)
EXTENDS GpioEnums, Sequences, SequencesExt

CONSTANTS GPIOS_MAX, TIMEOUT_MS_MAX, WAITING_EVENTS_MAX,
          Settings,   \* the GPIOs the daemon may have, as sequences of records
          CmdLines,   \* the commands mygpioc is started with
          Commands,   \* the commands a session gives
          CmdsMax,    \* bound: commands sent
          EventsMax,  \* bound: events raised
          ConnsMax    \* bound: connections made

ASSUME LimitsAssumption ==
    /\ GPIOS_MAX \in Nat /\ TIMEOUT_MS_MAX \in Nat
    /\ WAITING_EVENTS_MAX \in Nat \ {0}
    /\ CmdsMax \in Nat /\ EventsMax \in Nat /\ ConnsMax \in Nat

(* t_gpio_in_data, t_gpio_out_data with the id of their list node, and     *)
(* what the chip tells.                                                    *)
GpioData ==
    [id : Nat, direction : {"IN", "OUT"}, value : DOMAIN lookup_gpio_value,
     active_low : BOOLEAN, bias : DOMAIN lookup_bias,
     event_request : DOMAIN lookup_event_request, is_debounced : BOOLEAN,
     debounce_period_us : Nat, event_clock : DOMAIN lookup_event_clock,
     drive : DOMAIN lookup_drive, name : STRING]

(* The daemon's GPIOs have different numbers: a line is requested once.    *)
(* A command has a name and arguments.                                     *)
ASSUME ShapesAssumption ==
    /\ \A gs \in Settings :
          gs \in Seq(GpioData) /\ \A i, j \in DOMAIN gs : gs[i].id = gs[j].id => i = j
    /\ \A c \in CmdLines \cup Commands : DOMAIN c = {"name", "args"}

(* Commands that set a line, commands that only read.                      *)
Setters == {"gpioset", "gpiotoggle", "gpioblink"}
Readers == {"gpiolist", "gpioinfo", "gpioget", "vcio"}

NoElem == [gpio |-> NaN]
NoCmd == [name |-> "none", args |-> <<>>]

VARIABLES
    gpios,     \* the daemon's GPIOs, inputs first
    srv,       \* the daemon's client data: state, waiting_events
    toServer,  \* commands on their way, each [no, cmd]
    toClient,  \* lines on their way, each [key, val, of]
    conn,      \* t_mygpio_connection: fd, state
    app,       \* the caller
    raised,    \* events raised so far
    effects,   \* what the daemon has done for each command, by its number (the
               \* greeting has number 0)
    seen       \* what the caller was told: last element, events, verdict

daemon == <<gpios, srv, raised, effects>>
vars == <<daemon, toServer, toClient, conn, app, seen>>

-----------------------------------------------------------------------------
(* Responses of the daemon.                                                *)

Line(key, val) == [key |-> key, val |-> val]
Ok(body) == <<Line("OK", "")>> \o body \o <<Line("END", "")>>
Error == <<Line("ERROR", "")>>
Done == Ok(<<>>)

Ids(gs) == {gs[i].id : i \in DOMAIN gs}
Gpio(gs, id) == gs[CHOOSE i \in DOMAIN gs : gs[i].id = id]
IsOutput(gs, id) == \E i \in DOMAIN gs : gs[i].id = id /\ gs[i].direction = "OUT"
SetValue(gs, id, v) ==
    [i \in DOMAIN gs |-> IF gs[i].id = id THEN [gs[i] EXCEPT !.value = v] ELSE gs[i]]

ListEntry(g) ==
    << Line("gpio", g.id),
       Line("direction", IF g.direction = "IN" THEN "in" ELSE "out"),
       Line("value", lookup_gpio_value[g.value]),
       Line("name", g.name) >>

handle_gpiolist(gs) == Ok(FlattenSeq([i \in DOMAIN gs |-> ListEntry(gs[i])]))

InfoIn(g) ==
    << Line("direction", "in"),
       Line("value", lookup_gpio_value[g.value]),
       Line("active_low", mygpio_bool_to_str(g.active_low)),
       Line("bias", lookup_bias[g.bias]),
       Line("event_request", lookup_event_request[g.event_request]),
       Line("is_debounced", mygpio_bool_to_str(g.is_debounced)),
       Line("debounce_period_us", g.debounce_period_us),
       Line("event_clock", lookup_event_clock[g.event_clock]),
       Line("name", g.name) >>

InfoOut(g) ==
    << Line("direction", "out"),
       Line("value", lookup_gpio_value[g.value]),
       Line("drive", lookup_drive[g.drive]),
       Line("name", g.name) >>

ValidGpio(args) == mygpio_parse_uint(args[1], 0, GPIOS_MAX)

(* ok: the line info is there.                                             *)
handle_gpioinfo(args, gs, ok) ==
    IF Len(args) # 1 \/ ~ValidGpio(args) \/ args[1] \notin Ids(gs)
    THEN Error
    ELSE LET g == Gpio(gs, args[1]) IN
         Ok(<<Line("gpio", g.id)>> \o
            (IF ~ok THEN <<>> ELSE IF g.direction = "IN" THEN InfoIn(g) ELSE InfoOut(g)))

handle_gpioget(args, gs) ==
    IF Len(args) # 1 \/ ~ValidGpio(args) \/ args[1] \notin Ids(gs)
    THEN Error
    ELSE LET v == Gpio(gs, args[1]).value IN
         IF v = "ERROR" THEN Error ELSE Ok(<<Line("value", lookup_gpio_value[v])>>)

(* Do the arguments of gpioset, gpiotoggle, gpioblink and hook pass the    *)
(* handler's checks?  A hook's name with a space in it is two arguments.   *)
handle_gpioset_valid(args) ==
    /\ Len(args) = 2
    /\ ValidGpio(args)
    /\ \E v \in DOMAIN lookup_gpio_value : lookup_gpio_value[v] = args[2]

handle_gpiotoggle_valid(args) == Len(args) = 1 /\ ValidGpio(args)

handle_gpioblink_valid(args) ==
    /\ Len(args) = 3
    /\ ValidGpio(args)
    /\ \A i \in {2, 3} : mygpio_parse_int(args[i], 0, TIMEOUT_MS_MAX)

handle_hook_valid(args) == Len(args) = 1

(* gpio_set_value, gpio_toggle_value, gpio_blink: does the line take a new *)
(* value?  libgpiod accepts no other than ACTIVE and INACTIVE.             *)
SetsLine(c, gs) ==
    CASE c.name = "gpioset" ->
            /\ handle_gpioset_valid(c.args) /\ IsOutput(gs, c.args[1])
            /\ parse_gpio_value(c.args[2]) # "ERROR"
      [] c.name = "gpiotoggle" -> handle_gpiotoggle_valid(c.args) /\ IsOutput(gs, c.args[1])
      [] c.name = "gpioblink" -> handle_gpioblink_valid(c.args) /\ IsOutput(gs, c.args[1])
      [] OTHER -> FALSE

NewValue(c, gs) ==
    IF c.name = "gpioset" THEN parse_gpio_value(c.args[2])
    ELSE IF Gpio(gs, c.args[1]).value = "INACTIVE" THEN "ACTIVE" ELSE "INACTIVE"

handle_raspberry_vcio(ok) == IF ok THEN Ok(<<Line("value", "mailbox")>>) ELSE Error

EventLines(e) ==
    << Line("event", mygpiod_event_name[e.type]), Line("timestamp_ms", e.no) >> \o
    IF e.type = "INPUT"
    THEN << Line("device", "device"), Line("type", "type"), Line("code", "code"),
            Line("value", "1") >>
    ELSE << Line("gpio", e.gpio) >>

(* send_idle_events: the body of the waiting events.                       *)
EventsBody(es) == FlattenSeq([i \in DOMAIN es |-> EventLines(es[i])])

Stamped(lines, no) ==
    [i \in DOMAIN lines |-> [key |-> lines[i].key, val |-> lines[i].val, of |-> no]]

-----------------------------------------------------------------------------
(* The daemon's steps.                                                     *)

Respond(lines, no) == toClient' = toClient \o Stamped(lines, no)

(* server_client_connection_accept: greets the client or, at the limit,    *)
(* closes the connection.                                                  *)
Accept ==
    /\ srv.state = "pending"
    /\ \/ /\ srv' = [srv EXCEPT !.state = "reading"]
          /\ Respond(Ok(<<Line("version", <<1, 2, 3>>)>>), 0)
       \/ /\ srv' = [srv EXCEPT !.state = "closed"]
          /\ UNCHANGED toClient
    /\ UNCHANGED <<gpios, raised, effects, toServer, conn, app, seen>>

(* handle_idle, handle_noidle.                                             *)
HandleIdle(no) ==
    IF srv.waiting = <<>>
    THEN srv' = [srv EXCEPT !.state = "idle", !.idle = no] /\ UNCHANGED toClient
    ELSE srv' = [srv EXCEPT !.waiting = <<>>] /\
         Respond(EventsBody(srv.waiting) \o <<Line("END", "")>>, no)

(* The waiting events stay in the list.                                    *)
NoidleKeepsEvents(no) ==
    /\ srv' = [srv EXCEPT !.state = "reading"]
    /\ Respond(Ok(EventsBody(srv.waiting)), no)

HandleNoidle(no) ==
    /\ srv' = [srv EXCEPT !.state = "reading", !.waiting = <<>>]
    /\ Respond(Ok(EventsBody(srv.waiting)), no)

(* The event lists after event e: an idle client is told at once, for the  *)
(* others the last WAITING_EVENTS_MAX events are kept.                     *)
NewEvent(type, gpio) == [no |-> Len(raised) + 1, type |-> type, gpio |-> gpio]

Kept(es) == IF Len(es) > WAITING_EVENTS_MAX THEN Tail(es) ELSE es

(* Effects are recorded where they happen: a line is set, a blink timer is *)
(* created, a hook's action is executed.                                   *)
Affect(no, made) == effects' = [effects EXCEPT ![no] = @ \cup made]

(* The timer of gpio_blink is not looked at.                               *)
TimerUnchecked(c, sets, blinks) == sets

(* What gpio_set_value, gpio_toggle_value and gpio_blink return.           *)
SetterResult(c, sets, blinks) == IF c.name = "gpioblink" THEN blinks ELSE sets

(* gpioset, gpiotoggle, gpioblink: the line's value and the event for all  *)
(* clients, this one too; then gpio_blink creates its timer.  fails: what  *)
(* fails.                                                                  *)
HandleSet(c, no, fails) ==
    LET sets == SetsLine(c, gpios) /\ fails # "line"
        blinks == c.name = "gpioblink" /\ sets /\ fails # "timer"
        v == NewValue(c, gpios)
        e == NewEvent(IF v = "ACTIVE" THEN "GPIO_RISING" ELSE "GPIO_FALLING", c.args[1]) IN
    /\ IF sets
       THEN /\ Len(raised) < EventsMax
            /\ gpios' = SetValue(gpios, c.args[1], v)
            /\ raised' = Append(raised, e)
            /\ srv' = [srv EXCEPT !.waiting = Kept(Append(@, e))]
       ELSE UNCHANGED <<gpios, raised, srv>>
    /\ Affect(no, (IF sets THEN {<<"line", c.args[1], v>>} ELSE {}) \cup
                  (IF blinks THEN {<<"timer", c.args[1], c.args[2], c.args[3]>>} ELSE {}))
    /\ Respond(IF SetterResult(c, sets, blinks) THEN Done ELSE Error, no)

(* hook: whether there is such a hook is open.  hook_action_handler does   *)
(* not look at the result of its action.                                   *)
HandleHook(c, no, fails) ==
    LET found == handle_hook_valid(c.args) /\ fails = "nothing" IN
    /\ Affect(no, IF found THEN {<<"hook">>} ELSE {})
    /\ Respond(IF found THEN Done ELSE Error, no)
    /\ UNCHANGED <<gpios, raised, srv>>

HandleRead(c, no, fails) ==
    /\ Respond(CASE c.name = "gpiolist" -> handle_gpiolist(gpios)
                 [] c.name = "gpioinfo" -> handle_gpioinfo(c.args, gpios, fails = "nothing")
                 [] c.name = "gpioget" -> handle_gpioget(c.args, gpios)
                 [] c.name = "vcio" -> handle_raspberry_vcio(fails = "nothing"), no)
    /\ UNCHANGED daemon

(* server_protocol_handler on what one read has brought: the first command *)
(* counts, whatever follows it in the same read is lost.                   *)
ServerCommand ==
    /\ srv.state \in {"reading", "idle"}
    /\ toServer # <<>>
    /\ LET c == toServer[1].cmd  no == toServer[1].no IN
       \/ /\ srv.state = "idle" /\ c.name # "noidle"
          /\ srv' = [srv EXCEPT !.state = "reading"]
          /\ Respond(Error, no)
          /\ UNCHANGED <<gpios, raised, effects>>
       \/ /\ srv.state # "idle" /\ c.name = "idle"
          /\ HandleIdle(no)
          /\ UNCHANGED <<gpios, raised, effects>>
       \/ /\ c.name = "noidle"
          /\ HandleNoidle(no)
          /\ UNCHANGED <<gpios, raised, effects>>
       \/ /\ srv.state # "idle"
          /\ \E fails \in {"nothing", "line", "timer"} :
               \/ c.name \in Setters /\ HandleSet(c, no, fails)
               \/ c.name = "hook" /\ HandleHook(c, no, fails)
               \/ c.name \in Readers /\ HandleRead(c, no, fails)
    /\ toServer' = <<>>
    /\ UNCHANGED <<conn, app, seen>>

(* event_enqueue_gpio, event_enqueue_input for this client.                *)
RaiseEvent(type, gpio) ==
    LET es == Append(srv.waiting, NewEvent(type, gpio)) IN
    /\ Len(raised) < EventsMax
    /\ raised' = Append(raised, NewEvent(type, gpio))
    /\ \/ /\ srv.state = "idle"
          /\ srv' = [srv EXCEPT !.state = "reading", !.waiting = <<>>]
          /\ Respond(EventsBody(es) \o <<Line("END", "")>>, srv.idle)
       \/ /\ srv.state = "reading"
          /\ srv' = [srv EXCEPT !.waiting = Kept(es)]
          /\ UNCHANGED toClient
    /\ UNCHANGED <<gpios, effects, toServer, conn, app, seen>>

(* The connection's timeout in the daemon; idle clients have none.         *)
ServerTimeout ==
    /\ srv.state = "reading"
    /\ srv' = [srv EXCEPT !.state = "closed"]
    /\ UNCHANGED <<gpios, raised, effects, toServer, toClient, conn, app, seen>>

-----------------------------------------------------------------------------
(* What the library makes of the lines it has received.                    *)

Enums == {"direction", "value", "bias", "event_request", "event_clock", "drive", "event"}

Decoded(key, val) ==
    CASE key = "direction" -> mygpio_gpio_parse_direction(val)
      [] key = "value" -> mygpio_gpio_parse_value(val)
      [] key = "bias" -> mygpio_gpio_parse_bias(val)
      [] key = "event_request" -> mygpio_gpio_parse_event_request(val)
      [] key = "event_clock" -> mygpio_gpio_parse_event_clock(val)
      [] key = "drive" -> mygpio_gpio_parse_drive(val)
      [] key = "event" -> mygpio_parse_event(val)
      [] key \in {"active_low", "is_debounced"} -> mygpio_parse_bool(val)
      [] OTHER -> val

(* Is a pair with this name the one that is asked for, and its value valid? *)
Accepted(l, key) ==
    /\ l.key = key
    /\ key = "gpio" => mygpio_parse_uint(l.val, 0, GPIOS_MAX)
    /\ key \in Enums => Decoded(key, l.val) # "UNKNOWN"

(* The pairs that mygpio_recv_gpio_list, mygpio_recv_gpio_info and         *)
(* mygpio_recv_idle_event ask for, one after the other; the later ones     *)
(* depend on what has been read.                                           *)
ListFields == <<"gpio", "direction", "value", "name">>

InfoFields(lines) ==
    <<"gpio", "direction", "value">> \o
    (IF Len(lines) > 1 /\ lines[2].key = "direction" /\ lines[2].val = "in"
     THEN <<"active_low", "bias", "event_request", "is_debounced",
            "debounce_period_us", "event_clock">>
     ELSE <<"drive">>) \o <<"name">>

EventFields(lines) ==
    <<"event", "timestamp_ms">> \o
    (IF Len(lines) > 0 /\ lines[1].key = "event" /\ mygpio_parse_event(lines[1].val) = "INPUT"
     THEN <<"device", "type", "code", "value">>
     ELSE <<"gpio">>)

Fields(name, lines) ==
    CASE name = "gpiolist" -> ListFields
      [] name = "gpioinfo" -> InfoFields(lines)
      [] name \in {"idle", "noidle"} -> EventFields(lines)
      [] OTHER -> <<"value">>

(* mygpio_recv_pair_name for each field until one fails: how many of the   *)
(* lines that are there are used up, and is there an element?  recv_pair   *)
(* does not wait; a line that does not fit, END among them, is used up.    *)
(* mygpio_vcio takes any value.                                            *)
Fits(name, l, key) == IF name = "vcio" THEN l.key = key ELSE Accepted(l, key)

Received(name, lines) ==
    LET fields == Fields(name, lines)
        bad == {i \in DOMAIN fields : i > Len(lines) \/ ~Fits(name, lines[i], fields[i])}
        first == CHOOSE i \in bad : \A j \in bad : i <= j
        used == IF bad = {} THEN Len(fields) ELSE IF first > Len(lines) THEN Len(lines) ELSE first
    IN  [ok |-> bad = {}, rest |-> SubSeq(lines, used + 1, Len(lines)),
         elem |-> IF bad # {} THEN NoElem ELSE
                  [f \in {fields[i] : i \in DOMAIN fields} |->
                     LET l == lines[CHOOSE i \in DOMAIN fields : fields[i] = f] IN
                     IF name = "vcio" THEN l.val ELSE Decoded(f, l.val)]]

(* mygpio_response_end: reads without waiting up to the next END.          *)
AfterEnd(lines) ==
    LET ends == {i \in DOMAIN lines : lines[i].key = "END"} IN
    IF ends = {} THEN <<>>
    ELSE SubSeq(lines, (CHOOSE i \in ends : \A j \in ends : i <= j) + 1, Len(lines))

HasEnd(lines) == \E i \in DOMAIN lines : lines[i].key = "END"

-----------------------------------------------------------------------------
(* mygpioc: the command table and what its handlers check before they call *)
(* the library.  The four commands for the mailbox are "vcio"; a hook is   *)
(* one argument, its args are the words of its name.                       *)

commands ==
    [idle |-> <<0, 1>>, gpioinfo |-> <<1, 1>>, gpiolist |-> <<0, 0>>,
     gpioget |-> <<1, 1>>, gpioset |-> <<2, 2>>, gpiotoggle |-> <<1, 1>>,
     gpioblink |-> <<3, 3>>, vcio |-> <<0, 0>>, hook |-> <<1, 1>>]

get_command(c) ==
    LET argc == IF c.name = "hook" THEN 1 ELSE Len(c.args) IN
    /\ c.name \in DOMAIN commands
    /\ commands[c.name][1] <= argc /\ argc <= commands[c.name][2]

idle_args(args) == args = <<>> \/ (args[1] # NaN /\ args[1] >= -1)
gpioinfo_args(args) == mygpio_parse_uint(args[1], 0, GPIOS_MAX)
gpioget_args(args) == mygpio_parse_uint(args[1], 0, GPIOS_MAX)
gpioset_args(args) ==
    /\ mygpio_parse_uint(args[1], 0, GPIOS_MAX)
    /\ mygpio_gpio_parse_value(args[2]) # "UNKNOWN"
gpiotoggle_args(args) == mygpio_parse_uint(args[1], 0, GPIOS_MAX)
gpioblink_args(args) ==
    /\ mygpio_parse_uint(args[1], 0, GPIOS_MAX)
    /\ \A i \in {2, 3} : mygpio_parse_int(args[i], 0, TIMEOUT_MS_MAX)

HandlerAccepts(c) ==
    CASE c.name = "idle" -> idle_args(c.args)
      [] c.name = "gpioinfo" -> gpioinfo_args(c.args)
      [] c.name = "gpioget" -> gpioget_args(c.args)
      [] c.name = "gpioset" -> gpioset_args(c.args)
      [] c.name = "gpiotoggle" -> gpiotoggle_args(c.args)
      [] c.name = "gpioblink" -> gpioblink_args(c.args)
      [] OTHER -> TRUE

-----------------------------------------------------------------------------
(* The caller's steps.                                                     *)

Session == app.prog = "session"
connection_check == conn.fd /\ conn.state = "OK"
Fail(state) == conn' = [conn EXCEPT !.state = state]

(* The call is over: a session goes on, mygpioc exits.                     *)
Return(ok) ==
    IF Session
    THEN [app EXCEPT !.pc = IF ok THEN "ready" ELSE "failed"]
    ELSE [app EXCEPT !.pc = "exit", !.rc = IF ok THEN "EXIT_SUCCESS" ELSE "EXIT_FAILURE"]

(* main of mygpioc: the command line is checked before the connection is   *)
(* made; mygpio_connection_new: connects.                                  *)
Connect ==
    /\ app.pc = "start" /\ app.conns < ConnsMax
    /\ \E c \in IF Session THEN {NoCmd} ELSE CmdLines :
         \/ /\ Session \/ get_command(c)
            /\ \/ /\ conn' = [fd |-> TRUE, state |-> "OK"]
                  /\ srv' = [state |-> "pending", waiting |-> <<>>, idle |-> 0]
                  /\ app' = [app EXCEPT !.pc = "handshake", !.cmd = c, !.conns = @ + 1]
               \/ /\ conn' = [fd |-> FALSE, state |-> "FATAL"]
                  /\ app' = [Return(FALSE) EXCEPT !.conns = @ + 1]
                  /\ UNCHANGED srv
         \/ /\ ~Session /\ ~get_command(c)
            /\ app' = Return(FALSE)
            /\ UNCHANGED <<conn, srv>>
    /\ toServer' = <<>> /\ toClient' = <<>>
    /\ UNCHANGED <<gpios, raised, effects, seen>>

(* libmygpio_recv_version, libmygpio_parse_version.                        *)
parse_version(l) == l.key = "version" /\ \A i \in 1..3 : mygpio_parse_uint(l.val[i], 0, 99)

(* mygpio_connection_new: reads the greeting, waiting for its first line   *)
(* at most timeout_ms.                                                     *)
Handshake ==
    /\ app.pc = "handshake"
    /\ \/ /\ toClient = <<>>
          /\ Fail("FATAL") /\ app' = Return(FALSE)
          /\ UNCHANGED toClient
       \/ /\ toClient # <<>>
          /\ IF toClient[1].key = "OK" /\ parse_version(toClient[2]) /\ HasEnd(toClient)
             THEN app' = [app EXCEPT !.pc = "ready"] /\ UNCHANGED conn
             ELSE app' = Return(FALSE) /\ Fail("FATAL")
          /\ toClient' = AfterEnd(toClient)
    /\ UNCHANGED <<daemon, toServer, seen>>

(* The line as the library words it: gpioset sends the number and the name *)
(* of the value.                                                           *)
Worded(c) ==
    IF c.name = "gpioset"
    THEN [name |-> c.name,
          args |-> <<c.args[1], mygpio_gpio_lookup_value[mygpio_gpio_parse_value(c.args[2])]>>]
    ELSE c

(* libmygpio_send_line; next is where the caller goes on.  Nobody looks at *)
(* the result of mygpio_send_idle.                                         *)
SendLine(c, next) ==
    /\ app.no < CmdsMax
    /\ IF connection_check /\ srv.state # "closed"
       THEN /\ toServer' = Append(toServer, [no |-> app.no + 1, cmd |-> Worded(c)])
            /\ app' = [app EXCEPT !.pc = next, !.cmd = c, !.no = @ + 1]
            /\ UNCHANGED conn
       ELSE /\ app' = IF c.name = "idle" THEN [app EXCEPT !.pc = next, !.cmd = c]
                      ELSE Return(FALSE)
            /\ Fail(IF connection_check THEN "FATAL" ELSE conn.state)
            /\ UNCHANGED toServer
    /\ UNCHANGED <<daemon, toClient>>

Nothing == [elem |-> NoElem, events |-> <<>>, no |-> 0, of |-> 0, cmd |-> NoCmd,
            verdict |-> "none"]
Told(verdict, of) == [seen EXCEPT !.no = app.no, !.of = of, !.cmd = app.cmd,
                              !.verdict = verdict]

(* A command is called: mygpio_gpioget checks the number, the handlers of  *)
(* mygpioc check everything.  mygpio_send_idle does not read a status.     *)
Call ==
    /\ app.pc = "ready"
    /\ \E c \in IF Session THEN Commands ELSE {app.cmd} :
         IF \/ ~Session /\ ~HandlerAccepts(c)
            \/ c.name = "gpioget" /\ ~gpioget_args(c.args)
         THEN /\ ~Session
              /\ app' = Return(FALSE)
              /\ UNCHANGED <<daemon, toServer, toClient, conn>>
         ELSE SendLine(c, IF c.name = "idle" THEN "idle" ELSE "sent")
    /\ UNCHANGED seen

(* libmygpio_recv_response_status after the command: no answer in time, or *)
(* the connection has ended.                                               *)
NoTimeout == FALSE

StatusTimeout ==
    /\ app.pc = "sent"
    /\ toClient = <<>>
    /\ Fail("FATAL")
    /\ app' = Return(FALSE)
    /\ seen' = Told("fatal", app.no)
    /\ UNCHANGED <<daemon, toServer, toClient>>

(* OK.  gpioset, gpiotoggle, gpioblink and hook go on to                   *)
(* mygpio_response_end by themselves.                                      *)
StatusOk ==
    /\ app.pc = "sent"
    /\ toClient # <<>> /\ toClient[1].key = "OK"
    /\ IF app.cmd.name \in Setters \cup {"hook"}
       THEN app' = Return(HasEnd(Tail(toClient))) /\ toClient' = AfterEnd(Tail(toClient))
       ELSE app' = [app EXCEPT !.pc = "body"] /\ toClient' = Tail(toClient)
    /\ seen' = Told("ok", toClient[1].of)
    /\ UNCHANGED <<daemon, toServer, conn>>

(* ERROR, or something that is no status at all.                           *)
StatusError ==
    /\ app.pc = "sent"
    /\ toClient # <<>> /\ toClient[1].key # "OK"
    /\ Fail("ERROR")
    /\ app' = [Return(FALSE) EXCEPT !.crossed = @ \/ app.cmd.name = "noidle"]
    /\ seen' = Told("error", toClient[1].of)
    /\ toClient' = Tail(toClient)
    /\ UNCHANGED <<daemon, toServer>>

Status == StatusTimeout \/ StatusOk \/ StatusError

(* mygpio_recv_gpio_list, mygpio_recv_gpio_info, mygpio_recv_idle_event,   *)
(* mygpio_gpioget, mygpio_vcio: one element; lists are read until NULL.    *)
Receive ==
    /\ app.pc = "body"
    /\ LET r == IF connection_check THEN Received(app.cmd.name, toClient)
                ELSE [ok |-> FALSE, rest |-> toClient, elem |-> NoElem]
           list == app.cmd.name \in {"gpiolist", "idle", "noidle"} IN
       /\ toClient' = r.rest
       /\ seen' = [seen EXCEPT !.elem = r.elem,
                      !.events = IF r.ok /\ app.cmd.name \in {"idle", "noidle"}
                                 THEN Append(@, r.elem) ELSE @]
       /\ app' = [app EXCEPT !.pc = IF list /\ r.ok THEN "body" ELSE "ending",
                             !.read = r.ok \/ list]
    /\ UNCHANGED <<daemon, toServer, conn>>

(* mygpio_response_end after the elements; mygpioc's exit code.  A session *)
(* need not look at the events that noidle brings.                         *)
ResponseEnd ==
    /\ \/ app.pc = "ending"
       \/ app.pc = "body" /\ app.cmd.name = "noidle"
    /\ toClient' = IF connection_check THEN AfterEnd(toClient) ELSE toClient
    /\ app' = IF Session THEN Return(TRUE) ELSE Return(app.read)
    /\ seen' = [seen EXCEPT !.elem = NoElem]
    /\ UNCHANGED <<daemon, toServer, conn>>

(* mygpio_wait_idle: something to read, the end of the connection included. *)
WaitIdle ==
    /\ app.pc = "idle"
    /\ toClient # <<>> \/ srv.state = "closed"
    /\ app' = [app EXCEPT !.pc = "body"]
    /\ UNCHANGED <<daemon, toServer, toClient, conn, seen>>

(* mygpio_wait_idle times out; the response is ended nevertheless.         *)
WaitIdleTimeout ==
    /\ app.pc = "idle"
    /\ toClient = <<>> /\ srv.state # "closed"
    /\ app' = IF Session THEN [app EXCEPT !.pc = "quiet"] ELSE Return(FALSE)
    /\ UNCHANGED <<daemon, toServer, toClient, conn, seen>>

QuietEnd ==
    /\ app.pc = "quiet"
    /\ toClient' = AfterEnd(toClient)
    /\ app' = [app EXCEPT !.pc = "leaving"]
    /\ UNCHANGED <<daemon, toServer, conn, seen>>

(* mygpio_send_noidle.                                                     *)
LeaveIdle ==
    /\ app.pc = "leaving"
    /\ SendLine([name |-> "noidle", args |-> <<>>], "sent")
    /\ UNCHANGED seen

(* A fatal error is cleared too.                                           *)
ClearFatal ==
    /\ app.pc = "failed" /\ conn.fd
    /\ conn' = [conn EXCEPT !.state = "OK"]
    /\ toClient' = AfterEnd(toClient)
    /\ app' = [app EXCEPT !.pc = "ready"]
    /\ UNCHANGED <<daemon, toServer, seen>>

(* mygpio_connection_clear_error, and the rest of the response is read.    *)
ClearError ==
    /\ app.pc = "failed" /\ conn.state # "FATAL"
    /\ conn' = [conn EXCEPT !.state = "OK"]
    /\ toClient' = AfterEnd(toClient)
    /\ app' = [app EXCEPT !.pc = "ready"]
    /\ UNCHANGED <<daemon, toServer, seen>>

(* mygpio_connection_free; the daemon sees the hangup.                     *)
Free ==
    /\ \/ app.pc \in {"ready", "failed"} /\ Session
       \/ app.pc = "exit" /\ conn.fd
    /\ conn' = [conn EXCEPT !.fd = FALSE]
    /\ srv' = [srv EXCEPT !.state = "none", !.waiting = <<>>]
    /\ toServer' = <<>> /\ toClient' = <<>>
    /\ app' = IF Session THEN [app EXCEPT !.pc = "start", !.crossed = FALSE] ELSE app
    /\ seen' = IF Session THEN Nothing ELSE seen
    /\ UNCHANGED <<gpios, raised, effects>>

-----------------------------------------------------------------------------
Init ==
    /\ gpios \in Settings
    /\ srv = [state |-> "none", waiting |-> <<>>, idle |-> 0]
    /\ toServer = <<>> /\ toClient = <<>>
    /\ conn = [fd |-> FALSE, state |-> "OK"]
    /\ \E prog \in {"mygpioc", "session"} :
          app = [prog |-> prog, pc |-> "start", cmd |-> NoCmd, no |-> 0,
                 conns |-> 0, rc |-> "none", read |-> FALSE, crossed |-> FALSE]
    /\ raised = <<>>
    /\ effects = [n \in 0..CmdsMax |-> {}]
    /\ seen = Nothing

ServerStep == Accept \/ ServerCommand
ClientStep ==
    \/ Connect \/ Handshake \/ Call \/ Status \/ Receive \/ ResponseEnd
    \/ WaitIdle \/ WaitIdleTimeout \/ QuietEnd \/ LeaveIdle \/ ClearError \/ Free

Next ==
    \/ ServerStep
    \/ \E g \in Ids(gpios) : RaiseEvent("GPIO_RISING", g)
    \/ RaiseEvent("INPUT", 0)
    \/ ServerTimeout
    \/ ClientStep

Spec == Init /\ [][Next]_vars

(* poll returns, at the latest when its timeout expires, and the daemon    *)
(* goes on serving.                                                        *)
FairSpec ==
    /\ Spec
    /\ WF_vars(Handshake) /\ WF_vars(Status) /\ WF_vars(Receive) /\ WF_vars(ResponseEnd)
    /\ WF_vars(QuietEnd) /\ WF_vars(LeaveIdle) /\ WF_vars(WaitIdle) /\ WF_vars(ServerStep)

-----------------------------------------------------------------------------
LineValues == {"ACTIVE", "INACTIVE"}

(* Type correctness: connection, caller and daemon states, and effects.    *)
TypeOK ==
    /\ srv.state \in {"none", "pending", "reading", "idle", "closed"}
    /\ conn \in [fd : BOOLEAN, state : {"OK", "ERROR", "FATAL"}]
    /\ app.pc \in {"start", "handshake", "ready", "sent", "body", "ending", "idle",
                   "quiet", "leaving", "failed", "exit"}
    /\ app.no \in 0..CmdsMax /\ app.conns \in 0..ConnsMax
    /\ DOMAIN effects = 0..CmdsMax
    /\ Len(srv.waiting) <= WAITING_EVENTS_MAX /\ Len(raised) <= EventsMax

(* A response that is read as the answer of a command is the answer of     *)
(* that command: a late answer, the rest of a list that was not read to    *)
(* its end or of one that could not be parsed is never taken for it.  The  *)
(* exception is a connection on which noidle has crossed an event.         *)
OwnAnswer ==
    ~app.crossed /\ seen.verdict \in {"ok", "error"} => seen.of = seen.no

(* What a caller asks for with a command: that the line has taken the      *)
(* value it named, another value, or another value and a timer with its    *)
(* times, or that the hook's action was executed; and nothing else.        *)
Fulfilled(c, made) ==
    \/ /\ c.name = "gpioset"
       /\ \E v \in LineValues :
             lookup_gpio_value[v] = c.args[2] /\ made = {<<"line", c.args[1], v>>}
    \/ /\ c.name = "gpiotoggle"
       /\ \E v \in LineValues : made = {<<"line", c.args[1], v>>}
    \/ /\ c.name = "gpioblink"
       /\ \E v \in LineValues :
             made = {<<"line", c.args[1], v>>, <<"timer", c.args[1], c.args[2], c.args[3]>>}
    \/ c.name = "hook" /\ made = {<<"hook">>}

(* What a failed command has done: nothing, except that gpioblink may have *)
(* toggled the line; it has started no timer.                              *)
Spared(c, made) ==
    \/ made = {}
    \/ c.name = "gpioblink" /\ \E v \in LineValues : made = {<<"line", c.args[1], v>>}

(* The result of gpioset, gpiotoggle, gpioblink and hook is true: success, *)
(* and exit code 0 of mygpioc, mean that the daemon has done exactly what  *)
(* the caller asked for, in the caller's words; an error means that it has *)
(* not, and all a command that failed can have left behind is a line       *)
(* toggled by gpioblink.                                                   *)
ResultTrue ==
    ~app.crossed /\ seen.cmd.name \in Setters \cup {"hook"} =>
        /\ seen.verdict = "ok" \/ app.rc = "EXIT_SUCCESS" =>
              Fulfilled(seen.cmd, effects[seen.no])
        /\ seen.verdict = "error" => Spared(seen.cmd, effects[seen.no])

(* A caller gets each event at most once, in the order they were raised.   *)
EventsOnce ==
    \A i, j \in DOMAIN seen.events :
        i < j => seen.events[i].timestamp_ms < seen.events[j].timestamp_ms

(* An element the library returns describes one GPIO or one event as the   *)
(* daemon knows it: pairs of two entries are never mixed, both sides mean  *)
(* the same by a name, and no event is told twice or out of order.         *)
ElementsFaithful ==
    LET e == seen.elem IN
    ~app.crossed =>
        /\ EventsOnce
        /\ e # NoElem /\ app.pc \in {"body", "ending"} =>
            CASE app.cmd.name \in {"gpiolist", "gpioinfo"} ->
                    \A f \in DOMAIN e \ {"gpio"} : e[f] = Gpio(gpios, e.gpio)[f]
              [] app.cmd.name = "gpioget" -> e.value = Gpio(gpios, app.cmd.args[1]).value
              [] app.cmd.name \in {"idle", "noidle"} ->
                    /\ e.event = raised[e.timestamp_ms].type
                    /\ e.gpio = raised[e.timestamp_ms].gpio
              [] OTHER -> TRUE

(* Every call returns, also when the daemon has lost the command (a noidle *)
(* that arrives together with the idle before it) or closed the connection. *)
CallReturns == app.pc = "sent" ~> app.pc # "sent"

(* mygpio_response_end empties the input: when the caller may send its     *)
(* next command nothing of an earlier response is left in the socket.      *)
InputEmptied == app.pc = "ready" /\ conn.state = "OK" => toClient = <<>>

=============================================================================
