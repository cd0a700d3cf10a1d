---------------------------- MODULE SocketServer ----------------------------
(***************************************************************************)
(* The Unix socket server inside the single-threaded event loop            *)
(* (server_socket/*.c, lib/events.c, and of event_loop/event_loop.c and    *)
(* main.c what concerns client fds).                                       *)
(*                                                                         *)
(* One iteration of the loop is up to three steps: Poll rebuilds the poll  *)
(* set if update_pollfds is set and reports the first ready descriptor;    *)
(* MhdRun may serve HTTP requests, which can raise events; Delegate runs   *)
(* the handler for what poll reported, on the state as it is by then.      *)
(* The clients and the clock take steps in between.                        *)
(*                                                                         *)
(* Abstractions.  A line a client sends is its command: "cmd" stands for   *)
(* every command that only answers (an ERROR included), "set" for those    *)
(* that also raise an event (gpioset, gpiotoggle, gpioblink, hooks),       *)
(* "blank" for a line without arguments (empty, or with unbalanced quotes, *)
(* or only blanks), "mute" for the event command, which release builds do  *)
(* not answer.  "frag" is a chunk of BUFFER_SIZE bytes without a newline   *)
(* and is read on its own.  A response is the events it reports; OutChunks *)
(* writes are needed for it.  Events are numbered in the order in which    *)
(* they happen.                                                            *)
(***************************************************************************)
EXTENDS Naturals, Sequences, FiniteSets, SequencesExt

CONSTANTS
    Conns,                   \* connection slots (client fds)
    CLIENT_CONNECTIONS_MAX,
    WAITING_EVENTS_MAX,
    InputChunksMax,          \* BUFFER_SIZE_INPUT_MAX / BUFFER_SIZE
    OutChunks,               \* writes needed for a response
    SigpipeIgnored,          \* did the service manager set SIGPIPE to ignore?
    NetMax,                  \* bound: unread lines per connection
    LinesMax,                \* bound: lines sent by all clients
    EventsMax                \* bound: events raised

ASSUME ConnsAssumption == IsFiniteSet(Conns)
ASSUME LimitsAssumption ==
    /\ CLIENT_CONNECTIONS_MAX \in Nat
    /\ WAITING_EVENTS_MAX \in Nat \ {0}
    /\ InputChunksMax \in Nat \ {0}
    /\ OutChunks \in Nat \ {0}
    /\ SigpipeIgnored \in BOOLEAN
    /\ NetMax \in Nat
    /\ LinesMax \in Nat
    /\ EventsMax \in Nat

VARIABLES
    clients,   \* config->clients: the connections, oldest first
    data,      \* t_client_data of every slot
    update,    \* update_pollfds, as set by changes of the client list
    polled,    \* the client part of poll_fds as last rebuilt
    chosen,    \* what poll reported first: the handler to run, or NoFd
    running,   \* the daemon has not been killed by SIGPIPE
    eventCount,\* events raised so far
    backlog,   \* connections waiting to be accepted
    peer,      \* the other end of each connection
    net,       \* lines sent and not yet read
    told,      \* the last event each client has been told of completely
    lines      \* lines sent so far

server == <<clients, data, update, polled, chosen, running, eventCount>>
env == <<backlog, peer, net, told, lines>>
vars == <<server, env>>

Lines == {"cmd", "set", "blank", "mute", "idle", "noidle", "close", "frag"}
States == {"CLOSED", "READING", "IDLE", "WRITING"}
Events == 1..EventsMax

(* t_client_data.  timer: timeout_fd is -1, armed, or expired (readable).  *)
(* outLeft: writes still needed for the response in buf_out; outEvents:    *)
(* the events it reports.  dirty: a handler changed fd or events of this   *)
(* client and set update_pollfds.                                          *)
ClientData ==
    [state : States, events : {"POLLIN", "POLLOUT"}, bufIn : 0..(InputChunksMax - 1),
     outLeft : 0..OutChunks, outEvents : Seq(Events), waiting : Seq(Events),
     timer : {"off", "armed", "expired"}, dirty : BOOLEAN]

Closed ==
    [state |-> "CLOSED", events |-> "POLLIN", bufIn |-> 0, outLeft |-> 0,
     outEvents |-> <<>>, waiting |-> <<>>, timer |-> "off", dirty |-> FALSE]

(* What poll can report.  A client is reported for hangup or for I/O.      *)
NoFd == <<"none">>
Connect == <<"connect">>
Gpio == <<"gpio">>
Hangup(c) == <<"hangup", c>>
Io(c) == <<"io", c>>
Timeout(c) == <<"timeout", c>>
Fds == {NoFd, Connect, Gpio} \cup {Hangup(c) : c \in Conns} \cup {Io(c) : c \in Conns}
          \cup {Timeout(c) : c \in Conns}

Init ==
    /\ clients = <<>>
    /\ data = [c \in Conns |-> Closed]
    /\ update = TRUE
    /\ polled = [order |-> <<>>,
                 fds |-> [c \in Conns |-> [events |-> "POLLIN", timeout |-> FALSE]]]
    /\ chosen = NoFd
    /\ running = TRUE
    /\ eventCount = 0
    /\ backlog = <<>>
    /\ peer = [c \in Conns |-> "none"]
    /\ net = [c \in Conns |-> <<>>]
    /\ told = [c \in Conns |-> 0]
    /\ lines = 0

-----------------------------------------------------------------------------
(* Handlers on the data of one client.                                     *)

(* A response that is not announced to poll.                               *)
RespondUnpolled(d, evs) ==
    [d EXCEPT !.state = "WRITING", !.outLeft = OutChunks, !.outEvents = evs]

(* server_response_start, server_response_append, server_response_end *)
Respond(d, evs) ==
    [d EXCEPT !.state = "WRITING", !.events = "POLLOUT", !.dirty = TRUE,
              !.outLeft = OutChunks, !.outEvents = evs]

(* server_client_connection_set_timeout: re-arm, or create and arm *)
SetTimeout(d) == [d EXCEPT !.timer = "armed", !.dirty = @ \/ d.timer = "off"]

(* A timeout that is closed behind the back of poll.                       *)
RemoveTimeoutQuietly(d) == [d EXCEPT !.timer = "off"]

(* server_client_connection_remove_timeout *)
RemoveTimeout(d) == [d EXCEPT !.timer = "off", !.dirty = @ \/ d.timer # "off"]

SendIdleEvents(d) == Respond([d EXCEPT !.waiting = <<>>], d.waiting)

(* The waiting events are not looked at.                                   *)
HandleIdleOnly(d) == [RemoveTimeout(d) EXCEPT !.state = "IDLE"]

HandleIdle(d) ==
    IF d.waiting = <<>>
    THEN [RemoveTimeout(d) EXCEPT !.state = "IDLE"]
    ELSE SendIdleEvents(d)

HandleNoidle(d) ==
    IF d.waiting = <<>> THEN Respond(SetTimeout(d), <<>>)
                        ELSE SendIdleEvents(SetTimeout(d))

(* A full list that refuses the newest event.                              *)
EnqueueDropNewest(d, e) ==
    LET pushed == [d EXCEPT !.waiting = Append(@, e)] IN
    CASE d.state = "CLOSED" -> d
      [] d.state = "IDLE" -> SendIdleEvents(pushed)
      [] OTHER -> IF Len(d.waiting) = WAITING_EVENTS_MAX THEN d ELSE pushed

(* Events are sent without a look at the state of the connection.          *)
EnqueueAndSend(d, e) ==
    IF d.state = "CLOSED" THEN d ELSE SendIdleEvents([d EXCEPT !.waiting = Append(@, e)])

(* the body of the loop over the clients in event_enqueue_gpio and         *)
(* event_enqueue_input                                                     *)
Enqueue(d, e) ==
    LET pushed == [d EXCEPT !.waiting = Append(@, e)] IN
    CASE d.state = "CLOSED" -> d
      [] d.state = "IDLE" -> SendIdleEvents(pushed)
      [] OTHER -> IF Len(pushed.waiting) > WAITING_EVENTS_MAX
                  THEN [pushed EXCEPT !.waiting = Tail(@)]
                  ELSE pushed

(* server_client_connection_new and the greeting of ..._accept *)
NewClient == SetTimeout(Respond([Closed EXCEPT !.dirty = TRUE], <<>>))

-----------------------------------------------------------------------------
(* The poll set.                                                           *)

(* Only connects and disconnects rebuild the poll set.                     *)
UpdateForClientsOnly == update

UpdatePollfds == update \/ \E c \in Conns : data[c].dirty

(* event_add_client_fds *)
Fresh ==
    [order |-> clients,
     fds |-> [c \in Conns |-> [events |-> data[c].events,
                               timeout |-> data[c].timer # "off"]]]

(* May poll report, must poll report I/O on the fd of c?  Data is there to *)
(* read, or the client may have made room to write.                        *)
MustRead(p, c) == p.fds[c].events = "POLLIN" /\ net[c] # <<>>
MayIo(p, c) == p.fds[c].events = "POLLOUT" \/ MustRead(p, c)
Expired(p, c) == p.fds[c].timeout /\ data[c].timer = "expired"

(* No descriptor of a client before position i must be reported.           *)
NoneBefore(p, i) ==
    \A j \in 1..(i - 1) :
        LET c == p.order[j]
        IN peer[c] = "open" /\ ~MustRead(p, c) /\ ~Expired(p, c)

(* Timeouts before their connections in poll_fds.                          *)
TimeoutsFirst(p, c) ==
    IF peer[c] = "closed" THEN {Hangup(c)}
    ELSE {x \in {Io(c)} : MayIo(p, c)} \cup {x \in {Timeout(c)} : Expired(p, c)}

(* What poll can report first for client c: its connection comes before    *)
(* its timeout in poll_fds.                                                *)
ClientReports(p, c) ==
    IF peer[c] = "closed" THEN {Hangup(c)}
    ELSE {x \in {Io(c)} : MayIo(p, c)}
            \cup {x \in {Timeout(c)} : ~MustRead(p, c) /\ Expired(p, c)}

(* main: rebuild if needed, then poll.  GPIOs, timers, input devices and   *)
(* the listening socket come before the clients in poll_fds.               *)
Poll ==
    /\ running
    /\ chosen = NoFd
    /\ LET p == IF UpdatePollfds THEN Fresh ELSE polled IN
        /\ polled' = p
        /\ \/ eventCount < EventsMax /\ chosen' = Gpio
           \/ backlog # <<>> /\ chosen' = Connect
           \/ /\ backlog = <<>>
              /\ \E i \in DOMAIN p.order :
                    /\ NoneBefore(p, i)
                    /\ chosen' \in ClientReports(p, p.order[i])
    /\ update' = FALSE
    /\ data' = [c \in Conns |-> [data[c] EXCEPT !.dirty = FALSE]]
    /\ UNCHANGED <<clients, running, eventCount, env>>

-----------------------------------------------------------------------------
(* event_enqueue_gpio, event_enqueue_input: one more event for everyone.   *)
RaiseEvent(dat) == [c \in Conns |-> Enqueue(dat[c], eventCount + 1)]

(* MHD_run between poll and event_read_delegate: a REST call sets a GPIO.  *)
MhdRun ==
    /\ running
    /\ chosen # NoFd
    /\ eventCount < EventsMax
    /\ eventCount' = eventCount + 1
    /\ data' = RaiseEvent(data)
    /\ UNCHANGED <<clients, update, polled, chosen, running, env>>

(* A GPIO edge, a GPIO timer or an input device raises an event.           *)
DelegateGpio ==
    /\ running
    /\ chosen = Gpio
    /\ chosen' = NoFd
    /\ eventCount < EventsMax
    /\ eventCount' = eventCount + 1
    /\ data' = RaiseEvent(data)
    /\ UNCHANGED <<clients, update, polled, running, env>>

(* ... or has nothing to raise any more (the bound EventsMax is reached).  *)
DelegateNothing ==
    /\ running
    /\ chosen = Gpio
    /\ eventCount = EventsMax
    /\ chosen' = NoFd
    /\ UNCHANGED <<clients, data, update, polled, running, eventCount, env>>

(* One connection too many.                                                *)
OverFull == Len(clients) > CLIENT_CONNECTIONS_MAX

Full == Len(clients) = CLIENT_CONNECTIONS_MAX

(* server_client_connection_accept.  accept fails, for want of descriptors *)
(* for example: the connection waits on.                                   *)
AcceptFails ==
    /\ running
    /\ chosen = Connect
    /\ chosen' = NoFd
    /\ UNCHANGED <<clients, data, update, polled, running, eventCount, env>>

(* There is no place for the connection, or fcntl fails.                   *)
RefuseClient(c) ==
    /\ peer' = [peer EXCEPT ![c] = "none"]
    /\ net' = [net EXCEPT ![c] = <<>>]
    /\ UNCHANGED <<clients, data, update, told>>

AcceptClient(c) ==
    /\ ~Full
    /\ clients' = Append(clients, c)
    /\ data' = [data EXCEPT ![c] = NewClient]
    /\ update' = TRUE
    /\ told' = [told EXCEPT ![c] = eventCount]
    /\ UNCHANGED <<peer, net>>

DelegateConnect ==
    /\ running
    /\ chosen = Connect
    /\ backlog # <<>>
    /\ chosen' = NoFd
    /\ backlog' = Tail(backlog)
    /\ AcceptClient(Head(backlog)) \/ RefuseClient(Head(backlog))
    /\ UNCHANGED <<polled, running, eventCount, lines>>

(* server_client_disconnect, server_client_connection_clear: the node of   *)
(* the client is removed; the client sees the end of its connection and    *)
(* the slot is free again.                                                 *)
Disconnect(c) ==
    /\ \E i \in DOMAIN clients :
          /\ clients[i] = c
          /\ clients' = RemoveAt(clients, i)
    /\ data' = [data EXCEPT ![c] = Closed]
    /\ update' = TRUE
    /\ peer' = [peer EXCEPT ![c] = "none"]
    /\ net' = [net EXCEPT ![c] = <<>>]
    /\ told' = [told EXCEPT ![c] = 0]
    /\ UNCHANGED <<running, eventCount>>

(* Only the data of client c changes, and n unread lines are taken.        *)
Handled(c, d, n) ==
    /\ data' = [data EXCEPT ![c] = d]
    /\ net' = [net EXCEPT ![c] = SubSeq(@, n + 1, Len(@))]
    /\ UNCHANGED <<clients, update, running, eventCount, peer, told>>

(* What one read of n lines amounts to: sdssplitargs joins them to one     *)
(* argument list, so the first word is the command and the other lines are *)
(* its arguments; a command that takes arguments then has too many.  An    *)
(* empty line that ends a chunk read before is not empty.                  *)
Command(c, n) ==
    LET ended == IF data[c].bufIn > 0 /\ Head(net[c]) = "blank" THEN <<"cmd">> ELSE <<>>
        words == ended \o SelectSeq(SubSeq(net[c], 1, n), LAMBDA l : l # "blank")
    IN
    CASE words = <<>> -> "blank"
      [] Len(words) > 1 /\ Head(words) = "set" -> "cmd"
      [] OTHER -> Head(words)

(* server_protocol_handler; d is the client data after the timeout has     *)
(* been re-armed and the input buffer cleared.                             *)
Protocol(c, d, n) ==
    LET cmd == Command(c, n) IN
    \/ cmd = "blank" /\ Handled(c, d, n)
    \/ cmd \notin {"blank", "noidle"} /\ d.state = "IDLE" /\ Handled(c, Respond(d, <<>>), n)
    \/ cmd = "noidle" /\ Handled(c, HandleNoidle(d), n)
    \/ d.state # "IDLE" /\
       \/ cmd = "cmd" /\ Handled(c, Respond(d, <<>>), n)
       \/ cmd = "mute" /\ Handled(c, d, n)
       \/ cmd = "idle" /\ Handled(c, HandleIdle(d), n)
       \/ cmd = "close" /\ Disconnect(c)
       \/ cmd = "set" /\ eventCount = EventsMax /\ Handled(c, Respond(d, <<>>), n)
       \/ /\ cmd = "set" /\ eventCount < EventsMax
          /\ eventCount' = eventCount + 1
          /\ LET raised == RaiseEvent([data EXCEPT ![c] = d])
             IN data' = [raised EXCEPT ![c] = Respond(raised[c], <<>>)]
          /\ net' = [net EXCEPT ![c] = SubSeq(@, n + 1, Len(@))]
          /\ UNCHANGED <<clients, update, running, peer, told>>

(* Has a line without an end become longer than BUFFER_SIZE_INPUT_MAX?     *)
TooLong(n) == n >= InputChunksMax

(* The reading half of server_client_connection_handle.                    *)
Read(c) ==
    /\ data[c].state \in {"READING", "IDLE"}
    /\ net[c] # <<>>
    /\ \/ /\ Head(net[c]) = "frag"
          /\ IF TooLong(data[c].bufIn + 1)
             THEN Disconnect(c)
             ELSE Handled(c, [data[c] EXCEPT !.bufIn = @ + 1], 1)
       \/ \E n \in 1..Len(net[c]) :
             /\ \A i \in 1..n : net[c][i] # "frag"
             /\ Protocol(c, [SetTimeout(data[c]) EXCEPT !.bufIn = 0], n)

(* The writing half: part of the response, all of it, or an error.         *)
Write(c) ==
    /\ data[c].state = "WRITING"
    /\ \/ /\ peer[c] = "open" /\ data[c].outLeft > 1
          /\ Handled(c, [data[c] EXCEPT !.outLeft = @ - 1], 0)
       \/ /\ peer[c] = "open"
          /\ data' = [data EXCEPT ![c].state = "READING", ![c].events = "POLLIN",
                                  ![c].dirty = TRUE, ![c].outLeft = 0,
                                  ![c].outEvents = <<>>]
          /\ told' = [told EXCEPT ![c] = IF data[c].outEvents = <<>> THEN @
                                         ELSE Last(data[c].outEvents)]
          /\ UNCHANGED <<clients, update, running, eventCount, peer, net>>
       \/ /\ peer[c] = "closed" /\ SigpipeIgnored
          /\ Disconnect(c)
       \/ /\ peer[c] = "closed" /\ ~SigpipeIgnored
          /\ running' = FALSE
          /\ UNCHANGED <<clients, data, update, eventCount, peer, net, told>>

(* Nothing happens.                                                        *)
Ignore(c) == Handled(c, data[c], 0)

(* The POLLHUP part of server_client_connection_handle.                    *)
HandleHangup(c) == Disconnect(c)

(* server_client_timeout *)
ClientTimeout(c) == Disconnect(c)

(* event_read_delegate, server_client_connection_handle *)
DelegateClient(c) ==
    /\ running
    /\ chosen' = NoFd
    /\ \/ chosen = Hangup(c) /\ HandleHangup(c)
       \/ chosen = Io(c) /\ (Read(c) \/ Write(c))
       \/ chosen = Timeout(c) /\ ClientTimeout(c)
    /\ UNCHANGED <<polled, backlog, lines>>

-----------------------------------------------------------------------------
(* The environment: clients and the clock.                                 *)

ClientConnect(c) ==
    /\ peer[c] = "none"
    /\ peer' = [peer EXCEPT ![c] = "open"]
    /\ backlog' = Append(backlog, c)
    /\ UNCHANGED <<server, net, told, lines>>

ClientSend(c, l) ==
    /\ peer[c] = "open"
    /\ Len(net[c]) < NetMax
    /\ lines < LinesMax
    /\ net' = [net EXCEPT ![c] = Append(@, l)]
    /\ lines' = lines + 1
    /\ UNCHANGED <<server, backlog, peer, told>>

ClientClose(c) ==
    /\ peer[c] = "open"
    /\ peer' = [peer EXCEPT ![c] = "closed"]
    /\ UNCHANGED <<server, backlog, net, told, lines>>

TimerExpire(c) ==
    /\ data[c].timer = "armed"
    /\ data' = [data EXCEPT ![c].timer = "expired"]
    /\ UNCHANGED <<clients, update, polled, chosen, running, eventCount, env>>

-----------------------------------------------------------------------------
Delegate ==
    \/ DelegateGpio
    \/ DelegateNothing
    \/ DelegateConnect \/ AcceptFails
    \/ \E c \in Conns : DelegateClient(c)

Next ==
    \/ Poll
    \/ MhdRun
    \/ Delegate
    \/ \E c \in Conns :
          \/ ClientConnect(c)
          \/ \E l \in Lines : ClientSend(c, l)
          \/ ClientClose(c)
          \/ TimerExpire(c)

Spec == Init /\ [][Next]_vars

(* The loop keeps running.  Nothing is assumed of the clients or the clock.*)
FairSpec == Spec /\ WF_vars(Poll \/ Delegate)

-----------------------------------------------------------------------------
(* Properties.                                                             *)

TypeOK ==
    /\ clients \in Seq(Conns)
    /\ data \in [Conns -> ClientData]
    /\ update \in BOOLEAN
    /\ polled \in [order : Seq(Conns),
                   fds : [Conns -> [events : {"POLLIN", "POLLOUT"}, timeout : BOOLEAN]]]
    /\ chosen \in Fds
    /\ running \in BOOLEAN
    /\ eventCount \in 0..EventsMax
    /\ backlog \in Seq(Conns)
    /\ peer \in [Conns -> {"none", "open", "closed"}]
    /\ net \in [Conns -> Seq(Lines)]
    /\ told \in [Conns -> 0..EventsMax]
    /\ lines \in 0..LinesMax

(* The client list holds every open connection once, and never more than   *)
(* CLIENT_CONNECTIONS_MAX of them.                                         *)
ClientListOk ==
    /\ Len(clients) <= CLIENT_CONNECTIONS_MAX
    /\ \A i, j \in DOMAIN clients : clients[i] = clients[j] => i = j
    /\ \A c \in Conns : (\E i \in DOMAIN clients : clients[i] = c) <=> data[c].state # "CLOSED"

(* A response lies in buf_out exactly while its connection is in the       *)
(* WRITING state, and poll is asked for POLLOUT exactly then: no handler   *)
(* and no event starts a response while another one is being sent, and no  *)
(* connection waits for the wrong direction.                               *)
Disciplined(d) ==
    /\ d.state = "WRITING" <=> d.outLeft > 0
    /\ d.state = "WRITING" <=> d.events = "POLLOUT"
    /\ d.outEvents # <<>> => d.state = "WRITING"
ResponseDiscipline == \A c \in Conns : Disciplined(data[c])

(* A response that is being sent is never cut short or replaced, not even  *)
(* by an event raised between poll and the handler.                        *)
ResponseKept ==
    [][\A c \in Conns :
          data[c].outLeft > 0 /\ data'[c].outLeft > 0
            => /\ data'[c].outLeft <= data[c].outLeft
               /\ data'[c].outEvents = data[c].outEvents]_vars

(* A client in idle mode has no event waiting: "Events are sent as soon    *)
(* they occurs" (idle.c:27).                                               *)
IdleHasNoEvents == \A c \in Conns : data[c].state = "IDLE" => data[c].waiting = <<>>

Increasing(s) == \A i \in 1..(Len(s) - 1) : s[i] < s[i + 1]
LastOr(s, e) == IF s = <<>> THEN e ELSE Last(s)

(* Every client is told of every event once and in order ("myGPIOd stores  *)
(* only the last 10 events while not in idle mode", mygpiod-protocol.rst): *)
(* what it knows, what is being sent to it and what is waiting for it is   *)
(* the run of events up to now, with a gap only where WAITING_EVENTS_MAX   *)
(* newer ones follow.                                                      *)
EventStream ==
    \A c \in Conns : data[c].state # "CLOSED" =>
        LET sending == data[c].outEvents
            waiting == data[c].waiting
            known == LastOr(sending, told[c])
        IN /\ Increasing(<<told[c]>> \o sending \o waiting)
           /\ LastOr(waiting, known) = eventCount
           /\ Len(waiting) <= WAITING_EVENTS_MAX
           /\ sending # <<>> /\ Len(sending) < WAITING_EVENTS_MAX
                => Head(sending) = told[c] + 1
           /\ waiting # <<>> /\ Len(waiting) < WAITING_EVENTS_MAX
                => Head(waiting) = known + 1

(* Unless update_pollfds is set, the poll set is what a rebuild would      *)
(* produce: no handler changes a descriptor or its direction without       *)
(* setting the flag, so no client is forgotten or polled for a closed fd.  *)
PollSetCurrent == ~UpdatePollfds => polled = Fresh

(* What poll reported still exists when it is delegated, and a reported    *)
(* reader finds something to read: the handlers never block on the         *)
(* (blocking) sockets and never miss their client.                         *)
ReportStillValid ==
    \A c \in Conns :
        /\ chosen \in {Hangup(c), Io(c), Timeout(c)} => data[c].state # "CLOSED"
        /\ chosen = Io(c) /\ data[c].state # "WRITING" => net[c] # <<>>

(* A timeout never wins against a request that was already there when poll *)
(* looked: connections come before their timeouts in poll_fds.             *)
TimeoutYieldsToData ==
    [][\A c \in Conns :
          chosen # Timeout(c) /\ chosen' = Timeout(c)
            => data[c].state = "WRITING" \/ net[c] = <<>>]_vars

(* New connections come before clients in poll_fds and are accepted, or    *)
(* refused, one per iteration: clients that keep connecting, or one that   *)
(* accept cannot take for want of descriptors, starve those that are       *)
(* connected.                                                              *)
ConnectsCease == <>[](backlog = <<>>)

(* A connection whose timeout has expired does not stay, unless others     *)
(* keep connecting: it is closed, or a request re-arms the timeout, or the *)
(* daemon ends.                                                            *)
TimeoutServed ==
    ConnectsCease => \A c \in Conns :
        data[c].timer = "expired" ~> data[c].timer # "expired" \/ ~running

(* A client that hung up is disconnected, unless others keep connecting.   *)
HangupServed ==
    ConnectsCease => \A c \in Conns : peer[c] = "closed" ~> peer[c] # "closed" \/ ~running

=============================================================================
