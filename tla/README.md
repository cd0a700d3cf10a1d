# A TLA+ model of myGPIOd

myGPIOd is a daemon that watches GPIO lines, input devices and timers, executes
configured actions (system commands, Lua scripts, MPD and HTTP requests, setting GPIOs),
and serves clients over a Unix socket and over HTTP. This directory holds TLA+
specifications of the daemon, of its client library and of the command line client, the TLC
runs that check them, and TLAPS proofs of what
matters most. Paths are relative to the repository; `mygpiod/` is the daemon.

To repeat the checks: `tlc -config MCLuaAsync_queues.cfg MCLuaAsync` and so on for every
run in `PROJECT.json`; `tlapm LuaAsyncProofs.tla` and so on for every `*Proofs` module.

## 1. Inventory

### The process

The daemon is one event loop (`main.c`, `event_loop/event_loop.c`) and one detached
thread per running asynchronous Lua script. One iteration of the loop

1. rebuilds the variable part of the poll set if `update_pollfds` is set: the timers of
   input GPIOs, of output GPIOs, the clients and their timeouts, in this order;
2. calls `poll`, with the timeout libmicrohttpd asks for;
3. calls `MHD_run`, which serves HTTP requests, whatever poll has reported;
4. calls `event_read_delegate`, which runs the handler of the *first* ready descriptor
   only.

Three things make this hard to test. A handler acts on what poll reported before HTTP
requests have changed the state (step 3 comes between 2 and 4). Descriptors are numbers,
held in the configuration, copied into the poll set, closed and handed out again. And the
threads of asynchronous scripts share two message queues, a condition variable, an
eventfd and, by way of their Lua VMs, memory with the loop.

### Components

| component | state | operations | interacts with |
|---|---|---|---|
| asynchronous Lua (`actions/lua_async.c`, `lua/async/`, `event_loop/msg_queue.c`) | `main_queue`, `script_queue`, eventfd, one Lua VM per thread | start of a script, call into the daemon, handling of the call | event loop (eventfd); GPIOs, through the functions it calls |
| socket server (`server_socket/`, `lib/events.c`) | client list; per client buffers, protocol state, timeout, waiting events | accept, read and parse a command, write a response, timeout, hang-up, `idle`, `noidle`, queueing of events | event loop; GPIO modules call `event_enqueue_*` |
| event loop (`main.c`, `event_loop/`) | `poll_fds` with its limit `MAX_FDS`, `update_pollfds` | start, rebuild, poll, delegate, signal, shutdown | everything |
| input GPIOs (`gpio/event.c`, `gpio/action.c`, `gpio/timer.c`) | per GPIO a line request, `timer_fd`, `long_press_value`, `ignore_event` | a batch of edges, start, expiry and abort of the long press timer | kernel edge queue, actions, events |
| output GPIOs (`gpio/output.c`, `gpio/timer.c`) | line value, `timer_fd` | set, toggle, blink, expiry of the blink timer | called by socket, HTTP, actions and Lua; raise events |
| HTTP server (`server_http/`) | `http_suspended`, one `t_request_data` per request | REST API, hooks, web files, long poll | libmicrohttpd; resumed by events |
| timer events (`timer_ev/`, `config/timer_ev.c`) | per definition a timer descriptor, start time, interval, weekdays | parse, open, expiry | actions |
| input devices (`input_ev/`) | device descriptors, action lists, the last value per entry | match an event, execute, read the state | actions, events, Lua |
| actions (`actions/`, `hook/`) | MPD connection, Lua VM | dispatch to system, Lua, MPD, HTTP, GPIO | called by all event sources |
| configuration (`config/`) | everything above, before the loop starts | parse, clear | event loop |
| libmygpio, mygpioc | a connection with its error state, the bytes not yet read | requests, `idle`, `noidle` | socket server |
| Raspberry Pi mailbox, utilities, web UI | – | – | – |

### What is hard, and what makes each part correct

* *Asynchronous Lua.* The condition variable is signalled after the mutex is released,
  to any of the waiting scripts, and the wait is not repeated. Correct means: every call
  returns, requests are executed once and in order, the eventfd accounts for the queue
  (the handler uses the shifted message unchecked), and a Lua VM is not used by two
  threads.
* *Socket server.* Events are raised while a response is being written, while the client
  is reported readable, while the list of waiting events is full. Correct means: no
  response cuts another short, events arrive once and in order, with gaps only where
  the list overflowed, the poll set agrees with the clients, timeouts and hang-ups are
  served.
* *Input GPIOs.* Edges come in batches, may be dropped by the kernel, and the line may
  change between an edge, its actions, and the read of the value. Correct means: a
  long press is reported only while the button is down, its release event replaces
  the normal one, and a repetition ends.
* *Output GPIOs.* A timer descriptor may be closed, and its number reused, between poll and
  the handler. Correct means: a timer toggles only the GPIO that blinks with it.
* *HTTP server.* Suspended requests are kept by pointer; events come from GPIOs and from
  other requests inside `MHD_run`. Correct means: no request is resumed twice, forgotten or
  freed too early; each reports the first event; the shutdown leaves none suspended.
* *Timer events.* Integer widths, the boundary between "now" and "later". Correct means:
  the action runs once for each time due.
* *Start and loop.* One array of descriptors for everything, with a limit computed from some
  of them; files that name the same GPIO, misspelled settings; one descriptor served at a
  time. Correct means: whatever was opened is watched, the GPIOs are those of the files, and
  a signal ends the daemon.
* *Input devices and actions.* Entries overlap (any code, any value, equal codes of different
  types); actions block on MPD, whose connection may be gone. Correct means: the state a
  script reads is the last value, a broken connection costs one command, and the loop
  goes on.
* *Client library.* Responses carry no number, so a response that is not read to its end, or
  comes late, or crosses a `noidle`, may be taken for the next one. Correct means: the
  answer of a command is its own, success means that it was done, and a call returns.

`PROJECT.json` lists the hazards line by line, with the properties for each.

## 2. Modules

| module | models | composed with |
|---|---|---|
| `LuaAsync` | the two queues, eventfd, condition variable, script threads, `lua_async_handle_msg` | implements `RemoteCall` |
| `RemoteCall` | abstract: what a script gets from `lua_async_send_msg`, as counters | |
| `SocketServer` | the socket server with its part of the loop, `idle` and the event lists | |
| `GpioInput` | one input GPIO with line, kernel queue and long press timer | implements `Button` |
| `Button` | abstract: the order of the events of a button | |
| `GpioOutput` | output GPIOs, blink timers and their descriptors | |
| `HttpServer` | the HTTP server with its part of the loop and the shutdown | |
| `TimerEv` | one timer event, from the configuration line to the action | |
| `GpioEnums` | the names of settings and events, as the daemon and as the library spell them; number parsers | |
| `Config` | the configuration files, as functions from their lines to `t_config` | extends `GpioEnums` |
| `Daemon` | start, poll set, loop, signals and end of the daemon | extends `Config` |
| `Actions` | input devices, actions, the MPD connection and the functions offered to Lua | extends `Config` |
| `ClientLib` | libmygpio and mygpioc together with the daemon's answers | extends `GpioEnums`; the daemon's side is that of `SocketServer` for one client, with the contents of the responses |
| `MC*` | instances for TLC | |
| `*Proofs` | theorems | |

Each module has its own part of the event loop: the poll, `MHD_run` if it matters, and the
delegation. The parts meet in the loop only through which descriptor comes first, and in
`event_enqueue_*`, which every module represents by an event that may happen at the places
where the code raises one.

### LuaAsync

State: `mainQueue` and `scriptQueue` are the queues (a message is its thread id and the
number of its call), `eventFd` the semaphore counter, `pc` and `mainPc` where the threads
are. A critical section of a queue's mutex is one step; what the code does after the unlock is
another one. `SendRequest` is the push in `lua_async_send_msg`, `NotifyMain` its eventfd
write, `Sleep`, `ShiftResponse` and `WokenShift` are the three ways through
`mygpiod_queue_shift`, `ReadEventFd`, `ShiftRequest`, `PushResponse` and `SignalScript` are
`lua_async_handle_msg`. `SpuriousWakeup` is what POSIX allows.

### SocketServer

State: the client list, `t_client_data` per connection slot, `update_pollfds`, the client
part of `poll_fds` as last rebuilt, the descriptor chosen by poll. Every handler
(`Respond`, `HandleIdle`, `HandleNoidle`, `Enqueue`, `Read`, `Write`, ...) is a function
on the data of a client, as in the code. Lines are classified by what the server does with them (see
the module's header). A response is the events it reports, written in `OutChunks` steps.
`MhdRun` is an HTTP request that raises an event between poll and delegation. A connection is
accepted, refused because the list is full, or not accepted at all (`AcceptFails`): then it stays
in the backlog and is reported again.

### GpioInput

State: the line and the kernel's queue, the batch read, `timer_fd`, `long_press_value`,
`ignore_event`. `HandleEdge` is `gpio_action_handle` up to the point where the actions
have run, `Capture` the read of the line value that follows; the line may change between. With
`Faults`, reading the edges (`ReadEdgesFails`: they stay queued), reading the line
or creating a timer may fail. The configuration (edges
requested, press edge, timeout, interval) is part of the initial state.

### GpioOutput

State: line values, `timer_fd` per GPIO, the kernel's descriptors, the poll set. `ForeignOpen`
and `ForeignClose` are files that script threads open and close. `DelegateTimer`,
`DelegateOrphan` and `DelegateNothing` are the outcomes of `gpio_out_timer_handle_event`: the
descriptor belongs to a GPIO, to none, or has nothing to read any more. Specification and type
invariant are `OutSpec` and `OutTypeOK`: the names leave those of `GpioInput` free, so that one
module can prove about both.

### HttpServer

State: what MHD does with each connection, its `t_request_data` (`alive`, `buffer`), the
list `http_suspended`. libmicrohttpd is external and modelled by how it is used: the
handler is called once with the headers and once to answer, again after a resume, and
`http_connection_done` ends the request. `Poll` is woken by sockets, by other descriptors,
or by MHD's timeout, which is 0 while a resumed connection waits. `Stop` is `config_clear`.

### TimerEv

State: the configuration line, the definition, the timer, the time. `Parse` and `Reject`
are `parse_timer_ev`, `Open` is `timer_ev_open` with the two loops of `calc_starttime`
(`TakenBack`, `TakenForward`, recursive functions of the start time); multiplications by 1000
wrap around. `Tick` is the clock and the kernel's timer, `Handle`
is `timer_ev_handle_event`.

### Config and GpioEnums

No state. A file is a sequence of lines, a line a key and a value; `config_read`,
`gpio_read_dir` and the parsers below them fold the lines into the structures of the code,
with its defaults, its checks, what it only logs and what it refuses: `KeyValues` drops the lines
that are no pairs, `ReadLine` is one turn of the loop in `config_read`, recursion is by
recursive functions, so that `Actions` can be proved about. What `sds_getline`
does with a last line that is not terminated is part of it, and so is the crash on a value
with too few fields.

### Daemon

State: where `main` is (`pc`, `at`), the configuration read, chip and line requests, what is
open, the GPIO timers and clients, `poll_fds`, `pfd_len_init`, `update_pollfds`, what is
ready. A step of the start is one loop iteration or one call in `main`; each may fail.
`Dynamic` are the descriptors that GPIO timers and clients may have, in the order in which the
loop looks at them; a rebuild adds those that are open (`AddOpen`), as far as they fit.
A descriptor is named by its type in the poll set and a number. `Serve` says only how
the handlers change the set of descriptors; what else they do is in the other modules.
`Unplug` is a device that is removed: its reads fail and it stays ready.

### Actions

State: the input event that is being handled and the entry it has come to, the entries'
`state`, the actions still to do (`work`), the output GPIOs, the MPD connection, the
threads of HTTP requests and scripts. `HandleEntry` is one turn of the loop in
`input_ev_action_handle`, `Execute` one action or one Lua call; an `mpc` action takes three
steps, since MPD may go between the check, the command and the answer. A Lua function is
the sequence of the calls it makes. `EventsAssumption` says that events come from configured devices
with codes the kernel has. Histories (`last`, `arrived`, `broke`) serve the
properties only.

### ClientLib

State: the daemon's data for this client, commands and lines on their way, the
connection's state, the caller. A line carries the number of the command it answers,
which the code does not see. `effects` records for each command what happens where the
daemon sets a line, creates a timer or executes a hook, whatever is answered afterwards.
`GpioData` is what the daemon knows of a GPIO, `ShapesAssumption` that a number
belongs to one GPIO, which `GpiosAsConfigured` shows of the daemon. `ServerCommand` is the read, the parse and the handler of the
socket server; commands that arrive together are one. `Received` takes the pairs an element
consists of from the lines, as the `mygpio_recv_*` functions do, and stops where they stop.
The caller is `mygpioc`, or a session that follows the library's documentation: ends every response,
leaves the idle mode by `noidle`, clears errors that are not fatal, reconnects after fatal ones.

## 3. Runs

Passing runs:

| run | instance | shows |
|---|---|---|
| `MCLuaAsync_queues` | 2 threads, 3 calls each, spurious wake-ups | `EventFdCounts`, `NeverNull`: the eventfd accounts for the queue, so the unchecked message is never NULL. `InOrderOnce`: what is under way for a thread are its latest calls, consecutively and in order, so none is lost, doubled or overtaken. `SleepersAreOwedSignals`: for every sleeper there is a signal of its own still to come. `CallReturns`, `ImplementsRemoteCall` |
| `MCSocketServer_protocol` | 1 client, 4 lines, 5 events, room for 2 | `ResponseDiscipline`, `ResponseKept`: no response is begun while another is written. `EventStream`: what a client has been told, is being told and still has waiting are consecutive events, with a gap only after an overflow. `IdleHasNoEvents`: an idle client has no event waiting. `ReportStillValid`: after `MHD_run`, what poll reported can still be handled |
| `MCSocketServer_clients` | 3 clients, 2 places, hang-ups, timeouts, SIGPIPE | `ClientListOk`, `PollSetCurrent`; `TimeoutYieldsToData`: a timeout never discards a request that could be read; `TimeoutServed`, `HangupServed` |
| `MCGpio_gpios` | an input with both edges requested, 7 edges, queue of 3, batches of 2, faults; or 2 outputs, 2 descriptors, 4 calls, faults | `LongPressWhilePressed`, `ImplementsButton`; `ReleaseEndsPress`: once the button stays released, its phase and its timer follow. `OwnTimer`, `OnlyBlinkingToggles`, `BlinkGoesOn` |
| `MCHttpServer_poll` | 2 connections, 3 requests, 2 events | `SuspendedListOk`, `RequestDataOk`, `FirstEvent`, `NoPanic`, `ResumedIsServed` |
| `MCTimerEv_schedule` | a day of 5 s, 5-bit ints, intervals of 1 to 12 s, 4 days | `FirstExpiration`: `calc_starttime` against the definition of the times due, for a daemon that is not started in a second that is due. `NoneMissed`, `OneActionPerExpiration` |
| `MCDaemon_start` | 24 installations (duplicate, skipped and too many GPIO files, misspelled settings, refused lines, poll sets just large enough and not), `GPIOS_MAX` 3, `MAX_FDS` 9, 1 client, 3 events | `PollSetComplete`: what is opened is watched, and up to which size. `GpiosAsConfigured`: a GPIO that is listed is held, unique, and for every key has the value of the last line that is not refused in a file with its number; a file that can be read has its GPIO, unless there is no chip or `GPIOS_MAX` is reached. `StopsOnSignal`: a signal ends the daemon unless an unplugged device stands before it |
| `MCActions_events` | 2 devices, 6 entries, 10 hooks, 2 lists of GPIO actions, Lua functions and scripts with right and wrong calls, 2 events or triggers, 1 script thread | `InputStateTracks`: `inputEvGet` reads the last value, where the first entry for the code has its type and stands for all values. `OneLossPerBreak`: a command is lost only if MPD closed or failed since the last one. `EventsServed` |
| `MCClientLib_calls` | `mygpioc` with 19 command lines; a session of 8 kinds of command, 2 commands, 2 connections, 2 events, room for 1; GPIOs the library cannot read | `OwnAnswer`: late, unread and unparsable answers are never taken for the next one. `ResultTrue`: after a success the lines set, timers created and hooks executed are those the caller asked for, and after an error none, except for a line that `gpioblink` has toggled. `ElementsFaithful`: what is returned is what the daemon knows, each event once. `CallReturns` |

Runs that find a disagreement between code and documentation:

| run | disagreement |
|---|---|
| `MCLuaAsync_vm` | `lua_async_send_msg` "waits for the response", but a signal may wake another script, which returns at once; the main thread then executes its request on a VM that the script is using |
| `MCGpioInput_repeat` | a long press is repeated "as long the button is pressed", but in the documented example only the falling edge is requested: after a tap that is over before `long_press_value` is read, the value does not change any more, no edge comes, and the action is repeated for ever |
| `MCClientLib_crossing` | `mygpio_response_end` "empties the input buffer", but when an event crosses a `noidle`, two responses come and the second one stays; the next command takes it for its own |

### Bounds

Two script threads are the least that can be woken in each other's place; three calls let a
response be left behind by one call, be taken by the next and shift the one after. One
client suffices for the protocol, since handlers touch the data of one client; five events
with room for two overflow the list twice. Three clients for two places make one wait in
the backlog while others leave. `MCGpio_gpios` has GPIOs of one kind in each
behaviour, since inputs and outputs share nothing but the loop. Seven edges are three presses and a half; a queue of three
and batches of two overflow and split. Two GPIOs and two descriptors make every reuse
possible. In `HttpServer` the third request can be a second long poll on a connection, or
one that raises an event while two wait. In `TimerEv` the day does not divide by the
intervals, intervals from 8 s overflow in milliseconds, and four days see at least two
expirations of all others. In `Daemon`, `MAX_FDS` is small enough that one or two
descriptors more than it counts make the difference, and three events suffice to have something
ready on both sides of the signal. In `Actions`, two events let one action find the
connection another one has left, or an event come while an action runs. In `ClientLib`, two commands are what it
takes to mistake one answer for another, a second connection what it takes to carry
something over. Bounds are guards of the environment's actions (`LinesMax`,
`EventsMax`, `EdgesMax`, `OpsMax`, `RequestsMax`, `MaxCalls`, `NowMax`, `CmdsMax`, `ConnsMax`).

### Fairness

* Threads are scheduled (`LuaAsync`): weak fairness of every step of a running thread and of
  the main thread. None for spurious wake-ups.
* The loop runs: weak fairness of the daemon's steps. No fairness for clients, the line or
  `MHD_run`'s requests.
* Timers expire: weak fairness of the clock.
* `MCGpio_gpios`: strong fairness of reading edges. A read that fails leaves the edges queued, poll reports
  them again, and reads do not fail for ever.
* `MCDaemon_start`: weak fairness of the daemon's steps together, none for a particular
  descriptor: only the first ready one is served. Events are bounded; a device that stays ready
  for ever does starve the signal, which `StopsOnSignal` excepts.
* `MCActions_events`: weak fairness of the main thread. `mpd_response_finish` returns, since
  libmpdclient has a timeout of its own; the mutant without it violates `EventsServed`.
* `MCClientLib_calls`: weak fairness of the client's steps and of the daemon's. A step that waits has a
  timeout in the code (`timeout_ms`), so waiting for a status ends without an answer too.
* `MCSocketServer_clients`: `event_read_delegate` serves the first ready descriptor, and the
  listening socket comes before the clients. Clients that connect and leave without end, or one that
  `accept` cannot take for want of descriptors, starve the others, so
  `TimeoutServed` and `HangupServed` assume `ConnectsCease`. For the
  same reason the model has no endless stream of GPIO edges.
* `MCGpio_gpios`: blink timers come in the order of the list, so a fast one could
  keep a later one from being served; `LoopKeepsUp` assumes that the loop gets to each timer.
  `LineRecovers` assumes that setting a line does not fail for ever.

### Mutants

Every property of a passing run has a mutant in `PROJECT.json`: an operator next to the
one it replaces, with a plausible mistake (a read that does not consume, a swapped order, a
missing reset), under which TLC finds the property violated.

## 4. Proofs

All theorems are for every value of the constants, under the assumptions named in
the modules: finite sets of threads, connections and descriptors; sizes and bounds that are
natural numbers; a model of `TimerEv` that lasts at least a day (`BoundAssumption`); input events
that come from configured devices (`EventsAssumption`); directories and files that are sequences
(`InstallationsAssumption`); GPIOs with the settings the daemon knows and a number of their own, commands
with a name and arguments (`ShapesAssumption`). TLC evaluates the assumptions in the runs.

Every safety property that a run checks is a theorem. `TypeCorrect` in each module is the theorem that
`TypeOK` is an invariant; since a theorem says more than a run, no run repeats it.

Induction over data (lines of a file, a directory, a list of descriptors or events) is done everywhere in
the same way: among the positions for which a claim fails there would be a least one (`NatMin`), and
the one before it shows that the claim holds there too.

### LuaAsyncProofs

* `EventFdCorrect`: `Len(mainQueue)` is the counter plus
  the threads between push and eventfd write plus the message being shifted. This is
  inductive together with the types; the argument needs that the set of notifying
  threads is finite, and one step per way in which it changes. `NeverNullCorrect` follows: when
  the main thread shifts, the sum is positive.
* `SleepersCorrect`. The inductive invariant is `SignalInv`: there are at least as many requests in the main queue
  or in the main thread's hands as threads that sleep or would find no response if they came to the
  queue now (`SignalsOwed`), and each of the latter has a request of its own there
  (`RequestPending`). The second part is needed because a signal may be given while nobody sleeps:
  it must not be one that is owed to a thread that is about to sleep.
* `OrderCorrect`: `InOrderOnce` is inductive with the types once "consecutively" is part of it.
* `RefinesRemoteCall`: the initial states and the steps of `LuaAsync` are those of `RemoteCall` under the
  mapping of `ImplementsRemoteCall`. The mapping counts the entries of a thread in a queue, so the lemmas
  are about counting: what a concatenation, a removal and an append change, and that with
  `InOrderOnce` the count is the difference of two call numbers. The fairness of `RemoteCall` is
  not part of the theorem.

### SocketServerProofs

* Handlers are functions on the
  data of one client, so there is a lemma for each: it maps `Good` data to `Good` data
  (`ResponseCorrect`). Types and discipline are proved together, since neither is inductive
  without the other: whether a response is empty depends on the protocol state.
* `IdleCorrect`, `StreamCorrect`: `Sound` adds to `Good` that an idle client has no event waiting and that
  what was told, is being sent and is waiting form a `Stream`: increasing, up to the latest event, with
  a gap only in front of a full list. `Evolution` states once, for all actions but the disconnections,
  how the data of a client may change; the other results use it instead of
  the actions.
* `ResponseIsKept`: an action property, from `Evolution`.
* `ListCorrect`: `ClientListOk` needs `BacklogOk`: who waits in the backlog is not in the list, and
  nobody is there twice.
* `PollSetCorrect`, `ReportCorrect`, `TimeoutCorrect`: `PollInv` puts all of this together with
  `PollSetCurrent`; poll reports from a current set, and what `MHD_run` may change before the
  delegation never makes a reported reader, writer or timeout disappear.

### GpioProofs

* `LongPressCorrect`. The inductive invariant is
  `PressInv`: with both edges requested, the line has the value the latest edge led to
  (the kernel drops the oldest edges, never the latest); a timer, or the intention to
  start one, exists only after a press edge that is the last one handled; and
  `long_press_value` is the value of the pressed button unless an edge is waiting. When
  poll reports the timer, no edge is waiting, and the handler compares the value again.
* `ButtonCorrect`: `ImplementsButton`, step by step. It needs `PressInv` and that the edges handled,
  read and queued alternate unless the kernel has dropped one (`EdgesAlternate`).
* `OwnTimerCorrect` (a `timer_fd` is an open timer created for
  its GPIO: inductive by itself, as numbers are only handed out when closed) and
  `TogglesCorrect`, an action property that follows from it.

### HttpServerProofs

* `SuspendedListCorrect`, `RequestDataCorrect`, `FirstEventCorrect`,
  `NoPanicCorrect`. The inductive invariant `PollInv` adds that a suspended connection is
  a long poll since whose suspension no event has happened. One lemma, `RaiseKeeps`, covers
  the three places where events are raised.

### TimerEvProofs

* `CalcStarttimeIs`: the two loops of `calc_starttime` compute a remainder modulo the interval. The
  loops are recursive functions on the integers. What they return is shown by the least
  counterexample: among the start times for which the claim fails there would be one that
  is nearest to now, and one turn of the loop leads to a nearer one.
* `TypeCorrect` says among other things that no int holds more than its width, with the overflow
  of milliseconds as it happens. `TimerInv` adds that there are not more expirations than seconds.
* `FirstExpirationCorrect`: from `CalcStarttimeIs`, by arithmetic on the times due. Like the property it
  leaves out the daemon that is started in a second that is due (section 5).
* `NoneMissedCorrect`, `OneActionCorrect`: `Schedule` says of a timer whose interval fits that it is armed for the
  next time due, or was disarmed because it was opened in a second that is due; that an
  expiration not yet handled is newer than every execution; that every execution has a time due of its
  own; and that every time due was answered or is about to be.

### ActionsProofs

* `OneLossCorrect`: `MpcInv` says which connection states are possible without a break since the last
  `mpc` action.
* `TracksCorrect` is about every configuration file. It needs that `config_read` of any
  sequence of lines yields devices with entries whose state is 0 (`ConfigOk`, kept by every line), which is an
  induction over the file, done by the least line that fails. Then `InputInv`, `CurrentInv` and
  `TrackInv`: the event that is handled is the last of its kind, and an entry the event has passed
  has its value.
* `TypeCorrect`: `Counted` (an event is queued, handled or told at most once), `WorkInv` and
  `BlinkInv` (only output GPIOs blink), through every kind of action and every Lua function. `TypeOK`
  covers every variable, in five parts. Of `work` it says only that there is some while the
  main thread waits for MPD and none at the loop: what it holds comes from the configuration and from scripts.
  That scripts and compiled code agree (`ProcsOK`) needs that only what was compiled is started.

### DaemonProofs

* `GpiosCorrect`: a claim about every directory with any files. The loops over lines and directory entries are folds, so the first part
  says what a fold of one of the `Step`s yields: an operator cannot be a parameter of a lemma here, hence `Step` names
  each of those that are folded, and `Runs` gives the partial results of a fold as a sequence. With it: for every key
  the last line that is not refused wins; an entry is skipped, refused, or becomes the last node of a list
  (`DirOk`, along the directory). Then `FilesOk` keeps this through the start, and `LinesOk` that lines
  are requested in the order of the lists, none twice.
* `PollSetCorrect`: callers of `event_poll_fd_add` ignore that the set is full, so completeness is a matter of
  counting. `CountOk` bounds the set at each place in `main`; `PollOk` says that until the signal descriptor is added,
  nothing is missing or the set is full, and the start ends if it is full then (`event_poll_fd_add` for signals is checked, as are
  the queue and the socket). Only the web server's descriptor is neither counted nor checked. In
  the loop, the rebuild adds to the static part at most as many descriptors as there are GPIOs and twice as many as
  clients; the arithmetic of `MAX_FDS` does the rest.
* `TypeCorrect` adds `ReadyOk`: what is ready is open.
* An attempt to prove an earlier form of `GpiosAsConfigured`, that a GPIO has the settings of *every* file with its number,
  failed for a good reason: with `GPIOS_MAX` reached, `5.in` is read and `05.in` no longer, and nothing refuses
  the daemon's start. The property now says what the code does, and `MCDaemon` has that installation.

### ClientLibProofs

* `AnswerCorrect`, `ResultCorrect`, `EmptiedUnlessCrossed`, `TypeCorrect`. First the responses: each
  that the daemon can give is a sequence with no END but its last line (`Response`), whatever GPIOs and
  events it lists, since `FlattenSeq` of such bodies is one (again by the least
  counterexample). So `mygpio_response_end` empties an input that holds one response, and what
  any reader leaves of one response is the rest of one response. Then `DaemonStep` says all that
  the caller needs to know about a step of the daemon: it may close, greet, announce events, go idle,
  serve the command that is first, or leave everything as it is.
* The inductive invariant says for each place in the caller what is on its way (`Phase`): after a
  command was sent it is under way, answered, or the connection is dead; in `noidle`, the idle
  before it may be under way, in force, or answered by events. `NumberInv` (only commands that
  were sent have effects) and `TellInv` (the command the caller was told of was
  sent before those under way, and its effects are what its answer says) make it inductive for the results;
  `WordedHonest` adds that the library words a value so that the daemon reads the one the caller
  named. `ProgramInv` connects them to `mygpioc`'s exit code.
* `Phase` holds unless `noidle` has crossed an event. `EmptiedUnlessCrossed` therefore shows that what
  `MCClientLib_crossing` finds is the only way in which something of an earlier response is left.
* `ElementsCorrect` compares what one side formats with what the other parses. Its inductive invariant `FaithInv`, which TLC has
  checked on the instance of `MCClientLib_calls` too, has four parts. `GpiosOk`: settings keep their types and numbers stay
  unique when a command sets a value. `EventInv`: there are numbers x and y such that the caller was told of events up to x,
  those in lines under way lie between x and y, in order, and later ones wait. This holds
  even when `noidle` has crossed an event. `ListInv`: between a `gpio` line and the next line that
  begins something else (`Bounds`), every line under way describes that GPIO; it needs `Phase`, by which the
  daemon does nothing but raise events while a response is read, so that no GPIO changes between the
  formatting and the element. `ElemInv`: the element that was returned is true. A field may be formatted as a name that the
  library does not have (`Describes`): then parsing fails and no element is returned, which is why the element is right and
  the list may be short.

### Only model-checked

Liveness (`CallReturns` in both modules, `TimeoutServed`, `HangupServed`,
`ReleaseEndsPress`, `BlinkGoesOn`, `ResumedIsServed`, `StopsOnSignal`, `EventsServed`) and the fairness
of `RemoteCall`, which are out of the prover's reach.

## 5. Observations without a run

Met while reading and modelling; kept here for whoever works on the code.

* A condition signal that is sent after its response was taken ends the next wait of the
  same thread: that call returns nothing, and the one after gets its result (`msg_queue.c:137`).
  `RemoteCall` therefore says "the oldest result not yet taken", not "its own".
* Idle events leave the idle mode without arming the timeout again (`idle.c:65`). The model has
  this, and no property says that a client always has a timeout.
* `idle` and `noidle` that arrive in one read are one command line (`socket.c:160`).
* `gpioblink` with timeout 0 toggles once and never again: an `it_value` of 0 disarms a timer. The
  same happens to a timer event if the daemon is started in a second that is due, and always if its
  interval is one second: its action is never executed, though the documentation calls it recurring
  (`docs/mygpiod-configuration.rst:110`). `FirstExpiration`, `NoneMissed` and `BlinkGoesOn` leave these cases out.
* The interval of a timer event is checked for overflow in seconds, then multiplied by
  1000 (`timer_ev.c:54`): over 24 days it overflows; the timer does not repeat, fires
  at another time, or cannot be set, and the daemon does not start.
* A REST call may close a blink timer that poll has reported, and a script thread may open a
  file with its number before the handler reads 8 bytes from it (`gpio/timer.c:56`).
* If reading the line fails at the press and again when the timer expires, error equals
  error and a long press is reported (`gpio/action.c`); `LongPressWhilePressed` excepts it.
* `hook_handler` answers 500 also when the hook was found (`server_http/hook.c:35`).
* Events between two long polls of a client are not delivered to it.
* `parse_weekdays` counts Sunday as 0, `timer_ev_action_handle` Monday.
* SIGTERM frees the queues while script threads may use them (`main.c:256`).
* `MAX_FDS` leaves out some descriptors; what does not fit is not polled (`event_loop.c:82`).
* `set_wait_time` counts overflowing nanoseconds twice; no caller uses it (`msg_queue.c:307`).
* Children of the system action are not waited for, and inherit the blocked SIGTERM.

The model contains these too; each contradicts a comment or a document:

* An empty line sent in idle mode arms the timeout that `idle` "disables" (`socket.c:164`;
  `docs/mygpiod-protocol.rst:51`).
* With one edge requested, `long_press_value` may be read after the release, and a short tap
  counts as a long press (`gpio/action.c:70`; the comment at 93); `MCGpioInput_repeat` shows what
  follows when it is repeated.
* A second `gpioblink` overwrites the descriptor of the first timer, which stays open and armed
  after `gpioset` (`gpio/output.c:145`; the comment at 128).
* A list of weekdays is rejected and the daemon does not start: the labels of the switch are
  numbers, not characters (`config/timer_ev.c:190`; `docs/mygpiod-configuration.rst:129`).
* libmygpio reads `gpio_input` where the daemon sends `input` (`libmygpio/src/idle.c:38`,
  `lib/events.c:138`): an input event and all events after it in the response are lost.
* `mympd` is not registered for asynchronous scripts, `http` twice (`docs/lua-async-scripts.rst:41`).
* `parse_loglevel` returns 0 for an unknown name; its comment speaks of the default.

Client side:

* A GPIO whose value is `error`, whose bias is `unknown`, whose event request is `none` or whose number is over the
  library's limit ends a `gpiolist`, or makes `gpioinfo` fail.
* `gpioblink` whose timer fails has toggled the line when it reports an error.
* `mygpioc idle` exits with success when the daemon closes the connection.
* `recv_line` with nothing read writes before its buffer; the library writes without
  `MSG_NOSIGNAL` and in two writes per line.
* `timerevlist` and input events have no function in the library.

Configuration and start:

* `GPIOS_MAX` is looked at only after a file was skipped (`config/gpio.c:82`).
* The last line of a file without a newline is dropped, lines over 1024 bytes are split, and a
  value with too few fields is dereferenced as NULL (`lib/sds_extras.c:146`).
* A misspelled `event_request` disables events; a misspelled `value` keeps the daemon from
  starting; `lua_file` given twice is concatenated.
* `gpio_fd` is closed twice (`config/gpio.c:270`, then by libgpiod), as is a timer that
  could not be set (`lib/timer.c:66`).

Actions and Lua:

* The `mpc` action is a success although the command was lost or refused (`actions/mpc.c:64`).
* `lua_mpc_async` writes a second read over the first, compares bytes that were not written with
  `OK`, and takes a plain `OK` for a failure (`lua/async/functions/mpc.c:82`).
* An empty command for MPD, or an HTTP body without a content type, ends the daemon when it
  comes from an asynchronous script; from the synchronous VM the body is silently dropped.
* `lua_call` is not protected (`actions/lua_sync.c:47`); `script_run` keeps the result of
  `lua_pcall` in a bool, so that every error is unknown.
* `gpioGet` reports success with the value `error`; GPIO numbers from Lua are not limited.
* `inputEvGet` ignores the type of an entry, an entry for one value keeps that value for ever, and
  one for all codes is never read.

## 6. Not modelled

* What external processes, MPD, HTTP servers and the Raspberry Pi mailbox answer: every result
  the code tells apart is possible.
* Formatting, JSON, logging, memory; lines longer than a buffer; `main`'s options and
  `mygpioc`'s output; the web UI, which runs in a browser.
* The pointers of `lib/list.c` and `msg_queue.c`: lists and queues are sequences.
* `mygpiod_queue_expire_age` and a `mygpiod_queue_shift` with a positive timeout: nothing calls
  them.
* Memory that is freed at the end while script threads still run (`main.c:256`): a use after
  free has no outcomes that could be enumerated.
* A timeout timer that cannot be created when a client is accepted (`server_socket/socket.c:115`): the
  client stays without one, and no property says that it has one.
* Time, except in `TimerEv`: a timer expires some time after it was armed.

Each module has its own part of the loop. One composition of all of them would repeat what
`Daemon` says of the descriptors and what the others say of their handlers, in more states
than TLC can visit.

## 7. Plan

The parts where threads and descriptors meet came first (`LuaAsync`, `SocketServer`,
`GpioInput`, `GpioOutput`), then `HttpServer` and `TimerEv`, then what surrounds them: `Config`,
`Daemon`, `Actions`, `ClientLib`. Their safety properties are proved. What could follow:

1. descriptors with their numbers in `Daemon`, as in `GpioOutput`, to see which closed number
   another component may be given;
2. the two queues with the functions that asynchronous scripts call (`Actions` has them without the
   queues), to see what of a request's effect a script may observe before it has its result;
3. memory that is freed while threads run, if the shutdown is ever changed to wait for them.
