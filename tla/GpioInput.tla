----------------------------- MODULE GpioInput -----------------------------
(***************************************************************************)
(* One input GPIO: edge events, the actions they trigger and the long      *)
(* press timer (gpio/event.c, gpio/action.c, the input half of             *)
(* gpio/timer.c).  GPIOs share only the event loop, so one is enough.      *)
(*                                                                         *)
(* The line, the kernel's queue of edges and the clock take steps between  *)
(* those of the daemon: after poll has reported a descriptor, and between  *)
(* an edge's actions (which may run Lua scripts or talk to MPD) and the    *)
(* read of the line value that follows them.                               *)
(*                                                                         *)
(* Values and edges are logical ones, as libgpiod reports them for         *)
(* active_low lines too.  The configuration is chosen in the initial       *)
(* state.  Actions are left out except for the time they take.             *)
(***************************************************************************)
EXTENDS Naturals, Sequences, SequencesExt

CONSTANTS
    Requests,          \* the values of event_request to look at
    KernelQueueMax,    \* edges the kernel keeps; the oldest is dropped
    GPIO_EVENT_BUF_SIZE,
    Faults,            \* may reading the line or creating a timer fail?
    EdgesMax           \* bound: changes of the line

ASSUME RequestsAssumption == Requests \subseteq {"falling", "rising", "both"}
ASSUME SizesAssumption ==
    /\ KernelQueueMax \in Nat \ {0}
    /\ GPIO_EVENT_BUF_SIZE \in Nat \ {0}
    /\ Faults \in BOOLEAN
    /\ EdgesMax \in Nat

VARIABLES
    config,       \* event_request, long_press_event, is long_press_timeout_ms
                  \* and is long_press_interval_ms greater than 0
    line,         \* the value of the line
    queue,        \* edges in the kernel
    changes,      \* number of changes of the line so far
    dropped,      \* has the kernel dropped an edge?
    pc,           \* where the daemon is
    batch,        \* edges read and not yet handled
    timer,        \* timer_fd: -1, armed, or expired
    pressValue,   \* long_press_value
    ignoreEvent,  \* ignore_event
    lastEdge,     \* the edge handled last
    event         \* the event raised by the daemon's last step

env == <<line, queue, changes, dropped>>
vars == <<config, env, pc, batch, timer, pressValue, ignoreEvent, lastEdge, event>>

Edges == {"falling", "rising"}
Values == {"active", "inactive"}
Configs == [request : Requests, press : Edges, timeout : BOOLEAN, interval : BOOLEAN]

(* The edge that leads to a value.                                         *)
EdgeTo(value) == IF value = "active" THEN "rising" ELSE "falling"

(* "loop": before poll; "gpio", "timer": poll reported the GPIO, the timer *)
(* first; "batch": in the loop over the edges; "capture": a press edge and *)
(* its actions are done, the value not yet read.                           *)
DaemonStates == {"loop", "gpio", "timer", "batch", "capture"}

Init ==
    /\ config \in Configs
    /\ line \in Values
    /\ queue = <<>>
    /\ changes = 0
    /\ dropped = FALSE
    /\ pc = "loop"
    /\ batch = <<>>
    /\ timer = "off"
    /\ pressValue = "error"
    /\ ignoreEvent = FALSE
    /\ lastEdge = EdgeTo(line)
    /\ event = "none"

-----------------------------------------------------------------------------
(* The line, the kernel and the clock.                                     *)

Requested(value) == config.request \in {"both", EdgeTo(value)}
KernelQueueFull == Len(queue) = KernelQueueMax

(* The line changes; a requested edge is queued, dropping the oldest one   *)
(* if the queue is full.                                                   *)
Change ==
    /\ changes < EdgesMax
    /\ changes' = changes + 1
    /\ \E value \in Values \ {line} :
        /\ line' = value
        /\ queue' = IF Requested(value)
                    THEN Append(IF KernelQueueFull THEN Tail(queue) ELSE queue, EdgeTo(value))
                    ELSE queue
        /\ dropped' = (dropped \/ (Requested(value) /\ KernelQueueFull))
    /\ UNCHANGED <<config, pc, batch, timer, pressValue, ignoreEvent, lastEdge, event>>

TimerExpire ==
    /\ timer = "armed"
    /\ timer' = "expired"
    /\ UNCHANGED <<config, env, pc, batch, pressValue, ignoreEvent, lastEdge, event>>

(* gpio_get_value *)
Readings == IF Faults THEN {line, "error"} ELSE {line}

-----------------------------------------------------------------------------
(* poll and event_read_delegate: the GPIOs come before their timers.       *)
Poll ==
    /\ pc = "loop"
    /\ \/ queue # <<>> /\ pc' = "gpio"
       \/ queue = <<>> /\ timer = "expired" /\ pc' = "timer"
    /\ event' = "none"
    /\ UNCHANGED <<config, env, batch, timer, pressValue, ignoreEvent, lastEdge>>

BatchLength ==
    IF Len(queue) < GPIO_EVENT_BUF_SIZE THEN Len(queue) ELSE GPIO_EVENT_BUF_SIZE

(* gpio_handle_event: read what is there by now, at most a buffer full.    *)
(* The buffer holds an event for every index below the result.             *)
ReadEdges ==
    /\ pc = "gpio"
    /\ batch' = SubSeq(queue, 1, BatchLength)
    /\ queue' = SubSeq(queue, BatchLength + 1, Len(queue))
    /\ pc' = "batch"
    /\ UNCHANGED <<config, line, changes, dropped, timer, pressValue, ignoreEvent, lastEdge,
                   event>>

(* Reading the edges fails: they stay in the kernel, and poll reports the  *)
(* line again.                                                             *)
ReadEdgesFails ==
    /\ Faults
    /\ pc = "gpio"
    /\ pc' = "loop"
    /\ UNCHANGED <<config, env, batch, timer, pressValue, ignoreEvent, lastEdge, event>>

(* A timer that outlives the edge.                                         *)
DelayKept == UNCHANGED timer

(* gpio_action_delay_abort *)
DelayAbort == timer' = "off"

(* A mark that outlives the edge.                                          *)
ReleaseStillIgnored == UNCHANGED ignoreEvent

(* ignore_event is consumed by the edge.                                   *)
ReleaseIgnored == ignoreEvent' = FALSE

(* The body of its loop: gpio_action_delay_abort, gpio_action_handle up to *)
(* the long press part.                                                    *)
HandleEdge ==
    /\ pc = "batch"
    /\ batch # <<>>
    /\ lastEdge' = Head(batch)
    /\ batch' = Tail(batch)
    /\ DelayAbort
    /\ ReleaseIgnored
    /\ \/ ignoreEvent /\ event' = "long_press_release" /\ pc' = pc
       \/ /\ ~ignoreEvent
          /\ event' = Head(batch)
          /\ pc' = IF config.press = Head(batch) /\ config.timeout THEN "capture" ELSE pc
    /\ UNCHANGED <<config, env, pressValue>>

(* The long press part of gpio_action_handle, gpio_action_delay: the timer *)
(* has just been closed, so a new one is created.                          *)
Capture ==
    /\ pc = "capture"
    /\ pressValue' \in Readings
    /\ timer' \in IF Faults THEN {"armed", "off"} ELSE {"armed"}
    /\ pc' = "batch"
    /\ event' = "none"
    /\ UNCHANGED <<config, env, batch, ignoreEvent, lastEdge>>

EndOfBatch ==
    /\ pc = "batch"
    /\ batch = <<>>
    /\ pc' = "loop"
    /\ event' = "none"
    /\ UNCHANGED <<config, env, batch, timer, pressValue, ignoreEvent, lastEdge>>

IgnoreRelease == config.request = "both"

(* gpio_in_timer_handle_event, gpio_action_execute_delayed: the value is   *)
(* compared with long_press_value; the read of the timer re-arms it if     *)
(* there is an interval, otherwise it is closed.                           *)
LongPress ==
    /\ pc = "timer"
    /\ \E value \in Readings :
        \/ /\ value = pressValue
           /\ event' = "long_press"
           /\ ignoreEvent' = (ignoreEvent \/ IgnoreRelease)
           /\ \/ config.interval /\ timer' = "armed"
              \/ ~config.interval /\ DelayAbort
        \/ /\ value # pressValue
           /\ event' = "none"
           /\ DelayAbort
           /\ UNCHANGED ignoreEvent
    /\ pc' = "loop"
    /\ UNCHANGED <<config, env, batch, pressValue, lastEdge>>

-----------------------------------------------------------------------------
Daemon ==
    \/ Poll \/ ReadEdges \/ ReadEdgesFails \/ HandleEdge \/ Capture \/ EndOfBatch \/ LongPress

Next == Change \/ TimerExpire \/ Daemon

Spec == Init /\ [][Next]_vars

(* The loop runs, an armed timer expires, and reading the edges does not   *)
(* fail for ever; the button may be left alone.                            *)
Fairness == WF_vars(Daemon) /\ WF_vars(TimerExpire) /\ SF_vars(ReadEdges)

FairSpec == Spec /\ Fairness

-----------------------------------------------------------------------------
(* Properties.                                                             *)

TypeOK ==
    /\ config \in Configs
    /\ line \in Values
    /\ queue \in Seq(Edges)
    /\ Len(queue) <= KernelQueueMax
    /\ changes \in 0..EdgesMax
    /\ dropped \in BOOLEAN
    /\ pc \in DaemonStates
    /\ batch \in Seq(Edges)
    /\ Len(batch) <= GPIO_EVENT_BUF_SIZE
    /\ timer \in {"off", "armed", "expired"}
    /\ pressValue \in Values \cup {"error"}
    /\ ignoreEvent \in BOOLEAN
    /\ lastEdge \in Edges
    /\ event \in {"none", "long_press", "long_press_release"} \cup Edges

Pressed == EdgeTo(line) = config.press

(* A long press timer, or the intention to start one, exists only after a  *)
(* press edge that is still the last one handled, and so does the mark     *)
(* that the next edge ends a long press: no other edge leaves a timer      *)
(* behind, wherever in a batch it is.                                      *)
TimerBelongsToPress ==
    timer # "off" \/ pc = "capture" \/ ignoreEvent => lastEdge = config.press

(* With both edges requested, gpio_action_execute_delayed raises           *)
(* long_press only while the button is down, however late long_press_value *)
(* was read, whatever happened between poll and the handler, and even if   *)
(* the kernel dropped edges; unless neither of the two values compared     *)
(* could be read.                                                          *)
LongPressWhilePressed ==
    [][event # "long_press" /\ event' = "long_press" => Pressed \/ pressValue = "error"]_vars

(* The latest edge of those the daemon has handled, read or still to read. *)
LatestEdge ==
    IF queue # <<>> THEN queue[Len(queue)]
    ELSE IF batch # <<>> THEN batch[Len(batch)] ELSE lastEdge

(* It led to the present value of the line, even if older ones were lost.  *)
LineFollowsEdges == EdgeTo(line) = LatestEdge

(* long_press_value is the value of the pressed button, or was not read.   *)
PressValueOk == pressValue # "error" => EdgeTo(pressValue) = config.press

(* What LongPressWhilePressed rests on, for both edges: long_press_value   *)
(* is right unless an edge is waiting, and when poll has chosen the timer, *)
(* none was waiting.                                                       *)
PressInv ==
    /\ TimerBelongsToPress
    /\ LineFollowsEdges
    /\ timer # "off" /\ batch = <<>> /\ queue = <<>> => PressValueOk
    /\ pc = "timer" => timer # "off" /\ PressValueOk
    /\ batch # <<>> => pc \in {"batch", "capture"}

Phase ==
    IF lastEdge # config.press THEN "up" ELSE IF ignoreEvent THEN "long" ELSE "down"

B == INSTANCE Button WITH phase <- Phase, lossy <- dropped

(* The events of a GPIO whose both edges are requested come in the order   *)
(* of a button's life; the kernel's dropping an edge can only make a press *)
(* be taken for the end of a long press.                                   *)
ImplementsButton == B!Spec

(* With both edges requested: once the button stays released, its phase    *)
(* and its timer follow, so that a long press action that is repeated      *)
(* (long_press_interval) ends with the press.  The release edge closes the *)
(* timer even if the press value was read too late or not at all.          *)
ReleaseEndsPress == <>[](~Pressed) => <>[](Phase = "up" /\ timer = "off")

(* The repetition "as long the button is pressed" of the documented        *)
(* example (mygpiod-configuration.rst), which requests one edge only: once *)
(* the button stays released, no timer is left.  gpio_action_handle reads  *)
(* long_press_value after the edge's actions; if the button is up again by *)
(* then, gpio_action_execute_delayed finds the value unchanged for ever,   *)
(* and no edge ends it.                                                    *)
RepetitionStops == <>[](~Pressed) => <>[](timer = "off")

=============================================================================
