----------------------------- MODULE GpioOutput -----------------------------
(***************************************************************************)
(* Output GPIOs and their blink timers (gpio/output.c, the output half of  *)
(* gpio/timer.c, lib/timer.c, close_fd and the poll set of                 *)
(* event_loop/event_loop.c).                                               *)
(*                                                                         *)
(* The timers are file descriptors, and descriptors are numbers that the   *)
(* kernel hands out again: to another blink timer, or to the threads of    *)
(* asynchronous Lua scripts, which open files of their own at any time.    *)
(* Set, Toggle and Blink are called by client commands, actions and Lua    *)
(* scripts, and by the REST API while a report of poll is still to be      *)
(* delegated, so they may happen before and after PollTimers.              *)
(*                                                                         *)
(* No name is used in GpioInput too: theorems about both halves of a GPIO  *)
(* stand side by side in GpioProofs.                                       *)
(***************************************************************************)
EXTENDS Naturals, FiniteSets

CONSTANTS
    GpiosMax,   \* the output GPIOs are 1..GpiosMax, in the order of the list
    Fds,        \* the descriptors that are free at the start
    Timeouts,   \* values of timeout_ms to look at, 0 or 1
    OutFaults,  \* may setting a line fail?
    OpsMax      \* bound: number of set, toggle and blink calls

ASSUME OutputAssumption ==
    /\ GpiosMax \in Nat
    /\ IsFiniteSet(Fds)
    /\ Timeouts \subseteq {0, 1}
    /\ OutFaults \in BOOLEAN
    /\ OpsMax \in Nat

Gpios == 1..GpiosMax
NoFd == "none"
ASSUME NoFdAssumption == NoFd \notin Fds

VARIABLES
    value,     \* the values of the lines
    timerFd,   \* timer_fd of t_gpio_out_data, NoFd for -1
    fd,        \* the kernel's descriptors
    update,    \* update_pollfds, as set by changes of the timers
    polled,    \* the timer_fd of each GPIO when poll_fds was last rebuilt
    chosen,    \* the blink timer that poll reported, or NoFd
    blinking,  \* what was asked for last: "no", "once", "repeat"
    ops        \* number of calls so far

outVars == <<value, timerFd, fd, update, polled, chosen, blinking, ops>>

LineValues == {"active", "inactive"}

(* A descriptor is closed, open for something else, or a timer: armed, or  *)
(* expired and readable, or disarmed; periodic or not; and created for a   *)
(* GPIO.                                                                   *)
Timers == [kind : {"timer"}, state : {"armed", "expired", "disarmed"},
           periodic : BOOLEAN, owner : Gpios]
Closed == [kind |-> "closed"]
Foreign == [kind |-> "foreign"]
IsTimer(f) == fd[f].kind = "timer"

OutInit ==
    /\ value \in [Gpios -> LineValues]
    /\ timerFd = [g \in Gpios |-> NoFd]
    /\ fd = [f \in Fds |-> Closed]
    /\ update = TRUE
    /\ polled = timerFd
    /\ chosen = NoFd
    /\ blinking = [g \in Gpios |-> "no"]
    /\ ops = 0

-----------------------------------------------------------------------------
Flip(v) == IF v = "active" THEN "inactive" ELSE "active"

(* close_fd: nothing if there is no descriptor.                            *)
CloseFd(g, fds) == IF timerFd[g] = NoFd THEN fds ELSE [fds EXCEPT ![timerFd[g]] = Closed]

(* gpio_set_value_by_line_request: the line takes the value, or fails to.  *)
SetLine(g, v) ==
    \/ value' = [value EXCEPT ![g] = v]
    \/ OutFaults /\ UNCHANGED value

(* The number of the closed descriptor is kept.                            *)
SetValueKeepFd(g, v) ==
    /\ ops < OpsMax
    /\ ops' = ops + 1
    /\ fd' = CloseFd(g, fd)
    /\ update' = (update \/ timerFd[g] # NoFd)
    /\ SetLine(g, v)
    /\ blinking' = [blinking EXCEPT ![g] = "no"]
    /\ UNCHANGED <<timerFd, polled, chosen>>

(* gpio_set_value and gpio_toggle_value, for the value to set.             *)
SetValue(g, v) ==
    /\ ops < OpsMax
    /\ ops' = ops + 1
    /\ fd' = CloseFd(g, fd)
    /\ timerFd' = [timerFd EXCEPT ![g] = NoFd]
    /\ update' = (update \/ timerFd[g] # NoFd)
    /\ SetLine(g, v)
    /\ blinking' = [blinking EXCEPT ![g] = "no"]
    /\ UNCHANGED <<polled, chosen>>

Set(g) == \E v \in LineValues : SetValue(g, v)
Toggle(g) == SetValue(g, Flip(value[g]))

(* timer_set: a timeout of 0 disarms a timerfd.                            *)
NewTimer(g, timeout, periodic) ==
    [kind |-> "timer", state |-> IF timeout > 0 THEN "armed" ELSE "disarmed",
     periodic |-> periodic, owner |-> g]

Free == {f \in Fds : fd[f] = Closed}

(* timer_new *)
TimerNew(g, f, timer) ==
    /\ fd' = [fd EXCEPT ![f] = timer]
    /\ timerFd' = [timerFd EXCEPT ![g] = f]
    /\ update' = TRUE

(* gpio_blink: toggle, then timer_fd is overwritten by the new timer, or   *)
(* by -1 if there is no descriptor left.                                   *)
Blink(g, timeout, periodic) ==
    /\ ops < OpsMax
    /\ ops' = ops + 1
    /\ value' = [value EXCEPT ![g] = Flip(@)]
    /\ \/ \E f \in Free :
            /\ TimerNew(g, f, NewTimer(g, timeout, periodic))
            /\ blinking' = [blinking EXCEPT ![g] = IF periodic THEN "repeat" ELSE "once"]
       \/ /\ Free = {}
          /\ timerFd' = [timerFd EXCEPT ![g] = NoFd]
          /\ blinking' = [blinking EXCEPT ![g] = "no"]
          /\ UNCHANGED <<fd, update>>
    /\ UNCHANGED <<polled, chosen>>

(* gpio_blink whose toggle fails: no timer.                                *)
BlinkFails(g) ==
    /\ OutFaults
    /\ ops < OpsMax
    /\ ops' = ops + 1
    /\ UNCHANGED <<value, timerFd, fd, update, polled, chosen, blinking>>

-----------------------------------------------------------------------------
(* The result of timerfd_read_value is not looked at.                      *)
ReadIgnored(f) == IsTimer(f)

(* timerfd_read_value succeeds on a timer that has expired.                *)
ReadValue(f) == IsTimer(f) /\ fd[f].state = "expired"

(* A timer_repeat that never sees a next expiration.                       *)
NeverRepeats(f) == FALSE

(* timer_repeat *)
TimerRepeat(f) == fd[f].periodic

(* main: rebuild if needed (event_add_gpio_out_timer_fds, in the order of  *)
(* the GPIOs), poll, and find the first ready descriptor.                  *)
PollTimers ==
    /\ chosen = NoFd
    /\ LET p == IF update THEN timerFd ELSE polled
           ready(g) == p[g] # NoFd /\ IsTimer(p[g]) /\ fd[p[g]].state = "expired"
       IN /\ polled' = p
          /\ \E g \in Gpios :
                /\ ready(g)
                /\ \A h \in 1..(g - 1) : ~ready(h)
                /\ chosen' = p[g]
    /\ update' = FALSE
    /\ UNCHANGED <<value, timerFd, fd, blinking, ops>>

(* get_node_by_gpio_out_timerfd *)
IsNode(g, f) == timerFd[g] = f /\ \A h \in 1..(g - 1) : timerFd[h] # f

(* timerfd_read_value fails: the descriptor was closed, or it is another   *)
(* timer that has not expired; or it is somebody else's descriptor, and    *)
(* whatever happens to that one, no GPIO has it.                           *)
DelegateNothing(f) ==
    /\ chosen = f
    /\ ~ReadValue(f)
    /\ chosen' = NoFd
    /\ UNCHANGED <<value, timerFd, fd, update, polled, blinking, ops>>

(* No GPIO has this timer any more.  Reading it has re-armed a periodic    *)
(* one.                                                                    *)
DelegateOrphan(f) ==
    /\ chosen = f
    /\ ReadValue(f)
    /\ \A g \in Gpios : timerFd[g] # f
    /\ fd' = [fd EXCEPT ![f].state = IF fd[f].periodic THEN "armed" ELSE "disarmed"]
    /\ chosen' = NoFd
    /\ UNCHANGED <<value, timerFd, update, polled, blinking, ops>>

(* gpio_out_timer_handle_event: toggle; a timer that will not expire again *)
(* is closed.                                                              *)
DelegateTimer(f, g) ==
    /\ chosen = f
    /\ ReadValue(f)
    /\ IsNode(g, f)
    /\ SetLine(g, Flip(value[g]))
    /\ \/ /\ TimerRepeat(f)
          /\ fd' = [fd EXCEPT ![f].state = "armed"]
          /\ UNCHANGED <<timerFd, update, blinking>>
       \/ /\ ~TimerRepeat(f)
          /\ fd' = [fd EXCEPT ![f] = Closed]
          /\ timerFd' = [timerFd EXCEPT ![g] = NoFd]
          /\ update' = TRUE
          /\ blinking' = [blinking EXCEPT ![g] = IF @ = "once" THEN "no" ELSE @]
    /\ chosen' = NoFd
    /\ UNCHANGED <<polled, ops>>

Delegate(f) ==
    \/ DelegateNothing(f)
    \/ DelegateOrphan(f)
    \/ \E g \in Gpios : DelegateTimer(f, g)

-----------------------------------------------------------------------------
(* The clock, and the other threads of the process.                        *)
BlinkExpire(f) ==
    /\ IsTimer(f)
    /\ fd[f].state = "armed"
    /\ fd' = [fd EXCEPT ![f].state = "expired"]
    /\ UNCHANGED <<value, timerFd, update, polled, chosen, blinking, ops>>

ForeignOpen(f) ==
    /\ fd[f] = Closed
    /\ fd' = [fd EXCEPT ![f] = Foreign]
    /\ UNCHANGED <<value, timerFd, update, polled, chosen, blinking, ops>>

ForeignClose(f) ==
    /\ fd[f] = Foreign
    /\ fd' = [fd EXCEPT ![f] = Closed]
    /\ UNCHANGED <<value, timerFd, update, polled, chosen, blinking, ops>>

-----------------------------------------------------------------------------
Loop == PollTimers \/ \E f \in Fds : Delegate(f)

OutNext ==
    \/ Loop
    \/ \E g \in Gpios :
          \/ Set(g)
          \/ Toggle(g)
          \/ \E timeout \in Timeouts, periodic \in BOOLEAN : Blink(g, timeout, periodic)
          \/ BlinkFails(g)
    \/ \E f \in Fds : BlinkExpire(f) \/ ForeignOpen(f) \/ ForeignClose(f)

OutSpec == OutInit /\ [][OutNext]_outVars

(* Setting a line does not fail for ever.                                  *)
LineRecovers ==
    \A g \in Gpios : SF_outVars(\E f \in Fds : DelegateTimer(f, g) /\ value'[g] # value[g])

(* An interval is longer than an iteration of the loop: the timers of      *)
(* other GPIOs are not always expired again when poll looks.               *)
LoopKeepsUp == \A f \in Fds : SF_outVars(PollTimers /\ chosen' = f)

(* The loop runs and armed timers expire.                                  *)
OutFairness ==
    /\ WF_outVars(Loop)
    /\ \A f \in Fds : WF_outVars(BlinkExpire(f))
    /\ LoopKeepsUp
    /\ LineRecovers

OutFairSpec == OutSpec /\ OutFairness

-----------------------------------------------------------------------------
(* Properties.                                                             *)

OutTypeOK ==
    /\ value \in [Gpios -> LineValues]
    /\ timerFd \in [Gpios -> Fds \cup {NoFd}]
    /\ fd \in [Fds -> Timers \cup {Closed, Foreign}]
    /\ update \in BOOLEAN
    /\ polled \in [Gpios -> Fds \cup {NoFd}]
    /\ chosen \in Fds \cup {NoFd}
    /\ blinking \in [Gpios -> {"no", "once", "repeat"}]
    /\ ops \in 0..OpsMax

(* The timer_fd of a GPIO is an open timer that was created for this GPIO  *)
(* and is of the kind asked for last: close_fd never closes the descriptor *)
(* of another GPIO or of another thread, although numbers are reused.      *)
OwnTimer ==
    \A g \in Gpios :
        /\ timerFd[g] = NoFd <=> blinking[g] = "no"
        /\ timerFd[g] # NoFd =>
             /\ IsTimer(timerFd[g])
             /\ fd[timerFd[g]].owner = g
             /\ fd[timerFd[g]].periodic <=> blinking[g] = "repeat"

(* gpio_out_timer_handle_event toggles a GPIO only if this GPIO is         *)
(* blinking and its own timer has expired since: "Use the gpioset or       *)
(* gpiotoggle commands to disable blinking" (mygpiod-protocol.rst) holds   *)
(* even if poll had already reported the timer, and even if its number has *)
(* been given to another timer by then.                                    *)
OnlyBlinkingToggles ==
    [][chosen # NoFd /\ chosen' = NoFd =>
          \A g \in Gpios : value'[g] # value[g] =>
              /\ blinking[g] # "no"
              /\ timerFd[g] = chosen
              /\ fd[chosen].state = "expired"]_outVars

(* Does the GPIO blink with an interval?  A timeout of 0 ms, which the     *)
(* parsers accept, disarms the timer.                                      *)
Ticking(g) ==
    /\ blinking[g] = "repeat"
    /\ timerFd[g] # NoFd => fd[timerFd[g]].state # "disarmed"

(* "Toggles the value of a configured output gpio at given timeout and     *)
(* interval" (mygpiod-protocol.rst): unless the timeout is 0, a GPIO that  *)
(* blinks with an interval changes its value again and again until it is   *)
(* told otherwise, whatever becomes of other timers and descriptors.       *)
BlinkGoesOn ==
    \A g \in Gpios, v \in LineValues :
        Ticking(g) /\ value[g] = v ~> blinking[g] # "repeat" \/ value[g] # v

=============================================================================
