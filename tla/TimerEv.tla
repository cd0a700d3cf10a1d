------------------------------ MODULE TimerEv -------------------------------
(***************************************************************************)
(* A timer event (timer_ev/*.c, config/timer_ev.c, timer_set of            *)
(* lib/timer.c): the configuration line, the first start, the timer        *)
(* descriptor and the action on the days it is enabled for.                *)
(*                                                                         *)
(* Time is counted in seconds; day 0 is a Sunday.  An int has the values   *)
(* -IntMax-1..IntMax and wraps around, which is what the build does with   *)
(* an overflow.  The wall clock and CLOCK_MONOTONIC advance together: no   *)
(* daylight saving time, no clock adjustment.                              *)
(***************************************************************************)
EXTENDS Integers, Sequences, FiniteSets

CONSTANTS DaySecs,      \* seconds of a day
          SecMs,        \* milliseconds of a second
          IntMax,       \* INT_MAX
          Quantifier,   \* seconds of the unit s, m, h, d, w
          NumberMax,    \* the largest number of an interval
          Starts,       \* values of hour and minute, in seconds
          Numbers,      \* numbers of an interval
          WeekdayLists, \* values of weekdays, sequences of characters
          NowMax        \* bound: the time at which the model stops

ASSUME WidthAssumption ==
    /\ {DaySecs, SecMs, NumberMax, IntMax} \subseteq Nat \ {0}
    /\ \A u \in DOMAIN Quantifier : Quantifier[u] \in 1..IntMax

(* The model goes on for at least the day on which it starts.              *)
ASSUME BoundAssumption == NowMax \in Nat /\ DaySecs <= NowMax

VARIABLES
    phase,      \* where the daemon is
    line,       \* the configuration line
    def,        \* struct t_timer_definition
    now,        \* the time
    opened,     \* when timer_ev_open was called
    timer,      \* the timerfd: next expiration (0: disarmed) and period
    ticks,      \* its expirations not yet read
    fired       \* when the action was executed

vars == <<phase, line, def, now, opened, timer, ticks, fired>>

(* "rejected": the line was not accepted; "failed": the timer could not be *)
(* opened.                                                                 *)
Phases == {"config", "parsed", "running", "rejected", "failed"}

Weekdays == 0..6
NoDays == [d \in Weekdays |-> FALSE]
AllDays == [d \in Weekdays |-> TRUE]

(* A line: start (hour and minute), number and unit of the interval,       *)
(* weekdays, and whether the action is a known one.                        *)
Lines == [start : Starts, number : Numbers, unit : DOMAIN Quantifier \cup {"none"},
          weekdays : WeekdayLists, action : BOOLEAN]

Init ==
    /\ phase = "config"
    /\ line \in Lines
    /\ def = [start |-> 0, interval |-> 1, weekdays |-> NoDays]
    /\ now \in 1..DaySecs
    /\ opened = 0
    /\ timer = [next |-> 0, period |-> 0]
    /\ ticks = 0
    /\ fired = {}

-----------------------------------------------------------------------------
(* parse_timer_ev *)

(* parse_interval: does it accept number and unit?                         *)
IntervalValid(n, unit) ==
    /\ n \in 1..NumberMax
    /\ unit \in DOMAIN Quantifier
    /\ IntMax \div Quantifier[unit] >= n

AllEnabled(str) == str # <<>> /\ str[1] = "*"

(* parse_weekdays: the labels of its switch are the control characters 0   *)
(* to 7, which no line has, a comma and a blank.                           *)
WeekdaysValid(str) ==
    AllEnabled(str) \/ \A i \in DOMAIN str : str[i] \in {",", " "}

Accepted ==
    /\ line.start \in 0..(DaySecs - 1)
    /\ IntervalValid(line.number, line.unit)
    /\ WeekdaysValid(line.weekdays)
    /\ line.action

Parse ==
    /\ phase = "config"
    /\ Accepted
    /\ phase' = "parsed"
    /\ def' = [start |-> line.start,
               interval |-> line.number * Quantifier[line.unit],
               weekdays |-> IF AllEnabled(line.weekdays) THEN AllDays ELSE NoDays]
    /\ UNCHANGED <<line, now, opened, timer, ticks, fired>>

(* An invalid line ends the daemon (config_read).                          *)
Reject ==
    /\ phase = "config"
    /\ ~Accepted
    /\ phase' = "rejected"
    /\ UNCHANGED <<line, def, now, opened, timer, ticks, fired>>

-----------------------------------------------------------------------------
(* timer_ev_open *)

(* An int that has been computed without regard to its width.              *)
Wrap(x) == LET w == x % (2 * (IntMax + 1)) IN IF w > IntMax THEN w - 2 * (IntMax + 1) ELSE w

DayStart(t) == t - (t % DaySecs)

(* calc_starttime: the loop that takes the start back below the present    *)
(* time ...                                                                *)
TakenBack(interval) ==
    LET Down[s \in Int] == IF s > now THEN Down[s - interval] ELSE s IN Down

(* ... and the one that takes it forward again.                            *)
TakenForward(interval) ==
    LET Up[s \in Int] == IF s < now THEN Up[s + interval] ELSE s IN Up

(* The start is not taken back first.                                      *)
CalcNoStepBack(start, interval) == TakenForward(interval)[DayStart(now) + start] - now

(* calc_starttime: both loops, from today's start time.                    *)
CalcStarttime(start, interval) ==
    TakenForward(interval)[TakenBack(interval)[DayStart(now) + start]] - now

(* The interval is not passed on.                                          *)
TimerSetOnce(timeoutMs, intervalMs) ==
    [next |-> IF timeoutMs = 0 THEN 0 ELSE now + (timeoutMs \div SecMs), period |-> 0]

(* timer_set: a timeout of 0 disarms the timer.                            *)
TimerSet(timeoutMs, intervalMs) ==
    [next   |-> IF timeoutMs = 0 THEN 0 ELSE now + (timeoutMs \div SecMs),
     period |-> IF intervalMs > 0 THEN intervalMs \div SecMs ELSE 0]

Open ==
    /\ phase = "parsed"
    /\ LET timeoutMs == Wrap(CalcStarttime(def.start, def.interval) * SecMs)
       IN /\ phase' = IF timeoutMs < 0 THEN "failed" ELSE "running"
          /\ timer' = IF timeoutMs < 0 THEN timer
                      ELSE TimerSet(timeoutMs, Wrap(def.interval * SecMs))
    /\ opened' = now
    /\ UNCHANGED <<line, def, now, ticks, fired>>

(* timerfd_create or timerfd_settime fails.                                *)
OpenFails ==
    /\ phase = "parsed"
    /\ phase' = "failed"
    /\ UNCHANGED <<line, def, now, opened, timer, ticks, fired>>

-----------------------------------------------------------------------------
(* A second passes; the kernel counts the expiration and starts anew.      *)
Tick ==
    /\ phase \notin {"rejected", "failed"}
    /\ now < NowMax
    /\ now' = now + 1
    /\ \/ /\ timer.next = now + 1
          /\ ticks' = ticks + 1
          /\ timer' = [timer EXCEPT !.next = IF timer.period > 0 THEN @ + timer.period ELSE 0]
       \/ /\ timer.next # now + 1
          /\ UNCHANGED <<ticks, timer>>
    /\ UNCHANGED <<phase, line, def, opened, fired>>

(* The handler does not read the descriptor.                               *)
ReadNothing == UNCHANGED ticks

(* timerfd_read_value *)
ReadTicks == ticks' = 0

(* The index into weekdays: Monday is 0.                                   *)
Weekday(t) == LET wday == (t \div DaySecs) % 7 IN IF wday > 0 THEN wday - 1 ELSE 6

(* timer_ev_handle_event, timer_ev_action_handle                           *)
Handle ==
    /\ phase = "running"
    /\ ticks > 0
    /\ ReadTicks
    /\ fired' = IF def.weekdays[Weekday(now)] THEN fired \cup {now} ELSE fired
    /\ UNCHANGED <<phase, line, def, now, opened, timer>>

Next == Parse \/ Reject \/ Open \/ OpenFails \/ Tick \/ Handle

Spec == Init /\ [][Next]_vars

-----------------------------------------------------------------------------
(* Properties.                                                             *)

TypeOK ==
    /\ phase \in Phases
    /\ line \in Lines
    /\ def.start \in 0..(DaySecs - 1) /\ def.interval \in 1..IntMax
    /\ def.weekdays \in [Weekdays -> BOOLEAN]
    /\ now \in 1..NowMax /\ opened \in 0..now
    /\ timer.next \in 0..(now + IntMax) /\ timer.period \in 0..IntMax
    /\ ticks \in 0..NowMax
    /\ fired \subseteq 1..now

(* The times at which the timer should expire: a whole number of intervals *)
(* from the start time of the day on which the daemon was started.         *)
Due(t) == (t - DayStart(opened) - def.start) % def.interval = 0

(* The interval in milliseconds fits an int.                               *)
Fits == def.interval * SecMs <= IntMax

(* What calc_starttime and timer_set do, against the definition of Due:    *)
(* the first expiration is the first time due after the start, whatever    *)
(* the order of start time and present time.  Said only of daemons that    *)
(* are not started in a second that is due: there the offset is 0, which   *)
(* timer_set takes as an order to disarm, and there is no first expiration *)
(* to speak of (always so for an interval of one second).                  *)
FirstExpiration ==
    phase = "running" /\ now = opened /\ Fits /\ ~Due(now) =>
        /\ timer.next > now /\ Due(timer.next)
        /\ \A t \in now..(timer.next - 1) : ~Due(t)

(* Every time due is answered by the action, at once or, if the loop is    *)
(* late, together with later ones; except for a timer that was started     *)
(* disarmed and one whose interval in milliseconds overflows.              *)
NoneMissed ==
    phase = "running" /\ ticks = 0 /\ Fits /\ ~Due(opened) /\ def.weekdays = AllDays =>
        \A t \in opened..now : Due(t) => \E f \in fired : f >= t

(* Every execution of the action has a time due of its own, after the one  *)
(* before: nothing is executed twice for one expiration.                   *)
OneActionPerExpiration ==
    phase = "running" /\ Fits =>
        \A f \in fired :
            \E t \in (opened + 1)..f : Due(t) /\ \A g \in fired : g < f => g < t

=============================================================================
