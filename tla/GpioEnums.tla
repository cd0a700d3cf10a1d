----------------------------- MODULE GpioEnums ------------------------------
(***************************************************************************)
(* Settings of a GPIO as the daemon and libmygpio spell them: the tables   *)
(* of mygpiod/gpio/util.c and lib/events.c, those of libmygpio's parser.c  *)
(* and idle.c, and the number parsers of mygpio-common/util.c.             *)
(*                                                                         *)
(* An enum value is named by its C name without the prefix, a string of    *)
(* the protocol or of a configuration file by itself.  A string that is    *)
(* meant to be a number is the integer it denotes, NaN if it is none       *)
(* (empty, leading space, something after the digits).                     *)
(***************************************************************************)
EXTENDS Integers

CONSTANT NaN  \* a string that is not a number

ASSUME NaNAssumption == NaN \notin Int

(* The enum value spelled str in table, default if there is none.          *)
Spelled(table, str, default) ==
    IF \E e \in DOMAIN table : table[e] = str
    THEN CHOOSE e \in DOMAIN table : table[e] = str
    ELSE default

-----------------------------------------------------------------------------
(* mygpio-common/util.c: the strict parsers.                               *)

mygpio_parse_int(str, min, max) == str # NaN /\ min <= str /\ str <= max

mygpio_parse_uint(str, min, max) ==
    str # NaN /\ str >= 0 /\ min <= str /\ str <= max

mygpio_parse_bool(str) == str \in {"true", "1"}

mygpio_bool_to_str(v) == IF v THEN "true" ELSE "false"

-----------------------------------------------------------------------------
(* The daemon: gpio/util.c, lib/events.c.  An unknown string sets errno    *)
(* and yields the default.                                                 *)

lookup_gpio_value ==
    [ERROR |-> "error", INACTIVE |-> "inactive", ACTIVE |-> "active"]

parse_gpio_value(str) == Spelled(lookup_gpio_value, str, "ERROR")

lookup_drive ==
    [PUSH_PULL |-> "push-pull", OPEN_DRAIN |-> "open-drain",
     OPEN_SOURCE |-> "open-source"]

parse_drive(str) == Spelled(lookup_drive, str, "PUSH_PULL")

lookup_bias ==
    [AS_IS |-> "as-is", UNKNOWN |-> "unknown", PULL_DOWN |-> "pull-down",
     PULL_UP |-> "pull-up", DISABLED |-> "disable"]

parse_bias(str) == Spelled(lookup_bias, str, "UNKNOWN")

lookup_event_clock ==
    [REALTIME |-> "realtime", HTE |-> "hte", MONOTONIC |-> "monotonic"]

parse_event_clock(str) == Spelled(lookup_event_clock, str, "MONOTONIC")

lookup_event_request ==
    [NONE |-> "none", RISING |-> "rising", FALLING |-> "falling",
     BOTH |-> "both"]

parse_event_request(str) == Spelled(lookup_event_request, str, "NONE")

lookup_event_type == [FALLING |-> "falling", RISING |-> "rising"]

parse_event_type(str) == Spelled(lookup_event_type, str, "FALLING")

(* The events that clients are told about.                                 *)
mygpiod_event_name ==
    [GPIO_FALLING |-> "gpio_falling", GPIO_RISING |-> "gpio_rising",
     GPIO_LONG_PRESS |-> "gpio_long_press",
     GPIO_LONG_PRESS_RELEASE |-> "gpio_long_press_release",
     INPUT |-> "input"]

-----------------------------------------------------------------------------
(* libmygpio: parser.c, idle.c.  UNKNOWN is the enum's value for errors.   *)

mygpio_gpio_lookup_direction ==
    [IN |-> "in", OUT |-> "out", UNKNOWN |-> "unknown"]

mygpio_gpio_lookup_value ==
    [ACTIVE |-> "active", INACTIVE |-> "inactive", UNKNOWN |-> "unknown"]

mygpio_gpio_lookup_bias ==
    [AS_IS |-> "as-is", DISABLED |-> "disable", PULL_DOWN |-> "pull-down",
     PULL_UP |-> "pull-up", UNKNOWN |-> "unknown"]

mygpio_gpio_lookup_event_request ==
    [FALLING |-> "falling", RISING |-> "rising", BOTH |-> "both",
     UNKNOWN |-> "unknown"]

mygpio_gpio_lookup_event_clock ==
    [MONOTONIC |-> "monotonic", REALTIME |-> "realtime", HTE |-> "hte",
     UNKNOWN |-> "unknown"]

mygpio_gpio_lookup_drive ==
    [PUSH_PULL |-> "push-pull", OPEN_DRAIN |-> "open-drain",
     OPEN_SOURCE |-> "open-source", UNKNOWN |-> "unknown"]

mygpio_gpio_parse_direction(str) ==
    Spelled(mygpio_gpio_lookup_direction, str, "UNKNOWN")

mygpio_gpio_parse_value(str) ==
    Spelled(mygpio_gpio_lookup_value, str, "UNKNOWN")

mygpio_gpio_parse_bias(str) ==
    Spelled(mygpio_gpio_lookup_bias, str, "UNKNOWN")

mygpio_gpio_parse_event_request(str) ==
    Spelled(mygpio_gpio_lookup_event_request, str, "UNKNOWN")

mygpio_gpio_parse_event_clock(str) ==
    Spelled(mygpio_gpio_lookup_event_clock, str, "UNKNOWN")

mygpio_gpio_parse_drive(str) ==
    Spelled(mygpio_gpio_lookup_drive, str, "UNKNOWN")

(* The library's name for an input event differs from the daemon's.        *)
mygpio_parse_event(str) ==
    Spelled([GPIO_FALLING |-> "gpio_falling", GPIO_RISING |-> "gpio_rising",
             GPIO_LONG_PRESS |-> "gpio_long_press",
             GPIO_LONG_PRESS_RELEASE |-> "gpio_long_press_release",
             INPUT |-> "gpio_input"], str, "UNKNOWN")

=============================================================================
