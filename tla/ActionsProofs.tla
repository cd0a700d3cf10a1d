---------------------------- MODULE ActionsProofs ---------------------------
(***************************************************************************)
(* Proofs about Actions, for every configuration, every set of Lua         *)
(* functions and scripts and every sequence of events: what config_read    *)
(* makes of the entries for input devices, that inputEvGet reads the last  *)
(* value of an event, and that a command for MPD is lost only after a      *)
(* break of the connection.                                                *)
(***************************************************************************)
EXTENDS Actions, WellFoundedInduction, TLAPS

(* Every nonempty set of natural numbers has a least element: the          *)
(* induction over the lines of a file.                                     *)
LEMMA NatMin ==
    ASSUME NEW T, T \subseteq Nat, T # {}
    PROVE  \E m \in T : \A n \in T : m <= n
<1> DEFINE R == OpToRel(<, Nat)
<1>1. IsWellFoundedOn(R, Nat)
  BY NatLessThanWellFounded
<1>2. \A x, y \in Nat : (<<y, x>> \in R) <=> y < x
  BY DEF OpToRel
<1> HIDE DEF R
<1>3. \E x \in T : \A y \in T : ~(<<y, x>> \in R)
  BY <1>1, WFMin
<1>4. \E x \in T : \A y \in T : ~(y < x)
  BY <1>2, <1>3, Zenon
<1> QED
  BY <1>4

(* f folds ReadLine over the lines kv with a number in a subset of 1..n:   *)
(* the equation of FoldLeft.                                               *)
Folds(f, kv, n) ==
    f = [s \in SUBSET (1..n) |-> IF s = {} THEN config_new
                                 ELSE ReadLine(f[s \ {Max(s)}], kv[Max(s)])]

(* The largest element of a set of numbers up to n that n is in.           *)
LEMMA MaxIs ==
    ASSUME NEW n \in Nat, NEW s \in SUBSET (1..n), n \in s
    PROVE  Max(s) = n
<1>1. \A x \in s : n >= x
  OBVIOUS
<1>2. PICK m \in s : m = Max(s) /\ \A y \in s : m >= y
  BY <1>1 DEF Max
<1>3. m \in 1..n /\ n >= m /\ m >= n
  BY <1>1, <1>2
<1> QED
  BY <1>2, <1>3

(* There is such a function, whatever ReadLine does: it can be extended    *)
(* from the first lines to one line more.                                  *)
LEMMA FoldExists ==
    ASSUME NEW kv, NEW n \in Nat
    PROVE  \E f : Folds(f, kv, n)
<1> DEFINE T == {k \in Nat : ~\E f : Folds(f, kv, k)}
<1>1. SUFFICES ASSUME T # {} PROVE FALSE
  OBVIOUS
<1>2. PICK m \in T : \A k \in T : m <= k
  <2>1. T \subseteq Nat
    OBVIOUS
  <2> HIDE DEF T
  <2> QED
    BY <1>1, <2>1, NatMin
<1>3. m \in Nat /\ ~\E f : Folds(f, kv, m)
  OBVIOUS
<1>4. CASE m = 0
  <2> DEFINE g == [s \in SUBSET (1..m) |-> config_new]
  <2>1. \A s \in SUBSET (1..m) : s = {}
    BY <1>4
  <2>2. g = [s \in SUBSET (1..m) |-> IF s = {} THEN config_new
                                 ELSE ReadLine(g[s \ {Max(s)}], kv[Max(s)])]
    BY <2>1
  <2>3. Folds(g, kv, m)
    BY <2>2, Zenon DEF Folds
  <2> QED
    BY <1>3, <2>3
<1>5. CASE m > 0
  <2>1. m - 1 \in Nat /\ m - 1 < m
    BY <1>3, <1>5
  <2>2. PICK f : Folds(f, kv, m - 1)
    <3>1. m - 1 \notin T
      <4> HIDE DEF T
      <4> QED
        BY <1>2, <1>3, <2>1
    <3> QED
      BY <2>1, <3>1
  <2> DEFINE g == [s \in SUBSET (1..m) |-> IF m \in s THEN ReadLine(f[s \ {m}], kv[m]) ELSE f[s]]
  <2>3. ASSUME NEW s \in SUBSET (1..m)
        PROVE  g[s] = IF s = {} THEN config_new ELSE ReadLine(g[s \ {Max(s)}], kv[Max(s)])
    <3>1. CASE m \in s
      <4>1. Max(s) = m
        BY <1>3, <3>1, MaxIs
      <4>2. s \ {m} \in SUBSET (1..m) /\ m \notin s \ {m}
        OBVIOUS
      <4>3. g[s \ {m}] = f[s \ {m}]
        BY <4>2
      <4>4. g[s] = ReadLine(f[s \ {m}], kv[m])
        BY <3>1
      <4> HIDE DEF g
      <4> QED
        BY <3>1, <4>1, <4>3, <4>4
    <3>2. CASE m \notin s
      <4>1. s \in SUBSET (1..(m - 1))
        BY <1>3, <3>2
      <4>2. g[s] = f[s]
        BY <3>2
      <4>3. f[s] = IF s = {} THEN config_new ELSE ReadLine(f[s \ {Max(s)}], kv[Max(s)])
        BY <2>2, <4>1, Zenon DEF Folds
      <4>4. s \ {Max(s)} \in SUBSET (1..m) /\ m \notin s \ {Max(s)}
        BY <3>2
      <4>5. g[s \ {Max(s)}] = f[s \ {Max(s)}]
        BY <4>4
      <4> HIDE DEF g
      <4> QED
        BY <4>2, <4>3, <4>5
    <3> QED
      BY <3>1, <3>2
  <2>4. Folds(g, kv, m)
    <3>1. g = [s \in SUBSET (1..m) |-> g[s]]
      OBVIOUS
    <3> HIDE DEF g
    <3>2. g = [s \in SUBSET (1..m) |-> IF s = {} THEN config_new
                                 ELSE ReadLine(g[s \ {Max(s)}], kv[Max(s)])]
      BY <2>3, <3>1, Zenon
    <3> QED
      BY <3>2, Zenon DEF Folds
  <2> QED
    BY <1>3, <2>4
<1> QED
  BY <1>3, <1>4, <1>5

(* FoldLeft is the last value of one.                                      *)
LEMMA FoldIs ==
    ASSUME NEW S, NEW kv \in Seq(S)
    PROVE  \E f : Folds(f, kv, Len(kv)) /\ FoldLeft(ReadLine, config_new, kv) = f[1..Len(kv)]
<1> DEFINE g == CHOOSE f : Folds(f, kv, Len(kv))
<1>1. Folds(g, kv, Len(kv))
  <2>1. Len(kv) \in Nat
    OBVIOUS
  <2>2. \E f : Folds(f, kv, Len(kv))
    BY <2>1, FoldExists
  <2> QED
    BY <2>2, Zenon
<1>2. DOMAIN kv = 1..Len(kv)
  OBVIOUS
<1>3. FoldLeft(ReadLine, config_new, kv) = g[DOMAIN kv]
  BY <1>2, Zenon DEF FoldLeft, MapThenFoldSet, Folds
<1> HIDE DEF g
<1> QED
  BY <1>1, <1>2, <1>3

(* An entry of a device: the code is KEY_CNT when it stands for all codes. *)
EntryOk(e) == /\ e.state = 0
              /\ e.code_match \in {"MATCH_ALL", "MATCH_VALUE"}
              /\ e.code_match = "MATCH_ALL" => e.code = KEY_CNT

(* A device: its entries are a sequence of such.                           *)
DeviceOk(dev) ==
    /\ "event_actions" \in DOMAIN dev
    /\ \E S : dev.event_actions \in Seq(S) /\ \A e \in S : EntryOk(e)

(* A configuration: a sequence of such devices.                            *)
ConfigOk(c) ==
    /\ "input_devices" \in DOMAIN c
    /\ \E D : c.input_devices \in Seq(D) /\ \A dev \in D : DeviceOk(dev)

(* parse_input_ev makes such entries.                                      *)
LEMMA NewEntryOk == ASSUME NEW v PROVE EntryOk(NewEntry(v))
  BY DEF EntryOk, NewEntry

(* A line input_ev keeps the devices well-formed, a new one among them.    *)
LEMMA ParseInputOk ==
    ASSUME NEW c, NEW v, ConfigOk(c)
    PROVE  ConfigOk(parse_input_ev(c, v))
<1> DEFINE e == NewEntry(v)
           known == input_device_get_by_name(c.input_devices, v.device)
           new == [name |-> v.device, event_actions |-> <<>>]
           devices == IF known # {} THEN c.input_devices ELSE Append(c.input_devices, new)
           d == CHOOSE i \in DOMAIN devices : devices[i].name = v.device
           added == [devices EXCEPT ![d].event_actions = Append(@, e)]
<1>1. PICK D : c.input_devices \in Seq(D) /\ \A dev \in D : DeviceOk(dev)
  BY DEF ConfigOk
<1>2. DeviceOk(new)
  <2>1. new.event_actions \in Seq({}) /\ "event_actions" \in DOMAIN new
    OBVIOUS
  <2> HIDE DEF new
  <2> QED
    BY <2>1 DEF DeviceOk
<1>3. devices \in Seq(D \cup {new}) /\ \A dev \in D \cup {new} : DeviceOk(dev)
  BY <1>1, <1>2
<1>4. \E E : added \in Seq(E) /\ \A dev \in E : DeviceOk(dev)
  <2> HIDE DEF devices, e, new, d
  <2>1. EntryOk(e)
    BY NewEntryOk DEF e
  <2>2. CASE d \notin DOMAIN devices
    <3>1. added = devices
      BY <1>3, <2>2
    <3> QED
      BY <1>3, <3>1
  <2>3. CASE d \in DOMAIN devices
    <3>1. devices[d] \in D \cup {new}
      BY <1>3, <2>3
    <3>2. DeviceOk(devices[d])
      BY <1>3, <3>1
    <3>3. PICK S : devices[d].event_actions \in Seq(S) /\ \A x \in S : EntryOk(x)
      BY <3>2 DEF DeviceOk
    <3> DEFINE dev == [devices[d] EXCEPT !.event_actions = Append(@, e)]
    <3>4. /\ Append(devices[d].event_actions, e) \in Seq(S \cup {e})
          /\ \A x \in S \cup {e} : EntryOk(x)
      BY <2>1, <3>3
    <3>5. dev.event_actions = Append(devices[d].event_actions, e) /\ "event_actions" \in DOMAIN dev
      BY <3>2 DEF DeviceOk
    <3>6. DeviceOk(dev)
      <4> HIDE DEF dev
      <4> QED
        BY <3>4, <3>5 DEF DeviceOk
    <3>7. added = [devices EXCEPT ![d] = dev]
      OBVIOUS
    <3> HIDE DEF dev, added
    <3>8. added \in Seq(D \cup {new} \cup {dev})
      BY <1>3, <2>3, <3>7
    <3> QED
      BY <1>3, <3>6, <3>8
  <2> QED
    BY <2>2, <2>3
<1>5. ASSUME NEW x, \E E : x \in Seq(E) /\ \A dev \in E : DeviceOk(dev)
      PROVE  /\ ConfigOk([c EXCEPT !.input_devices = x])
             /\ ConfigOk(Invalid([c EXCEPT !.input_devices = x]))
  BY <1>5 DEF ConfigOk, Invalid
<1>6. ConfigOk(Crash(c))
  BY DEF ConfigOk, Crash
<1>7. parse_input_ev(c, v) \in {Crash(c), Invalid([c EXCEPT !.input_devices = devices]),
                                [c EXCEPT !.input_devices = added]}
  BY Zenon DEF parse_input_ev
<1> HIDE DEF devices, added
<1>8. /\ ConfigOk([c EXCEPT !.input_devices = added])
      /\ ConfigOk(Invalid([c EXCEPT !.input_devices = devices]))
  BY <1>3, <1>4, <1>5
<1> QED
  BY <1>6, <1>7, <1>8

(* Other settings do not touch the devices.                                *)
LEMMA KeepsDevices ==
    ASSUME NEW c, ConfigOk(c), NEW key, key # "input_devices", NEW x
    PROVE  ConfigOk([c EXCEPT ![key] = x])
  BY DEF ConfigOk

(* Neither does any other line.                                            *)
LEMMA ReadLineOk ==
    ASSUME NEW c, NEW l, ConfigOk(c)
    PROVE  ConfigOk(ReadLine(c, l))
<1>1. ConfigOk(parse_input_ev(c, l.val))
  BY ParseInputOk
<1>2. \A x : ConfigOk([c EXCEPT !.status = x]) /\ ConfigOk([c EXCEPT !.hooks = x])
             /\ ConfigOk([c EXCEPT !.timer_definitions = x]) /\ ConfigOk([c EXCEPT !.loglevel = x])
             /\ ConfigOk([c EXCEPT !.syslog = x]) /\ ConfigOk([c EXCEPT !.lua_file = x])
  BY KeepsDevices
<1>3. ConfigOk(Crash(c)) /\ ConfigOk(Invalid(c))
  BY <1>2 DEF Crash, Invalid
<1>4. ConfigOk(parse_hook(c, l.val)) /\ ConfigOk(parse_timer_ev(c, l.val))
  BY <1>2, <1>3 DEF parse_hook, parse_timer_ev
<1>5. ConfigOk(parse_config_file_kv(c, l))
  <2> DEFINE key == l.key
             kept == Checked(c, l, TRUE)
             loglevel == [c EXCEPT !.loglevel = parse_loglevel(l.val)]
             syslog == IF l.val \in {"true", "1", "false", "0"}
                       THEN [c EXCEPT !.syslog = mygpio_parse_bool(l.val)] ELSE Invalid(c)
             socket == Checked(c, l, l.val # "too long")
             timeout == Checked(c, l, mygpio_parse_int(l.val, 10, 120))
             port == Checked(c, l, mygpio_parse_uint(l.val, 1025, 65535))
             file == [c EXCEPT !.lua_file = @ \o l.val]
             input_ev == parse_input_ev(c, l.val)
             timer_ev == parse_timer_ev(c, l.val)
             hook == parse_hook(c, l.val)
             invalid == Invalid(c)
  <2>1. parse_config_file_kv(c, l) =
           CASE key \in {"chip", "gpio_dir", "http_ip", "lua_async_dir"} -> kept
             [] key = "loglevel" -> loglevel
             [] key = "syslog" -> syslog
             [] key = "socket" -> socket
             [] key = "timeout" -> timeout
             [] key = "http_port" -> port
             [] key = "lua_file" -> file
             [] key = "input_ev" -> input_ev
             [] key = "timer_ev" -> timer_ev
             [] key = "hook" -> hook
             [] OTHER -> invalid
    BY DEF parse_config_file_kv
  <2>2. ASSUME key # "input_devices"
        PROVE  ConfigOk(kept) /\ ConfigOk(socket) /\ ConfigOk(timeout) /\ ConfigOk(port)
    <3>1. ConfigOk([c EXCEPT ![l.key] = l.val])
      BY <2>2, KeepsDevices
    <3>2. /\ kept \in {[c EXCEPT ![l.key] = l.val], Invalid(c)}
          /\ socket \in {[c EXCEPT ![l.key] = l.val], Invalid(c)}
          /\ timeout \in {[c EXCEPT ![l.key] = l.val], Invalid(c)}
          /\ port \in {[c EXCEPT ![l.key] = l.val], Invalid(c)}
      BY DEF Checked, mygpio_parse_int, mygpio_parse_uint
    <3> HIDE DEF kept, socket, timeout, port
    <3> QED
      BY <1>3, <3>1, <3>2
  <2>3. ConfigOk(loglevel) /\ ConfigOk(syslog) /\ ConfigOk(file) /\ ConfigOk(invalid)
    BY <1>2, <1>3, Zenon
  <2>4. ConfigOk(input_ev) /\ ConfigOk(timer_ev) /\ ConfigOk(hook)
    BY <1>1, <1>4
  <2> HIDE DEF key, kept, loglevel, syslog, socket, timeout, port, file, input_ev, timer_ev,
               hook, invalid
  <2> QED
    BY <2>1, <2>2, <2>3, <2>4
<1> QED
  BY <1>5 DEF ReadLine

(* So the devices are well-formed after any number of lines ...            *)
LEMMA FoldOk ==
    ASSUME NEW kv, NEW n \in Nat, NEW f, Folds(f, kv, n)
    PROVE  ConfigOk(f[1..n])
<1> DEFINE T == {k \in 0..n : ~ConfigOk(f[1..k])}
<1>1. SUFFICES ASSUME T # {} PROVE FALSE
  <2>1. n \notin T
    BY <1>1
  <2> QED
    BY <2>1
<1>2. PICK m \in T : \A k \in T : m <= k
  <2>1. T \subseteq Nat
    OBVIOUS
  <2> HIDE DEF T
  <2> QED
    BY <1>1, <2>1, NatMin
<1>3. m \in 0..n /\ ~ConfigOk(f[1..m])
  OBVIOUS
<1>4. \A s \in SUBSET (1..n) :
         f[s] = IF s = {} THEN config_new ELSE ReadLine(f[s \ {Max(s)}], kv[Max(s)])
  BY Zenon DEF Folds
<1>5. CASE m = 0
  <2>1. f[1..m] = config_new
    <3>1. 1..m = {}
      BY <1>5
    <3> QED
      BY <1>4, <3>1
  <2>2. ConfigOk(config_new)
    <3>1. "input_devices" \in DOMAIN config_new /\ config_new.input_devices = <<>>
      BY DEF config_new
    <3>2. config_new.input_devices \in Seq({})
      BY <3>1
    <3> QED
      BY <3>1, <3>2 DEF ConfigOk
  <2> QED
    BY <1>3, <2>1, <2>2
<1>6. CASE m > 0
  <2>1. m \in Nat /\ m - 1 \in 0..n /\ m - 1 < m
    BY <1>3, <1>6
  <2>2. 1..m \in SUBSET (1..n) /\ 1..m # {} /\ m \in 1..m /\ (1..m) \ {m} = 1..(m - 1)
    BY <1>3, <1>6, <2>1
  <2>3. Max(1..m) = m
    <3>1. 1..m \in SUBSET (1..m)
      OBVIOUS
    <3> QED
      BY <2>1, <2>2, <3>1, MaxIs
  <2>4. f[1..m] = ReadLine(f[1..(m - 1)], kv[m])
    <3> DEFINE s == 1..m
    <3>1. f[s] = ReadLine(f[s \ {Max(s)}], kv[Max(s)])
      <4> HIDE DEF s
      <4>1. s \in SUBSET (1..n) /\ s # {}
        BY <2>2 DEF s
      <4> QED
        BY <1>4, <4>1
    <3> QED
      BY <2>2, <2>3, <3>1
  <2>5. ConfigOk(f[1..(m - 1)])
    <3>1. m - 1 \notin T
      <4> HIDE DEF T
      <4> QED
        BY <1>2, <2>1
    <3> QED
      BY <2>1, <3>1
  <2> QED
    BY <1>3, <2>4, <2>5, ReadLineOk
<1> QED
  BY <1>3, <1>5, <1>6

(* ... and in what config_read returns for any file.                       *)
LEMMA ConfigReadOk ==
    ASSUME NEW inst, NEW S, inst.conf.lines \in Seq(S)
    PROVE  ConfigOk(config_read(inst))
<1> DEFINE c == FoldLeft(ReadLine, config_new, KeyValues(inst.conf))
           g == gpio_read_dir(inst.gpio_dir)
           k == [c EXCEPT !.gpios_in = g.in, !.gpios_out = g.out,
                          !.lua_async_scripts = lua_async_read_scripts(inst.lua_async_dir)]
<1>1. ConfigOk(c)
  <2>1. KeyValues(inst.conf) \in Seq(S)
    BY DEF KeyValues, Front
  <2>2. PICK f : Folds(f, KeyValues(inst.conf), Len(KeyValues(inst.conf)))
                 /\ c = f[1..Len(KeyValues(inst.conf))]
    BY <2>1, FoldIs
  <2>3. Len(KeyValues(inst.conf)) \in Nat
    BY <2>1
  <2> QED
    BY <2>2, <2>3, FoldOk
<1> HIDE DEF c, g
<1>2. ConfigOk(k) /\ ConfigOk(Invalid(c))
  BY <1>1 DEF ConfigOk, Invalid
<1>3. config_read(inst) \in {c, Invalid(c), k}
  BY Zenon DEF config_read, c, g
<1> QED
  BY <1>1, <1>2, <1>3

-----------------------------------------------------------------------------
(* MPD: a connection that is not what it seems to be has cost a break      *)
(* since the last mpc action, or the action that found out is under way.   *)
MpcInv ==
    /\ pc \in {"loop", "run", "mpc_send", "mpc_finish", "abort"}
    /\ conn \in {"none", "open", "closed", "hup"} /\ mpd \in {"up", "down", "hung"}
    /\ arrived \in BOOLEAN /\ broke \in BOOLEAN
    /\ mpd # "up" => broke
    /\ pc = "mpc_send" => conn # "none"
    /\ ~broke => \/ conn \in {"none", "open"}
                 \/ pc = "abort"
                 \/ pc = "mpc_finish" /\ ~arrived

(* At the start there is no connection.                                    *)
LEMMA MpcInit == Init => MpcInv
  BY DEF Init, MpcInv

(* What Execute may do to the connection.                                  *)
LEMMA ExecuteMpc ==
    ASSUME Execute
    PROVE  /\ pc = "run" /\ UNCHANGED <<mpd, arrived, broke>>
           /\ \/ pc' = "run" /\ conn' \in {conn, "none"}
              \/ pc' = "mpc_send" /\ conn' \in {conn, "open"} /\ conn' \in {"open", "closed"}
              \/ pc' = "abort" /\ conn' = conn
<1> DEFINE Good == /\ UNCHANGED <<mpd, arrived, broke>>
                   /\ \/ pc' = pc /\ conn' \in {conn, "none"}
                      \/ /\ pc' = "mpc_send"
                         /\ conn' \in {conn, "open"} /\ conn' \in {"open", "closed"}
                      \/ pc' = "abort" /\ conn' = conn
<1>1. ASSUME NEW o, MpcRefused(o) PROVE Good
  BY <1>1 DEF MpcRefused
<1>2. ASSUME NEW o, MpcConnect(o) PROVE Good
  BY <1>2 DEF MpcConnect, mpc_check_conn
<1>3. ASSUME UNCHANGED <<pc, mpc>> PROVE Good
  BY <1>3 DEF mpc
<1>4. ASSUME Abort PROVE Good
  BY <1>4 DEF Abort, mpc
<1>5. ASSUME NEW o, action_lua_sync(o) PROVE Good
  <2>1. UNCHANGED <<pc, mpc>>
    BY <1>5 DEF action_lua_sync
  <2> QED
    BY <1>3, <2>1
<1> HIDE DEF Good
<1>6. ASSUME NEW c, LuaCall(c) PROVE Good
  <2>1. \/ Abort
        \/ MpcRefused(c.args[1].v) \/ MpcConnect(c.args[1].v)
        \/ UNCHANGED <<pc, mpc>>
    <3>1. CASE c.fn \notin Registered("sync")
      BY <1>6, <3>1 DEF LuaCall, Registered, MainFunctions
    <3>2. CASE c.fn \in Registered("sync") /\ c.fn = "mpc" /\ ArgsOk(c)
      BY <1>6, <3>2, Zenon DEF LuaCall
    <3>3. CASE c.fn \in Registered("sync") /\ ~(c.fn = "mpc" /\ ArgsOk(c))
      BY <1>6, <3>3, Zenon DEF LuaCall
    <3> QED
      BY <3>1, <3>2, <3>3
  <2> QED
    BY <1>1, <1>2, <1>3, <1>4, <2>1
<1>7. ASSUME NEW a, action_execute(a) PROVE Good
  <2>1. \/ MpcRefused(a.options) \/ MpcConnect(a.options)
        \/ action_lua_sync(a.options)
        \/ UNCHANGED <<pc, mpc>>
    <3>1. CASE a.action = "MPC"
      BY <1>7, <3>1, Zenon DEF action_execute
    <3>2. CASE a.action = "LUA"
      BY <1>7, <3>2, Zenon DEF action_execute
    <3>3. CASE a.action # "MPC" /\ a.action # "LUA"
      BY <1>7, <3>3, Zenon DEF action_execute
    <3> QED
      BY <3>1, <3>2, <3>3
  <2> QED
    BY <1>1, <1>2, <1>3, <1>5, <2>1
<1>8. Good /\ pc = "run"
  BY <1>6, <1>7, Zenon DEF Execute
<1> QED
  BY <1>8 DEF Good

(* Every step keeps this.                                                  *)
LEMMA MpcStep == MpcInv /\ [Next]_vars => MpcInv'
<1> SUFFICES ASSUME MpcInv, [Next]_vars PROVE MpcInv'
  OBVIOUS
<1> USE DEF MpcInv
<1>1. CASE ReadEvent \/ HandleEntry \/ Done
  <2>1. UNCHANGED mpc /\ (pc' \in {"loop", "run"}) /\ pc \in {"loop", "run"}
    BY <1>1 DEF ReadEvent, HandleEntry, Done
  <2> QED
    BY <2>1 DEF mpc
<1>2. CASE Execute
  BY <1>2, ExecuteMpc
<1>3. CASE MpcSend
  <2>1. /\ pc = "mpc_send" /\ pc' = "mpc_finish" /\ conn' = conn /\ mpd' = mpd
        /\ arrived' = (conn = "open" /\ mpd = "up") /\ broke' = (mpd # "up")
    BY <1>3 DEF MpcSend
  <2>2. arrived' \in BOOLEAN /\ broke' \in BOOLEAN
    BY <2>1
  <2>3. (arrived' = TRUE <=> conn = "open" /\ mpd = "up") /\ (broke' = TRUE <=> mpd # "up")
    BY <2>1
  <2> QED
    BY <2>1, <2>2, <2>3
<1>4. CASE MpcFinish
  BY <1>4 DEF MpcFinish
<1>5. ASSUME NEW t \in Threads, HandleMsg(t) \/ ScriptCall(t) \/ ScriptEnd(t) PROVE MpcInv'
  <2>1. UNCHANGED mpc /\ pc' \in {pc, "abort"}
    <3>1. CASE HandleMsg(t)
      BY <3>1 DEF HandleMsg
    <3>2. CASE ScriptEnd(t)
      BY <3>2 DEF ScriptEnd
    <3>3. CASE ScriptCall(t)
      BY <3>3 DEF ScriptCall
    <3> QED
      BY <1>5, <3>1, <3>2, <3>3
  <2> QED
    BY <2>1 DEF mpc
<1>6. ASSUME NEW r \in requests, CurlThread(r) PROVE MpcInv'
  BY <1>6 DEF CurlThread, mpc
<1>7. ASSUME NEW e \in InputEvents, DeviceEvent(e) PROVE MpcInv'
  BY <1>7 DEF DeviceEvent, mpc
<1>8. ASSUME NEW list \in Triggers, Trigger(list) PROVE MpcInv'
  BY <1>8 DEF Trigger, mpc
<1>9. CASE MpdTrouble
  BY <1>9 DEF MpdTrouble
<1>10. CASE MpdBack
  BY <1>10 DEF MpdBack
<1>11. CASE UNCHANGED vars
  BY <1>11 DEF vars, mpc
<1> QED
  BY <1>1, <1>2, <1>3, <1>4, <1>5, <1>6, <1>7, <1>8, <1>9, <1>10, <1>11 DEF Next, Main

(* A command for MPD that does not arrive, and is taken for a success      *)
(* (action_mpc), has cost a break of the connection since the mpc action   *)
(* before: no connection that is gone is used twice.                       *)
THEOREM OneLossCorrect == Spec => OneLossPerBreak
<1>1. MpcInv /\ [Next]_vars => [pc = "mpc_send" /\ pc' = "mpc_finish" /\ ~arrived' => broke]_vars
  <2> SUFFICES ASSUME MpcInv, Next, pc = "mpc_send", pc' = "mpc_finish", ~arrived' PROVE broke
    OBVIOUS
  <2>1. CASE MpcSend
    BY <2>1 DEF MpcSend, MpcInv
  <2>2. ~ReadEvent /\ ~HandleEntry /\ ~Execute /\ ~MpcFinish /\ ~Done
    BY DEF ReadEvent, HandleEntry, Execute, MpcFinish, Done
  <2>3. ASSUME NEW t \in Threads, HandleMsg(t) \/ ScriptCall(t) \/ ScriptEnd(t) PROVE FALSE
    <3>1. pc' \in {pc, "abort"}
      BY <2>3 DEF HandleMsg, ScriptCall, ScriptEnd
    <3> QED
      BY <3>1
  <2>4. ~(\E r \in requests : CurlThread(r)) /\ ~(\E e \in InputEvents : DeviceEvent(e))
        /\ ~(\E list \in Triggers : Trigger(list)) /\ ~MpdTrouble /\ ~MpdBack
    BY DEF CurlThread, DeviceEvent, Trigger, MpdTrouble, MpdBack
  <2> QED
    BY <2>1, <2>2, <2>3, <2>4 DEF Next, Main
<1> QED
  BY <1>1, MpcInit, MpcStep, PTL DEF Spec, OneLossPerBreak

-----------------------------------------------------------------------------
(* Input events.                                                           *)

(* Type and code of an event.                                              *)
KindOf(e) == <<e.type, e.code>>

(* The entries of a device, as they are read from the configuration.       *)
LEMMA EntriesOk ==
    ASSUME config = config_read(Installation), NEW d \in Devices
    PROVE  /\ Len(Entries(d)) \in Nat
           /\ DOMAIN Entries(d) = 1..Len(Entries(d))
           /\ \A i \in DOMAIN Entries(d) : EntryOk(Entries(d)[i])
<1>1. ConfigOk(config)
  BY ConfigReadOk, EventsAssumption
<1>2. PICK D : config.input_devices \in Seq(D) /\ \A dev \in D : DeviceOk(dev)
  BY <1>1 DEF ConfigOk
<1>3. DeviceOk(config.input_devices[d])
  BY <1>2 DEF Devices
<1>4. PICK S : Entries(d) \in Seq(S) /\ \A e \in S : EntryOk(e)
  BY <1>3 DEF DeviceOk, Entries
<1> QED
  BY <1>4

(* At most one entry is the first with a code.                             *)
LEMMA FirstIsUnique ==
    ASSUME config = config_read(Installation), NEW d \in Devices, NEW code,
           NEW i \in DOMAIN Entries(d), FirstWith(d, code, i)
    PROVE  input_ev_get_state(d, code) = states[d][i]
<1>1. DOMAIN Entries(d) = 1..Len(Entries(d)) /\ Len(Entries(d)) \in Nat
  BY EntriesOk
<1>2. \A j \in DOMAIN Entries(d) : FirstWith(d, code, j) => j = i
  <2> SUFFICES ASSUME NEW j \in DOMAIN Entries(d), FirstWith(d, code, j) PROVE j = i
    OBVIOUS
  <2>1. i \in Nat /\ j \in Nat /\ 1 <= i /\ 1 <= j
    BY <1>1
  <2>2. ~(i < j) /\ ~(j < i)
    BY <2>1 DEF FirstWith
  <2> QED
    BY <2>1, <2>2
<1>3. (CHOOSE j \in DOMAIN Entries(d) : FirstWith(d, code, j)) = i
  BY <1>2
<1> QED
  BY <1>3 DEF input_ev_get_state

(* Is event e still to come to entry i of device d?                        *)
Pending(d, k, i) ==
    /\ current # <<>> /\ current.ev.device = d
    /\ KindOf(current.ev) = k /\ current.i <= i

(* Entry i of device d is the one that is read for kind k and keeps its    *)
(* value.                                                                  *)
Tracker(d, k, i) ==
    /\ FirstWith(d, k[2], i) /\ Entries(d)[i].type = k[1] /\ k[1] \in HandledTypes
    /\ Entries(d)[i].value_match = "MATCH_ALL"

(* What is kept of the input devices; an event is handled only while the   *)
(* main thread does so.                                                    *)
InputInv ==
    /\ config = config_read(Installation)
    /\ queue \in Seq(InputEvents)
    /\ current = <<>> \/ current \in [ev : InputEvents, i : Nat \ {0}, subscribed : BOOLEAN]
    /\ DOMAIN states = Devices /\ \A d \in Devices : DOMAIN states[d] = DOMAIN Entries(d)
    /\ DOMAIN last = Devices /\ \A d \in Devices : DOMAIN last[d] = Kinds
    /\ pc = "loop" => current = <<>>

(* The event that is handled is the last of its kind.                      *)
CurrentInv == current # <<>> => last[current.ev.device][KindOf(current.ev)] = current.ev.value

(* The entry that is read for a kind has its last value, unless the event  *)
(* has still to come to it.                                                *)
TrackInv ==
    \A d \in Devices, k \in Kinds : \A i \in DOMAIN Entries(d) :
        Tracker(d, k, i) /\ ~Pending(d, k, i) => states[d][i] = last[d][k]

(* A current event is not none.                                            *)
LEMMA RecordIsNot ==
    ASSUME NEW e, NEW i, NEW s PROVE [ev |-> e, i |-> i, subscribed |-> s] # <<>>
<1>1. DOMAIN [ev |-> e, i |-> i, subscribed |-> s] = {"ev", "i", "subscribed"}
  OBVIOUS
<1>2. DOMAIN <<>> = {}
  OBVIOUS
<1> QED
  BY <1>1, <1>2, Zenon

(* At the start every state and every last value is 0.                     *)
LEMMA InputInit == Init => InputInv /\ CurrentInv /\ TrackInv
<1> SUFFICES ASSUME Init PROVE InputInv /\ CurrentInv /\ TrackInv
  OBVIOUS
<1>1. InputInv
  BY DEF Init, InputInv, Devices
<1>2. CurrentInv
  BY DEF Init, CurrentInv
<1>3. TrackInv
  <2> SUFFICES ASSUME NEW d \in Devices, NEW k \in Kinds, NEW i \in DOMAIN Entries(d)
               PROVE  states[d][i] = last[d][k]
    BY DEF TrackInv
  <2>1. config = config_read(Installation)
    BY DEF Init
  <2>2. Entries(d)[i].state = 0
    BY <2>1, EntriesOk DEF EntryOk
  <2>3. states[d][i] = Entries(d)[i].state /\ last[d][k] = 0
    BY DEF Init
  <2> QED
    BY <2>2, <2>3
<1> QED
  BY <1>1, <1>2, <1>3

(* The steps that leave the input devices alone.                           *)
LEMMA InputKept ==
    ASSUME InputInv, CurrentInv, TrackInv,
           UNCHANGED <<config, current, states, last>>, queue' \in Seq(InputEvents),
           pc' = "loop" => pc = "loop"
    PROVE  InputInv' /\ CurrentInv' /\ TrackInv'
<1>1. InputInv'
  BY DEF InputInv, Devices, Entries, Kinds
<1>2. CurrentInv'
  BY DEF CurrentInv, KindOf
<1>3. TrackInv'
  BY DEF TrackInv, Tracker, Pending, KindOf, FirstWith, Devices, Entries, Kinds
<1> QED
  BY <1>1, <1>2, <1>3

(* An event is read: its kind is pending at all entries.                   *)
LEMMA ReadEventInput ==
    ASSUME InputInv, TrackInv, ReadEvent
    PROVE  InputInv' /\ CurrentInv' /\ TrackInv'
<1> DEFINE e == Head(queue)
<1>1. /\ queue \in Seq(InputEvents) /\ queue # <<>> /\ current = <<>>
      /\ config = config_read(Installation)
  BY DEF InputInv, ReadEvent
<1>2. e \in InputEvents /\ queue' \in Seq(InputEvents)
  BY <1>1 DEF ReadEvent
<1> HIDE DEF e
<1>3. e.device \in Devices /\ KindOf(e) \in Kinds
  BY <1>1, <1>2, EventsAssumption DEF Devices, Kinds, KindOf
<1>4. /\ last' = [last EXCEPT ![e.device][KindOf(e)] = e.value]
      /\ UNCHANGED <<config, states>>
      /\ \/ /\ e.type \in HandledTypes /\ pc' = "run"
            /\ current' = [ev |-> e, i |-> 1, subscribed |-> FALSE]
         \/ e.type \notin HandledTypes /\ UNCHANGED <<current, pc>>
  BY DEF ReadEvent, e, KindOf
<1>5. /\ DOMAIN last = Devices /\ \A d \in Devices : DOMAIN last[d] = Kinds
  BY DEF InputInv
<1>6. /\ DOMAIN last' = Devices /\ \A d \in Devices : DOMAIN last'[d] = Kinds
      /\ last'[e.device][KindOf(e)] = e.value
      /\ \A d \in Devices, k \in Kinds : d # e.device \/ k # KindOf(e) => last'[d][k] = last[d][k]
  BY <1>3, <1>4, <1>5
<1>7. Devices' = Devices /\ Kinds' = Kinds /\ \A d : Entries(d)' = Entries(d)
  BY <1>4 DEF Devices, Kinds, Entries
<1>8. InputInv'
  <2>1. current' = <<>> \/ current' \in [ev : InputEvents, i : Nat \ {0}, subscribed : BOOLEAN]
    <3>1. CASE e.type \in HandledTypes
      <4>1. current' = [ev |-> e, i |-> 1, subscribed |-> FALSE]
        BY <1>4, <3>1
      <4> QED
        BY <1>2, <4>1
    <3>2. CASE e.type \notin HandledTypes
      BY <1>1, <1>4, <3>2
    <3> QED
      BY <3>1, <3>2
  <2>2. pc' = "loop" => current' = <<>>
    BY <1>1, <1>4
  <2>3. (DOMAIN states = Devices /\ \A d \in Devices : DOMAIN states[d] = DOMAIN Entries(d))'
    BY <1>4, <1>7 DEF InputInv
  <2>4. (DOMAIN last = Devices /\ \A d \in Devices : DOMAIN last[d] = Kinds)'
    BY <1>6, <1>7
  <2> QED
    BY <1>1, <1>2, <1>4, <2>1, <2>2, <2>3, <2>4 DEF InputInv
<1>9. CurrentInv'
  <2>1. CASE e.type \in HandledTypes
    <3>1. current' = [ev |-> e, i |-> 1, subscribed |-> FALSE]
      BY <1>4, <2>1
    <3>2. current'.ev = e
      BY <3>1
    <3> QED
      BY <1>6, <3>2 DEF CurrentInv, KindOf
  <2>2. CASE e.type \notin HandledTypes
    BY <1>1, <1>4, <2>2 DEF CurrentInv
  <2> QED
    BY <2>1, <2>2
<1>10. TrackInv'
  <2> SUFFICES ASSUME NEW d \in Devices, NEW k \in Kinds, NEW i \in DOMAIN Entries(d),
                      Tracker(d, k, i), ~Pending(d, k, i)'
               PROVE  states[d][i] = last'[d][k]
    BY <1>4, <1>7 DEF TrackInv, Tracker, FirstWith
  <2>1. states[d][i] = last[d][k]
    BY <1>1 DEF TrackInv, Pending
  <2>2. CASE d # e.device \/ k # KindOf(e)
    BY <1>6, <2>1, <2>2
  <2>3. CASE d = e.device /\ k = KindOf(e)
    <3>1. k[1] = e.type
      BY <2>3 DEF KindOf
    <3>2. current' = [ev |-> e, i |-> 1, subscribed |-> FALSE]
      BY <1>4, <3>1 DEF Tracker
    <3>3. current' # <<>>
      BY <3>2, RecordIsNot
    <3>4. 1 <= i
      BY <1>1, EntriesOk
    <3>5. current'.ev = e /\ current'.i = 1
      BY <3>2
    <3>6. Pending(d, k, i)'
      BY <2>3, <3>3, <3>4, <3>5 DEF Pending, KindOf
    <3> QED
      BY <3>6
  <2> QED
    BY <2>2, <2>3
<1> QED
  BY <1>8, <1>9, <1>10

(* The event comes to an entry; if the entry is the one that is read for   *)
(* its kind it takes the value, and only then.                             *)
LEMMA HandleEntryInput ==
    ASSUME InputInv, CurrentInv, TrackInv, HandleEntry
    PROVE  InputInv' /\ CurrentInv' /\ TrackInv'
<1> DEFINE d0 == current.ev.device
           n == current.i
           hit == check_event(Entries(d0)[n], current.ev)
<1>1. /\ current \in [ev : InputEvents, i : Nat \ {0}, subscribed : BOOLEAN]
      /\ config = config_read(Installation) /\ queue \in Seq(InputEvents) /\ current # <<>>
  BY DEF InputInv, HandleEntry
<1>2. d0 \in Devices /\ KindOf(current.ev) \in Kinds /\ n \in Nat \ {0}
  BY <1>1, EventsAssumption DEF Devices, Kinds, KindOf
<1>3. n \in DOMAIN Entries(d0)
  BY <1>1, <1>2, EntriesOk DEF HandleEntry
<1>4. /\ states' = IF hit THEN [states EXCEPT ![d0][n] = current.ev.value] ELSE states
      /\ current' = [current EXCEPT !.i = @ + 1, !.subscribed = @ \/ hit]
      /\ UNCHANGED <<config, queue, last, pc>> /\ pc = "run"
  BY DEF HandleEntry
<1>5. hit \in BOOLEAN
  BY DEF check_event
<1> HIDE DEF hit
<1>6. /\ current'.ev = current.ev /\ current'.i = n + 1
      /\ current' \in [ev : InputEvents, i : Nat \ {0}, subscribed : BOOLEAN]
  <2>1. current.i + 1 \in Nat \ {0} /\ (current.subscribed \/ hit) \in BOOLEAN
    BY <1>2
  <2>2. current' = [ev |-> current.ev, i |-> current.i + 1,
                    subscribed |-> current.subscribed \/ hit]
    BY <1>1, <1>4
  <2>3. current.ev \in InputEvents
    BY <1>1
  <2> QED
    BY <2>1, <2>2, <2>3
<1>7. current' # <<>>
  <2>1. current' = [ev |-> current'.ev, i |-> current'.i, subscribed |-> current'.subscribed]
    BY <1>6
  <2> QED
    BY <2>1, RecordIsNot
<1>8. Devices' = Devices /\ Kinds' = Kinds /\ \A d : Entries(d)' = Entries(d)
  BY <1>4 DEF Devices, Kinds, Entries
<1>9. /\ DOMAIN states = Devices /\ \A d \in Devices : DOMAIN states[d] = DOMAIN Entries(d)
  BY DEF InputInv
<1>10. /\ DOMAIN states' = Devices /\ \A d \in Devices : DOMAIN states'[d] = DOMAIN Entries(d)
       /\ \A d \in Devices : \A i \in DOMAIN Entries(d) :
             d # d0 \/ i # n \/ ~hit => states'[d][i] = states[d][i]
       /\ hit => states'[d0][n] = current.ev.value
  BY <1>2, <1>3, <1>4, <1>9
<1>11. InputInv'
  <2>1. (DOMAIN last = Devices /\ \A d \in Devices : DOMAIN last[d] = Kinds)'
    BY <1>4, <1>8 DEF InputInv
  <2>2. (DOMAIN states = Devices /\ \A d \in Devices : DOMAIN states[d] = DOMAIN Entries(d))'
    BY <1>8, <1>10
  <2>3. pc' # "loop"
    BY <1>4
  <2> QED
    BY <1>1, <1>4, <1>6, <2>1, <2>2, <2>3 DEF InputInv
<1>12. CurrentInv'
  BY <1>1, <1>4, <1>6, <1>7 DEF CurrentInv, KindOf
<1>13. TrackInv'
  <2> SUFFICES ASSUME NEW d \in Devices, NEW k \in Kinds, NEW i \in DOMAIN Entries(d),
                      Tracker(d, k, i), ~Pending(d, k, i)'
               PROVE  states'[d][i] = last[d][k]
    BY <1>4, <1>8 DEF TrackInv, Tracker, FirstWith
  <2>1. i \in Nat /\ EntryOk(Entries(d)[i])
    BY <1>1, EntriesOk
  <2>2. CASE d # d0 \/ k # KindOf(current.ev)
    <3>1. states[d][i] = last[d][k]
      BY <2>2 DEF TrackInv, Pending
    <3>2. d # d0 \/ i # n \/ ~hit
      <4> SUFFICES ASSUME d = d0, i = n, hit PROVE FALSE
        OBVIOUS
      <4>1. /\ Entries(d)[i].type = current.ev.type
            /\ Entries(d)[i].code_match = "MATCH_VALUE" => Entries(d)[i].code = current.ev.code
        BY DEF hit, check_event
      <4>2. /\ Entries(d)[i].type = k[1] /\ Entries(d)[i].code = k[2]
        BY DEF Tracker, FirstWith
      <4>3. k[2] \in 0..KEY_MAX /\ k = <<k[1], k[2]>>
        BY EventsAssumption DEF Kinds
      <4>4. Entries(d)[i].code_match = "MATCH_VALUE"
        BY <2>1, <4>2, <4>3 DEF EntryOk, KEY_MAX, KEY_CNT
      <4>5. k = KindOf(current.ev)
        BY <4>1, <4>2, <4>3, <4>4 DEF KindOf
      <4> QED
        BY <2>2, <4>5
    <3> QED
      BY <1>10, <3>1, <3>2
  <2>3. CASE d = d0 /\ k = KindOf(current.ev)
    <3>1. i <= n
      BY <1>2, <1>6, <1>7, <2>1, <2>3 DEF Pending, KindOf
    <3>2. CASE i < n
      <4>1. states[d][i] = last[d][k]
        BY <1>2, <2>1, <3>2 DEF TrackInv, Pending
      <4>2. i # n
        BY <1>2, <2>1, <3>2
      <4> QED
        BY <1>10, <4>1, <4>2
    <3>3. CASE i = n
      <4>1. k[1] = current.ev.type /\ k[2] = current.ev.code
        BY <2>3 DEF KindOf
      <4>2. hit
        BY <2>3, <3>3, <4>1 DEF hit, check_event, Tracker, FirstWith
      <4>3. states'[d][i] = current.ev.value
        BY <1>10, <2>3, <3>3, <4>2
      <4>4. last[d][k] = current.ev.value
        BY <1>1, <2>3 DEF CurrentInv
      <4> QED
        BY <4>3, <4>4
    <3> QED
      BY <1>2, <2>1, <3>1, <3>2, <3>3
  <2> QED
    BY <2>2, <2>3
<1> QED
  BY <1>11, <1>12, <1>13

(* All entries have been passed: nothing is pending any more.              *)
LEMMA DoneInput ==
    ASSUME InputInv, TrackInv, Done
    PROVE  InputInv' /\ CurrentInv' /\ TrackInv'
<1>1. UNCHANGED <<config, queue, states, last>> /\ current' = <<>>
  BY DEF Done
<1>2. Devices' = Devices /\ Kinds' = Kinds /\ \A d : Entries(d)' = Entries(d)
  BY <1>1 DEF Devices, Kinds, Entries
<1>3. InputInv'
  BY <1>1, <1>2 DEF InputInv
<1>4. CurrentInv'
  BY <1>1 DEF CurrentInv
<1>5. TrackInv'
  <2> SUFFICES ASSUME NEW d \in Devices, NEW k \in Kinds, NEW i \in DOMAIN Entries(d),
                      Tracker(d, k, i)
               PROVE  states[d][i] = last[d][k]
    BY <1>1, <1>2 DEF TrackInv, Tracker, FirstWith
  <2>1. ~Pending(d, k, i)
    <3> SUFFICES ASSUME Pending(d, k, i) PROVE FALSE
      OBVIOUS
    <3>1. /\ current \in [ev : InputEvents, i : Nat \ {0}, subscribed : BOOLEAN]
          /\ config = config_read(Installation) /\ current.ev.device = d /\ current.i <= i
      BY DEF InputInv, Pending
    <3>2. current.i > Len(Entries(d))
      BY <3>1 DEF Done, Pending
    <3>3. i \in 1..Len(Entries(d)) /\ Len(Entries(d)) \in Nat
      BY <3>1, EntriesOk
    <3>4. current.i \in Nat
      BY <3>1
    <3> QED
      BY <3>1, <3>2, <3>3, <3>4
  <2> QED
    BY <2>1 DEF TrackInv
<1> QED
  BY <1>3, <1>4, <1>5

(* Only events, and the main thread's handling of them, change what is     *)
(* known of the input devices.                                             *)
LEMMA OthersKeepInput ==
    ASSUME \/ Execute \/ MpcSend \/ MpcFinish
           \/ \E t \in Threads : HandleMsg(t) \/ ScriptCall(t) \/ ScriptEnd(t)
           \/ \E r \in requests : CurlThread(r)
           \/ MpdTrouble \/ MpdBack \/ UNCHANGED vars
    PROVE  UNCHANGED input /\ (pc' = "loop" => pc = "loop")
<1>1. CASE Execute
  <2>1. pc' \in {"run", "mpc_send", "abort"}
    BY <1>1, ExecuteMpc
  <2> QED
    BY <1>1, <2>1 DEF Execute
<1>2. CASE MpcSend \/ MpcFinish \/ MpdTrouble \/ MpdBack
  BY <1>2 DEF MpcSend, MpcFinish, MpdTrouble, MpdBack
<1>3. ASSUME NEW t \in Threads, HandleMsg(t) \/ ScriptCall(t) \/ ScriptEnd(t)
      PROVE  UNCHANGED input /\ (pc' = "loop" => pc = "loop")
  <2>1. CASE HandleMsg(t)
    BY <2>1 DEF HandleMsg
  <2>2. CASE ScriptCall(t)
    BY <2>2 DEF ScriptCall
  <2>3. CASE ScriptEnd(t)
    BY <2>3 DEF ScriptEnd
  <2> QED
    BY <1>3, <2>1, <2>2, <2>3
<1>4. ASSUME NEW r \in requests, CurlThread(r)
      PROVE  UNCHANGED input /\ (pc' = "loop" => pc = "loop")
  BY <1>4 DEF CurlThread
<1>5. CASE UNCHANGED vars
  BY <1>5 DEF vars
<1> QED
  BY <1>1, <1>2, <1>3, <1>4, <1>5

(* Every step keeps the three invariants of the input devices.             *)
LEMMA InputStep ==
    ASSUME InputInv, CurrentInv, TrackInv, [Next]_vars
    PROVE  InputInv' /\ CurrentInv' /\ TrackInv'
<1>1. CASE ReadEvent \/ HandleEntry \/ Done
  BY <1>1, ReadEventInput, HandleEntryInput, DoneInput
<1>2. ASSUME UNCHANGED input, pc' = "loop" => pc = "loop"
      PROVE  InputInv' /\ CurrentInv' /\ TrackInv'
  <2>1. UNCHANGED <<config, current, states, last>> /\ queue' \in Seq(InputEvents)
    BY <1>2 DEF input, InputInv
  <2> QED
    BY <1>2, <2>1, InputKept
<1>3. ASSUME NEW e \in InputEvents, DeviceEvent(e)
      PROVE  InputInv' /\ CurrentInv' /\ TrackInv'
  <2>1. UNCHANGED <<config, current, states, last>> /\ queue' \in Seq(InputEvents) /\ pc' = pc
    BY <1>3 DEF DeviceEvent, InputInv
  <2> QED
    BY <2>1, InputKept
<1>4. ASSUME NEW list \in Triggers, Trigger(list)
      PROVE  InputInv' /\ CurrentInv' /\ TrackInv'
  <2>1. UNCHANGED <<config, current, states, last>> /\ queue' \in Seq(InputEvents) /\ pc' = "run"
    BY <1>4 DEF Trigger, InputInv
  <2> QED
    BY <2>1, InputKept
<1> QED
  BY <1>1, <1>2, <1>3, <1>4, OthersKeepInput DEF Next, Main

(* What inputEvGet reads is the state of the entry.                        *)
LEMMA TracksIs == InputInv /\ TrackInv => InputStateTracks
<1> SUFFICES ASSUME InputInv, TrackInv,
                    NEW d \in Devices, NEW k \in Kinds, NEW i \in DOMAIN Entries(d),
                    Tracker(d, k, i), ~Pending(d, k, i)
             PROVE  input_ev_get_state(d, k[2]) = last[d][k]
  BY Zenon DEF InputStateTracks, Tracker, Pending, KindOf
<1>1. config = config_read(Installation) /\ FirstWith(d, k[2], i)
  BY DEF InputInv, Tracker
<1>2. input_ev_get_state(d, k[2]) = states[d][i]
  BY <1>1, FirstIsUnique
<1>3. states[d][i] = last[d][k]
  BY DEF TrackInv
<1> QED
  BY <1>2, <1>3

(* inputEvGet reads the value of the last event of a type and code         *)
(* (input_ev_get_state), for every configuration file: an event of another *)
(* type with the same code, or of another device, never gets into the      *)
(* entry that is read.                                                     *)
THEOREM TracksCorrect == Spec => []InputStateTracks
<1>1. InputInv /\ CurrentInv /\ TrackInv /\ [Next]_vars => InputInv' /\ CurrentInv' /\ TrackInv'
  BY InputStep
<1> QED
  BY <1>1, InputInit, TracksIs, PTL DEF Spec

-----------------------------------------------------------------------------
(* The type invariant.                                                     *)

(* Every event is in the queue, or handled, or has been told to the        *)
(* clients at most once.                                                   *)
Counted ==
    /\ enqueued \in Nat /\ events \in 0..EventsMax
    /\ enqueued + Len(queue) + (IF current = <<>> THEN 0 ELSE 1) <= events

(* In its loop the main thread has nothing left to do; it waits for MPD    *)
(* with the action at hand.                                                *)
WorkInv ==
    /\ pc = "loop" => work = <<>>
    /\ pc \in {"mpc_send", "mpc_finish"} => work # <<>>

(* Every step keeps the count of events.                                   *)
LEMMA CountedStep ==
    ASSUME InputInv, Counted, [Next]_vars
    PROVE  Counted'
<1>0. queue \in Seq(InputEvents) /\ Len(queue) \in Nat
  BY DEF InputInv
<1> USE <1>0, EventsAssumption DEF Counted
<1>1. CASE ReadEvent
  <2>1. current = <<>> /\ queue # <<>> /\ queue' = Tail(queue) /\ UNCHANGED <<enqueued, events>>
    BY <1>1 DEF ReadEvent, InputInv
  <2>2. Len(queue') = Len(queue) - 1
    BY <2>1
  <2> QED
    BY <2>1, <2>2
<1>2. CASE HandleEntry
  <2>1. current # <<>> /\ UNCHANGED <<queue, enqueued, events>>
    BY <1>2 DEF HandleEntry
  <2> QED
    BY <2>1
<1>3. CASE Done
  <2>1. current' = <<>> /\ UNCHANGED <<queue, events>>
    BY <1>3 DEF Done
  <2>2. \/ current # <<>> /\ enqueued' \in {enqueued, enqueued + 1}
        \/ current = <<>> /\ enqueued' = enqueued
    BY <1>3 DEF Done
  <2> QED
    BY <2>1, <2>2
<1>4. ASSUME UNCHANGED input PROVE Counted'
  BY <1>4 DEF input
<1>5. ASSUME NEW e \in InputEvents, DeviceEvent(e) PROVE Counted'
  <2>1. /\ queue' = Append(queue, e) /\ UNCHANGED <<current, enqueued>>
        /\ events < EventsMax /\ events' = events + 1
    BY <1>5 DEF DeviceEvent
  <2>2. Len(queue') = Len(queue) + 1
    BY <2>1
  <2> QED
    BY <2>1, <2>2
<1>6. ASSUME NEW list \in Triggers, Trigger(list) PROVE Counted'
  <2>1. events < EventsMax /\ events' = events + 1 /\ UNCHANGED <<queue, current, enqueued>>
    BY <1>6 DEF Trigger
  <2> QED
    BY <2>1
<1> QED
  BY <1>1, <1>2, <1>3, <1>4, <1>5, <1>6, OthersKeepInput DEF Next, Main

(* The action that waits for MPD is still the first of the work.           *)
LEMMA ExecuteWork ==
    ASSUME Execute, pc' = "mpc_send"
    PROVE  work' # <<>>
<1>1. pc = "run" /\ work # <<>>
  BY DEF Execute
<1>2. ASSUME NEW o, MpcRefused(o) \/ MpcConnect(o) PROVE work' # <<>>
  BY <1>1, <1>2 DEF MpcRefused, MpcConnect
<1>3. ~Abort /\ ~UNCHANGED <<pc, mpc>> /\ \A o : ~action_lua_sync(o)
  BY <1>1 DEF Abort, action_lua_sync
<1>4. ASSUME NEW c, LuaCall(c) PROVE work' # <<>>
  <2>1. CASE c.fn \notin Registered("sync")
    BY <1>3, <1>4, <2>1 DEF LuaCall, Registered, MainFunctions
  <2>2. CASE c.fn \in Registered("sync") /\ c.fn = "mpc" /\ ArgsOk(c)
    BY <1>2, <1>4, <2>2, Zenon DEF LuaCall
  <2>3. CASE c.fn \in Registered("sync") /\ ~(c.fn = "mpc" /\ ArgsOk(c))
    BY <1>3, <1>4, <2>3, Zenon DEF LuaCall
  <2> QED
    BY <2>1, <2>2, <2>3
<1>5. ASSUME NEW a, action_execute(a) PROVE work' # <<>>
  <2>1. CASE a.action = "MPC"
    BY <1>2, <1>5, <2>1, Zenon DEF action_execute
  <2>2. CASE a.action = "LUA"
    BY <1>3, <1>5, <2>2, Zenon DEF action_execute
  <2>3. CASE a.action # "MPC" /\ a.action # "LUA"
    BY <1>3, <1>5, <2>3, Zenon DEF action_execute
  <2> QED
    BY <2>1, <2>2, <2>3
<1> QED
  BY <1>4, <1>5, Zenon DEF Execute

(* Every step but those of the main thread leaves its work alone.          *)
LEMMA WorkStep == WorkInv /\ [Next]_vars => WorkInv'
<1> SUFFICES ASSUME WorkInv, [Next]_vars PROVE WorkInv'
  OBVIOUS
<1>1. CASE ReadEvent
  BY <1>1 DEF ReadEvent, WorkInv
<1>2. CASE HandleEntry
  BY <1>2 DEF HandleEntry, WorkInv
<1>3. CASE Done
  BY <1>3 DEF Done, WorkInv
<1>4. CASE Execute
  <2>1. pc' = "mpc_send" => work' # <<>>
    BY <1>4, ExecuteWork
  <2> QED
    BY <1>4, <2>1, ExecuteMpc DEF WorkInv
<1>5. CASE MpcSend \/ MpcFinish \/ MpdTrouble \/ MpdBack
  BY <1>5 DEF MpcSend, MpcFinish, MpdTrouble, MpdBack, WorkInv
<1>6. ASSUME NEW t \in Threads, HandleMsg(t) \/ ScriptCall(t) \/ ScriptEnd(t) PROVE WorkInv'
  <2>1. work' = work /\ pc' \in {pc, "abort"}
    BY <1>6 DEF HandleMsg, ScriptCall, ScriptEnd
  <2> QED
    BY <2>1 DEF WorkInv
<1>7. ASSUME NEW r \in requests, CurlThread(r) PROVE WorkInv'
  BY <1>7 DEF CurlThread, WorkInv
<1>8. ASSUME NEW e \in InputEvents, DeviceEvent(e) PROVE WorkInv'
  BY <1>8 DEF DeviceEvent, WorkInv
<1>9. ASSUME NEW list \in Triggers, Trigger(list) PROVE WorkInv'
  BY <1>9 DEF Trigger, WorkInv
<1>10. CASE UNCHANGED vars
  BY <1>10 DEF vars, WorkInv
<1> QED
  BY <1>1, <1>2, <1>3, <1>4, <1>5, <1>6, <1>7, <1>8, <1>9, <1>10 DEF Next, Main

(* What an action or a call of a Lua function may do to the output GPIOs,  *)
(* the processes and the result.                                           *)
Gpio ==
    \E g : \/ GpioOp(g, "blink", "") \/ GpioOp(g, "toggle", "")
           \/ \E str : GpioOp(g, "set", parse_gpio_value(str))

Task ==
    \/ Gpio /\ UNCHANGED procs
    \/ action_system_async
    \/ \E m, u, t, p : action_http2_async(m, u, t, p)
    \/ \E o : action_lua_async(o)
    \/ UNCHANGED <<outputs, procs>> /\ (ret' = ret \/ Result(ret'))

(* The results without values.                                             *)
LEMMA PlainResults == Result(<<>>) /\ Result(<<TRUE>>) /\ Result(<<FALSE>>)
  BY DEF Result

(* A call that fails.                                                      *)
LEMMA RefuseTask == ASSUME Refuse PROVE Task
<1>1. UNCHANGED <<outputs, procs>> /\ Result(ret')
  BY PlainResults DEF Refuse, Fail
<1> QED
  BY <1>1 DEF Task

(* The functions that run in the main thread for Lua.                      *)
LEMMA MainCallIs ==
    ASSUME NEW c, c.fn \in MainFunctions, MainCall(c)
    PROVE  Gpio \/ (UNCHANGED outputs /\ Result(ret'))
<1> DEFINE v(i) == c.args[i].v
<1>1. ASSUME Fail PROVE UNCHANGED outputs /\ Result(ret')
  BY <1>1, PlainResults DEF Fail
<1>2. CASE ~ArgsOk(c)
  BY <1>1, <1>2, Zenon DEF MainCall
<1>3. CASE ArgsOk(c) /\ c.fn = "gpioBlink"
  <2>1. GpioOp(v(1), "blink", "")
    BY <1>3, Zenon DEF MainCall
  <2> QED
    BY <2>1, Zenon DEF Gpio
<1>4. CASE ArgsOk(c) /\ c.fn = "gpioToggle"
  <2>1. GpioOp(v(1), "toggle", "")
    BY <1>4, Zenon DEF MainCall
  <2> QED
    BY <2>1, Zenon DEF Gpio
<1>5. CASE ArgsOk(c) /\ c.fn = "gpioSet"
  <2>1. Fail \/ GpioOp(v(1), "set", parse_gpio_value(v(2)))
    BY <1>5, Zenon DEF MainCall
  <2> QED
    BY <1>1, <2>1, Zenon DEF Gpio
<1>6. CASE ArgsOk(c) /\ c.fn = "gpioGet"
  <2>1. UNCHANGED outputs /\ \E val : ret' = <<TRUE, lookup_gpio_value[val]>>
    BY <1>6, Zenon DEF MainCall
  <2>2. ret'[1] = TRUE
    BY <2>1
  <2> QED
    BY <2>1, <2>2 DEF Result
<1>7. CASE ArgsOk(c) /\ c.fn = "inputEvGet"
  <2>1. UNCHANGED outputs /\ ret' = lua_input_ev_get(v(1), v(2))
    BY <1>7, Zenon DEF MainCall
  <2>2. ret' = <<FALSE>> \/ \E x : ret' = <<x # UINT_MAX, "value", x>>
    BY <2>1, Zenon DEF lua_input_ev_get
  <2>3. ASSUME NEW x, ret' = <<x # UINT_MAX, "value", x>> PROVE ret'[1] \in BOOLEAN
    <3>1. ret'[1] = (x # UINT_MAX)
      BY <2>3
    <3> QED
      BY <3>1
  <2> QED
    BY <2>1, <2>2, <2>3, PlainResults DEF Result
<1> QED
  BY <1>2, <1>3, <1>4, <1>5, <1>6, <1>7 DEF MainFunctions

(* An mpc action, or one that is not done at all.                          *)
LEMMA MpcTask ==
    ASSUME \/ Abort
           \/ UNCHANGED <<outputs, procs>> /\ \E o : MpcRefused(o) \/ MpcConnect(o)
    PROVE  Task
<1>1. UNCHANGED <<outputs, procs>> /\ (ret' = ret \/ ret' = <<FALSE>>)
  BY DEF Abort, MpcRefused, MpcConnect
<1> QED
  BY <1>1, PlainResults DEF Task

(* A call of a function in the synchronous VM.                             *)
LEMMA LuaCallTask ==
    ASSUME NEW c, LuaCall(c)
    PROVE  Task
<1>1. CASE c.fn \notin Registered("sync")
  <2>1. Abort
    BY <1>1 DEF LuaCall, Registered, MainFunctions
  <2> QED
    BY <2>1, MpcTask
<1>2. CASE c.fn \in Registered("sync") /\ c.fn = "mpc" /\ ArgsOk(c)
  <2>1. UNCHANGED <<outputs, procs>> /\ (MpcRefused(c.args[1].v) \/ MpcConnect(c.args[1].v))
    BY <1>2, Zenon DEF LuaCall
  <2> QED
    BY <2>1, MpcTask
<1>3. CASE c.fn = "mpc" /\ ~ArgsOk(c)
  <2>1. c.fn \in Registered("sync")
    BY <1>3 DEF Registered
  <2>2. Refuse
    BY <1>3, <2>1, Zenon DEF LuaCall
  <2> QED
    BY <2>2, RefuseTask
<1>4. CASE c.fn \in Registered("sync") /\ c.fn # "mpc"
  <2> DEFINE v(i) == c.args[i].v
  <2>1. SyncCall(c)
    BY <1>4, Zenon DEF LuaCall
  <2>2. CASE c.fn \in MainFunctions
    <3>1. MainCall(c) /\ UNCHANGED procs
      BY <2>1, <2>2 DEF SyncCall, MainFunctions
    <3>2. Gpio \/ (UNCHANGED outputs /\ Result(ret'))
      BY <2>2, <3>1, MainCallIs
    <3> QED
      BY <3>1, <3>2 DEF Task
  <2>3. CASE c.fn \notin MainFunctions
    <3>1. c.fn \in {"system", "http", "mympd"}
      BY <1>4, <2>3 DEF Registered
    <3>2. \/ Refuse \/ action_system_async
          \/ action_http2_async(v(1), v(2), v(3), v(4)) \/ action_mympd2_async(v(1), v(2), v(3))
      <4>1. CASE ~ArgsOk(c)
        BY <2>1, <2>3, <4>1, Zenon DEF SyncCall
      <4>2. CASE ArgsOk(c) /\ c.fn = "system"
        BY <2>1, <2>3, <4>2, Zenon DEF SyncCall
      <4>3. CASE ArgsOk(c) /\ c.fn = "http"
        BY <2>1, <2>3, <4>3, Zenon DEF SyncCall
      <4>4. CASE ArgsOk(c) /\ c.fn = "mympd"
        BY <2>1, <2>3, <4>4, Zenon DEF SyncCall
      <4> QED
        BY <3>1, <4>1, <4>2, <4>3, <4>4
    <3> HIDE DEF v
    <3> QED
      BY <3>2, RefuseTask, Zenon DEF Task, action_mympd2_async
  <2> QED
    BY <2>2, <2>3
<1> QED
  BY <1>1, <1>2, <1>3, <1>4

(* An action of the configuration.                                         *)
LEMMA ActionTask ==
    ASSUME NEW a, action_execute(a)
    PROVE  Task
<1> DEFINE o == a.options
<1>1. CASE a.action = "MPC"
  <2>1. UNCHANGED <<outputs, procs>> /\ (MpcRefused(o) \/ MpcConnect(o))
    BY <1>1, Zenon DEF action_execute
  <2> QED
    BY <2>1, MpcTask
<1>2. CASE a.action = "LUA"
  <2>1. action_lua_sync(o)
    BY <1>2, Zenon DEF action_execute
  <2>2. UNCHANGED <<outputs, procs>> /\ ret'[1] \in BOOLEAN
    BY <2>1 DEF action_lua_sync
  <2> QED
    BY <2>2 DEF Task, Result
<1>3. CASE a.action = "GPIO_SET"
  <2>1. action_gpioset(o)
    BY <1>3, Zenon DEF action_execute
  <2>2. Refuse \/ (GpioOp(o[1], "set", parse_gpio_value(o[2])) /\ UNCHANGED procs)
    BY <2>1, Zenon DEF action_gpioset
  <2> QED
    BY <2>2, RefuseTask, Zenon DEF Task, Gpio
<1>4. CASE a.action = "GPIO_TOGGLE"
  <2>1. action_gpiotoggle(o)
    BY <1>4, Zenon DEF action_execute
  <2>2. Refuse \/ (GpioOp(o[1], "toggle", "") /\ UNCHANGED procs)
    BY <2>1, Zenon DEF action_gpiotoggle
  <2> QED
    BY <2>2, RefuseTask, Zenon DEF Task, Gpio
<1>5. CASE a.action = "GPIO_BLINK"
  <2>1. action_gpioblink(o)
    BY <1>5, Zenon DEF action_execute
  <2>2. Refuse \/ (GpioOp(o[1], "blink", "") /\ UNCHANGED procs)
    BY <2>1, Zenon DEF action_gpioblink
  <2> QED
    BY <2>2, RefuseTask, Zenon DEF Task, Gpio
<1>6. CASE a.action = "SYSTEM"
  <2>1. action_system_async \/ Refuse
    BY <1>6, Zenon DEF action_execute
  <2> QED
    BY <2>1, RefuseTask DEF Task
<1>7. CASE a.action = "HTTP"
  <2>1. action_http_async(o)
    BY <1>7, Zenon DEF action_execute
  <2>2. Refuse \/ \E m, u, t, p : action_http2_async(m, u, t, p)
    BY <2>1, Zenon DEF action_http_async
  <2> QED
    BY <2>2, RefuseTask DEF Task
<1>8. CASE a.action = "MYMPD"
  <2>1. action_mympd_async(o)
    BY <1>8, Zenon DEF action_execute
  <2>2. Refuse \/ \E m, u, t, p : action_http2_async(m, u, t, p)
    BY <2>1, Zenon DEF action_mympd_async, action_mympd2_async
  <2> QED
    BY <2>2, RefuseTask DEF Task
<1>9. CASE a.action = "LUA_ASYNC"
  <2>1. action_lua_async(o)
    BY <1>9, Zenon DEF action_execute
  <2> QED
    BY <2>1, Zenon DEF Task
<1>10. CASE a.action \notin {"MPC", "LUA", "GPIO_SET", "GPIO_TOGGLE", "GPIO_BLINK",
                             "SYSTEM", "HTTP", "MYMPD", "LUA_ASYNC"}
  <2>1. /\ a.action # "MPC" /\ a.action # "LUA" /\ a.action # "GPIO_SET"
        /\ a.action # "GPIO_TOGGLE" /\ a.action # "GPIO_BLINK" /\ a.action # "SYSTEM"
        /\ a.action # "HTTP" /\ a.action # "MYMPD" /\ a.action # "LUA_ASYNC"
    BY <1>10
  <2>2. UNCHANGED <<ret, outputs, procs>>
    BY <2>1, Zenon DEF action_execute
  <2> QED
    BY <2>2 DEF Task
<1> QED
  BY <1>1, <1>2, <1>3, <1>4, <1>5, <1>6, <1>7, <1>8, <1>9, <1>10

(* A value that has a name, or none.                                       *)
LEMMA ParsedValue ==
    ASSUME NEW str
    PROVE  parse_gpio_value(str) \in {"ACTIVE", "INACTIVE", "ERROR"}
<1>1. DOMAIN lookup_gpio_value = {"ACTIVE", "INACTIVE", "ERROR"}
  BY DEF lookup_gpio_value
<1>2. parse_gpio_value(str) \in DOMAIN lookup_gpio_value \cup {"ERROR"}
  BY Zenon DEF parse_gpio_value, Spelled
<1> QED
  BY <1>1, <1>2

(* The outputs and the result, after a step that leaves config alone.      *)
OutputsKept ==
    level' \in [Outputs -> {"ACTIVE", "INACTIVE"}] /\ blinking' \subseteq Outputs

(* A level is set to a value that is one, and only an output blinks.       *)
LEMMA GpioKeeps ==
    ASSUME OutputsOK, Gpio
    PROVE  OutputsKept /\ Result(ret')
<1>1. PICK g, op, value : /\ GpioOp(g, op, value)
                          /\ op # "set" \/ value \in {"ACTIVE", "INACTIVE", "ERROR"}
  <2>1. PICK g : \/ GpioOp(g, "blink", "") \/ GpioOp(g, "toggle", "")
                 \/ \E str : GpioOp(g, "set", parse_gpio_value(str))
    BY DEF Gpio
  <2>2. CASE GpioOp(g, "blink", "") \/ GpioOp(g, "toggle", "")
    <3>1. "blink" # "set" /\ "toggle" # "set"
      OBVIOUS
    <3> QED
      BY <2>2, <3>1, Zenon
  <2>3. ASSUME NEW str, GpioOp(g, "set", parse_gpio_value(str))
        PROVE  \E h, op, value : /\ GpioOp(h, op, value)
                                 /\ op # "set" \/ value \in {"ACTIVE", "INACTIVE", "ERROR"}
    BY <2>3, ParsedValue, Zenon
  <2> QED
    BY <2>1, <2>2, <2>3, Zenon
<1>2. Result(ret')
  BY <1>1, PlainResults DEF GpioOp
<1>3. blinking' \subseteq Outputs
  <2>1. blinking' \in {blinking, blinking \ {g}, blinking \cup {g}}
        /\ (g \in Outputs \/ blinking' \in {blinking, blinking \ {g}})
    BY <1>1 DEF GpioOp
  <2> QED
    BY <2>1 DEF OutputsOK
<1>4. level' \in [Outputs -> {"ACTIVE", "INACTIVE"}]
  <2>1. CASE level' = level
    BY <2>1 DEF OutputsOK
  <2>2. CASE /\ g \in Outputs /\ value # "ERROR"
             /\ level' = [level EXCEPT ![g] = IF op = "set" THEN value ELSE Flip(@)]
    BY <1>1, <2>2 DEF OutputsOK, Flip
  <2> QED
    BY <1>1, <2>1, <2>2 DEF GpioOp
<1> QED
  BY <1>2, <1>3, <1>4 DEF OutputsKept

(* The outputs and the result after an action or a call.                   *)
LEMMA TaskKeeps ==
    ASSUME OutputsOK, Result(ret), Task
    PROVE  OutputsKept /\ Result(ret')
<1>1. CASE Gpio
  BY <1>1, GpioKeeps
<1>2. CASE UNCHANGED outputs /\ Result(ret')
  BY <1>2 DEF outputs, OutputsOK, OutputsKept
<1>3. ASSUME Refuse PROVE UNCHANGED outputs /\ Result(ret')
  BY <1>3, PlainResults DEF Refuse, Fail
<1>4. CASE action_system_async
  BY <1>2, <1>3, <1>4, PlainResults DEF action_system_async
<1>5. ASSUME NEW m, NEW u, NEW t, NEW p, action_http2_async(m, u, t, p)
      PROVE  UNCHANGED outputs /\ Result(ret')
  BY <1>3, <1>5, PlainResults DEF action_http2_async
<1>6. ASSUME NEW o, action_lua_async(o) PROVE UNCHANGED outputs /\ Result(ret')
  BY <1>3, <1>6, PlainResults DEF action_lua_async
<1>7. CASE UNCHANGED <<outputs, procs>> /\ (ret' = ret \/ Result(ret'))
  BY <1>2, <1>7
<1> QED
  BY <1>1, <1>2, <1>4, <1>5, <1>6, <1>7 DEF Task

(* No step reads the configuration again.                                  *)
LEMMA ConfigKept == ASSUME [Next]_vars PROVE UNCHANGED config
<1>1. CASE ReadEvent \/ HandleEntry \/ Done
  BY <1>1 DEF ReadEvent, HandleEntry, Done
<1>2. ASSUME NEW e \in InputEvents, DeviceEvent(e) PROVE UNCHANGED config
  BY <1>2 DEF DeviceEvent
<1>3. ASSUME NEW list \in Triggers, Trigger(list) PROVE UNCHANGED config
  BY <1>3 DEF Trigger
<1> QED
  BY <1>1, <1>2, <1>3, OthersKeepInput DEF Next, Main, input

(* Levels are values, only output GPIOs blink, results are results.        *)
LEMMA OutputsStep ==
    ASSUME OutputsOK, Result(ret), [Next]_vars
    PROVE  OutputsOK' /\ Result(ret')
<1>0. UNCHANGED config
  BY ConfigKept
<1>1. SUFFICES OutputsKept /\ Result(ret')
  BY <1>0 DEF OutputsKept, OutputsOK, Outputs
<1>2. ASSUME UNCHANGED outputs, ret' = ret \/ Result(ret') PROVE OutputsKept /\ Result(ret')
  BY <1>2 DEF outputs, OutputsOK, OutputsKept
<1>3. CASE ReadEvent \/ HandleEntry \/ Done
  BY <1>2, <1>3 DEF ReadEvent, HandleEntry, Done
<1>4. CASE Execute
  <2>1. Task
    BY <1>4, LuaCallTask, ActionTask, Zenon DEF Execute
  <2> QED
    BY <2>1, TaskKeeps
<1>5. CASE MpcSend \/ MpcFinish \/ MpdTrouble \/ MpdBack
  BY <1>2, <1>5, PlainResults DEF MpcSend, MpcFinish, MpdTrouble, MpdBack
<1>6. ASSUME NEW t \in Threads, HandleMsg(t) PROVE OutputsKept /\ Result(ret')
  <2>1. MainCall(Call(t)) /\ Call(t).fn \in MainFunctions
    BY <1>6 DEF HandleMsg
  <2> QED
    BY <1>2, <2>1, MainCallIs, GpioKeeps
<1>7. ASSUME NEW t \in Threads, ScriptCall(t) \/ ScriptEnd(t) PROVE OutputsKept /\ Result(ret')
  BY <1>2, <1>7 DEF ScriptCall, ScriptEnd
<1>8. ASSUME NEW r \in requests, CurlThread(r) PROVE OutputsKept /\ Result(ret')
  BY <1>2, <1>8 DEF CurlThread
<1>9. ASSUME NEW e \in InputEvents, DeviceEvent(e) PROVE OutputsKept /\ Result(ret')
  BY <1>2, <1>9 DEF DeviceEvent
<1>10. ASSUME NEW list \in Triggers, Trigger(list) PROVE OutputsKept /\ Result(ret')
  BY <1>2, <1>10 DEF Trigger
<1>11. CASE UNCHANGED vars
  BY <1>2, <1>11 DEF vars
<1> QED
  BY <1>3, <1>4, <1>5, <1>6, <1>7, <1>8, <1>9, <1>10, <1>11 DEF Next, Main

(* A script makes its next call.                                           *)
LEMMA AdvanceOK ==
    ASSUME ProcsOK, NEW t \in Threads, Calling(t), NEW r, Result(r), Advance(t, r),
           UNCHANGED <<config, children, requests, bytecode>>
    PROVE  ProcsOK'
<1>1. Running(scripts[t])
  BY DEF ProcsOK, Calling
<1> DEFINE new == [scripts[t] EXCEPT !.at = @ + 1, !.ret = r]
<1>2. /\ DOMAIN scripts' = Threads
      /\ \A u \in Threads : scripts'[u] = IF u = t THEN new ELSE scripts[u]
  BY DEF Advance, ProcsOK
<1>3. DOMAIN new = DOMAIN NoThread
  BY <1>1 DEF Running
<1>4. new.name = scripts[t].name /\ new.at = scripts[t].at + 1 /\ new.ret = r
  BY <1>1 DEF Running, NoThread
<1> HIDE DEF new
<1>5. new.name \in bytecode /\ new.at \in Nat \ {0}
  BY <1>1, <1>4 DEF Running
<1>6. \A u \in Threads : scripts'[u] = NoThread \/ Running(scripts[u])'
  BY <1>2, <1>3, <1>4, <1>5 DEF ProcsOK, Running
<1> QED
  BY <1>2, <1>6 DEF ProcsOK, get_script_by_name

(* What lua_async starts has been compiled.                                *)
LEMMA LuaAsyncOK ==
    ASSUME ProcsOK, UNCHANGED config, NEW o, action_lua_async(o)
    PROVE  ProcsOK'
<1>1. CASE Refuse
  BY <1>1 DEF Refuse, procs, ProcsOK, Running, get_script_by_name
<1>2. CASE ~Refuse
  <2>1. /\ get_script_by_name(o[1]) # {} /\ UNCHANGED <<children, requests>>
        /\ bytecode' = IF Load(o[1]) THEN bytecode \cup {o[1]} ELSE bytecode
        /\ \/ /\ Load(o[1])
              /\ \E t \in Threads :
                    scripts' = [scripts EXCEPT ![t] = [name |-> o[1], at |-> 1, ret |-> <<>>]]
           \/ UNCHANGED scripts
    BY <1>2 DEF action_lua_async
  <2>2. \A name \in bytecode' : Load(name) /\ get_script_by_name(name) # {}
    BY <2>1 DEF ProcsOK
  <2>3. bytecode \subseteq bytecode'
    BY <2>1
  <2>4. \A t \in Threads : scripts[t] = NoThread \/ (/\ DOMAIN scripts[t] = DOMAIN NoThread
                                                     /\ scripts[t].name \in bytecode'
                                                     /\ scripts[t].at \in Nat \ {0}
                                                     /\ Result(scripts[t].ret))
    BY <2>3 DEF ProcsOK, Running
  <2>5. DOMAIN scripts' = Threads /\ \A t \in Threads : scripts'[t] = NoThread \/ Running(scripts[t])'
    <3>1. CASE UNCHANGED scripts
      BY <2>4, <3>1 DEF ProcsOK, Running
    <3>2. ASSUME NEW t \in Threads, Load(o[1]),
                 scripts' = [scripts EXCEPT ![t] = [name |-> o[1], at |-> 1, ret |-> <<>>]]
          PROVE  /\ DOMAIN scripts' = Threads
                 /\ \A u \in Threads : scripts'[u] = NoThread \/ Running(scripts[u])'
      <4> DEFINE new == [name |-> o[1], at |-> 1, ret |-> <<>>]
      <4>1. /\ DOMAIN scripts' = Threads
            /\ \A u \in Threads : scripts'[u] = IF u = t THEN new ELSE scripts[u]
        BY <3>2 DEF ProcsOK
      <4>2. /\ DOMAIN new = DOMAIN NoThread /\ new.name \in bytecode'
            /\ new.at \in Nat \ {0} /\ Result(new.ret)
        BY <2>1, <3>2, PlainResults DEF NoThread
      <4> HIDE DEF new
      <4> QED
        BY <2>4, <4>1, <4>2 DEF Running
    <3> QED
      BY <2>1, <3>1, <3>2
  <2> QED
    BY <2>1, <2>2, <2>5 DEF ProcsOK, get_script_by_name
<1> QED
  BY <1>1, <1>2

(* Processes, requests and scripts after an action or a call.              *)
LEMMA TaskProcs ==
    ASSUME ProcsOK, UNCHANGED config, Task
    PROVE  ProcsOK'
<1>1. ASSUME UNCHANGED procs PROVE ProcsOK'
  BY <1>1 DEF procs, ProcsOK, Running, get_script_by_name
<1>2. ASSUME Refuse PROVE ProcsOK'
  BY <1>1, <1>2 DEF Refuse
<1>3. CASE action_system_async
  <2>1. CASE children' = children + 1 /\ UNCHANGED <<requests, bytecode, scripts>>
    BY <2>1 DEF ProcsOK, Running, get_script_by_name
  <2> QED
    BY <1>2, <1>3, <2>1 DEF action_system_async
<1>4. ASSUME NEW m, NEW u, NEW t, NEW p, action_http2_async(m, u, t, p) PROVE ProcsOK'
  <2>1. CASE Refuse
    BY <1>2, <2>1
  <2>2. CASE ~Refuse
    <3>1. /\ UNCHANGED <<children, bytecode, scripts>>
          /\ \A r \in requests' : r \in requests \/ r.method \in http_methods
      <4> DEFINE new == [method |-> m, uri |-> u, body |-> IF t # "nil" THEN p ELSE "nil"]
      <4>1. m \in http_methods /\ requests' = requests \cup {new}
            /\ UNCHANGED <<children, bytecode, scripts>>
        BY <1>4, <2>2 DEF action_http2_async
      <4>2. new.method = m
        OBVIOUS
      <4> HIDE DEF new
      <4> QED
        BY <4>1, <4>2
    <3> QED
      BY <3>1 DEF ProcsOK, Running, get_script_by_name
  <2> QED
    BY <2>1, <2>2
<1> QED
  BY <1>1, <1>3, <1>4, LuaAsyncOK DEF Task

(* What a call of a script returns in its own thread.                      *)
LEMMA ScriptResults ==
    ASSUME NEW c, NEW r, \/ r = <<FALSE>> \/ r \in lua_mpc_async
                         \/ r \in lua_system_sync \/ r \in lua_http_sync(c)
    PROVE  Result(r)
<1>1. ASSUME NEW S, NEW T, S \subseteq BOOLEAN, r \in S \X T PROVE Result(r)
  <2>1. r[1] \in S
    BY <1>1
  <2> QED
    BY <1>1, <2>1 DEF Result
<1>2. CASE r = <<FALSE>>
  BY <1>2, PlainResults
<1>3. CASE r \in lua_mpc_async
  <2>1. \/ r \in {<<FALSE>>, <<FALSE, "">>, <<FALSE, "OK">>, <<FALSE, "ACK">>, <<TRUE, "whole">>}
        \/ r \in BOOLEAN \X {"garbled"}
    BY <1>3, Zenon DEF lua_mpc_async
  <2>2. CASE r \in {<<FALSE>>, <<FALSE, "">>, <<FALSE, "OK">>, <<FALSE, "ACK">>, <<TRUE, "whole">>}
    <3>1. /\ <<FALSE, "">>[1] = FALSE /\ <<FALSE, "OK">>[1] = FALSE
          /\ <<FALSE, "ACK">>[1] = FALSE /\ <<TRUE, "whole">>[1] = TRUE
      OBVIOUS
    <3>2. /\ Result(<<FALSE, "">>) /\ Result(<<FALSE, "OK">>)
          /\ Result(<<FALSE, "ACK">>) /\ Result(<<TRUE, "whole">>)
      BY <3>1, Zenon DEF Result
    <3> QED
      BY <2>2, <3>2, PlainResults, Zenon
  <2> QED
    BY <1>1, <2>1, <2>2
<1>4. CASE r \in lua_system_sync
  BY <1>1, <1>2, <1>4 DEF lua_system_sync
<1>5. CASE r \in lua_http_sync(c)
  <2>1. http_client(c.args[4].v) \subseteq BOOLEAN
    BY DEF http_client
  <2> QED
    BY <1>1, <1>5, <2>1 DEF lua_http_sync
<1> QED
  BY <1>2, <1>3, <1>4, <1>5

(* Every step keeps processes, requests and scripts in order.              *)
LEMMA ProcsStep ==
    ASSUME ProcsOK, OutputsOK, Result(ret), [Next]_vars
    PROVE  ProcsOK'
<1>0. UNCHANGED config
  BY ConfigKept
<1>1. ASSUME UNCHANGED procs PROVE ProcsOK'
  BY <1>0, <1>1 DEF procs, ProcsOK, Running, get_script_by_name
<1>2. CASE ReadEvent \/ HandleEntry \/ Done
  BY <1>1, <1>2 DEF ReadEvent, HandleEntry, Done
<1>3. CASE Execute
  <2>1. Task
    BY <1>3, LuaCallTask, ActionTask, Zenon DEF Execute
  <2> QED
    BY <1>0, <2>1, TaskProcs
<1>4. CASE MpcSend \/ MpcFinish \/ MpdTrouble \/ MpdBack
  BY <1>1, <1>4 DEF MpcSend, MpcFinish, MpdTrouble, MpdBack
<1>5. ASSUME NEW t \in Threads, HandleMsg(t) PROVE ProcsOK'
  <2>1. Result(ret')
    BY <1>5, OutputsStep DEF Next
  <2> QED
    BY <1>0, <1>5, <2>1, AdvanceOK DEF HandleMsg
<1>6. ASSUME NEW t \in Threads, ScriptCall(t) PROVE ProcsOK'
  <2> DEFINE c == Call(t)
  <2>1. Calling(t) /\ UNCHANGED <<children, requests, bytecode>>
    BY <1>6 DEF ScriptCall
  <2>2. UNCHANGED scripts \/ \E r : Result(r) /\ Advance(t, r)
    <3>1. CASE ArgsOk(c) /\ Crashes(c)
      BY <1>6, <3>1, Zenon DEF ScriptCall
    <3>2. CASE ~(ArgsOk(c) /\ Crashes(c))
      <4>1. /\ c.fn \in {"system", "mpc", "http"}
            /\ \E r \in CASE ~ArgsOk(c) -> {<<FALSE>>}
                          [] ArgsOk(c) /\ c.fn = "mpc" -> lua_mpc_async
                          [] ArgsOk(c) /\ c.fn = "system" -> lua_system_sync
                          [] ArgsOk(c) /\ c.fn = "http" -> lua_http_sync(c) : Advance(t, r)
        <5>1. c.fn \in Registered("async") \ MainFunctions
          BY <1>6, Zenon DEF ScriptCall
        <5>2. c.fn \in {"system", "mpc", "http"}
          BY <5>1 DEF Registered
        <5> QED
          BY <1>6, <3>2, <5>2, Zenon DEF ScriptCall
      <4> HIDE DEF c
      <4>2. PICK r : /\ Advance(t, r)
                     /\ \/ r = <<FALSE>> \/ r \in lua_mpc_async
                        \/ r \in lua_system_sync \/ r \in lua_http_sync(c)
        <5>1. CASE ~ArgsOk(c)
          BY <4>1, <5>1, Zenon
        <5>2. CASE ArgsOk(c) /\ c.fn = "mpc"
          BY <4>1, <5>2, Zenon
        <5>3. CASE ArgsOk(c) /\ c.fn = "system"
          BY <4>1, <5>3, Zenon
        <5>4. CASE ArgsOk(c) /\ c.fn = "http"
          BY <4>1, <5>4, Zenon
        <5> QED
          BY <4>1, <5>1, <5>2, <5>3, <5>4
      <4> QED
        BY <4>2, ScriptResults
    <3> QED
      BY <3>1, <3>2
  <2> QED
    BY <1>0, <1>1, <2>1, <2>2, AdvanceOK DEF procs
<1>7. ASSUME NEW t \in Threads, ScriptEnd(t) PROVE ProcsOK'
  BY <1>0, <1>7 DEF ScriptEnd, ProcsOK, Running, get_script_by_name
<1>8. ASSUME NEW r \in requests, CurlThread(r) PROVE ProcsOK'
  BY <1>0, <1>8 DEF CurlThread, ProcsOK, Running, get_script_by_name
<1>9. ASSUME NEW e \in InputEvents, DeviceEvent(e) PROVE ProcsOK'
  BY <1>1, <1>9 DEF DeviceEvent
<1>10. ASSUME NEW list \in Triggers, Trigger(list) PROVE ProcsOK'
  BY <1>1, <1>10 DEF Trigger
<1>11. CASE UNCHANGED vars
  BY <1>1, <1>11 DEF vars
<1> QED
  BY <1>2, <1>3, <1>4, <1>5, <1>6, <1>7, <1>8, <1>9, <1>10, <1>11 DEF Next, Main

(* The type invariant: no event is told to the clients twice, the main     *)
(* thread has nothing left to do when it polls and something when it waits *)
(* for MPD, a level is a level and only output GPIOs blink, whatever       *)
(* actions and scripts ask for, and a thread runs a script that has been   *)
(* compiled without an error.                                              *)
THEOREM TypeCorrect == Spec => []TypeOK
<1> DEFINE Inv == /\ InputInv /\ CurrentInv /\ TrackInv /\ MpcInv /\ Counted /\ WorkInv
                  /\ OutputsOK /\ Result(ret) /\ ProcsOK
<1>1. Init => Inv
  <2> SUFFICES ASSUME Init PROVE Inv
    OBVIOUS
  <2>1. Counted /\ WorkInv /\ OutputsOK
    BY EventsAssumption DEF Init, Counted, WorkInv, OutputsOK
  <2>2. Result(ret) /\ ProcsOK
    BY PlainResults DEF Init, ProcsOK
  <2> QED
    BY <2>1, <2>2, InputInit, MpcInit
<1>2. Inv /\ [Next]_vars => Inv'
  <2> SUFFICES ASSUME Inv, [Next]_vars PROVE Inv'
    OBVIOUS
  <2>1. InputInv' /\ CurrentInv' /\ TrackInv'
    BY InputStep
  <2>2. MpcInv' /\ Counted' /\ WorkInv'
    BY MpcStep, CountedStep, WorkStep
  <2>3. OutputsOK' /\ Result(ret)' /\ ProcsOK'
    BY OutputsStep, ProcsStep
  <2> QED
    BY <2>1, <2>2, <2>3
<1>3. Inv => TypeOK
  <2> SUFFICES ASSUME Inv PROVE TypeOK
    OBVIOUS
  <2>1. enqueued \in 0..events
    <3>1. Len(queue) \in Nat
      BY DEF InputInv
    <3> QED
      BY <3>1, EventsAssumption DEF Counted
  <2>2. InputOK
    BY <2>1 DEF InputInv, Counted, InputOK
  <2>3. MainOK /\ MpcOK
    BY DEF InputInv, MpcInv, WorkInv, MainOK, MpcOK
  <2> QED
    BY <2>2, <2>3 DEF TypeOK
<1> QED
  BY <1>1, <1>2, <1>3, PTL DEF Spec

=============================================================================
