------------------------- MODULE SocketServerProofs -------------------------
(***************************************************************************)
(* The safety properties of SocketServer, for any number of clients, lines *)
(* and events and any limits.                                              *)
(*                                                                         *)
(* The handlers are functions on the data of one client, so most of the    *)
(* work is one lemma per handler: it keeps Good client data good, Sound    *)
(* data sound, and changes nothing poll looks at without announcing it     *)
(* (Evolves).  StepKinds then reduces the steps of Next to five kinds, and *)
(* the invariants are proved from these, each from the ones before:        *)
(*    TypeOK /\ AllGood           StepKeeps                                *)
(*    AllSound                    SoundStep     (idle mode, event stream)  *)
(*    ClientListOk /\ BacklogOk   ListStep                                 *)
(*    PollSetCurrent              PollSetStep                              *)
(*    ReportStillValid            ReportStep                               *)
(***************************************************************************)
EXTENDS SocketServer, SequenceTheorems, TLAPS

Good(d) == d \in ClientData /\ Disciplined(d)

(* Removing the node of a client from the list leaves a list of clients.   *)
LEMMA RemoveAtType ==
    ASSUME NEW S, NEW q \in Seq(S), NEW i \in DOMAIN q
    PROVE  RemoveAt(q, i) \in Seq(S)
<1>1. i \in 1..Len(q)
  OBVIOUS
<1>2. SubSeq(q, 1, i - 1) \in Seq(S)
  BY <1>1
<1>3. SubSeq(q, i + 1, Len(q)) \in Seq(S)
  BY <1>1
<1> QED
  BY <1>2, <1>3 DEF RemoveAt

(* Lines that have been read are taken from the front of those sent.       *)
LEMMA RestType ==
    ASSUME NEW S, NEW q \in Seq(S), NEW n \in 0..Len(q)
    PROVE  SubSeq(q, n + 1, Len(q)) \in Seq(S)
  OBVIOUS

(* A free slot is good.                                                    *)
LEMMA GoodClosed == Good(Closed)
  BY LimitsAssumption DEF Good, Closed, ClientData, Disciplined, States

(* server_response_end leaves a response to be written.                    *)
LEMMA GoodRespond ==
    ASSUME NEW d, Good(d), NEW evs \in Seq(Events)
    PROVE  Good(Respond(d, evs)) /\ Respond(d, evs).state = "WRITING"
<1>1. OutChunks \in 0..OutChunks /\ OutChunks > 0
  BY LimitsAssumption
<1>2. d \in ClientData
  BY DEF Good
<1>3. Respond(d, evs) \in ClientData
  BY <1>1, <1>2 DEF Respond, ClientData, States
<1>4. /\ Respond(d, evs).state = "WRITING" /\ Respond(d, evs).events = "POLLOUT"
      /\ Respond(d, evs).outLeft = OutChunks
  BY <1>2 DEF Respond, ClientData
<1> QED
  BY <1>1, <1>3, <1>4 DEF Good, Disciplined

(* Arming or removing the timeout changes nothing but the timeout.         *)
LEMMA GoodTimeouts ==
    ASSUME NEW d, Good(d)
    PROVE  /\ Good(SetTimeout(d)) /\ SetTimeout(d).state = d.state
           /\ SetTimeout(d).waiting = d.waiting
           /\ Good(RemoveTimeout(d)) /\ RemoveTimeout(d).state = d.state
  BY DEF Good, SetTimeout, RemoveTimeout, ClientData, Disciplined, States

(* send_idle_events moves the waiting events to the response.              *)
LEMMA GoodSendIdleEvents ==
    ASSUME NEW d, Good(d)
    PROVE  Good(SendIdleEvents(d))
<1>1. d.waiting \in Seq(Events) /\ <<>> \in Seq(Events)
  BY DEF Good, ClientData
<1>2. Good([d EXCEPT !.waiting = <<>>])
  BY <1>1 DEF Good, ClientData, Disciplined
<1> QED
  BY <1>1, <1>2, GoodRespond DEF SendIdleEvents

(* handle_idle, from any state but WRITING: there it would leave the idle  *)
(* state with a response that is never written.                            *)
LEMMA GoodHandleIdle ==
    ASSUME NEW d, Good(d), d.state # "WRITING"
    PROVE  Good(HandleIdle(d))
<1>1. CASE d.waiting # <<>>
  BY <1>1, GoodSendIdleEvents DEF HandleIdle
<1>2. CASE d.waiting = <<>>
  <2> DEFINE r == RemoveTimeout(d)
  <2>1. Good(r) /\ r.state # "WRITING"
    BY GoodTimeouts
  <2>2. HandleIdle(d) = [r EXCEPT !.state = "IDLE"]
    BY <1>2 DEF HandleIdle
  <2> HIDE DEF r
  <2> QED
    BY <2>1, <2>2 DEF Good, ClientData, Disciplined, States
<1> QED
  BY <1>1, <1>2

(* handle_noidle always answers.                                           *)
LEMMA GoodHandleNoidle ==
    ASSUME NEW d, Good(d)
    PROVE  Good(HandleNoidle(d))
<1>1. <<>> \in Seq(Events)
  OBVIOUS
<1> QED
  BY <1>1, GoodTimeouts, GoodRespond, GoodSendIdleEvents DEF HandleNoidle

(* An event is sent to an idle client and stored for the others.           *)
LEMMA GoodEnqueue ==
    ASSUME NEW d, Good(d), NEW e \in Events
    PROVE  Good(Enqueue(d, e))
<1> DEFINE pushed == [d EXCEPT !.waiting = Append(@, e)]
<1>1. d.waiting \in Seq(Events)
  BY DEF Good, ClientData
<1>2. Append(d.waiting, e) \in Seq(Events) /\ Tail(Append(d.waiting, e)) \in Seq(Events)
  BY <1>1
<1>3. Good(pushed) /\ pushed.waiting = Append(d.waiting, e)
  BY <1>2 DEF Good, ClientData, Disciplined
<1>4. Good([pushed EXCEPT !.waiting = Tail(@)])
  BY <1>2, <1>3 DEF Good, ClientData, Disciplined
<1>5. Good(SendIdleEvents(pushed))
  BY <1>3, GoodSendIdleEvents
<1> HIDE DEF pushed
<1>6. Enqueue(d, e) \in {d, SendIdleEvents(pushed), [pushed EXCEPT !.waiting = Tail(@)], pushed}
  <2>1. CASE d.state = "CLOSED"
    BY <2>1 DEF Enqueue
  <2>2. CASE d.state = "IDLE"
    BY <2>2 DEF Enqueue, pushed
  <2>3. CASE d.state \notin {"CLOSED", "IDLE"}
    BY <2>3 DEF Enqueue, pushed
  <2> QED
    BY <2>1, <2>2, <2>3
<1> QED
  BY <1>3, <1>4, <1>5, <1>6

(* A new client is greeted.                                                *)
LEMMA GoodNewClient == Good(NewClient)
<1>1. Good([Closed EXCEPT !.dirty = TRUE])
  BY GoodClosed DEF Good, ClientData, Disciplined
<1>2. <<>> \in Seq(Events)
  OBVIOUS
<1> QED
  BY <1>1, <1>2, GoodRespond, GoodTimeouts DEF NewClient

AllGood == \A c \in Conns : Good(data[c])

(* The two theorems below together say that the data of every client is    *)
(* good.                                                                   *)
LEMMA AllGoodIs ==
    TypeOK /\ ResponseDiscipline <=> TypeOK /\ AllGood
  BY DEF TypeOK, ResponseDiscipline, AllGood, Good

(* A step that changes the data of one client to something good, and takes *)
(* lines it sent, keeps the invariant.                                     *)
LEMMA HandledKeeps ==
    ASSUME TypeOK, AllGood, NEW c \in Conns, NEW d, Good(d),
           NEW n \in 0..Len(net[c]), Handled(c, d, n),
           chosen' = NoFd, UNCHANGED <<polled, backlog, lines>>
    PROVE  TypeOK' /\ AllGood'
<1>1. net' \in [Conns -> Seq(Lines)]
  <2>1. SubSeq(net[c], n + 1, Len(net[c])) \in Seq(Lines)
    BY RestType DEF TypeOK
  <2> QED
    BY <2>1 DEF Handled, TypeOK
<1>2. data' \in [Conns -> ClientData] /\ AllGood'
  BY DEF Handled, TypeOK, AllGood, Good
<1> QED
  BY <1>1, <1>2 DEF Handled, TypeOK, Fds

(* Disconnecting a client keeps the invariant.                             *)
LEMMA DisconnectKeeps ==
    ASSUME TypeOK, AllGood, NEW c \in Conns, Disconnect(c),
           chosen' = NoFd, UNCHANGED <<polled, backlog, lines>>
    PROVE  TypeOK' /\ AllGood'
<1>1. clients' \in Seq(Conns)
  BY RemoveAtType DEF Disconnect, TypeOK
<1>2. data' \in [Conns -> ClientData] /\ AllGood'
  BY GoodClosed DEF Disconnect, TypeOK, AllGood, Good
<1>3. /\ peer' \in [Conns -> {"none", "open", "closed"}]
      /\ net' \in [Conns -> Seq(Lines)]
      /\ told' \in [Conns -> 0..EventsMax]
  BY LimitsAssumption DEF Disconnect, TypeOK
<1> QED
  BY <1>1, <1>2, <1>3 DEF Disconnect, TypeOK, Fds

(* An event for every client keeps their data good.                        *)
LEMMA RaiseEventKeeps ==
    ASSUME NEW dat \in [Conns -> ClientData], \A c \in Conns : Good(dat[c]),
           eventCount \in 0..EventsMax, eventCount < EventsMax
    PROVE  /\ RaiseEvent(dat) \in [Conns -> ClientData]
           /\ \A c \in Conns : Good(RaiseEvent(dat)[c])
<1>1. eventCount + 1 \in Events
  BY LimitsAssumption DEF Events
<1>2. \A c \in Conns : Good(Enqueue(dat[c], eventCount + 1))
  BY <1>1, GoodEnqueue
<1> QED
  BY <1>2 DEF RaiseEvent, Good

(* server_protocol_handler, for d as Read passes it.                       *)
LEMMA ProtocolKeeps ==
    ASSUME TypeOK, AllGood, NEW c \in Conns, NEW d, Good(d), d.state # "WRITING",
           NEW n \in 0..Len(net[c]), Protocol(c, d, n),
           chosen' = NoFd, UNCHANGED <<polled, backlog, lines>>
    PROVE  TypeOK' /\ AllGood'
<1>0. <<>> \in Seq(Events)
  OBVIOUS
<1>1. CASE Handled(c, d, n)
  BY <1>1, HandledKeeps
<1>2. CASE Handled(c, Respond(d, <<>>), n)
  BY <1>0, <1>2, GoodRespond, HandledKeeps
<1>3. CASE Handled(c, HandleNoidle(d), n)
  BY <1>3, GoodHandleNoidle, HandledKeeps
<1>4. CASE Handled(c, HandleIdle(d), n)
  BY <1>4, GoodHandleIdle, HandledKeeps
<1>5. CASE Disconnect(c)
  BY <1>5, DisconnectKeeps
<1>6. CASE /\ eventCount < EventsMax
           /\ eventCount' = eventCount + 1
           /\ LET raised == RaiseEvent([data EXCEPT ![c] = d])
              IN data' = [raised EXCEPT ![c] = Respond(raised[c], <<>>)]
           /\ net' = [net EXCEPT ![c] = SubSeq(@, n + 1, Len(@))]
           /\ UNCHANGED <<clients, update, running, peer, told>>
  <2> DEFINE dat == [data EXCEPT ![c] = d]
             raised == RaiseEvent(dat)
  <2>1. dat \in [Conns -> ClientData] /\ \A x \in Conns : Good(dat[x])
    BY DEF TypeOK, AllGood, Good
  <2>2. raised \in [Conns -> ClientData] /\ \A x \in Conns : Good(raised[x])
    BY <1>6, <2>1, RaiseEventKeeps DEF TypeOK
  <2>3. data' = [raised EXCEPT ![c] = Respond(raised[c], <<>>)]
    BY <1>6
  <2> HIDE DEF raised
  <2>4. Good(Respond(raised[c], <<>>))
    BY <1>0, <2>2, GoodRespond
  <2>5. data' \in [Conns -> ClientData] /\ AllGood'
    BY <2>2, <2>3, <2>4 DEF AllGood, Good
  <2>6. SubSeq(net[c], n + 1, Len(net[c])) \in Seq(Lines)
    BY RestType DEF TypeOK
  <2>7. net' \in [Conns -> Seq(Lines)]
    BY <1>6, <2>6 DEF TypeOK
  <2>8. eventCount' \in 0..EventsMax
    BY <1>6, LimitsAssumption DEF TypeOK
  <2> QED
    BY <1>6, <2>5, <2>7, <2>8 DEF TypeOK, Fds
<1> QED
  BY <1>1, <1>2, <1>3, <1>4, <1>5, <1>6 DEF Protocol

(* The reading half of server_client_connection_handle.                    *)
LEMMA ReadKeeps ==
    ASSUME TypeOK, AllGood, NEW c \in Conns, Read(c),
           chosen' = NoFd, UNCHANGED <<polled, backlog, lines>>
    PROVE  TypeOK' /\ AllGood'
<1>1. Good(data[c]) /\ data[c].state # "WRITING" /\ net[c] \in Seq(Lines) /\ net[c] # <<>>
  BY DEF Read, TypeOK, AllGood
<1>2. 1 \in 0..Len(net[c])
  BY <1>1
<1>3. CASE Disconnect(c)
  BY <1>3, DisconnectKeeps
<1>4. CASE /\ ~TooLong(data[c].bufIn + 1)
           /\ Handled(c, [data[c] EXCEPT !.bufIn = @ + 1], 1)
  <2>1. data[c].bufIn + 1 \in 0..(InputChunksMax - 1)
    BY <1>1, <1>4, LimitsAssumption DEF Good, ClientData, TooLong
  <2>2. Good([data[c] EXCEPT !.bufIn = @ + 1])
    BY <1>1, <2>1 DEF Good, ClientData, Disciplined
  <2> QED
    BY <1>2, <1>4, <2>2, HandledKeeps
<1>5. CASE \E n \in 1..Len(net[c]) :
              Protocol(c, [SetTimeout(data[c]) EXCEPT !.bufIn = 0], n)
  <2>1. PICK n \in 1..Len(net[c]) : Protocol(c, [SetTimeout(data[c]) EXCEPT !.bufIn = 0], n)
    BY <1>5
  <2> DEFINE t == SetTimeout(data[c])
  <2>2. Good(t) /\ t.state # "WRITING"
    BY <1>1, GoodTimeouts
  <2> HIDE DEF t
  <2>3. Good([t EXCEPT !.bufIn = 0]) /\ [t EXCEPT !.bufIn = 0].state # "WRITING"
    <3>1. 0 \in 0..(InputChunksMax - 1)
      BY LimitsAssumption
    <3> QED
      BY <2>2, <3>1 DEF Good, ClientData, Disciplined
  <2>4. n \in 0..Len(net[c])
    BY <1>1
  <2> QED
    BY <2>1, <2>3, <2>4, ProtocolKeeps DEF t
<1> QED
  BY <1>3, <1>4, <1>5 DEF Read

(* The writing half.                                                       *)
LEMMA WriteKeeps ==
    ASSUME TypeOK, AllGood, NEW c \in Conns, Write(c),
           chosen' = NoFd, UNCHANGED <<polled, backlog, lines>>
    PROVE  TypeOK' /\ AllGood'
<1>1. Good(data[c]) /\ data[c].state = "WRITING" /\ net[c] \in Seq(Lines)
  BY DEF Write, TypeOK, AllGood
<1>2. CASE data[c].outLeft > 1 /\ Handled(c, [data[c] EXCEPT !.outLeft = @ - 1], 0)
  <2>1. data[c].outLeft - 1 \in 0..OutChunks /\ data[c].outLeft - 1 > 0
    <3>1. data[c].outLeft \in 0..OutChunks
      BY <1>1 DEF Good, ClientData
    <3> QED
      BY <1>2, <3>1, LimitsAssumption
  <2>2. Good([data[c] EXCEPT !.outLeft = @ - 1])
    BY <1>1, <2>1 DEF Good, ClientData, Disciplined
  <2>3. 0 \in 0..Len(net[c])
    BY <1>1
  <2> QED
    BY <1>2, <2>2, <2>3, HandledKeeps
<1>3. CASE /\ data' = [data EXCEPT ![c].state = "READING", ![c].events = "POLLIN",
                                   ![c].dirty = TRUE, ![c].outLeft = 0,
                                   ![c].outEvents = <<>>]
           /\ told' = [told EXCEPT ![c] = IF data[c].outEvents = <<>> THEN @
                                          ELSE Last(data[c].outEvents)]
           /\ UNCHANGED <<clients, update, running, eventCount, peer, net>>
  <2> DEFINE r == [data[c] EXCEPT !.state = "READING", !.events = "POLLIN", !.dirty = TRUE,
                                  !.outLeft = 0, !.outEvents = <<>>]
  <2>1. data' = [data EXCEPT ![c] = r]
    BY <1>3 DEF TypeOK
  <2>2. Good(r)
    <3>1. data[c] \in ClientData /\ <<>> \in Seq(Events) /\ 0 \in 0..OutChunks
      BY <1>1, LimitsAssumption DEF Good
    <3>2. r \in ClientData
      BY <3>1 DEF ClientData, States
    <3>3. r.state = "READING" /\ r.events = "POLLIN" /\ r.outLeft = 0 /\ r.outEvents = <<>>
      BY <3>1 DEF ClientData
    <3> HIDE DEF r
    <3> QED
      BY <3>2, <3>3 DEF Good, Disciplined
  <2> HIDE DEF r
  <2>3. data' \in [Conns -> ClientData] /\ AllGood'
    BY <2>1, <2>2 DEF TypeOK, AllGood, Good
  <2>4. data[c].outEvents # <<>> => Last(data[c].outEvents) \in 0..EventsMax
    <3>1. data[c].outEvents \in Seq(Events)
      BY <1>1 DEF Good, ClientData
    <3>2. data[c].outEvents # <<>> => Last(data[c].outEvents) \in Events
      BY <3>1 DEF Last
    <3> QED
      BY <3>2, LimitsAssumption DEF Events
  <2>5. told' \in [Conns -> 0..EventsMax]
    BY <1>3, <2>4 DEF TypeOK
  <2> QED
    BY <1>3, <2>3, <2>5 DEF TypeOK, Fds
<1>4. CASE Disconnect(c)
  BY <1>4, DisconnectKeeps
<1>5. CASE running' = FALSE /\ UNCHANGED <<clients, data, update, eventCount, peer, net, told>>
  BY <1>5 DEF TypeOK, AllGood, Fds
<1> QED
  BY <1>2, <1>3, <1>4, <1>5 DEF Write

(* Every step keeps every variable in its type and the data of every       *)
(* client good.                                                            *)
LEMMA StepKeeps == TypeOK /\ AllGood /\ [Next]_vars => TypeOK' /\ AllGood'
<1> SUFFICES ASSUME TypeOK, AllGood, [Next]_vars PROVE TypeOK' /\ AllGood'
  OBVIOUS
<1>1. CASE Poll
  <2>1. data' \in [Conns -> ClientData] /\ AllGood'
    <3>1. \A c \in Conns : Good([data[c] EXCEPT !.dirty = FALSE])
      BY DEF AllGood, Good, ClientData, Disciplined
    <3> QED
      BY <1>1, <3>1 DEF Poll, AllGood, Good
  <2>2. polled' \in [order : Seq(Conns),
                     fds : [Conns -> [events : {"POLLIN", "POLLOUT"}, timeout : BOOLEAN]]]
    <3>1. \A c \in Conns : data[c].events \in {"POLLIN", "POLLOUT"}
      BY DEF AllGood, Good, ClientData
    <3>2. Fresh \in [order : Seq(Conns),
                     fds : [Conns -> [events : {"POLLIN", "POLLOUT"}, timeout : BOOLEAN]]]
      BY <3>1 DEF Fresh, TypeOK
    <3> QED
      BY <1>1, <3>2 DEF Poll, TypeOK
  <2>3. chosen' \in Fds
    <3>1. CASE chosen' \in {Gpio, Connect}
      BY <3>1 DEF Fds
    <3>2. CASE \E i \in DOMAIN polled'.order : chosen' \in ClientReports(polled', polled'.order[i])
      <4>1. PICK i \in DOMAIN polled'.order :
                 chosen' \in ClientReports(polled', polled'.order[i])
        BY <3>2
      <4>2. polled'.order[i] \in Conns
        BY <2>2
      <4> QED
        BY <4>1, <4>2 DEF ClientReports, Fds
    <3> QED
      BY <1>1, <3>1, <3>2 DEF Poll
  <2> QED
    BY <1>1, <2>1, <2>2, <2>3 DEF Poll, TypeOK, env
<1>2. CASE MhdRun \/ DelegateGpio
  <2>1. data' \in [Conns -> ClientData] /\ AllGood'
    BY <1>2, RaiseEventKeeps DEF MhdRun, DelegateGpio, TypeOK, AllGood
  <2>2. eventCount' \in 0..EventsMax /\ chosen' \in Fds
    BY <1>2, LimitsAssumption DEF MhdRun, DelegateGpio, TypeOK, Fds
  <2> QED
    BY <1>2, <2>1, <2>2 DEF MhdRun, DelegateGpio, TypeOK, env
<1>3. CASE DelegateNothing \/ AcceptFails
  BY <1>3 DEF DelegateNothing, AcceptFails, TypeOK, AllGood, Fds, env
<1>4. CASE DelegateConnect
  <2>1. Head(backlog) \in Conns /\ backlog' \in Seq(Conns)
    BY <1>4 DEF DelegateConnect, AcceptClient, RefuseClient, TypeOK
  <2>2. data' \in [Conns -> ClientData] /\ AllGood'
    BY <1>4, <2>1, GoodNewClient DEF DelegateConnect, AcceptClient, RefuseClient, TypeOK, AllGood, Good
  <2>3. CASE RefuseClient(Head(backlog))
    <3>1. /\ peer' \in [Conns -> {"none", "open", "closed"}]
          /\ net' \in [Conns -> Seq(Lines)]
      <4>1. /\ peer' = [peer EXCEPT ![Head(backlog)] = "none"]
            /\ net' = [net EXCEPT ![Head(backlog)] = <<>>]
        BY <1>4, <2>3 DEF DelegateConnect, AcceptClient, RefuseClient
      <4> QED
        BY <2>1, <4>1 DEF TypeOK
    <3>2. chosen' = NoFd /\ UNCHANGED <<clients, update, told, polled, running, eventCount, lines>>
      BY <1>4, <2>3 DEF DelegateConnect, AcceptClient, RefuseClient
    <3> QED
      BY <2>1, <2>2, <3>1, <3>2 DEF TypeOK, Fds
  <2>4. CASE AcceptClient(Head(backlog))
    <3>1. /\ clients' \in Seq(Conns) /\ update' \in BOOLEAN
          /\ told' \in [Conns -> 0..EventsMax]
      <4>1. /\ clients' = Append(clients, Head(backlog)) /\ update' = TRUE
            /\ told' = [told EXCEPT ![Head(backlog)] = eventCount]
        BY <1>4, <2>4 DEF DelegateConnect, AcceptClient, RefuseClient
      <4> QED
        BY <2>1, <4>1 DEF TypeOK
    <3>2. chosen' = NoFd /\ UNCHANGED <<peer, net, polled, running, eventCount, lines>>
      BY <1>4, <2>4 DEF DelegateConnect, AcceptClient, RefuseClient
    <3> QED
      BY <2>1, <2>2, <3>1, <3>2 DEF TypeOK, Fds
  <2> QED
    BY <1>4, <2>3, <2>4 DEF DelegateConnect
<1>5. ASSUME NEW c \in Conns, DelegateClient(c) PROVE TypeOK' /\ AllGood'
  <2>1. chosen' = NoFd /\ UNCHANGED <<polled, backlog, lines>>
    BY <1>5 DEF DelegateClient
  <2> QED
    BY <1>5, <2>1, DisconnectKeeps, ReadKeeps, WriteKeeps
    DEF DelegateClient, HandleHangup, ClientTimeout
<1>6. ASSUME NEW c \in Conns, ClientConnect(c) PROVE TypeOK' /\ AllGood'
  BY <1>6 DEF ClientConnect, TypeOK, AllGood, server
<1>7. ASSUME NEW c \in Conns, NEW l \in Lines, ClientSend(c, l) PROVE TypeOK' /\ AllGood'
  <2>1. net' \in [Conns -> Seq(Lines)] /\ lines' \in 0..LinesMax
    BY <1>7, LimitsAssumption DEF ClientSend, TypeOK
  <2> QED
    BY <1>7, <2>1 DEF ClientSend, TypeOK, AllGood, server
<1>8. ASSUME NEW c \in Conns, ClientClose(c) PROVE TypeOK' /\ AllGood'
  BY <1>8 DEF ClientClose, TypeOK, AllGood, server
<1>9. ASSUME NEW c \in Conns, TimerExpire(c) PROVE TypeOK' /\ AllGood'
  <2>1. Good([data[c] EXCEPT !.timer = "expired"])
    BY DEF AllGood, Good, ClientData, Disciplined
  <2>2. data' = [data EXCEPT ![c] = [data[c] EXCEPT !.timer = "expired"]]
    BY <1>9 DEF TimerExpire, TypeOK
  <2>3. data' \in [Conns -> ClientData] /\ AllGood'
    BY <2>1, <2>2 DEF TypeOK, AllGood, Good
  <2> QED
    BY <1>9, <2>3 DEF TimerExpire, TypeOK, env
<1>10. CASE UNCHANGED vars
  BY <1>10 DEF vars, server, env, TypeOK, AllGood
<1> QED
  BY <1>1, <1>2, <1>3, <1>4, <1>5, <1>6, <1>7, <1>8, <1>9, <1>10 DEF Next, Delegate

(* The initial state is good.                                              *)
LEMMA InitGood == Init => TypeOK /\ AllGood
<1> SUFFICES ASSUME Init PROVE TypeOK /\ AllGood
  OBVIOUS
<1>1. data \in [Conns -> ClientData] /\ AllGood
  BY GoodClosed DEF Init, AllGood, Good
<1>2. eventCount \in 0..EventsMax /\ lines \in 0..LinesMax /\ told \in [Conns -> 0..EventsMax]
  BY LimitsAssumption DEF Init
<1> QED
  BY <1>1, <1>2 DEF Init, TypeOK, Fds

(* Every variable keeps its type: the data of the clients, their input and *)
(* response buffers within their bounds, the poll set and what poll        *)
(* reports.                                                                *)
THEOREM TypeCorrect == Spec => []TypeOK
<1>1. Spec => [](TypeOK /\ AllGood)
  BY InitGood, StepKeeps, PTL DEF Spec
<1> QED
  BY <1>1, PTL

(* A response lies in buf_out exactly while its connection is WRITING and  *)
(* polled for POLLOUT, after every handler, event and timeout.             *)
THEOREM ResponseCorrect == Spec => []ResponseDiscipline
<1>1. Spec => [](TypeOK /\ AllGood)
  BY InitGood, StepKeeps, PTL DEF Spec
<1>2. TypeOK /\ AllGood => ResponseDiscipline
  BY AllGoodIs
<1> QED
  BY <1>1, <1>2, PTL

-----------------------------------------------------------------------------
(* The events a client is told of, as sequences.                           *)

(* Sequences in increasing order can be taken apart and put together.      *)
LEMMA IncreasingJoin ==
    ASSUME NEW a \in Seq(Nat), NEW b \in Seq(Nat)
    PROVE  Increasing(a \o b) <=>
              /\ Increasing(a) /\ Increasing(b)
              /\ a # <<>> /\ b # <<>> => Last(a) < Head(b)
<1> DEFINE ab == a \o b
<1>1. /\ Len(ab) = Len(a) + Len(b)
      /\ \A i \in 1..Len(a) : ab[i] = a[i]
      /\ \A i \in 1..Len(b) : ab[Len(a) + i] = b[i]
  OBVIOUS
<1>2. Len(a) \in Nat /\ Len(b) \in Nat
  OBVIOUS
<1> HIDE DEF ab
<1>3. ASSUME Increasing(ab)
      PROVE  /\ Increasing(a) /\ Increasing(b)
             /\ a # <<>> /\ b # <<>> => Last(a) < Head(b)
  <2>1. Increasing(a)
    <3> SUFFICES ASSUME NEW i \in 1..(Len(a) - 1) PROVE a[i] < a[i + 1]
      BY DEF Increasing
    <3>1. i \in 1..(Len(ab) - 1) /\ i \in 1..Len(a) /\ i + 1 \in 1..Len(a)
      BY <1>1, <1>2
    <3> QED
      BY <1>1, <1>3, <3>1 DEF Increasing
  <2>2. Increasing(b)
    <3> SUFFICES ASSUME NEW i \in 1..(Len(b) - 1) PROVE b[i] < b[i + 1]
      BY DEF Increasing
    <3>1. /\ Len(a) + i \in 1..(Len(ab) - 1) /\ i \in 1..Len(b) /\ i + 1 \in 1..Len(b)
          /\ (Len(a) + i) + 1 = Len(a) + (i + 1)
      BY <1>1, <1>2
    <3>2. ab[Len(a) + i] < ab[(Len(a) + i) + 1]
      BY <1>3, <3>1 DEF Increasing
    <3> QED
      BY <1>1, <3>1, <3>2
  <2>3. ASSUME a # <<>>, b # <<>> PROVE Last(a) < Head(b)
    <3>1. /\ Len(a) \in 1..(Len(ab) - 1) /\ Len(a) \in 1..Len(a) /\ 1 \in 1..Len(b)
      BY <1>1, <1>2, <2>3
    <3>2. ab[Len(a)] < ab[Len(a) + 1]
      BY <1>3, <3>1 DEF Increasing
    <3>3. ab[Len(a)] = a[Len(a)] /\ ab[Len(a) + 1] = b[1] /\ Head(b) = b[1]
      BY <1>1, <2>3, <3>1
    <3> QED
      BY <3>2, <3>3 DEF Last
  <2> QED
    BY <2>1, <2>2, <2>3
<1>4. ASSUME Increasing(a), Increasing(b), a # <<>> /\ b # <<>> => Last(a) < Head(b)
      PROVE  Increasing(ab)
  <2> SUFFICES ASSUME NEW i \in 1..(Len(ab) - 1) PROVE ab[i] < ab[i + 1]
    BY DEF Increasing
  <2>1. CASE i < Len(a)
    <3>1. i \in 1..(Len(a) - 1) /\ i \in 1..Len(a) /\ i + 1 \in 1..Len(a)
      BY <1>2, <2>1
    <3> QED
      BY <1>1, <1>4, <3>1 DEF Increasing
  <2>2. CASE i = Len(a)
    <3>1. a # <<>> /\ b # <<>> /\ Len(a) \in 1..Len(a) /\ 1 \in 1..Len(b)
      BY <1>1, <1>2, <2>2
    <3> QED
      BY <1>1, <1>4, <2>2, <3>1 DEF Last
  <2>3. CASE i > Len(a)
    <3> DEFINE j == i - Len(a)
    <3>1. /\ j \in 1..(Len(b) - 1) /\ j \in 1..Len(b) /\ j + 1 \in 1..Len(b)
          /\ i = Len(a) + j /\ i + 1 = Len(a) + (j + 1)
      BY <1>1, <1>2, <2>3
    <3>2. b[j] < b[j + 1]
      BY <1>4, <3>1 DEF Increasing
    <3>3. ab[Len(a) + j] = b[j] /\ ab[Len(a) + (j + 1)] = b[j + 1]
      BY <1>1, <3>1
    <3> HIDE DEF j
    <3> QED
      BY <3>1, <3>2, <3>3
  <2> QED
    BY <1>2, <2>1, <2>2, <2>3
<1> QED
  BY <1>3, <1>4 DEF ab

(* What a client is told of, in order: t, the events s being sent to it    *)
(* and the events w waiting for it.                                        *)
LEMMA StreamParts ==
    ASSUME NEW t \in Nat, NEW s \in Seq(Nat), NEW w \in Seq(Nat)
    PROVE  Increasing(<<t>> \o s \o w) <=>
              /\ Increasing(s) /\ Increasing(w)
              /\ s # <<>> => t < Head(s)
              /\ w # <<>> => LastOr(s, t) < Head(w)
<1> DEFINE ts == <<t>> \o s
<1>1. <<t>> \in Seq(Nat) /\ ts \in Seq(Nat) /\ ts # <<>> /\ <<t>> # <<>>
  OBVIOUS
<1>2. Last(ts) = LastOr(s, t)
  BY DEF Last, LastOr
<1>3. Increasing(<<t>>) /\ Last(<<t>>) = t
  BY DEF Increasing, Last
<1>4. Increasing(ts) <=> Increasing(s) /\ (s # <<>> => t < Head(s))
  BY <1>1, <1>3, IncreasingJoin
<1> HIDE DEF ts
<1>5. Increasing(ts \o w) <=> Increasing(ts) /\ Increasing(w) /\ (w # <<>> => Last(ts) < Head(w))
  BY <1>1, IncreasingJoin
<1> QED
  BY <1>2, <1>4, <1>5 DEF ts

(* The body of EventStream: the client knows events up to t, s is being    *)
(* sent to it, w is waiting for it, and n events have happened.            *)
Stream(s, w, t, n) ==
    LET known == LastOr(s, t)
    IN /\ Increasing(<<t>> \o s \o w)
       /\ LastOr(w, known) = n
       /\ Len(w) <= WAITING_EVENTS_MAX
       /\ s # <<>> /\ Len(s) < WAITING_EVENTS_MAX => Head(s) = t + 1
       /\ w # <<>> /\ Len(w) < WAITING_EVENTS_MAX => Head(w) = known + 1

(* A new client knows of everything.                                       *)
LEMMA StreamNew ==
    ASSUME NEW n \in Nat
    PROVE  Stream(<<>>, <<>>, n, n)
<1>1. <<>> \in Seq(Nat) /\ Increasing(<<>>) /\ Len(<<>>) = 0
  BY DEF Increasing
<1>2. Increasing(<<n>> \o <<>> \o <<>>)
  BY <1>1, StreamParts
<1> QED
  BY <1>1, <1>2, LimitsAssumption DEF Stream, LastOr

(* send_idle_events: what was waiting is being sent.                       *)
LEMMA StreamSend ==
    ASSUME NEW t \in Nat, NEW w \in Seq(Nat), NEW n, Stream(<<>>, w, t, n)
    PROVE  Stream(w, <<>>, t, n)
<1>1. <<>> \in Seq(Nat) /\ Increasing(<<>>) /\ Len(<<>>) = 0
  BY DEF Increasing
<1>2. Increasing(<<t>> \o w \o <<>>)
  BY <1>1, StreamParts DEF Stream, LastOr
<1> QED
  BY <1>1, <1>2, LimitsAssumption DEF Stream, LastOr

(* The response has been written: the client knows what was being sent.    *)
LEMMA StreamDone ==
    ASSUME NEW t \in Nat, NEW s \in Seq(Nat), NEW w \in Seq(Nat), NEW n, Stream(s, w, t, n)
    PROVE  Stream(<<>>, w, LastOr(s, t), n)
<1>1. <<>> \in Seq(Nat) /\ Increasing(<<>>) /\ Len(<<>>) = 0
  BY DEF Increasing
<1>2. LastOr(s, t) \in Nat
  BY DEF LastOr, Last
<1>3. Increasing(w) /\ (w # <<>> => LastOr(s, t) < Head(w))
  BY StreamParts DEF Stream
<1>4. LastOr(<<>>, LastOr(s, t)) = LastOr(s, t)
  BY DEF LastOr
<1>5. Increasing(<<LastOr(s, t)>> \o <<>> \o w)
  BY <1>1, <1>2, <1>3, <1>4, StreamParts
<1> QED
  BY <1>4, <1>5 DEF Stream

(* A waiting list with one more event.                                     *)
LEMMA IncreasingAppend ==
    ASSUME NEW w \in Seq(Nat), NEW e \in Nat, Increasing(w), w # <<>> => Last(w) < e
    PROVE  Increasing(Append(w, e))
<1>1. <<e>> \in Seq(Nat) /\ Increasing(<<e>>) /\ <<e>> # <<>> /\ Head(<<e>>) = e
  BY DEF Increasing
<1>2. Append(w, e) = w \o <<e>>
  OBVIOUS
<1> QED
  BY <1>1, <1>2, IncreasingJoin

(* The next event is stored behind the others while there is room.         *)
LEMMA StreamPush ==
    ASSUME NEW t \in Nat, NEW s \in Seq(Nat), NEW w \in Seq(Nat), NEW n \in Nat,
           Stream(s, w, t, n), Len(w) < WAITING_EVENTS_MAX
    PROVE  Stream(s, Append(w, n + 1), t, n + 1)
<1> DEFINE k == LastOr(s, t)
           v == Append(w, n + 1)
<1>1. /\ Increasing(s) /\ Increasing(w) /\ (s # <<>> => t < Head(s)) /\ (w # <<>> => k < Head(w))
      /\ LastOr(w, k) = n
  BY StreamParts DEF Stream
<1>2. v \in Seq(Nat) /\ Len(v) = Len(w) + 1 /\ v # <<>> /\ Last(v) = n + 1
      /\ Len(w) \in Nat
  <2>1. v \in Seq(Nat) /\ Len(v) = Len(w) + 1 /\ Len(w) \in Nat /\ v[Len(w) + 1] = n + 1
    OBVIOUS
  <2> HIDE DEF v
  <2> QED
    BY <2>1 DEF Last
<1>3. w # <<>> => Last(w) = n /\ Head(v) = Head(w)
  BY <1>1 DEF LastOr
<1>4. w = <<>> => k = n /\ Head(v) = n + 1
  BY <1>1 DEF LastOr
<1>5. Increasing(v)
  BY <1>1, <1>3, IncreasingAppend
<1>6. k \in Nat /\ k < Head(v)
  <2>1. k \in Nat
    BY DEF LastOr, Last
  <2> QED
    BY <2>1, <1>1, <1>3, <1>4
<1>7. LastOr(v, k) = n + 1
  BY <1>2 DEF LastOr
<1>8. Increasing(<<t>> \o s \o v)
  BY <1>1, <1>2, <1>5, <1>6, StreamParts
<1>9. Len(v) < WAITING_EVENTS_MAX => Head(v) = k + 1
  <2>1. CASE w = <<>>
    BY <2>1, <1>4
  <2>2. CASE w # <<>>
    BY <2>2, <1>2, <1>3, LimitsAssumption DEF Stream
  <2> QED
    BY <2>1, <2>2
<1>10. Len(v) <= WAITING_EVENTS_MAX
  BY <1>2, LimitsAssumption
<1>11. s # <<>> /\ Len(s) < WAITING_EVENTS_MAX => Head(s) = t + 1
  BY DEF Stream
<1> HIDE DEF k, v
<1> QED
  BY <1>7, <1>8, <1>9, <1>10, <1>11 DEF Stream, k, v

(* A sequence without its first element.                                   *)
LEMMA IncreasingTail ==
    ASSUME NEW v \in Seq(Nat), Increasing(v), v # <<>>
    PROVE  Increasing(Tail(v)) /\ (Tail(v) # <<>> => Head(v) < Head(Tail(v)))
<1>1. v = <<Head(v)>> \o Tail(v)
  OBVIOUS
<1>2. <<Head(v)>> \in Seq(Nat) /\ Tail(v) \in Seq(Nat) /\ Last(<<Head(v)>>) = Head(v)
      /\ <<Head(v)>> # <<>>
  BY DEF Last
<1> DEFINE h == <<Head(v)>>
<1>3. Increasing(h \o Tail(v))
  BY <1>1
<1> HIDE DEF h
<1> QED
  BY <1>2, <1>3, IncreasingJoin DEF h

(* When the list is full the oldest event is given up.                     *)
LEMMA StreamDrop ==
    ASSUME NEW t \in Nat, NEW s \in Seq(Nat), NEW w \in Seq(Nat), NEW n \in Nat,
           Stream(s, w, t, n), Len(w) = WAITING_EVENTS_MAX
    PROVE  Stream(s, Tail(Append(w, n + 1)), t, n + 1)
<1> DEFINE k == LastOr(s, t)
           v == Append(w, n + 1)
           u == Tail(v)
<1>1. /\ Increasing(s) /\ Increasing(w) /\ (s # <<>> => t < Head(s)) /\ (w # <<>> => k < Head(w))
      /\ LastOr(w, k) = n
  BY StreamParts DEF Stream
<1>2. w # <<>> /\ Len(w) \in Nat \ {0}
  BY LimitsAssumption
<1>3. /\ v \in Seq(Nat) /\ v # <<>> /\ Head(v) = Head(w) /\ Len(v) = Len(w) + 1
      /\ v[Len(v)] = n + 1
  BY <1>2
<1>4. Increasing(v)
  BY <1>1, <1>2, IncreasingAppend DEF LastOr
<1> HIDE DEF v
<1>5. /\ u \in Seq(Nat) /\ Len(u) = Len(w) /\ u # <<>> /\ u[Len(u)] = n + 1
  BY <1>2, <1>3
<1>6. Increasing(u) /\ Head(v) < Head(u)
  BY <1>3, <1>4, <1>5, IncreasingTail
<1> HIDE DEF u
<1>7. k \in Nat /\ Head(w) \in Nat /\ Head(u) \in Nat
  BY <1>2, <1>5 DEF LastOr, Last
<1>8. k < Head(u)
  BY <1>1, <1>2, <1>3, <1>6, <1>7
<1>9. Increasing(<<t>> \o s \o u)
  BY <1>1, <1>5, <1>6, <1>8, StreamParts
<1>10. LastOr(u, k) = n + 1
  BY <1>5 DEF LastOr, Last
<1>11. s # <<>> /\ Len(s) < WAITING_EVENTS_MAX => Head(s) = t + 1
  BY DEF Stream
<1> HIDE DEF k
<1> QED
  BY <1>5, <1>9, <1>10, <1>11, LimitsAssumption DEF Stream, k, u, v

-----------------------------------------------------------------------------
(* Handlers on the data of one client, again: they keep it Sound.          *)

(* Sequences of events are sequences of numbers.                           *)
LEMMA EventsAreNumbers ==
    ASSUME NEW s \in Seq(Events)
    PROVE  s \in Seq(Nat)
  BY LimitsAssumption DEF Events

(* The data d of a client that knows of the events up to t, when n events  *)
(* have happened.                                                          *)
Sound(d, t, n) ==
    /\ Good(d)
    /\ d.state = "CLOSED" => d = Closed
    /\ d.state = "IDLE" => d.waiting = <<>>
    /\ d.state # "CLOSED" => Stream(d.outEvents, d.waiting, t, n)

(* e differs from d in nothing that poll looks at, or update_pollfds is    *)
(* set.                                                                    *)
Announced(d, e) ==
    \/ e.dirty
    \/ ~d.dirty /\ e.events = d.events /\ (e.timer = "off" <=> d.timer = "off")

(* The response in d, if it is still being sent in e, is the same.         *)
SameResponse(d, e) ==
    d.outLeft > 0 /\ e.outLeft > 0 => e.outLeft <= d.outLeft /\ e.outEvents = d.outEvents

(* What a handler or an event may do to the data of one client.            *)
Evolves(d, e) ==
    /\ d.state = "CLOSED" <=> e.state = "CLOSED"
    /\ Announced(d, e)
    /\ SameResponse(d, e)

(* Handlers in a row.                                                      *)
LEMMA AnnouncedTwice ==
    ASSUME NEW d, NEW e, NEW f, Announced(d, e), Announced(e, f)
    PROVE  Announced(d, f)
  BY DEF Announced

(* A client that is not being written to can be answered.                  *)
LEMMA RespondSound ==
    ASSUME NEW d, NEW t, NEW n, Sound(d, t, n), d.state \notin {"WRITING", "CLOSED"}
    PROVE  /\ Sound(Respond(d, <<>>), t, n)
           /\ Respond(d, <<>>).state = "WRITING" /\ Respond(d, <<>>).dirty
<1>1. Good(d) /\ d \in ClientData /\ d.outEvents = <<>>
  BY DEF Sound, Good, Disciplined
<1>2. Good(Respond(d, <<>>)) /\ Respond(d, <<>>).state = "WRITING"
  <2>1. <<>> \in Seq(Events)
    OBVIOUS
  <2> QED
    BY <1>1, <2>1, GoodRespond
<1>3. /\ Respond(d, <<>>).outEvents = <<>> /\ Respond(d, <<>>).waiting = d.waiting
      /\ Respond(d, <<>>).dirty
  BY <1>1 DEF Respond, ClientData
<1> QED
  BY <1>1, <1>2, <1>3 DEF Sound

(* What waits for a client that is not being written to can be sent.       *)
LEMMA SendSound ==
    ASSUME NEW d, NEW t \in Nat, NEW n, Good(d), d.state # "WRITING",
           Stream(<<>>, d.waiting, t, n)
    PROVE  /\ Sound(SendIdleEvents(d), t, n)
           /\ SendIdleEvents(d).state = "WRITING" /\ SendIdleEvents(d).dirty
<1>1. d \in ClientData /\ d.waiting \in Seq(Events)
  BY DEF Good, ClientData
<1>2. Good(SendIdleEvents(d))
  BY GoodSendIdleEvents
<1>3. /\ SendIdleEvents(d).state = "WRITING" /\ SendIdleEvents(d).outEvents = d.waiting
      /\ SendIdleEvents(d).waiting = <<>> /\ SendIdleEvents(d).dirty
  BY <1>1 DEF SendIdleEvents, Respond, ClientData
<1>4. Stream(d.waiting, <<>>, t, n)
  BY <1>1, EventsAreNumbers, StreamSend
<1> QED
  BY <1>2, <1>3, <1>4 DEF Sound

(* Arming the timeout and clearing the input buffer.                       *)
LEMMA TimeoutSound ==
    ASSUME NEW d, NEW t, NEW n, Sound(d, t, n), d.state # "CLOSED"
    PROVE  /\ Sound(SetTimeout(d), t, n) /\ SetTimeout(d).state = d.state
           /\ Announced(d, SetTimeout(d))
<1>1. Good(d) /\ d \in ClientData
  BY DEF Sound, Good
<1>2. Good(SetTimeout(d)) /\ SetTimeout(d).state = d.state /\ SetTimeout(d).waiting = d.waiting
  BY <1>1, GoodTimeouts
<1>3. SetTimeout(d).outEvents = d.outEvents
  BY <1>1 DEF SetTimeout, ClientData
<1>4. Announced(d, SetTimeout(d))
  <2> DEFINE e == SetTimeout(d)
  <2>1. /\ e.events = d.events /\ e.timer = "armed" /\ e.dirty = (d.dirty \/ d.timer = "off")
    BY <1>1 DEF SetTimeout, ClientData
  <2>2. d.dirty \in BOOLEAN
    BY <1>1 DEF ClientData
  <2> HIDE DEF e
  <2>3. CASE d.dirty \/ d.timer = "off"
    BY <2>1, <2>2, <2>3 DEF Announced, e
  <2>4. CASE ~d.dirty /\ d.timer # "off"
    BY <2>1, <2>2, <2>4 DEF Announced, e
  <2> QED
    BY <2>3, <2>4
<1> QED
  BY <1>2, <1>3, <1>4 DEF Sound

(* The next event reaches a client: an idle one is sent it at once, for    *)
(* another it waits, the oldest making room.                               *)
LEMMA EnqueueSound ==
    ASSUME NEW d, NEW t \in Nat, NEW n \in Nat, n + 1 \in Events, Sound(d, t, n)
    PROVE  /\ Sound(Enqueue(d, n + 1), t, n + 1)
           /\ Evolves(d, Enqueue(d, n + 1))
           /\ d.state = "WRITING" => Enqueue(d, n + 1).state = "WRITING"
           /\ d.state = "READING" => Enqueue(d, n + 1).state = "READING"
<1> DEFINE pushed == [d EXCEPT !.waiting = Append(@, n + 1)]
           e == Enqueue(d, n + 1)
<1>0. Good(d) /\ d \in ClientData /\ Disciplined(d) /\ Good(e)
  BY GoodEnqueue DEF Sound, Good
<1>1. /\ d.waiting \in Seq(Events) /\ d.outEvents \in Seq(Events)
      /\ d.waiting \in Seq(Nat) /\ d.outEvents \in Seq(Nat) /\ d.outLeft \in Nat
      /\ Len(d.waiting) \in Nat
  BY <1>0, EventsAreNumbers, LimitsAssumption DEF ClientData
<1>2. Append(d.waiting, n + 1) \in Seq(Events)
  BY <1>1
<1>3. /\ pushed \in ClientData /\ Disciplined(pushed)
      /\ pushed.waiting = Append(d.waiting, n + 1) /\ pushed.state = d.state
      /\ pushed.outEvents = d.outEvents /\ pushed.outLeft = d.outLeft
      /\ pushed.events = d.events /\ pushed.timer = d.timer /\ pushed.dirty = d.dirty
  BY <1>0, <1>2 DEF ClientData, Disciplined
<1>4. CASE d.state = "CLOSED"
  <2>1. e = d
    BY <1>4 DEF Enqueue
  <2> QED
    BY <1>4, <2>1, <1>1 DEF Sound, Evolves, Announced, SameResponse
<1>5. CASE d.state = "IDLE"
  <2>1. e = SendIdleEvents(pushed)
    BY <1>5 DEF Enqueue
  <2>2. d.waiting = <<>> /\ d.outEvents = <<>> /\ ~(d.outLeft > 0)
    BY <1>0, <1>5 DEF Sound, Disciplined
  <2>3. Stream(<<>>, <<>>, t, n)
    BY <1>5, <2>2 DEF Sound
  <2>4. Stream(<<>>, pushed.waiting, t, n + 1)
    <3>1. <<>> \in Seq(Nat) /\ Len(<<>>) < WAITING_EVENTS_MAX
      BY LimitsAssumption
    <3>2. Stream(<<>>, Append(<<>>, n + 1), t, n + 1)
      BY <2>3, <3>1, StreamPush
    <3> QED
      BY <1>3, <2>2, <3>2
  <2> HIDE DEF pushed
  <2>5. Sound(e, t, n + 1) /\ e.state = "WRITING" /\ e.dirty
    BY <1>3, <1>5, <2>1, <2>4, SendSound DEF Good
  <2> HIDE DEF e
  <2> QED
    BY <1>5, <2>2, <2>5 DEF Evolves, Announced, SameResponse, e
<1>6. CASE d.state \notin {"CLOSED", "IDLE"}
  <2> DEFINE w == IF Len(d.waiting) < WAITING_EVENTS_MAX THEN Append(d.waiting, n + 1)
                  ELSE Tail(Append(d.waiting, n + 1))
  <2>0. Stream(d.outEvents, d.waiting, t, n) /\ Len(d.waiting) <= WAITING_EVENTS_MAX
    BY <1>6 DEF Sound, Stream
  <2>1. Stream(d.outEvents, w, t, n + 1)
    BY <1>1, <2>0, StreamPush, StreamDrop, LimitsAssumption
  <2>2. Len(pushed.waiting) > WAITING_EVENTS_MAX <=> ~(Len(d.waiting) < WAITING_EVENTS_MAX)
    BY <1>1, <1>3, LimitsAssumption
  <2> HIDE DEF pushed
  <2>3. e = IF Len(pushed.waiting) > WAITING_EVENTS_MAX
            THEN [pushed EXCEPT !.waiting = Tail(@)] ELSE pushed
    BY <1>6 DEF Enqueue, pushed
  <2>4. /\ e.waiting = w /\ e.state = d.state /\ e.outEvents = d.outEvents
        /\ e.outLeft = d.outLeft /\ e.events = d.events /\ e.timer = d.timer
        /\ e.dirty = d.dirty
    BY <1>3, <2>2, <2>3 DEF ClientData
  <2> HIDE DEF e
  <2>5. Sound(e, t, n + 1)
    BY <1>0, <1>6, <2>1, <2>4 DEF Sound
  <2>6. Evolves(d, e)
    BY <1>1, <2>4 DEF Evolves, Announced, SameResponse
  <2> QED
    BY <2>4, <2>5, <2>6 DEF e
<1> QED
  BY <1>4, <1>5, <1>6

(* server_protocol_handler works on the data d of a client whose timeout   *)
(* has been re-armed.                                                      *)
LEMMA HandleIdleSound ==
    ASSUME NEW d, NEW t \in Nat, NEW n, Sound(d, t, n), d.state = "READING"
    PROVE  /\ Sound(HandleIdle(d), t, n) /\ Announced(d, HandleIdle(d))
           /\ HandleIdle(d).state # "CLOSED"
<1>1. Good(d) /\ d \in ClientData /\ d.outEvents = <<>>
  BY DEF Sound, Good, Disciplined
<1>2. CASE d.waiting # <<>>
  <2>1. Stream(<<>>, d.waiting, t, n)
    BY <1>1 DEF Sound
  <2> QED
    BY <1>1, <1>2, <2>1, SendSound DEF HandleIdle, Announced
<1>3. CASE d.waiting = <<>>
  <2> DEFINE r == RemoveTimeout(d)
             e == HandleIdle(d)
  <2>1. Good(e)
    BY <1>1, GoodHandleIdle
  <2>2. e = [r EXCEPT !.state = "IDLE"]
    BY <1>3 DEF HandleIdle
  <2>3. /\ r \in ClientData /\ r.waiting = d.waiting /\ r.outEvents = d.outEvents
        /\ r.events = d.events /\ r.timer = "off" /\ r.dirty = (d.dirty \/ d.timer # "off")
    BY <1>1 DEF RemoveTimeout, ClientData
  <2> HIDE DEF r, e
  <2>4. /\ e.state = "IDLE" /\ e.waiting = d.waiting /\ e.outEvents = d.outEvents
        /\ e.events = d.events /\ e.timer = "off" /\ e.dirty = (d.dirty \/ d.timer # "off")
    BY <2>2, <2>3 DEF ClientData
  <2>5. Sound(e, t, n)
    BY <1>3, <2>1, <2>4 DEF Sound
  <2>6. Announced(d, e)
    <3>1. CASE d.dirty \/ d.timer # "off"
      BY <2>4, <3>1 DEF Announced
    <3>2. CASE ~d.dirty /\ d.timer = "off"
      BY <2>4, <3>2 DEF Announced
    <3> QED
      BY <3>1, <3>2
  <2> QED
    BY <2>4, <2>5, <2>6 DEF e
<1> QED
  BY <1>2, <1>3

(* handle_noidle.                                                          *)
LEMMA HandleNoidleSound ==
    ASSUME NEW d, NEW t \in Nat, NEW n, Sound(d, t, n), d.state \in {"READING", "IDLE"}
    PROVE  /\ Sound(HandleNoidle(d), t, n) /\ HandleNoidle(d).dirty
           /\ HandleNoidle(d).state = "WRITING"
<1> DEFINE s == SetTimeout(d)
<1>1. Sound(s, t, n) /\ s.state = d.state
  BY TimeoutSound
<1>2. s.waiting = d.waiting
  BY GoodTimeouts DEF Sound
<1>3. HandleNoidle(d) = IF d.waiting = <<>> THEN Respond(s, <<>>) ELSE SendIdleEvents(s)
  BY DEF HandleNoidle
<1> HIDE DEF s
<1>4. Good(s) /\ s.outEvents = <<>>
  BY <1>1 DEF Sound, Good, Disciplined
<1>5. Stream(<<>>, s.waiting, t, n)
  BY <1>1, <1>4 DEF Sound
<1> QED
  BY <1>1, <1>3, <1>4, <1>5, RespondSound, SendSound

(* A new client has been told of every event before it came.               *)
LEMMA NewClientSound ==
    ASSUME NEW n \in Nat
    PROVE  Sound(NewClient, n, n) /\ NewClient.state = "WRITING"
<1>1. Good(NewClient)
  BY GoodNewClient
<1>2. NewClient.state = "WRITING" /\ NewClient.outEvents = <<>> /\ NewClient.waiting = <<>>
  BY DEF NewClient, SetTimeout, Respond, Closed
<1> QED
  BY <1>1, <1>2, StreamNew DEF Sound

-----------------------------------------------------------------------------
(* Steps of one client.                                                    *)

AllSound == \A c \in Conns : Sound(data[c], told[c], eventCount)

(* A step that leaves the client list alone and after which the data of    *)
(* every client has evolved.                                               *)
Evolution ==
    /\ UNCHANGED <<clients, update, polled, backlog, peer>>
    /\ \A c \in Conns :
          /\ Evolves(data[c], data'[c])
          /\ Sound(data'[c], told'[c], eventCount')
    /\ \/ chosen' = NoFd
       \/ /\ chosen' = chosen
          /\ \A c \in Conns :
                /\ data[c].state = "WRITING" => data'[c].state = "WRITING"
                /\ net[c] # <<>> => net'[c] # <<>>

(* Nothing happens to a client.                                            *)
LEMMA EvolvesSelf ==
    ASSUME NEW d \in ClientData
    PROVE  Evolves(d, d)
<1>1. d.outLeft \in Nat /\ d.dirty \in BOOLEAN
  BY LimitsAssumption DEF ClientData
<1> QED
  BY <1>1 DEF Evolves, Announced, SameResponse

(* A handler for one client.                                               *)
LEMMA HandledEvolves ==
    ASSUME TypeOK, AllSound, NEW c \in Conns, NEW d,
           Sound(d, told[c], eventCount), Evolves(data[c], d), NEW n, Handled(c, d, n),
           chosen' = NoFd, UNCHANGED <<polled, backlog, lines>>
    PROVE  Evolution
<1>1. data' = [data EXCEPT ![c] = d] /\ UNCHANGED <<clients, update, eventCount, peer, told>>
  BY DEF Handled
<1>2. ASSUME NEW x \in Conns
      PROVE  Evolves(data[x], data'[x]) /\ Sound(data'[x], told'[x], eventCount')
  <2>1. CASE x = c
    BY <1>1, <2>1 DEF TypeOK
  <2>2. CASE x # c
    <3>1. data'[x] = data[x] /\ data[x] \in ClientData
      BY <1>1, <2>2 DEF TypeOK
    <3> QED
      BY <1>1, <3>1, EvolvesSelf DEF AllSound
  <2> QED
    BY <2>1, <2>2
<1> QED
  BY <1>1, <1>2 DEF Evolution

(* An event for everyone.                                                  *)
LEMMA RaiseEventSound ==
    ASSUME TypeOK, eventCount < EventsMax, NEW dat \in [Conns -> ClientData],
           NEW c \in Conns, Sound(dat[c], told[c], eventCount)
    PROVE  /\ Sound(RaiseEvent(dat)[c], told[c], eventCount + 1)
           /\ Evolves(dat[c], RaiseEvent(dat)[c])
           /\ dat[c].state = "WRITING" => RaiseEvent(dat)[c].state = "WRITING"
           /\ dat[c].state = "READING" => RaiseEvent(dat)[c].state = "READING"
<1>1. eventCount \in Nat /\ eventCount + 1 \in Events /\ told[c] \in Nat
  BY LimitsAssumption DEF TypeOK, Events
<1>2. RaiseEvent(dat)[c] = Enqueue(dat[c], eventCount + 1)
  BY DEF RaiseEvent
<1> QED
  BY <1>1, <1>2, EnqueueSound

(* server_protocol_handler: every command but close leaves sound data.     *)
LEMMA ProtocolEvolves ==
    ASSUME TypeOK, AllSound, NEW c \in Conns, NEW d, data[c].state \in {"READING", "IDLE"},
           Sound(d, told[c], eventCount), d.state = data[c].state, Announced(data[c], d),
           NEW n, Protocol(c, d, n), ~Disconnect(c),
           chosen' = NoFd, UNCHANGED <<polled, backlog, lines>>
    PROVE  Evolution
<1>1. told[c] \in Nat /\ data[c] \in ClientData /\ ~(data[c].outLeft > 0)
  <2>1. Good(data[c])
    BY DEF AllSound, Sound
  <2> QED
    BY <2>1, LimitsAssumption DEF TypeOK, Good, Disciplined
<1>2. ASSUME NEW e, e.state # "CLOSED", Announced(d, e) PROVE Evolves(data[c], e)
  BY <1>1, <1>2, AnnouncedTwice DEF Evolves, SameResponse
<1>3. CASE Handled(c, d, n)
  <2>1. Evolves(data[c], d)
    BY <1>1 DEF Evolves, SameResponse
  <2> QED
    BY <1>3, <2>1, HandledEvolves
<1>4. CASE Handled(c, Respond(d, <<>>), n)
  <2> DEFINE e == Respond(d, <<>>)
  <2>1. Sound(e, told[c], eventCount) /\ e.state = "WRITING" /\ e.dirty
    BY RespondSound
  <2> HIDE DEF e
  <2>2. Evolves(data[c], e)
    BY <1>2, <2>1 DEF Announced
  <2> QED
    BY <1>4, <2>1, <2>2, HandledEvolves DEF e
<1>5. CASE Handled(c, HandleNoidle(d), n)
  <2> DEFINE e == HandleNoidle(d)
  <2>1. Sound(e, told[c], eventCount) /\ e.state = "WRITING" /\ e.dirty
    BY <1>1, HandleNoidleSound
  <2> HIDE DEF e
  <2>2. Evolves(data[c], e)
    BY <1>2, <2>1 DEF Announced
  <2> QED
    BY <1>5, <2>1, <2>2, HandledEvolves DEF e
<1>6. CASE d.state # "IDLE" /\ Handled(c, HandleIdle(d), n)
  <2> DEFINE e == HandleIdle(d)
  <2>1. Sound(e, told[c], eventCount) /\ e.state # "CLOSED" /\ Announced(d, e)
    BY <1>1, <1>6, HandleIdleSound
  <2> HIDE DEF e
  <2>2. Evolves(data[c], e)
    BY <1>2, <2>1
  <2> QED
    BY <1>6, <2>1, <2>2, HandledEvolves DEF e
<1>7. CASE /\ d.state # "IDLE"
           /\ eventCount < EventsMax
           /\ eventCount' = eventCount + 1
           /\ LET raised == RaiseEvent([data EXCEPT ![c] = d])
              IN data' = [raised EXCEPT ![c] = Respond(raised[c], <<>>)]
           /\ net' = [net EXCEPT ![c] = SubSeq(@, n + 1, Len(@))]
           /\ UNCHANGED <<clients, update, running, peer, told>>
  <2> DEFINE dat == [data EXCEPT ![c] = d]
             raised == RaiseEvent(dat)
  <2>1. /\ dat \in [Conns -> ClientData] /\ dat[c] = d
        /\ \A x \in Conns : Sound(dat[x], told[x], eventCount)
        /\ \A x \in Conns \ {c} : dat[x] = data[x]
    BY DEF TypeOK, AllSound, Sound, Good
  <2> HIDE DEF dat
  <2>2. \A x \in Conns : /\ Sound(raised[x], told[x], eventCount + 1)
                         /\ Evolves(dat[x], raised[x])
    BY <1>7, <2>1, RaiseEventSound
  <2>3. raised[c].state = "READING"
    BY <1>7, <2>1, RaiseEventSound
  <2>4. data' = [raised EXCEPT ![c] = Respond(raised[c], <<>>)] /\ DOMAIN raised = Conns
    BY <1>7 DEF RaiseEvent, dat
  <2> HIDE DEF raised
  <2> DEFINE e == Respond(raised[c], <<>>)
  <2>5. Sound(e, told[c], eventCount + 1) /\ e.state = "WRITING" /\ e.dirty
    BY <2>2, <2>3, RespondSound
  <2> HIDE DEF e
  <2>6. Evolves(data[c], e)
    BY <1>2, <2>5 DEF Announced
  <2>7. data'[c] = e /\ \A x \in Conns \ {c} : data'[x] = raised[x]
    BY <2>4 DEF e
  <2> QED
    BY <1>7, <2>1, <2>2, <2>5, <2>6, <2>7 DEF Evolution
<1> QED
  BY <1>3, <1>4, <1>5, <1>6, <1>7 DEF Protocol

(* The reading half of server_client_connection_handle.                    *)
LEMMA ReadEvolves ==
    ASSUME TypeOK, AllSound, NEW c \in Conns, Read(c), ~Disconnect(c),
           chosen' = NoFd, UNCHANGED <<polled, backlog, lines>>
    PROVE  Evolution
<1> DEFINE d == data[c]
<1>1. /\ Sound(d, told[c], eventCount) /\ d \in ClientData /\ Good(d)
      /\ d.state \in {"READING", "IDLE"} /\ ~(d.outLeft > 0)
  <2>1. Sound(d, told[c], eventCount) /\ d.state \in {"READING", "IDLE"}
    BY DEF Read, AllSound
  <2> QED
    BY <2>1, LimitsAssumption DEF Sound, Good, Disciplined
<1>2. ASSUME NEW e, Sound(e, told[c], eventCount), e.state = d.state,
             NEW b \in 0..(InputChunksMax - 1)
      PROVE  /\ Sound([e EXCEPT !.bufIn = b], told[c], eventCount)
             /\ [e EXCEPT !.bufIn = b].state = d.state
             /\ Announced(e, [e EXCEPT !.bufIn = b])
  <2> DEFINE f == [e EXCEPT !.bufIn = b]
  <2>1. e \in ClientData /\ Disciplined(e)
    BY <1>2 DEF Sound, Good
  <2>2. /\ f \in ClientData
        /\ f.state = e.state /\ f.events = e.events /\ f.outLeft = e.outLeft
        /\ f.outEvents = e.outEvents /\ f.waiting = e.waiting /\ f.timer = e.timer
        /\ f.dirty = e.dirty /\ e.dirty \in BOOLEAN
    BY <1>2, <2>1 DEF ClientData
  <2> HIDE DEF f
  <2>3. Good(f)
    BY <2>1, <2>2 DEF Good, Disciplined
  <2>4. Sound(f, told[c], eventCount)
    BY <1>1, <1>2, <2>2, <2>3 DEF Sound
  <2>5. Announced(e, f)
    BY <2>2 DEF Announced
  <2> QED
    BY <1>2, <2>2, <2>4, <2>5 DEF f
<1>3. CASE /\ ~TooLong(data[c].bufIn + 1)
           /\ Handled(c, [data[c] EXCEPT !.bufIn = @ + 1], 1)
  <2>1. d.bufIn + 1 \in 0..(InputChunksMax - 1)
    BY <1>1, <1>3, LimitsAssumption DEF ClientData, TooLong
  <2> DEFINE e == [d EXCEPT !.bufIn = d.bufIn + 1]
  <2>2. Sound(e, told[c], eventCount) /\ e.state = d.state /\ Announced(d, e)
    BY <1>1, <1>2, <2>1
  <2>3. Handled(c, e, 1)
    BY <1>3
  <2> HIDE DEF e
  <2>4. Evolves(data[c], e)
    BY <1>1, <2>2 DEF Evolves, SameResponse
  <2> QED
    BY <2>2, <2>3, <2>4, HandledEvolves
<1>4. CASE \E n \in 1..Len(net[c]) :
              Protocol(c, [SetTimeout(data[c]) EXCEPT !.bufIn = 0], n)
  <2> DEFINE t == SetTimeout(d)
             e == [t EXCEPT !.bufIn = 0]
  <2>1. PICK n \in 1..Len(net[c]) : Protocol(c, e, n)
    BY <1>4
  <2>2. Sound(t, told[c], eventCount) /\ t.state = d.state /\ Announced(d, t)
    BY <1>1, TimeoutSound
  <2> HIDE DEF t
  <2>3. 0 \in 0..(InputChunksMax - 1)
    BY LimitsAssumption
  <2>4. Sound(e, told[c], eventCount) /\ e.state = d.state /\ Announced(t, e)
    BY <1>2, <2>2, <2>3
  <2> HIDE DEF e
  <2>5. Announced(data[c], e)
    BY <2>2, <2>4, AnnouncedTwice
  <2> QED
    BY <1>1, <2>1, <2>4, <2>5, ProtocolEvolves
<1> QED
  BY <1>3, <1>4 DEF Read

(* The writing half.                                                       *)
LEMMA WriteEvolves ==
    ASSUME TypeOK, AllSound, NEW c \in Conns, Write(c), ~Disconnect(c),
           chosen' = NoFd, UNCHANGED <<polled, backlog, lines>>
    PROVE  Evolution
<1> DEFINE d == data[c]
<1>1. /\ Sound(d, told[c], eventCount) /\ d \in ClientData /\ Disciplined(d)
      /\ d.state = "WRITING" /\ d.outLeft \in Nat /\ d.dirty \in BOOLEAN
      /\ d.outEvents \in Seq(Nat) /\ d.waiting \in Seq(Nat) /\ told[c] \in Nat
  <2>1. Sound(d, told[c], eventCount) /\ d.state = "WRITING" /\ told[c] \in Nat
    BY LimitsAssumption DEF Write, AllSound, TypeOK
  <2>2. d \in ClientData /\ Disciplined(d)
    BY <2>1 DEF Sound, Good
  <2> QED
    BY <2>1, <2>2, EventsAreNumbers, LimitsAssumption DEF ClientData
<1>2. CASE d.outLeft > 1 /\ Handled(c, [d EXCEPT !.outLeft = @ - 1], 0)
  <2> DEFINE e == [d EXCEPT !.outLeft = @ - 1]
  <2>1. d.outLeft - 1 \in 0..OutChunks /\ d.outLeft - 1 > 0
    <3>1. d.outLeft \in 0..OutChunks
      BY <1>1 DEF ClientData
    <3>2. d.outLeft > 1
      BY <1>2
    <3> HIDE DEF d
    <3> QED
      BY <3>1, <3>2, LimitsAssumption
  <2>2. /\ e \in ClientData
        /\ e.state = d.state /\ e.events = d.events /\ e.outLeft = d.outLeft - 1
        /\ e.outEvents = d.outEvents /\ e.waiting = d.waiting /\ e.timer = d.timer
        /\ e.dirty = d.dirty
    BY <1>1, <2>1 DEF ClientData
  <2> HIDE DEF e
  <2>3. Good(e)
    BY <1>1, <2>1, <2>2 DEF Good, Disciplined
  <2>4. Sound(e, told[c], eventCount)
    BY <1>1, <2>2, <2>3 DEF Sound
  <2>5. Evolves(d, e)
    BY <1>1, <2>1, <2>2 DEF Evolves, Announced, SameResponse
  <2> QED
    BY <1>2, <2>4, <2>5, HandledEvolves DEF e
<1>3. CASE /\ data' = [data EXCEPT ![c].state = "READING", ![c].events = "POLLIN",
                                   ![c].dirty = TRUE, ![c].outLeft = 0,
                                   ![c].outEvents = <<>>]
           /\ told' = [told EXCEPT ![c] = IF data[c].outEvents = <<>> THEN @
                                          ELSE Last(data[c].outEvents)]
           /\ UNCHANGED <<clients, update, running, eventCount, peer, net>>
  <2> DEFINE e == [d EXCEPT !.state = "READING", !.events = "POLLIN", !.dirty = TRUE,
                            !.outLeft = 0, !.outEvents = <<>>]
  <2>1. data' = [data EXCEPT ![c] = e]
    BY <1>3 DEF TypeOK
  <2>2. /\ e \in ClientData
        /\ e.state = "READING" /\ e.events = "POLLIN" /\ e.outLeft = 0
        /\ e.outEvents = <<>> /\ e.waiting = d.waiting /\ e.dirty
    <3>1. <<>> \in Seq(Events) /\ 0 \in 0..OutChunks
      BY LimitsAssumption
    <3>2. e \in ClientData
      BY <1>1, <3>1 DEF ClientData, States
    <3> QED
      BY <1>1, <3>2 DEF ClientData
  <2> HIDE DEF e
  <2>3. Good(e)
    BY <2>2 DEF Good, Disciplined
  <2>4. told' = [told EXCEPT ![c] = LastOr(d.outEvents, told[c])]
    BY <1>3 DEF LastOr, TypeOK
  <2>5. Stream(<<>>, d.waiting, LastOr(d.outEvents, told[c]), eventCount)
    BY <1>1, StreamDone DEF Sound
  <2>6. Sound(e, LastOr(d.outEvents, told[c]), eventCount)
    BY <2>2, <2>3, <2>5 DEF Sound
  <2>7. Evolves(d, e)
    BY <1>1, <2>2 DEF Evolves, Announced, SameResponse
  <2>8. ASSUME NEW x \in Conns
        PROVE  Evolves(data[x], data'[x]) /\ Sound(data'[x], told'[x], eventCount')
    <3>1. CASE x = c
      BY <1>3, <2>1, <2>4, <2>6, <2>7, <3>1 DEF TypeOK
    <3>2. CASE x # c
      <4>1. data'[x] = data[x] /\ told'[x] = told[x] /\ data[x] \in ClientData
        BY <2>1, <2>4, <3>2 DEF TypeOK
      <4> QED
        BY <1>3, <4>1, EvolvesSelf DEF AllSound
    <3> QED
      BY <3>1, <3>2
  <2> QED
    BY <1>3, <2>8 DEF Evolution
<1>4. CASE running' = FALSE /\ UNCHANGED <<clients, data, update, eventCount, peer, net, told>>
  <2>1. \A x \in Conns : Evolves(data[x], data[x])
    BY EvolvesSelf DEF TypeOK
  <2> QED
    BY <1>4, <2>1 DEF Evolution, AllSound
<1> QED
  BY <1>2, <1>3, <1>4 DEF Write

-----------------------------------------------------------------------------
(* What a step is, and the data of all clients.                            *)

(* The handler disconnects the client that poll reported.                  *)
Disconnection(c) ==
    /\ chosen \in {Hangup(c), Io(c), Timeout(c)}
    /\ chosen' = NoFd
    /\ Disconnect(c)
    /\ UNCHANGED <<polled, backlog, lines>>

(* Every step polls, accepts, disconnects, is one of the clients', or lets *)
(* the data of the clients evolve.                                         *)
LEMMA StepKinds ==
    ASSUME TypeOK, AllSound, [Next]_vars
    PROVE  \/ Poll
           \/ DelegateConnect
           \/ \E c \in Conns : Disconnection(c) \/ ClientConnect(c) \/ ClientClose(c)
           \/ Evolution
<1>1. \A x \in Conns : Evolves(data[x], data[x])
  BY EvolvesSelf DEF TypeOK
<1>2. CASE MhdRun \/ DelegateGpio
  <2>1. /\ eventCount < EventsMax /\ eventCount' = eventCount + 1 /\ data' = RaiseEvent(data)
        /\ UNCHANGED <<clients, update, polled, backlog, peer, net, told>>
        /\ chosen' = NoFd \/ chosen' = chosen
    BY <1>2 DEF MhdRun, DelegateGpio, env
  <2>2. \A x \in Conns : /\ Sound(data'[x], told[x], eventCount + 1)
                         /\ Evolves(data[x], data'[x])
                         /\ data[x].state = "WRITING" => data'[x].state = "WRITING"
    BY <2>1, RaiseEventSound DEF TypeOK, AllSound
  <2> QED
    BY <2>1, <2>2 DEF Evolution
<1>3. CASE DelegateNothing \/ AcceptFails \/ UNCHANGED vars
  BY <1>1, <1>3 DEF DelegateNothing, AcceptFails, vars, server, env, Evolution, AllSound
<1>4. ASSUME NEW c \in Conns, DelegateClient(c)
      PROVE  Disconnection(c) \/ Evolution
  <2>1. chosen' = NoFd /\ UNCHANGED <<polled, backlog, lines>>
    BY <1>4 DEF DelegateClient
  <2>2. CASE Disconnect(c)
    BY <1>4, <2>1, <2>2 DEF DelegateClient, Disconnection
  <2>3. CASE ~Disconnect(c)
    BY <1>4, <2>1, <2>3, ReadEvolves, WriteEvolves
    DEF DelegateClient, HandleHangup, ClientTimeout
  <2> QED
    BY <2>2, <2>3
<1>5. ASSUME NEW c \in Conns, NEW l \in Lines, ClientSend(c, l) PROVE Evolution
  <2>1. \A x \in Conns : net[x] # <<>> => net'[x] # <<>>
    <3>1. Append(net[c], l) # <<>>
      <4>1. net[c] \in Seq(Lines)
        BY DEF TypeOK
      <4> QED
        BY <4>1, AppendProperties
    <3>2. net' = [net EXCEPT ![c] = Append(net[c], l)]
      BY <1>5 DEF ClientSend
    <3> QED
      BY <3>1, <3>2 DEF TypeOK
  <2> QED
    BY <1>1, <1>5, <2>1 DEF ClientSend, server, Evolution, AllSound
<1>6. ASSUME NEW c \in Conns, TimerExpire(c) PROVE Evolution
  <2> DEFINE d == data[c]
             e == [d EXCEPT !.timer = "expired"]
  <2>1. Sound(d, told[c], eventCount) /\ d \in ClientData /\ Disciplined(d) /\ d.timer = "armed"
    BY <1>6 DEF TimerExpire, AllSound, Sound, Good
  <2>2. /\ e \in ClientData
        /\ e.state = d.state /\ e.events = d.events /\ e.outLeft = d.outLeft
        /\ e.outEvents = d.outEvents /\ e.waiting = d.waiting /\ e.timer = "expired"
        /\ e.dirty = d.dirty /\ e.dirty \in BOOLEAN /\ d.outLeft \in Nat
    <3>1. e \in ClientData
      BY <2>1 DEF ClientData
    <3>2. d.dirty \in BOOLEAN /\ d.outLeft \in Nat
      BY <2>1, LimitsAssumption DEF ClientData
    <3> QED
      BY <2>1, <3>1, <3>2 DEF ClientData
  <2>3. data' = [data EXCEPT ![c] = e]
    BY <1>6 DEF TimerExpire, TypeOK
  <2> HIDE DEF e
  <2>4. Sound(e, told[c], eventCount)
    <3>1. Good(e)
      BY <2>1, <2>2 DEF Good, Disciplined
    <3>2. d.state # "CLOSED"
      BY <2>1 DEF Sound, Closed
    <3> QED
      BY <2>1, <2>2, <3>1, <3>2 DEF Sound
  <2>5. Evolves(d, e)
    BY <2>1, <2>2 DEF Evolves, Announced, SameResponse
  <2>6. ASSUME NEW x \in Conns
        PROVE  /\ Evolves(data[x], data'[x]) /\ Sound(data'[x], told[x], eventCount)
               /\ data'[x].state = data[x].state
    <3>1. CASE x = c
      BY <2>2, <2>3, <2>4, <2>5, <3>1 DEF TypeOK
    <3>2. CASE x # c
      <4>1. data'[x] = data[x]
        BY <2>3, <3>2 DEF TypeOK
      <4> QED
        BY <1>1, <4>1 DEF AllSound
    <3> QED
      BY <3>1, <3>2
  <2> QED
    BY <1>6, <2>6 DEF TimerExpire, Evolution, env
<1> QED
  BY <1>2, <1>3, <1>4, <1>5, <1>6 DEF Next, Delegate

(* The data of every client stays sound.                                   *)
LEMMA SoundStep == TypeOK /\ AllSound /\ [Next]_vars => AllSound'
<1> SUFFICES ASSUME TypeOK, AllSound, [Next]_vars PROVE AllSound'
  OBVIOUS
<1>0. TypeOK' /\ \A c \in Conns : Good(data'[c])
  <2>1. AllGood
    BY DEF AllSound, AllGood, Sound
  <2> QED
    BY <2>1, StepKeeps DEF AllGood
<1>1. CASE Poll
  <2>1. \A c \in Conns : data'[c] = [data[c] EXCEPT !.dirty = FALSE]
    BY <1>1 DEF Poll
  <2>2. UNCHANGED <<eventCount, told>>
    BY <1>1 DEF Poll, env
  <2>3. ASSUME NEW c \in Conns PROVE Sound(data'[c], told[c], eventCount)
    <3>1. Sound(data[c], told[c], eventCount) /\ data[c] \in ClientData
      BY DEF AllSound, TypeOK
    <3>2. /\ data'[c].state = data[c].state /\ data'[c].waiting = data[c].waiting
          /\ data'[c].outEvents = data[c].outEvents
      BY <2>1, <3>1 DEF ClientData
    <3>3. data[c] = Closed => data'[c] = Closed
      BY <2>1 DEF Closed
    <3> QED
      BY <1>0, <3>1, <3>2, <3>3 DEF Sound
  <2> QED
    BY <2>2, <2>3 DEF AllSound
<1>2. CASE DelegateConnect
  <2> DEFINE c == Head(backlog)
  <2>1. CASE RefuseClient(Head(backlog))
    BY <1>2, <2>1 DEF DelegateConnect, AcceptClient, RefuseClient, AllSound
  <2>2. CASE AcceptClient(Head(backlog))
    <3>1. /\ data' = [data EXCEPT ![c] = NewClient]
          /\ told' = [told EXCEPT ![c] = eventCount]
          /\ eventCount' = eventCount
      BY <1>2, <2>2 DEF DelegateConnect, AcceptClient, RefuseClient
    <3>2. eventCount \in Nat
      BY LimitsAssumption DEF TypeOK
    <3>3. Sound(NewClient, eventCount, eventCount)
      BY <3>2, NewClientSound
    <3> HIDE DEF c
    <3> QED
      BY <3>1, <3>3 DEF AllSound, TypeOK
  <2> QED
    BY <1>2, <2>1, <2>2 DEF DelegateConnect
<1>3. ASSUME NEW c \in Conns, Disconnection(c) PROVE AllSound'
  <2>1. Sound(Closed, 0, eventCount)
    BY GoodClosed DEF Sound, Closed
  <2> QED
    BY <1>3, <2>1 DEF Disconnection, Disconnect, AllSound, TypeOK
<1>4. ASSUME NEW c \in Conns, ClientConnect(c) \/ ClientClose(c) PROVE AllSound'
  BY <1>4 DEF ClientConnect, ClientClose, server, AllSound
<1>5. CASE Evolution
  BY <1>5 DEF Evolution, AllSound
<1> QED
  BY <1>1, <1>2, <1>3, <1>4, <1>5, StepKinds

(* No connection is open at the start.                                     *)
LEMMA InitSound == Init => AllSound
<1>1. Init => \A c \in Conns : data[c] = Closed
  BY DEF Init
<1>2. Closed.state = "CLOSED"
  BY DEF Closed
<1> QED
  BY <1>1, <1>2, GoodClosed DEF AllSound, Sound

(* The inductive invariant on the data of the clients.                     *)
LEMMA SoundInvariant == Spec => [](TypeOK /\ AllSound)
<1>1. TypeOK /\ AllSound => AllGood
  BY DEF AllSound, AllGood, Sound
<1> QED
  BY <1>1, InitGood, InitSound, StepKeeps, SoundStep, PTL DEF Spec

(* A client in idle mode has no event waiting.                             *)
THEOREM IdleCorrect == Spec => []IdleHasNoEvents
<1>1. AllSound => IdleHasNoEvents
  BY DEF AllSound, Sound, IdleHasNoEvents
<1> QED
  BY <1>1, SoundInvariant, PTL

(* Every client is told of every event once and in order.                  *)
THEOREM StreamCorrect == Spec => []EventStream
<1>1. AllSound => EventStream
  BY DEF AllSound, Sound, Stream, EventStream
<1> QED
  BY <1>1, SoundInvariant, PTL

-----------------------------------------------------------------------------
(* Sequences without repetitions.                                          *)

(* No client occurs twice.                                                 *)
Distinct(q) == \A i, j \in DOMAIN q : q[i] = q[j] => i = j
Occurs(c, q) == \E i \in DOMAIN q : q[i] = c

(* Removing the node of a client removes that client and no other.         *)
LEMMA RemoveAtDistinct ==
    ASSUME NEW S, NEW q \in Seq(S), Distinct(q), NEW i \in DOMAIN q
    PROVE  /\ RemoveAt(q, i) \in Seq(S)
           /\ Distinct(RemoveAt(q, i))
           /\ Len(RemoveAt(q, i)) = Len(q) - 1
           /\ \A c \in S : Occurs(c, RemoveAt(q, i)) <=> Occurs(c, q) /\ c # q[i]
<1> DEFINE r == RemoveAt(q, i)
           n == Len(q)
<1>1. n \in Nat /\ i \in 1..n /\ DOMAIN q = 1..n
  OBVIOUS
<1>2. /\ SubSeq(q, 1, i - 1) \in Seq(S) /\ Len(SubSeq(q, 1, i - 1)) = i - 1
      /\ \A k \in 1..(i - 1) : SubSeq(q, 1, i - 1)[k] = q[k]
  BY <1>1
<1>3. /\ SubSeq(q, i + 1, n) \in Seq(S) /\ Len(SubSeq(q, i + 1, n)) = n - i
      /\ \A k \in 1..(n - i) : SubSeq(q, i + 1, n)[k] = q[k + i]
  BY <1>1
<1>4. /\ r \in Seq(S) /\ Len(r) = n - 1
      /\ \A k \in 1..(n - 1) : r[k] = IF k < i THEN q[k] ELSE q[k + 1]
  <2> DEFINE a == SubSeq(q, 1, i - 1)
             b == SubSeq(q, i + 1, n)
  <2>1. r = a \o b
    BY DEF RemoveAt
  <2>2. /\ a \in Seq(S) /\ Len(a) = i - 1 /\ \A k \in 1..(i - 1) : a[k] = q[k]
        /\ b \in Seq(S) /\ Len(b) = n - i /\ \A k \in 1..(n - i) : b[k] = q[k + i]
    BY <1>2, <1>3
  <2> HIDE DEF a, b, r, n
  <2>3. /\ r \in Seq(S) /\ Len(r) = Len(a) + Len(b)
        /\ \A k \in 1..Len(r) : r[k] = IF k <= Len(a) THEN a[k] ELSE b[k - Len(a)]
    <3>0. a \in Seq(S) /\ b \in Seq(S)
      BY <2>2
    <3>1. a \o b \in Seq(S) /\ Len(a \o b) = Len(a) + Len(b)
      BY <3>0
    <3>2. \A k \in 1..(Len(a) + Len(b)) : (a \o b)[k] = IF k <= Len(a) THEN a[k] ELSE b[k - Len(a)]
      BY <3>0
    <3> QED
      BY <2>1, <3>1, <3>2
  <2>4. Len(r) = n - 1
    BY <1>1, <2>2, <2>3
  <2>5. ASSUME NEW k \in 1..(n - 1) PROVE r[k] = IF k < i THEN q[k] ELSE q[k + 1]
    <3>1. CASE k < i
      BY <1>1, <2>2, <2>3, <2>4, <3>1
    <3>2. CASE ~(k < i)
      <4>1. k - Len(a) \in 1..(n - i) /\ (k - Len(a)) + i = k + 1
        BY <1>1, <2>2, <3>2
      <4>2. r[k] = b[k - Len(a)]
        BY <1>1, <2>2, <2>3, <2>4, <3>2
      <4> QED
        BY <2>2, <3>2, <4>1, <4>2
    <3> QED
      BY <3>1, <3>2
  <2> QED
    BY <2>3, <2>4, <2>5
<1> HIDE DEF r
<1>5. DOMAIN r = 1..(n - 1)
  BY <1>4
<1>6. Distinct(r)
  <2> SUFFICES ASSUME NEW j \in 1..(n - 1), NEW k \in 1..(n - 1), r[j] = r[k] PROVE j = k
    BY <1>5 DEF Distinct
  <2> DEFINE J == IF j < i THEN j ELSE j + 1
             K == IF k < i THEN k ELSE k + 1
  <2>1. J \in DOMAIN q /\ K \in DOMAIN q /\ q[J] = q[K]
    BY <1>1, <1>4
  <2>2. J = K
    BY <2>1 DEF Distinct
  <2> QED
    BY <1>1, <2>2
<1>7. ASSUME NEW c \in S PROVE Occurs(c, r) <=> Occurs(c, q) /\ c # q[i]
  <2>1. ASSUME NEW k \in 1..(n - 1), r[k] = c PROVE Occurs(c, q) /\ c # q[i]
    <3> DEFINE K == IF k < i THEN k ELSE k + 1
    <3>1. K \in DOMAIN q /\ K # i /\ q[K] = c
      BY <1>1, <1>4, <2>1
    <3> QED
      BY <3>1 DEF Occurs, Distinct
  <2>2. ASSUME NEW k \in DOMAIN q, q[k] = c, c # q[i] PROVE Occurs(c, r)
    <3> DEFINE K == IF k < i THEN k ELSE k - 1
    <3>1. k # i
      BY <2>2
    <3>2. K \in 1..(n - 1) /\ (IF K < i THEN K ELSE K + 1) = k
      BY <1>1, <3>1
    <3>3. r[K] = c
      BY <1>4, <2>2, <3>2
    <3> QED
      BY <1>5, <3>2, <3>3 DEF Occurs
  <2> QED
    BY <1>5, <2>1, <2>2 DEF Occurs
<1> QED
  BY <1>4, <1>6, <1>7 DEF r

(* A new element at the end.                                               *)
LEMMA AppendDistinct ==
    ASSUME NEW S, NEW q \in Seq(S), Distinct(q), NEW e \in S, ~Occurs(e, q)
    PROVE  /\ Append(q, e) \in Seq(S) /\ Distinct(Append(q, e))
           /\ \A c \in S : Occurs(c, Append(q, e)) <=> Occurs(c, q) \/ c = e
<1> DEFINE r == Append(q, e)
<1>1. /\ r \in Seq(S) /\ DOMAIN r = 1..(Len(q) + 1) /\ DOMAIN q = 1..Len(q) /\ Len(q) \in Nat
      /\ \A k \in 1..Len(q) : r[k] = q[k]
      /\ r[Len(q) + 1] = e
  OBVIOUS
<1> HIDE DEF r
<1>2. Distinct(r)
  BY <1>1 DEF Distinct, Occurs
<1>3. ASSUME NEW c \in S PROVE Occurs(c, r) <=> Occurs(c, q) \/ c = e
  BY <1>1 DEF Occurs
<1> QED
  BY <1>1, <1>2, <1>3 DEF r

(* The first element leaves.                                               *)
LEMMA TailDistinct ==
    ASSUME NEW S, NEW q \in Seq(S), Distinct(q), q # <<>>
    PROVE  /\ Tail(q) \in Seq(S) /\ Distinct(Tail(q)) /\ Head(q) \in S
           /\ \A c \in S : Occurs(c, Tail(q)) <=> Occurs(c, q) /\ c # Head(q)
<1> DEFINE r == Tail(q)
<1>1. /\ r \in Seq(S) /\ DOMAIN r = 1..(Len(q) - 1) /\ DOMAIN q = 1..Len(q)
      /\ Len(q) \in Nat /\ 1 \in DOMAIN q /\ Head(q) = q[1] /\ Head(q) \in S
      /\ \A k \in 1..(Len(q) - 1) : r[k] = q[k + 1]
  OBVIOUS
<1> HIDE DEF r
<1>2. Distinct(r)
  BY <1>1 DEF Distinct
<1>3. ASSUME NEW c \in S PROVE Occurs(c, r) <=> Occurs(c, q) /\ c # Head(q)
  <2>1. ASSUME NEW k \in DOMAIN r, r[k] = c PROVE Occurs(c, q) /\ c # Head(q)
    <3>1. k + 1 \in DOMAIN q /\ q[k + 1] = c /\ k + 1 # 1
      BY <1>1, <2>1
    <3> QED
      BY <1>1, <3>1 DEF Distinct, Occurs
  <2>2. ASSUME NEW k \in DOMAIN q, q[k] = c, c # Head(q) PROVE Occurs(c, r)
    <3>1. k - 1 \in DOMAIN r /\ r[k - 1] = c
      BY <1>1, <2>2
    <3> QED
      BY <3>1 DEF Occurs
  <2> QED
    BY <2>1, <2>2 DEF Occurs
<1> QED
  BY <1>1, <1>2, <1>3 DEF r

-----------------------------------------------------------------------------
(* The client list and the backlog.                                        *)

(* Who waits to be accepted.                                               *)
BacklogOk ==
    /\ Distinct(backlog)
    /\ \A c \in Conns : Occurs(c, backlog) => peer[c] # "none" /\ data[c].state = "CLOSED"
    /\ \A c \in Conns : peer[c] = "none" => data[c].state = "CLOSED"

(* ClientListOk in the words of the lemmas on sequences.                   *)
LEMMA ClientListIs ==
    ClientListOk <=>
        /\ Len(clients) <= CLIENT_CONNECTIONS_MAX
        /\ Distinct(clients)
        /\ \A c \in Conns : Occurs(c, clients) <=> data[c].state # "CLOSED"
  BY DEF ClientListOk, Distinct, Occurs

(* server_client_disconnect.                                               *)
LEMMA DisconnectLists ==
    ASSUME TypeOK, ClientListOk, BacklogOk, NEW c \in Conns, Disconnection(c)
    PROVE  ClientListOk' /\ BacklogOk'
<1>1. PICK i \in DOMAIN clients : clients[i] = c /\ clients' = RemoveAt(clients, i)
  BY DEF Disconnection, Disconnect
<1>2. /\ data' = [data EXCEPT ![c] = Closed] /\ peer' = [peer EXCEPT ![c] = "none"]
      /\ backlog' = backlog /\ Closed.state = "CLOSED"
  BY DEF Disconnection, Disconnect, Closed
<1>3. /\ clients \in Seq(Conns) /\ Distinct(clients) /\ Len(clients) <= CLIENT_CONNECTIONS_MAX
      /\ \A x \in Conns : Occurs(x, clients) <=> data[x].state # "CLOSED"
      /\ Len(clients) \in Nat
  BY ClientListIs DEF TypeOK
<1>4. /\ Distinct(clients') /\ Len(clients') = Len(clients) - 1
      /\ \A x \in Conns : Occurs(x, clients') <=> Occurs(x, clients) /\ x # c
  BY <1>1, <1>3, RemoveAtDistinct
<1>5. ASSUME NEW x \in Conns
      PROVE  /\ data'[x].state = IF x = c THEN "CLOSED" ELSE data[x].state
             /\ peer'[x] = IF x = c THEN "none" ELSE peer[x]
  BY <1>2 DEF TypeOK
<1>6. ClientListOk'
  <2>1. Len(clients') <= CLIENT_CONNECTIONS_MAX
    BY <1>3, <1>4, LimitsAssumption
  <2>2. \A x \in Conns : Occurs(x, clients') <=> data'[x].state # "CLOSED"
    BY <1>3, <1>4, <1>5
  <2> QED
    BY <1>4, <2>1, <2>2 DEF ClientListOk, Distinct, Occurs
<1>7. data[c].state # "CLOSED"
  BY <1>1, <1>3 DEF Occurs
<1>8. BacklogOk'
  BY <1>2, <1>5, <1>7 DEF BacklogOk, Distinct, Occurs
<1> QED
  BY <1>6, <1>8

(* server_client_connection_accept.                                        *)
LEMMA AcceptLists ==
    ASSUME TypeOK, ClientListOk, BacklogOk, DelegateConnect
    PROVE  ClientListOk' /\ BacklogOk'
<1> DEFINE c == Head(backlog)
<1>1. /\ backlog # <<>> /\ backlog' = Tail(backlog) /\ backlog \in Seq(Conns)
      /\ Distinct(backlog)
  BY DEF DelegateConnect, AcceptClient, RefuseClient, TypeOK, BacklogOk
<1>2. /\ Distinct(backlog') /\ c \in Conns
      /\ \A x \in Conns : Occurs(x, backlog') <=> Occurs(x, backlog) /\ x # c
  BY <1>1, TailDistinct
<1>3. Occurs(c, backlog)
  BY <1>1 DEF Occurs
<1>4. peer[c] # "none" /\ data[c].state = "CLOSED"
  BY <1>2, <1>3 DEF BacklogOk
<1>5. /\ clients \in Seq(Conns) /\ Distinct(clients) /\ Len(clients) <= CLIENT_CONNECTIONS_MAX
      /\ \A x \in Conns : Occurs(x, clients) <=> data[x].state # "CLOSED"
      /\ Len(clients) \in Nat
  BY ClientListIs DEF TypeOK
<1>6. CASE RefuseClient(Head(backlog))
  <2>1. peer' = [peer EXCEPT ![c] = "none"] /\ clients' = clients /\ data' = data
    BY <1>6 DEF DelegateConnect, AcceptClient, RefuseClient
  <2> HIDE DEF c
  <2>2. ClientListOk'
    BY <2>1 DEF ClientListOk
  <2>3. \A x \in Conns : peer'[x] = IF x = c THEN "none" ELSE peer[x]
    BY <2>1 DEF TypeOK
  <2>4. BacklogOk'
    <3>1. Distinct(backlog)'
      BY <1>2 DEF Distinct
    <3>2. ASSUME NEW x \in Conns, Occurs(x, backlog')
          PROVE  peer'[x] # "none" /\ data'[x].state = "CLOSED"
      BY <1>2, <2>1, <2>3, <3>2 DEF BacklogOk
    <3>3. ASSUME NEW x \in Conns, peer'[x] = "none" PROVE data'[x].state = "CLOSED"
      BY <1>4, <2>1, <2>3, <3>3 DEF BacklogOk
    <3> QED
      BY <3>1, <3>2, <3>3 DEF BacklogOk, Occurs
  <2> QED
    BY <2>2, <2>4
<1>7. CASE AcceptClient(Head(backlog))
  <2>1. /\ clients' = Append(clients, c) /\ data' = [data EXCEPT ![c] = NewClient]
        /\ peer' = peer
    BY <1>7 DEF DelegateConnect, AcceptClient, RefuseClient
  <2> HIDE DEF c
  <2>2. NewClient.state = "WRITING"
    BY DEF NewClient, SetTimeout, Respond, Closed
  <2>3. \A x \in Conns : data'[x].state = IF x = c THEN "WRITING" ELSE data[x].state
    BY <2>1, <2>2 DEF TypeOK
  <2>4. ~Occurs(c, clients)
    BY <1>2, <1>4, <1>5
  <2>5. /\ Distinct(clients') /\ Len(clients') = Len(clients) + 1
        /\ \A x \in Conns : Occurs(x, clients') <=> Occurs(x, clients) \/ x = c
    BY <1>2, <1>5, <2>1, <2>4, AppendDistinct
  <2>6. Len(clients') <= CLIENT_CONNECTIONS_MAX
    BY <1>5, <1>7, <2>5, LimitsAssumption DEF AcceptClient, Full
  <2>7. \A x \in Conns : Occurs(x, clients') <=> data'[x].state # "CLOSED"
    BY <1>5, <2>3, <2>5
  <2>8. ClientListOk'
    BY <2>5, <2>6, <2>7 DEF ClientListOk, Distinct, Occurs
  <2>9. BacklogOk'
    <3>1. Distinct(backlog)'
      BY <1>2 DEF Distinct
    <3>2. ASSUME NEW x \in Conns, Occurs(x, backlog')
          PROVE  peer'[x] # "none" /\ data'[x].state = "CLOSED"
      BY <1>2, <2>1, <2>3, <3>2 DEF BacklogOk
    <3>3. ASSUME NEW x \in Conns, peer'[x] = "none" PROVE data'[x].state = "CLOSED"
      BY <1>4, <2>1, <2>3, <3>3 DEF BacklogOk
    <3> QED
      BY <3>1, <3>2, <3>3 DEF BacklogOk, Occurs
  <2> QED
    BY <2>8, <2>9
<1> QED
  BY <1>6, <1>7 DEF DelegateConnect

(* Every step.                                                             *)
LEMMA ListStep ==
    TypeOK /\ AllSound /\ ClientListOk /\ BacklogOk /\ [Next]_vars => ClientListOk' /\ BacklogOk'
<1> SUFFICES ASSUME TypeOK, AllSound, ClientListOk, BacklogOk, [Next]_vars
             PROVE  ClientListOk' /\ BacklogOk'
  OBVIOUS
<1>1. CASE Poll
  <2>1. \A c \in Conns : data'[c].state = data[c].state
    BY <1>1 DEF Poll, TypeOK, ClientData
  <2>2. UNCHANGED <<clients, backlog, peer>>
    BY <1>1 DEF Poll, env
  <2> QED
    BY <2>1, <2>2 DEF ClientListOk, BacklogOk, Distinct, Occurs
<1>2. CASE DelegateConnect
  BY <1>2, AcceptLists
<1>3. ASSUME NEW c \in Conns, Disconnection(c) PROVE ClientListOk' /\ BacklogOk'
  BY <1>3, DisconnectLists
<1>4. ASSUME NEW c \in Conns, ClientConnect(c) PROVE ClientListOk' /\ BacklogOk'
  <2>1. /\ peer[c] = "none" /\ peer' = [peer EXCEPT ![c] = "open"]
        /\ backlog' = Append(backlog, c)
        /\ UNCHANGED <<clients, data>>
    BY <1>4 DEF ClientConnect, server
  <2>2. ClientListOk'
    BY <2>1 DEF ClientListOk
  <2>3. ~Occurs(c, backlog) /\ data[c].state = "CLOSED" /\ Distinct(backlog)
    BY <2>1 DEF BacklogOk
  <2>4. /\ Distinct(backlog')
        /\ \A x \in Conns : Occurs(x, backlog') <=> Occurs(x, backlog) \/ x = c
    BY <2>1, <2>3, AppendDistinct DEF TypeOK
  <2>5. \A x \in Conns : peer'[x] = IF x = c THEN "open" ELSE peer[x]
    BY <2>1 DEF TypeOK
  <2>6. BacklogOk'
    <3>1. Distinct(backlog)'
      BY <2>4 DEF Distinct
    <3>2. ASSUME NEW x \in Conns, Occurs(x, backlog')
          PROVE  peer'[x] # "none" /\ data'[x].state = "CLOSED"
      BY <2>1, <2>3, <2>4, <2>5, <3>2 DEF BacklogOk
    <3>3. ASSUME NEW x \in Conns, peer'[x] = "none" PROVE data'[x].state = "CLOSED"
      BY <2>1, <2>5, <3>3 DEF BacklogOk
    <3> QED
      BY <3>1, <3>2, <3>3 DEF BacklogOk, Occurs
  <2> QED
    BY <2>2, <2>6
<1>5. ASSUME NEW c \in Conns, ClientClose(c) PROVE ClientListOk' /\ BacklogOk'
  <2>1. /\ peer[c] = "open" /\ peer' = [peer EXCEPT ![c] = "closed"]
        /\ UNCHANGED <<clients, data, backlog>>
    BY <1>5 DEF ClientClose, server
  <2>2. \A x \in Conns : peer'[x] = IF x = c THEN "closed" ELSE peer[x]
    BY <2>1 DEF TypeOK
  <2> QED
    BY <2>1, <2>2 DEF ClientListOk, BacklogOk, Distinct, Occurs
<1>6. CASE Evolution
  <2>1. /\ UNCHANGED <<clients, backlog, peer>>
        /\ \A c \in Conns : data[c].state = "CLOSED" <=> data'[c].state = "CLOSED"
    BY <1>6 DEF Evolution, Evolves
  <2> QED
    BY <2>1 DEF ClientListOk, BacklogOk, Distinct, Occurs
<1> QED
  BY <1>1, <1>2, <1>3, <1>4, <1>5, <1>6, StepKinds

(* Both lists are empty at the start.                                      *)
LEMMA InitLists == Init => ClientListOk /\ BacklogOk
<1> SUFFICES ASSUME Init PROVE ClientListOk /\ BacklogOk
  OBVIOUS
<1>1. \A c \in Conns : data[c].state = "CLOSED"
  BY DEF Init, Closed
<1>2. clients = <<>> /\ backlog = <<>> /\ DOMAIN <<>> = {} /\ Len(<<>>) = 0
  BY DEF Init
<1> QED
  BY <1>1, <1>2, LimitsAssumption DEF ClientListOk, BacklogOk, Distinct, Occurs

(* The inductive invariant on the lists.                                   *)
LEMMA ListInvariant == Spec => [](TypeOK /\ AllSound /\ ClientListOk /\ BacklogOk)
  BY SoundInvariant, InitLists, ListStep, PTL DEF Spec

(* The client list holds every open connection once, at most               *)
(* CLIENT_CONNECTIONS_MAX of them.                                         *)
THEOREM ListCorrect == Spec => []ClientListOk
  BY ListInvariant, PTL

(* A response being sent is never cut short or replaced.                   *)
THEOREM ResponseIsKept == Spec => ResponseKept
<1> DEFINE Kept == \A c \in Conns :
                      data[c].outLeft > 0 /\ data'[c].outLeft > 0
                        => /\ data'[c].outLeft <= data[c].outLeft
                           /\ data'[c].outEvents = data[c].outEvents
<1>1. TypeOK /\ AllSound /\ ClientListOk /\ BacklogOk /\ [Next]_vars => [Kept]_vars
  <2> SUFFICES ASSUME TypeOK, AllSound, BacklogOk, [Next]_vars, NEW c \in Conns
               PROVE  SameResponse(data[c], data'[c])
    BY DEF SameResponse
  <2>0. data[c] \in ClientData /\ data[c].outLeft \in Nat
    BY LimitsAssumption DEF TypeOK, ClientData
  <2>1. CASE Poll
    <3>1. data'[c] = [data[c] EXCEPT !.dirty = FALSE]
      BY <2>1 DEF Poll
    <3>2. data'[c].outLeft = data[c].outLeft /\ data'[c].outEvents = data[c].outEvents
      BY <2>0, <3>1 DEF ClientData
    <3> QED
      BY <2>0, <3>2 DEF SameResponse
  <2>2. CASE DelegateConnect
    <3>1. Occurs(Head(backlog), backlog) /\ Head(backlog) \in Conns
      BY <2>2 DEF DelegateConnect, AcceptClient, RefuseClient, TypeOK, Occurs
    <3>2. data[Head(backlog)].state = "CLOSED"
      BY <3>1 DEF BacklogOk
    <3>3. data[Head(backlog)].outLeft = 0
      BY <3>1, <3>2 DEF AllSound, Sound, Closed
    <3>4. CASE c # Head(backlog)
      <4>1. data'[c] = data[c]
        BY <2>2, <3>4 DEF DelegateConnect, AcceptClient, RefuseClient, TypeOK
      <4> QED
        BY <2>0, <4>1 DEF SameResponse
    <3> QED
      BY <3>3, <3>4 DEF SameResponse
  <2>3. ASSUME NEW x \in Conns, Disconnection(x) PROVE SameResponse(data[c], data'[c])
    <3>1. data' = [data EXCEPT ![x] = Closed] /\ Closed.outLeft = 0
      BY <2>3 DEF Disconnection, Disconnect, Closed
    <3>2. data'[c] = data[c] \/ data'[c].outLeft = 0
      BY <3>1 DEF TypeOK
    <3> QED
      BY <2>0, <3>2 DEF SameResponse
  <2>4. ASSUME NEW x \in Conns, ClientConnect(x) \/ ClientClose(x)
        PROVE SameResponse(data[c], data'[c])
    BY <2>0, <2>4 DEF ClientConnect, ClientClose, server, SameResponse
  <2>5. CASE Evolution
    BY <2>5 DEF Evolution, Evolves
  <2> QED
    BY <2>1, <2>2, <2>3, <2>4, <2>5, StepKinds
<1> QED
  BY <1>1, ListInvariant, PTL DEF Spec, ResponseKept

-----------------------------------------------------------------------------
(* The poll set and what poll reports.                                     *)

(* A rebuilt poll set is current, and no step changes what it is made of   *)
(* without setting update_pollfds.                                         *)
LEMMA PollSetStep == TypeOK /\ AllSound /\ PollSetCurrent /\ [Next]_vars => PollSetCurrent'
<1> SUFFICES ASSUME TypeOK, AllSound, PollSetCurrent, [Next]_vars, ~UpdatePollfds'
             PROVE  (polled = Fresh)'
  BY DEF PollSetCurrent
<1>0. update' # TRUE /\ \A c \in Conns : ~data'[c].dirty
  BY DEF UpdatePollfds
<1>1. CASE Poll
  <2>1. polled' = Fresh
    BY <1>1 DEF Poll, PollSetCurrent
  <2>2. \A c \in Conns : data'[c].events = data[c].events /\ data'[c].timer = data[c].timer
    BY <1>1 DEF Poll, TypeOK, ClientData
  <2>3. clients' = clients
    BY <1>1 DEF Poll
  <2> QED
    BY <2>1, <2>2, <2>3 DEF Fresh
<1>2. CASE DelegateConnect
  <2>1. CASE RefuseClient(Head(backlog))
    <3>1. UNCHANGED <<clients, data, update, polled>>
      BY <1>2, <2>1 DEF DelegateConnect, AcceptClient, RefuseClient
    <3> QED
      BY <1>0, <3>1 DEF PollSetCurrent, UpdatePollfds, Fresh
  <2>2. CASE AcceptClient(Head(backlog))
    BY <1>0, <1>2, <2>2 DEF DelegateConnect, AcceptClient, RefuseClient
  <2> QED
    BY <1>2, <2>1, <2>2 DEF DelegateConnect
<1>3. ASSUME NEW c \in Conns, Disconnection(c) PROVE FALSE
  BY <1>0, <1>3 DEF Disconnection, Disconnect
<1>4. ASSUME NEW c \in Conns, ClientConnect(c) \/ ClientClose(c) PROVE (polled = Fresh)'
  <2>1. UNCHANGED <<clients, data, update, polled>>
    BY <1>4 DEF ClientConnect, ClientClose, server
  <2> QED
    BY <1>0, <2>1 DEF PollSetCurrent, UpdatePollfds, Fresh
<1>5. CASE Evolution
  <2>1. UNCHANGED <<clients, update, polled>>
    BY <1>5 DEF Evolution
  <2>2. ASSUME NEW c \in Conns
        PROVE  /\ ~data[c].dirty /\ data'[c].events = data[c].events
               /\ data'[c].timer = "off" <=> data[c].timer = "off"
    BY <1>0, <1>5 DEF Evolution, Evolves, Announced
  <2>3. update = FALSE
    BY <1>0, <2>1 DEF TypeOK
  <2>4. polled = Fresh
    BY <2>2, <2>3 DEF PollSetCurrent, UpdatePollfds
  <2>5. Fresh' = Fresh
    BY <2>1, <2>2 DEF Fresh
  <2> QED
    BY <2>1, <2>4, <2>5
<1> QED
  BY <1>1, <1>2, <1>3, <1>4, <1>5, StepKinds

PollInv == TypeOK /\ AllSound /\ ClientListOk /\ BacklogOk /\ PollSetCurrent

(* The inductive invariant on the poll set.                                *)
LEMMA PollInvariant == Spec => []PollInv
<1>1. Init => PollSetCurrent
  BY DEF Init, PollSetCurrent, UpdatePollfds
<1> QED
  BY <1>1, ListInvariant, PollSetStep, PTL DEF Spec, PollInv

(* Unless update_pollfds is set, the poll set is what a rebuild would      *)
(* produce.                                                                *)
THEOREM PollSetCorrect == Spec => []PollSetCurrent
  BY PollInvariant, PTL DEF PollInv

(* What poll reports of a client is about an open connection, and a        *)
(* timeout only when there is nothing to read.                             *)
LEMMA PollReports ==
    ASSUME PollInv, Poll, NEW c \in Conns
    PROVE  /\ chosen' \in {Hangup(c), Io(c), Timeout(c)} => data[c].state # "CLOSED"
           /\ chosen' = Io(c) /\ data[c].state # "WRITING" => net[c] # <<>>
           /\ chosen' = Timeout(c) => data[c].state = "WRITING" \/ net[c] = <<>>
<1> SUFFICES ASSUME chosen' \in {Hangup(c), Io(c), Timeout(c)}
             PROVE  /\ data[c].state # "CLOSED"
                    /\ chosen' = Io(c) /\ data[c].state # "WRITING" => net[c] # <<>>
                    /\ chosen' = Timeout(c) => data[c].state = "WRITING" \/ net[c] = <<>>
  OBVIOUS
<1>1. PICK i \in DOMAIN Fresh.order : chosen' \in ClientReports(Fresh, Fresh.order[i])
  <2>1. chosen' \notin {Gpio, Connect}
    BY DEF Gpio, Connect, Hangup, Io, Timeout
  <2> QED
    BY <2>1 DEF Poll, PollInv, PollSetCurrent
<1>2. Fresh.order = clients /\ clients[i] \in Conns /\ i \in DOMAIN clients
  BY <1>1 DEF Fresh, PollInv, TypeOK
<1>3. clients[i] = c
  BY <1>1, <1>2 DEF ClientReports, Hangup, Io, Timeout
<1>4. data[c].state # "CLOSED"
  BY <1>2, <1>3 DEF PollInv, ClientListOk
<1>5. /\ Fresh.fds[c].events = data[c].events
      /\ data[c].state = "WRITING" <=> data[c].events = "POLLOUT"
      /\ data[c].events \in {"POLLIN", "POLLOUT"}
  <2>1. Good(data[c])
    BY DEF PollInv, AllSound, Sound
  <2> QED
    BY <2>1 DEF Fresh, Good, Disciplined, ClientData
<1>6. chosen' \in ClientReports(Fresh, c)
  BY <1>1, <1>2, <1>3
<1>7. ASSUME chosen' = Io(c) PROVE MayIo(Fresh, c)
  BY <1>6, <1>7 DEF ClientReports, Hangup, Io, Timeout
<1>8. ASSUME chosen' = Timeout(c) PROVE ~MustRead(Fresh, c)
  BY <1>6, <1>8 DEF ClientReports, Hangup, Io, Timeout
<1> QED
  BY <1>4, <1>5, <1>7, <1>8 DEF MayIo, MustRead

(* What poll reported stays true until it is delegated.                    *)
LEMMA ReportStep == PollInv /\ ReportStillValid /\ [Next]_vars => ReportStillValid'
<1> SUFFICES ASSUME PollInv, ReportStillValid, [Next]_vars, NEW c \in Conns
             PROVE  /\ chosen' \in {Hangup(c), Io(c), Timeout(c)} => data'[c].state # "CLOSED"
                    /\ chosen' = Io(c) /\ data'[c].state # "WRITING" => net'[c] # <<>>
  BY DEF ReportStillValid
<1>0. NoFd \notin {Hangup(c), Io(c), Timeout(c)}
  BY DEF NoFd, Hangup, Io, Timeout
<1>1. CASE Poll
  <2>1. data'[c].state = data[c].state /\ net' = net
    BY <1>1 DEF Poll, PollInv, TypeOK, ClientData, env
  <2> QED
    BY <1>1, <2>1, PollReports
<1>2. CASE DelegateConnect
  BY <1>0, <1>2 DEF DelegateConnect, AcceptClient, RefuseClient
<1>3. ASSUME NEW x \in Conns, Disconnection(x) PROVE chosen' = NoFd
  BY <1>3 DEF Disconnection
<1>4. ASSUME NEW x \in Conns, ClientConnect(x) \/ ClientClose(x)
      PROVE  UNCHANGED <<chosen, data, net>>
  BY <1>4 DEF ClientConnect, ClientClose, server
<1>5. CASE Evolution
  <2>1. CASE chosen' = NoFd
    BY <1>0, <2>1
  <2>2. CASE /\ chosen' = chosen
             /\ data[c].state = "WRITING" => data'[c].state = "WRITING"
             /\ net[c] # <<>> => net'[c] # <<>>
    BY <1>5, <2>2 DEF ReportStillValid, Evolution, Evolves
  <2> QED
    BY <1>5, <2>1, <2>2 DEF Evolution
<1> QED
  <2>1. PollInv => TypeOK /\ AllSound
    BY DEF PollInv
  <2>2. CASE UNCHANGED <<chosen, data, net>>
    BY <2>2 DEF ReportStillValid
  <2> QED
    BY <1>0, <1>1, <1>2, <1>3, <1>4, <1>5, <2>1, <2>2, StepKinds

(* What poll reported still exists when it is delegated, and a reported    *)
(* reader finds something to read.                                         *)
THEOREM ReportCorrect == Spec => []ReportStillValid
<1>1. Init => ReportStillValid
  BY DEF Init, ReportStillValid, NoFd, Hangup, Io, Timeout
<1> QED
  BY <1>1, PollInvariant, ReportStep, PTL DEF Spec

(* A timeout never wins against a request that was there when poll looked. *)
THEOREM TimeoutCorrect == Spec => TimeoutYieldsToData
<1> DEFINE Yields == \A c \in Conns :
                        chosen # Timeout(c) /\ chosen' = Timeout(c)
                          => data[c].state = "WRITING" \/ net[c] = <<>>
<1>1. PollInv /\ [Next]_vars => [Yields]_vars
  <2> SUFFICES ASSUME PollInv, [Next]_vars, NEW c \in Conns,
                      chosen # Timeout(c), chosen' = Timeout(c)
               PROVE  data[c].state = "WRITING" \/ net[c] = <<>>
    OBVIOUS
  <2>1. chosen' # NoFd
    BY DEF NoFd, Timeout
  <2>2. CASE Poll
    BY <2>2, PollReports
  <2>3. ~DelegateConnect
    BY <2>1 DEF DelegateConnect, AcceptClient, RefuseClient
  <2>4. ASSUME NEW x \in Conns, Disconnection(x) \/ ClientConnect(x) \/ ClientClose(x)
        PROVE  FALSE
    BY <2>1, <2>4 DEF Disconnection, ClientConnect, ClientClose, server
  <2>5. ~Evolution
    BY <2>1 DEF Evolution
  <2>6. TypeOK /\ AllSound
    BY DEF PollInv
  <2> QED
    BY <2>2, <2>3, <2>4, <2>5, <2>6, StepKinds
<1> QED
  BY <1>1, PollInvariant, PTL DEF Spec, TimeoutYieldsToData
=============================================================================
