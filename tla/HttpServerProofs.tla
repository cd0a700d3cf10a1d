-------------------------- MODULE HttpServerProofs --------------------------
(***************************************************************************)
(* Theorems about HttpServer, for any number of connections, requests and  *)
(* events.                                                                 *)
(*                                                                         *)
(* SuspendedListOk is not inductive by itself: that LongPoll enters a      *)
(* connection only once, and that an event resumes only what is suspended, *)
(* depends on the daemon not having panicked, and FirstEvent on how many   *)
(* events there were when a connection was suspended.  PollInv adds both.  *)
(***************************************************************************)
EXTENDS HttpServer, TLAPS

(* The strengthening: a suspended connection is a long poll that no event  *)
(* has happened for.                                                       *)
WaitsForEvent ==
    \A c \in Conns : conn[c] = "suspended" => req[c] = "poll" /\ since[c] = eventCount

PollInv ==
    TypeOK /\ NoPanic /\ SuspendedListOk /\ RequestDataOk /\ WaitsForEvent /\ FirstEvent

-----------------------------------------------------------------------------
(* Nothing is suspended at the start.                                      *)
LEMMA PollInit == Init => PollInv
  BY BoundsAssumption
  DEF Init, PollInv, TypeOK, NoPanic, SuspendedListOk, RequestDataOk, WaitsForEvent,
      FirstEvent, InList, ConnStates, Requests, DaemonStates

(* What becomes of the connections when a handler answers c: c was not     *)
(* suspended and is not now.                                               *)
LEMMA SentType ==
  ASSUME TypeOK, NEW c \in Conns
  PROVE  /\ Sent(c) \in [Conns -> ConnStates]
         /\ \A d \in Conns : Sent(c)[d] = IF d = c THEN "sending" ELSE conn[d]
  BY DEF Sent, TypeOK, ConnStates

(* An event that is raised while the connections become cs, which differs  *)
(* from conn in none that is suspended, resumes every suspended connection *)
(* with the first event since it was suspended, and empties the list.      *)
LEMMA RaiseKeeps ==
  ASSUME PollInv,
         NEW cs \in [Conns -> ConnStates],
         \A d \in Conns : conn[d] = "suspended" => cs[d] = conn[d],
         \A d \in Conns : cs[d] # conn[d] => cs[d] = "sending" /\ req[d] # "poll" /\ alive[d],
         RaiseEvent(cs), NoPanic',
         UNCHANGED <<alive, since, client>>,
         work' \in SUBSET Conns, pc' \in DaemonStates, report' \in {"none", "gpio", "signal"}
  PROVE  PollInv'
  <1> USE DEF PollInv, RaiseEvent, Resume, client
  <1>1. \A d \in Conns : InList(d) <=> conn[d] = "suspended"
    BY DEF NoPanic, SuspendedListOk
  <1>2. \A d \in Conns : conn'[d] = IF conn[d] = "suspended" THEN "resuming" ELSE cs[d]
    BY <1>1 DEF TypeOK
  <1>3. \A d \in Conns : buffer'[d] = IF conn[d] = "suspended" THEN eventCount + 1 ELSE buffer[d]
    BY <1>1 DEF TypeOK
  <1>4. TypeOK'
    <2>1. conn' \in [Conns -> ConnStates]
      BY <1>2 DEF ConnStates
    <2>2. eventCount + 1 \in 0..EventsMax
      BY BoundsAssumption DEF TypeOK
    <2>3. buffer' \in [Conns -> 0..EventsMax]
      BY <2>2 DEF TypeOK
    <2> QED BY <2>1, <2>2, <2>3 DEF TypeOK
  <1>5. SuspendedListOk'
    BY <1>2 DEF SuspendedListOk, InList
  <1>6. RequestDataOk'
    BY <1>2 DEF RequestDataOk
  <1>7. WaitsForEvent'
    BY <1>2 DEF WaitsForEvent
  <1>8. FirstEvent'
    BY <1>2, <1>3 DEF FirstEvent, WaitsForEvent, TypeOK
  <1> QED BY <1>4, <1>5, <1>6, <1>7, <1>8

-----------------------------------------------------------------------------
(* Every step of the daemon and of the clients keeps PollInv.              *)
LEMMA PollNext == PollInv /\ [Next]_vars => PollInv'
  <1> SUFFICES ASSUME PollInv, [Next]_vars PROVE PollInv'
    OBVIOUS
  <1> USE DEF PollInv
  <1>a. TypeOK
    OBVIOUS
  <1>1. CASE Poll
    BY <1>1
    DEF Poll, http, client, TypeOK, NoPanic, SuspendedListOk, RequestDataOk, WaitsForEvent,
        FirstEvent, InList, Active, Resuming, DaemonStates
  <1>2. ASSUME NEW c \in Conns, FirstCall(c) PROVE PollInv'
    <2> USE <1>2 DEF FirstCall, NewRequestData, Serving, client
    <2>1. TypeOK'
      BY BoundsAssumption DEF TypeOK, ConnStates
    <2>2. \A d \in Conns : conn'[d] = IF d = c THEN "request" ELSE conn[d]
      BY DEF TypeOK
    <2>3. NoPanic' /\ SuspendedListOk'
      BY <2>2 DEF NoPanic, SuspendedListOk, InList
    <2>4. RequestDataOk' /\ WaitsForEvent' /\ FirstEvent'
      BY <2>2 DEF TypeOK, RequestDataOk, WaitsForEvent, FirstEvent
    <2> QED BY <2>1, <2>3, <2>4
  <1>3. ASSUME NEW c \in Conns, NoEvent(Sent(c)), Respond(c), Serving(c, "request"),
               req[c] # "poll"
        PROVE  PollInv'
    <2> USE <1>3 DEF NoEvent, Respond, Serving, client
    <2>1. /\ conn' \in [Conns -> ConnStates]
          /\ \A d \in Conns : conn'[d] = IF d = c THEN "sending" ELSE conn[d]
      BY <1>a, SentType
    <2>2. TypeOK'
      BY <2>1 DEF TypeOK
    <2>3. NoPanic' /\ SuspendedListOk'
      BY <2>1 DEF NoPanic, SuspendedListOk, InList
    <2>4. RequestDataOk' /\ WaitsForEvent' /\ FirstEvent'
      BY <2>1 DEF RequestDataOk, WaitsForEvent, FirstEvent
    <2> QED BY <2>2, <2>3, <2>4
  <1>4. ASSUME NEW c \in Conns, NotAllowed(c) \/ ReadApi(c) \/ CallHook(c) \/ Webui(c) PROVE PollInv'
    BY <1>3, <1>4 DEF NotAllowed, ReadApi, CallHook, Webui
  <1>5. ASSUME NEW c \in Conns, PatchApi(c) PROVE PollInv'
    <2>1. CASE NoEvent(Sent(c))
      BY <1>3, <1>5, <2>1 DEF PatchApi
    <2>2. CASE RaiseEvent(Sent(c))
      <3>1. alive[c] /\ conn[c] = "request" /\ req[c] # "poll"
        BY <1>5 DEF PatchApi, Serving, RequestDataOk
      <3> QED BY <1>5, <2>2, <1>a, <3>1, SentType, RaiseKeeps
              DEF PatchApi, Serving, Respond, TypeOK, NoPanic
    <2> QED BY <1>5, <2>1, <2>2 DEF PatchApi
  <1>6. ASSUME NEW c \in Conns, HookAction(c) PROVE PollInv'
    BY <1>6, <1>a, RaiseKeeps DEF HookAction, Serving, loop, TypeOK, NoPanic
  <1>7. ASSUME NEW c \in Conns, LongPoll(c) PROVE PollInv'
    <2> USE <1>7 DEF LongPoll, Serving, Push, client
    <2>1. TypeOK'
      BY DEF TypeOK, ConnStates
    <2>2. NoPanic' /\ RequestDataOk' /\ WaitsForEvent' /\ FirstEvent'
      BY DEF TypeOK, NoPanic, RequestDataOk, WaitsForEvent, FirstEvent
    <2>3. ~InList(c)
      BY DEF NoPanic, SuspendedListOk
    <2>4. SuspendedListOk'
      <3>1. suspended \in Seq(Conns) /\ suspended' = Append(suspended, c)
        BY DEF TypeOK
      <3>2. DOMAIN suspended' = 1..(Len(suspended) + 1)
        BY <3>1
      <3>3. \A i \in DOMAIN suspended' :
              suspended'[i] = IF i = Len(suspended) + 1 THEN c ELSE suspended[i]
        BY <3>1, <3>2
      <3>4. DOMAIN suspended = 1..Len(suspended) /\ Len(suspended) \in Nat
        BY <3>1
      <3>5. \A i \in DOMAIN suspended : suspended[i] # c
        BY <2>3 DEF InList
      <3>6. \A i, j \in DOMAIN suspended' : suspended'[i] = suspended'[j] => i = j
        BY <3>2, <3>3, <3>4, <3>5 DEF SuspendedListOk
      <3>7. \A d \in Conns : InList(d)' <=> (InList(d) \/ d = c)
        BY <3>2, <3>3, <3>4 DEF InList
      <3>8. \A d \in Conns : conn'[d] = "suspended" <=> (conn[d] = "suspended" \/ d = c)
        BY DEF TypeOK
      <3> QED BY <3>6, <3>7, <3>8 DEF SuspendedListOk, NoPanic
    <2> QED BY <2>1, <2>2, <2>4
  <1>8. ASSUME NEW c \in Conns, Resumed(c) PROVE PollInv'
    <2> USE <1>8 DEF Resumed, NoEvent, Respond, Serving, client
    <2>1. /\ conn' \in [Conns -> ConnStates]
          /\ \A d \in Conns : conn'[d] = IF d = c THEN "sending" ELSE conn[d]
      BY <1>a, SentType
    <2>2. TypeOK'
      BY <2>1 DEF TypeOK
    <2>3. NoPanic' /\ SuspendedListOk'
      BY <2>1 DEF NoPanic, SuspendedListOk, InList
    <2>4. RequestDataOk' /\ WaitsForEvent' /\ FirstEvent'
      BY <2>1 DEF RequestDataOk, WaitsForEvent, FirstEvent
    <2> QED BY <2>2, <2>3, <2>4
  <1>9. ASSUME NEW c \in Conns, Complete(c) PROVE PollInv'
    BY <1>9, BoundsAssumption
    DEF Complete, Done, Serving, client, TypeOK, NoPanic, SuspendedListOk, RequestDataOk,
        WaitsForEvent, FirstEvent, InList, ConnStates
  <1>10. CASE EndRun
    BY <1>10
    DEF EndRun, http, client, TypeOK, NoPanic, SuspendedListOk, RequestDataOk, WaitsForEvent,
        FirstEvent, InList, DaemonStates
  <1>11. CASE DelegateEvent
    BY <1>11, <1>a, RaiseKeeps DEF DelegateEvent, loop, TypeOK, NoPanic
  <1>12. CASE DelegateEnd
    BY <1>12
    DEF DelegateEnd, http, client, TypeOK, NoPanic, SuspendedListOk, RequestDataOk,
        WaitsForEvent, FirstEvent, InList, DaemonStates
  <1>13. CASE Stop
    <2>1. \A c \in Conns : ResumeAtStop(c) # "suspended"
      BY DEF ResumeAtStop, NoPanic, SuspendedListOk
    <2>2. /\ pc' = "stopped" /\ report' = "none" /\ suspended' = <<>>
          /\ conn' = [c \in Conns |-> "idle"]
          /\ alive' = [c \in Conns |-> FALSE]
          /\ buffer' = [c \in Conns |-> 0]
          /\ UNCHANGED <<eventCount, since, work, req, gone, requests>>
      BY <1>13, <2>1 DEF Stop, client
    <2>3. TypeOK'
      BY <2>2, BoundsAssumption DEF TypeOK, ConnStates, DaemonStates
    <2>4. SuspendedListOk' /\ RequestDataOk' /\ WaitsForEvent' /\ FirstEvent' /\ NoPanic'
      BY <2>2
      DEF SuspendedListOk, RequestDataOk, WaitsForEvent, FirstEvent, NoPanic, InList
    <2> QED BY <2>3, <2>4
  <1>14. ASSUME NEW c \in Conns, NEW kind \in Requests, SendRequest(c, kind) PROVE PollInv'
    BY <1>14, BoundsAssumption
    DEF SendRequest, loop, TypeOK, NoPanic, SuspendedListOk, RequestDataOk, WaitsForEvent,
        FirstEvent, InList, ConnStates
  <1>15. ASSUME NEW c \in Conns, Close(c) PROVE PollInv'
    BY <1>15
    DEF Close, http, loop, TypeOK, NoPanic, SuspendedListOk, RequestDataOk, WaitsForEvent,
        FirstEvent, InList
  <1>16. CASE UNCHANGED vars
    BY <1>16
    DEF vars, http, loop, client, TypeOK, NoPanic, SuspendedListOk, RequestDataOk,
        WaitsForEvent, FirstEvent, InList
  <1> QED
    BY <1>1, <1>2, <1>4, <1>5, <1>6, <1>7, <1>8, <1>9, <1>10, <1>11, <1>12, <1>13, <1>14,
       <1>15, <1>16
    DEF Next, Busy, Handler

-----------------------------------------------------------------------------
(* PollInv holds in every reachable state.                                 *)
LEMMA PollAlways == Spec => []PollInv
  BY PollInit, PollNext, PTL DEF Spec

(* Every variable of the HTTP server keeps its type.                       *)
THEOREM TypeCorrect == Spec => []TypeOK
  <1>1. PollInv => TypeOK
    BY DEF PollInv
  <1> QED BY <1>1, PollAlways, PTL

(* http_suspended holds exactly the connections that MHD has suspended,    *)
(* each once, whoever raises the events.                                   *)
THEOREM SuspendedListCorrect == Spec => []SuspendedListOk
  <1>1. PollInv => SuspendedListOk
    BY DEF PollInv
  <1> QED BY <1>1, PollAlways, PTL

(* A t_request_data exists exactly from the first call of request_handler  *)
(* to http_connection_done, so no pointer in http_suspended dangles.       *)
THEOREM RequestDataCorrect == Spec => []RequestDataOk
  <1>1. PollInv => RequestDataOk
    BY DEF PollInv
  <1> QED BY <1>1, PollAlways, PTL

(* A long poll reports the first event after it was suspended.             *)
THEOREM FirstEventCorrect == Spec => []FirstEvent
  <1>1. PollInv => FirstEvent
    BY DEF PollInv
  <1> QED BY <1>1, PollAlways, PTL

(* config_clear leaves MHD_stop_daemon no suspended connection.            *)
THEOREM NoPanicCorrect == Spec => []NoPanic
  <1>1. PollInv => NoPanic
    BY DEF PollInv
  <1> QED BY <1>1, PollAlways, PTL
=============================================================================
